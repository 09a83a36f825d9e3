SPECIFICATION ProxySpec
CONSTANTS
    MaxLines = 2
    MaxReplies = 1
PROPERTIES
    EndsWithServer
