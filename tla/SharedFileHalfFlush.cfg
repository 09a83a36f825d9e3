SPECIFICATION Spec
CONSTANTS
    Proxies = {p1, p2}
    p1 = p1
    p2 = p2
    MaxFrames <- MCOneFrame
    MaxFaults <- MCOneFault
PROPERTIES
    FailedFlushLeavesTheFile
