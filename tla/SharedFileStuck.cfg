SPECIFICATION Spec
CONSTANTS
    Proxies = {p1, p2}
    p1 = p1
    p2 = p2
    MaxFrames <- MCMaxFrames
    MaxFaults <- MCNoFault
PROPERTIES
    StoresWhenAlone
