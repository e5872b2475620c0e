SPECIFICATION FairSpec
CONSTANTS
    yuv = yuv
    raw = raw
    timer = timer
    request = request
    Formats = {yuv, raw}
    Users <- MCUsers
    Monitors = {timer, request}
    InitDepth = 2
    MaxDepth = 2
    Threshold = 1
    MaxHeld = 2
INVARIANTS TypeOK BuffersConserved AnImageRemains
PROPERTY AcquireReturns
