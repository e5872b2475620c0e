SPECIFICATION FairSpec
CONSTANTS
    r1 = r1
    r2 = r2
    f1 = f1
    f2 = f2
    s1 = s1
    s2 = s2
    None = None
    Requests = {r1}
    Frames = {f1, f2}
    Streams = {s1, s2}
CHECK_DEADLOCK FALSE

PROPERTIES InputRequestsEnd
