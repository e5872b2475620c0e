SPECIFICATION FairSpec
CONSTANTS
    a = a
    b = b
    c = c
    d = d
    f1 = f1
    f2 = f2
    f3 = f3
    f4 = f4
    f5 = f5
    m1 = m1
    Tasks = {f1, f2}
    Sessions = {a, b, d}
    MaxCallers = 2
    Modes = {m1}
    SessionOf <- MCSessionOf
    FrameNum <- MCFrameNum
    Consumption <- MCConsumption
    Category <- MCCategory
    Capacity = 2
    MockCameraNum = 1
    NoCategory = NoCategory
INVARIANTS
    CountsOutstanding
    MutedForAReason
PROPERTY MutedEnds
CHECK_DEADLOCK FALSE
