SPECIFICATION FairSpec
CONSTANTS
    Requests <- MCRequests
    Name <- MCName
    Total <- MCTotal
    Frames <- MCFrames
    NodeTasks = 1
    None = None
CHECK_DEADLOCK FALSE
INVARIANTS TypeOK FlushedIsQuiet FramesRouted
PROPERTY FlushReturns
