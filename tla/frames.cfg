SPECIFICATION Spec
CONSTANTS
    o1 = o1
    o2 = o2
    NoOutput = NoOutput
    Outputs <- MCOutputs
    Watched = o1
INVARIANT NoFlipAwaitedInVain
CHECK_DEADLOCK FALSE
PROPERTY FramesGoOn
