SPECIFICATION MCPromptSpec
CONSTANTS
    h1 = h1
    h2 = h2
    Handles = {h1, h2}
    MaxOwners = 2
    MaxCalls = 3
    StashCap = 1
PROPERTY ApprovedIsAnswered
CHECK_DEADLOCK FALSE
INVARIANT AnsweredWithItsOwn
PROPERTY NothingOutlivesItsRequest
