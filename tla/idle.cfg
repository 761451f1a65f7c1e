SPECIFICATION FairServiceSpec
CONSTANTS
  Surfaces = {s1}
  Configurations <- Wished
  Captures = TRUE
  CanBlank = TRUE
  PowerWorker = TRUE
  MaxRequests = 1
  Off = Off
  Clients = {c1}
  MaxCookies = 2
  MaxCalls = 1
  MaxEvents = 1
  Idle = Idle
INVARIANT LoopFollowsCookies
INVARIANT HeldStaysAwake
INVARIANT CountdownSound
PROPERTY PowerOnlyWhenIdle
PROPERTY FadeEnds
