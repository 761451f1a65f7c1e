SPECIFICATION CastSpec
CONSTANTS
  Sessions = {s1, s2}
  Handles = {h1, h2}
  Monitors = {m1}
  Windows = {w1}
  Frontends = {f1, f2}
  Demands <- DemandsDef
  RestoreLimit = 1
  MaxTokens = 2
  MaxUnderWay = 1
  None = None
SYMMETRY Symmetry
INVARIANT AnsweredOnce
INVARIANT NothingLeftBehind
PROPERTY FollowsLifecycle
PROPERTY OnlyApprovedShared
