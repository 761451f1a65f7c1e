SPECIFICATION FairNotificationSpec
CONSTANTS
  s1 = s1
  s2 = s2
  w1 = w1
  w2 = w2
  Senders <- SenderSet
  WindowOf <- OwnedWindow
  Shapes <- ShapeSet
  Placements <- PlacementSet
  Budgets <- BudgetSet
  MaxCalls = 2
CHECK_DEADLOCK FALSE
INVARIANT BooksAgree
INVARIANT TokenToItsOwner
PROPERTY NotifyAnswered
INVARIANT NothingStale
