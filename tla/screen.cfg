SPECIFICATION ScreenSpec
CONSTANTS
  Threads = {t1, t2}
  Windows = {}
  Grabs = {}
  FingerprintAttempts = 1
  FingerprintInstalled = TRUE
  FingerprintTalks = TRUE
  SpawnMayFail = TRUE
  MaxLocks = 1
  None = None
  Dead = Dead
  ShellBudget <- BudgetDef
  LockBudget = 1
  UnlockBudget = 1
  SleepBudget = 0
  RestartBudget = 1
  SubmitBudget = 1
CHECK_DEADLOCK FALSE
INVARIANT ShellMirrors
INVARIANT AnswerSettled
SYMMETRY Symmetry
