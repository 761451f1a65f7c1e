SPECIFICATION FairSleepSpec
CONSTANTS
  Threads = {t1, t2}
  Windows = {w1}
  Grabs = {"capture"}
  FingerprintAttempts = 1
  FingerprintInstalled = FALSE
  FingerprintTalks = FALSE
  SpawnMayFail = FALSE
  MaxLocks = 2
  None = None
  Dead = Dead
  Budget <- BudgetDef
  LockBudget = 1
  UnlockBudget = 1
  SleepBudget = 1
  LogindImpatient = FALSE
  LogindMayRefuse = FALSE
CHECK_DEADLOCK FALSE
INVARIANT PromptReachesWorker
INVARIANT OneTransactionPerStack
INVARIANT NoClientInputWhileLocked
INVARIANT InhibitorRearmed
PROPERTY UnlockAuthorized
PROPERTY SleepSettles
