---------------------------- MODULE MCLockScreen ----------------------------
(***************************************************************************)
(* Small instances of LockScreen.  Each budget bounds one kind of outside  *)
(* event; the runs differ in which ones they spend.                        *)
(***************************************************************************)
EXTENDS LockScreen, TLC

CONSTANTS LockBudget, UnlockBudget, SleepBudget, RestartBudget, SubmitBudget

BudgetDef == ("lock" :> LockBudget) @@ ("unlock" :> UnlockBudget)
             @@ ("sleep" :> SleepBudget) @@ ("restart" :> RestartBudget)
             @@ ("submit" :> SubmitBudget)

Symmetry == Permutations(Threads)
=============================================================================
