---------------------------- MODULE MCLockSleep -----------------------------
(***************************************************************************)
(* Small instances of LockSleep.                                           *)
(***************************************************************************)
EXTENDS LockSleep, TLC

CONSTANTS LockBudget, UnlockBudget, SleepBudget

BudgetDef == ("lock" :> LockBudget) @@ ("unlock" :> UnlockBudget) @@ ("sleep" :> SleepBudget)

Symmetry == Permutations(Threads)
=============================================================================
