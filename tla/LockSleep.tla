----------------------------- MODULE LockSleep ------------------------------
(***************************************************************************)
(* The session lock together with the thread that talks to logind          *)
(* (lock/dbus.rs) and with logind itself: the session's Lock and Unlock    *)
(* signals, the delay inhibitor that keeps a suspend waiting until the     *)
(* lock screen is up, and LockedHint.  The shell remains an environment    *)
(* that may send any request at any time.                                  *)
(***************************************************************************)
EXTENDS SessionLock

CONSTANTS
    Budget,           \* how often each outside event happens (bound)
    LogindImpatient,  \* logind may run out of InhibitDelayMaxSec, or announce a
                      \* suspend before the last resume has been read
    LogindMayRefuse   \* an Inhibit or SetLockedHint call may fail

Outside == {"lock", "unlock", "sleep"}
ASSUME BudgetAssumption == Budget \in [Outside -> Nat]
ASSUME LogindAssumption == {LogindImpatient, LogindMayRefuse} \subseteq BOOLEAN

VARIABLES
    lockEvents,  \* the thread to the loop: LockDbusEvent
    commands,    \* the loop to the thread: LockDbusCommand
    inhibitor,   \* the thread holds logind's delay inhibitor
    hint,        \* LockedHint as logind has it
    signals,     \* PrepareForSleep signals the thread has not read
    power,       \* logind: "awake", "preparing" to suspend, "asleep"
    left         \* what is left of Budget

threadVars == <<lockEvents, commands, inhibitor, hint>>
logindVars == <<signals, power, left>>
sleepWorldVars == <<vars, threadVars, logindVars>>

LockDbusEvent   == {"lock", "unlock", "prepare", "resumed"}
LockDbusCommand == {"hintLocked", "hintUnlocked", "release"}

SleepInit ==
    /\ Init
    /\ lockEvents = <<>> /\ commands = <<>> /\ inhibitor = TRUE /\ hint = FALSE
    /\ signals = <<>> /\ power = "awake"
    /\ left = Budget

Spend(event) ==
    /\ left[event] > 0
    /\ left' = [left EXCEPT ![event] = @ - 1]

\* Suspend freezes every thread at once.
Awake == power # "asleep"

----------------------------------------------------------------------------
(* The loop: what each handler commands the thread to do *)

\* Mutant: the hint is published by lock alone.
PublishLock == IF locked' /\ ~locked THEN <<"hintLocked">> ELSE <<>>

\* SetLockedHint, at the end of lock and unlock
PublishHint ==
    IF locked' = locked THEN <<>> ELSE IF locked' THEN <<"hintLocked">> ELSE <<"hintUnlocked">>

Command(list) == commands' = commands \o list

ReadLogind(event) ==
    /\ lockEvents # <<>>
    /\ Head(lockEvents) = event
    /\ lockEvents' = Tail(lockEvents)

\* on_dbus_event
LoopReadsLogind ==
    /\ Awake
    /\ \/ ReadLogind("lock") /\ LockRequested /\ Command(PublishHint)
       \/ ReadLogind("unlock") /\ UnlockRequested /\ Command(PublishHint)
       \/ ReadLogind("prepare") /\ PrepareShown /\ Command(<<"release">>)
       \/ ReadLogind("prepare") /\ PrepareDraws /\ Command(PublishHint)
       \/ ReadLogind("resumed") /\ Resumed /\ Command(<<>>)
    /\ UNCHANGED <<inhibitor, hint, logindVars>>

\* lock while locked (or past the bound on locks), unlock while open
LoopIgnoresLogind ==
    /\ Awake
    /\ \/ (locked \/ locks = MaxLocks) /\ ReadLogind("lock")
       \/ ~locked /\ locks = MaxLocks /\ ReadLogind("prepare")
       \/ ~locked /\ ReadLogind("unlock")
    /\ UNCHANGED <<vars, commands, inhibitor, hint, logindVars>>

TimerFires ==
    /\ Awake
    /\ SleepReleaseFires /\ Command(<<"release">>)
    /\ UNCHANGED <<lockEvents, inhibitor, hint, logindVars>>

LoopCommandsAuth ==
    /\ Awake
    /\ LoopReadsAuth /\ Command(PublishHint)
    /\ UNCHANGED <<lockEvents, inhibitor, hint, logindVars>>

\* The shell, as an environment
ShellRequests ==
    /\ Awake
    /\ \/ Spend("lock") /\ LockRequested
       \/ (RespondToPrompt \/ RespondLater \/ LockScreenShown \/ ReplayToShell)
              /\ UNCHANGED left
    /\ Command(PublishHint)
    /\ UNCHANGED <<lockEvents, inhibitor, hint, signals, power>>

----------------------------------------------------------------------------
(* The thread (dbus::run): one item of the merged streams at a time *)

ThreadForwards(event) ==
    /\ Awake
    /\ lockEvents' = Append(lockEvents, event)
    /\ UNCHANGED <<vars, commands, hint, power>>

ThreadLocks   == Spend("lock") /\ ThreadForwards("lock") /\ UNCHANGED <<inhibitor, signals>>
ThreadUnlocks == Spend("unlock") /\ ThreadForwards("unlock") /\ UNCHANGED <<inhibitor, signals>>

\* PrepareForSleep(true)
ThreadPrepares ==
    /\ signals # <<>> /\ Head(signals)
    /\ signals' = Tail(signals)
    /\ ThreadForwards("prepare")
    /\ UNCHANGED <<inhibitor, left>>

\* PrepareForSleep(false): the inhibitor is taken again if it was released.
ThreadResumes ==
    /\ signals # <<>> /\ ~Head(signals)
    /\ signals' = Tail(signals)
    /\ inhibitor' \in {TRUE} \cup (IF LogindMayRefuse THEN {inhibitor} ELSE {})
    /\ ThreadForwards("resumed")
    /\ UNCHANGED left

ThreadReleases ==
    /\ Awake
    /\ commands # <<>> /\ Head(commands) = "release"
    /\ commands' = Tail(commands)
    /\ inhibitor' = FALSE
    /\ UNCHANGED <<vars, lockEvents, hint, logindVars>>

ThreadPublishes ==
    /\ Awake
    /\ commands # <<>> /\ Head(commands) # "release"
    /\ commands' = Tail(commands)
    /\ hint' \in {Head(commands) = "hintLocked"} \cup (IF LogindMayRefuse THEN {hint} ELSE {})
    /\ UNCHANGED <<vars, lockEvents, inhibitor, logindVars>>

----------------------------------------------------------------------------
(* logind *)

PowerStep(from, to) ==
    /\ power = from
    /\ power' = to
    /\ UNCHANGED <<vars, threadVars>>

LogindPrepares ==
    /\ Spend("sleep")
    /\ LogindImpatient \/ signals = <<>>
    /\ PowerStep("awake", "preparing")
    /\ signals' = Append(signals, TRUE)

\* logind waits for the delay inhibitor, up to InhibitDelayMaxSec.
LogindSuspends ==
    /\ ~inhibitor \/ LogindImpatient
    /\ PowerStep("preparing", "asleep")
    /\ UNCHANGED <<signals, left>>

LogindResumes ==
    /\ PowerStep("asleep", "awake")
    /\ signals' = Append(signals, FALSE)
    /\ UNCHANGED left

----------------------------------------------------------------------------
(* The specification *)

Elsewhere == Awake /\ (Workers \/ Clients) /\ UNCHANGED <<threadVars, logindVars>>

SleepNext ==
    \/ LoopReadsLogind \/ LoopIgnoresLogind \/ TimerFires \/ LoopCommandsAuth \/ ShellRequests
    \/ ThreadLocks \/ ThreadUnlocks \/ ThreadPrepares \/ ThreadResumes
    \/ ThreadReleases \/ ThreadPublishes
    \/ LogindPrepares \/ LogindSuspends \/ LogindResumes
    \/ Elsewhere

\* calloop dispatches what is ready and fires its timers, the select of the
\* thread polls every stream in turn, and a suspended machine is woken.  The
\* budgets bound the suspends, so weak fairness of what a suspend freezes is
\* enough.  The user, the shell and PAM owe nothing.
SleepFairness ==
    /\ WF_sleepWorldVars(LoopReadsLogind \/ LoopIgnoresLogind)
    /\ WF_sleepWorldVars(TimerFires)
    /\ WF_sleepWorldVars(ThreadPrepares \/ ThreadResumes)
    /\ WF_sleepWorldVars(ThreadReleases \/ ThreadPublishes)
    /\ WF_sleepWorldVars(LogindResumes)

SleepSpec == SleepInit /\ [][SleepNext]_sleepWorldVars
FairSleepSpec == SleepSpec /\ SleepFairness

----------------------------------------------------------------------------
(* Properties *)

\* While logind waits for the inhibitor and grants a new one, a machine that is
\* up holds it for the next suspend: no release is left over from the last.
InhibitorRearmed == power = "awake" /\ signals = <<>> => inhibitor

\* LockedHint ends up telling what the session is.
HintFollowsLock == (hint # locked) ~> (hint = locked)

Announced == TRUE \in {signals[i] : i \in DOMAIN signals}
                 \/ "prepare" \in {lockEvents[i] : i \in DOMAIN lockEvents}

\* A suspend logind announces is let through, with the shell's help or without,
\* unless the session is unlocked after the announcement was handled.
SuspendLetThrough ==
    (power = "preparing" /\ Announced)
        ~> (~inhibitor \/ power # "preparing" \/ (~Announced /\ ~locked))

\* What logind was told and what it waits for come right in the end: the hint says
\* what the session is, and no suspend hangs on the inhibitor.
SleepSettles == HintFollowsLock /\ SuspendLetThrough

=============================================================================
