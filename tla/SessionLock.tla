---------------------------- MODULE SessionLock ----------------------------
(***************************************************************************)
(* The session lock of src/embedder/lock: the state the compositor loop    *)
(* owns (LockState), every handler that changes it, and the PAM worker     *)
(* threads it spawns, which share nothing with it but a FIFO channel.      *)
(*                                                                         *)
(* The shell and the logind thread are an environment here that may send   *)
(* any request and any event at any time: the lock holds against a shell   *)
(* that hangs, restarts or repeats itself.  LockScreen and LockSleep put   *)
(* the real ones, with their channels, in the place of that environment,   *)
(* and say what each handler sends back to them.                           *)
(*                                                                         *)
(* What PAM asks and says, and what the user types, are abstracted to the  *)
(* facts the lock depends on: that a prompt is pending, that an answer was *)
(* given, how a transaction ended.                                         *)
(***************************************************************************)
EXTENDS Naturals, Sequences, FiniteSets

CONSTANTS
    Threads,              \* threads the OS grants to PAM transactions
    Windows,              \* client windows that can take the keyboard
    Grabs,                \* the compositor-side grabs the run exercises
    FingerprintAttempts,  \* FINGERPRINT_ATTEMPTS
    FingerprintInstalled, \* the fingerprint service file is installed
    FingerprintTalks,     \* the fingerprint stack sends messages and prompts
    SpawnMayFail,         \* the OS may refuse a thread
    MaxLocks,             \* how often the session is locked (bound)
    None,                 \* Option::None
    Dead                  \* a Responder whose worker was never spawned

\* Grabs the lock code both ends at lock time and keeps out while locked; the
\* other two end at lock time but have no such guard in the code.
GuardedGrabs == {"capture", "gameKeys", "superKeys"}

ASSUME AttemptsAssumption == FingerprintAttempts \in Nat \ {0}
ASSUME BoundAssumption == MaxLocks \in Nat
ASSUME FlagsAssumption ==
    {FingerprintInstalled, FingerprintTalks, SpawnMayFail} \subseteq BOOLEAN
ASSUME NamesAssumption ==
    /\ None \notin Threads \cup Windows
    /\ Dead \notin Threads \cup {None}
ASSUME GrabsAssumption == Grabs \subseteq GuardedGrabs \cup {"move", "resize"}

VARIABLES
    \* the lock, and how many times it was taken (history)
    locked, generation, locks,
    \* the password stack
    password, passwordPrompted, pendingPrompt, queuedResponse,
    \* the fingerprint stack
    fingerprintRunning, fingerprintFailures, fingerprintMessage, fingerprintAvailable,
    \* the lock screen drawn, the suspend waiting for it, the release timer
    shown, sleepPending, sleepRelease,
    \* the input paths lock() takes from clients
    focus, savedFocus, alive, grabs,
    \* the PAM worker threads and their channel to the loop
    workers, authEvents

lockVars   == <<locked, generation, locks>>
promptVars == <<password, passwordPrompted, pendingPrompt, queuedResponse>>
fingerVars == <<fingerprintRunning, fingerprintFailures, fingerprintMessage,
                fingerprintAvailable>>
sleepVars  == <<shown, sleepPending, sleepRelease>>
inputVars  == <<focus, savedFocus, alive, grabs>>
pamVars    == <<workers, authEvents>>
vars == <<lockVars, promptVars, fingerVars, sleepVars, inputVars, pamVars>>

----------------------------------------------------------------------------
(* Values *)

Sources  == {"password", "fingerprint"}
Outcomes == {"success", "failed", "unavailable"}

\* One PAM transaction: its stack, the generation it was tagged with, the lock
\* it was started in (history), and where its thread stands.  A thread whose
\* transaction ended is "done" until the loop has read its last message.
Worker == [source : Sources, generation : Nat, lock : Nat,
           stage : {"working", "asking", "refused", "done"},
           answered : BOOLEAN, spoke : BOOLEAN]
ASSUME NoWorkerAssumption == None \notin Worker

AuthMessage == [source : Sources, generation : Nat, lock : Nat, thread : Threads,
                event : {"prompt", "info"} \cup Outcomes]

Init ==
    /\ locked = FALSE /\ generation = 0 /\ locks = 0
    /\ password = None /\ passwordPrompted = FALSE
    /\ pendingPrompt = FALSE /\ queuedResponse = FALSE
    /\ fingerprintRunning = FALSE /\ fingerprintFailures = 0
    /\ fingerprintMessage = FALSE /\ fingerprintAvailable = "unknown"
    /\ shown = FALSE /\ sleepPending = FALSE /\ sleepRelease = FALSE
    /\ focus = None /\ savedFocus = None /\ alive = Windows /\ grabs = {}
    /\ workers = [t \in Threads |-> None] /\ authEvents = <<>>

----------------------------------------------------------------------------
(* Starting PAM transactions *)

\* Mutant of fingerprint_allowed: the budget off by one.
AllowedOnceMore(available, running, failures) ==
    available # "no" /\ ~running /\ failures <= FingerprintAttempts

FingerprintAllowed(available, running, failures) ==
    /\ available # "no"
    /\ ~running
    /\ failures < FingerprintAttempts

StartsFingerprint(available, running, failures) ==
    FingerprintInstalled /\ FingerprintAllowed(available, running, failures)

NewWorker(source, gen, lock) ==
    [source |-> source, generation |-> gen, lock |-> lock,
     stage |-> "working", answered |-> FALSE, spoke |-> FALSE]

FreeThreads(threads) == {t \in Threads : threads[t] = None}

\* What thread::Builder::spawn can yield: a thread, or (when the OS refuses)
\* nothing, which pam::spawn only logs.
Granted(free) == IF SpawnMayFail \/ free = {} THEN free \cup {Dead} ELSE free

\* start_password if `pw`, start_fingerprint if `fp`, from the thread table
\* `threads`, tagged with the generation of the next state.  Without a new
\* password transaction the handle becomes `handle`.
StartTransactions(pw, fp, threads, handle) ==
    \E p \in IF pw THEN Granted(FreeThreads(threads)) ELSE {None} :
    \E f \in IF fp THEN Granted(FreeThreads(threads) \ {p}) ELSE {None} :
        /\ workers' = [t \in Threads |->
               IF t \in {p, f}
               THEN NewWorker(IF t = p THEN "password" ELSE "fingerprint", generation', locks')
               ELSE threads[t]]
        /\ password' = IF pw THEN p ELSE handle
        /\ passwordPrompted' = (passwordPrompted /\ ~pw)

\* Mutants: a transaction is started over the one held, or never.
PasswordAlways == TRUE
PasswordNever == FALSE

\* respond and on_resume start a password transaction only if none is held.
NeedsPassword == password = None

----------------------------------------------------------------------------
(* lock and unlock *)

CancelSleepRelease == sleepRelease' = FALSE

\* lock(), past its early return.
LockSession(authenticate) ==
    /\ ~locked
    /\ locks < MaxLocks
    /\ locked' = TRUE
    /\ generation' = generation + 1
    /\ locks' = locks + 1
    /\ shown' = FALSE
    /\ fingerprintFailures' = 0
    /\ fingerprintMessage' = FALSE
    /\ queuedResponse' = FALSE
    /\ grabs' = {}
    /\ savedFocus' = focus
    /\ focus' = None
    /\ pendingPrompt' = FALSE
    /\ LET fp == authenticate /\ StartsFingerprint(fingerprintAvailable, fingerprintRunning, 0)
       IN /\ StartTransactions(authenticate, fp, workers, None)
          /\ fingerprintRunning' = (fingerprintRunning \/ fp)
    /\ UNCHANGED <<fingerprintAvailable, alive>>

\* unlock(), past its early return; what the caller has changed before is the
\* caller's: fingerprintAvailable and the thread table.
UnlockSession ==
    /\ locked
    /\ locked' = FALSE
    /\ generation' = generation + 1
    /\ password' = None
    /\ pendingPrompt' = FALSE
    /\ queuedResponse' = FALSE
    /\ fingerprintRunning' = FALSE
    /\ fingerprintMessage' = FALSE
    /\ sleepPending' = FALSE
    /\ CancelSleepRelease
    /\ focus' = IF savedFocus \in alive THEN savedFocus ELSE focus
    /\ savedFocus' = None
    /\ UNCHANGED <<locks, passwordPrompted, fingerprintFailures, shown, alive, grabs>>

----------------------------------------------------------------------------
(* The loop: messages of the PAM workers (on_auth_message) *)

\* Mutant: the generation is not compared.
StaleWhenOpen(m) == ~locked

\* A message of another lock, or of a session that is open again, is dropped.
Stale(m) == ~locked \/ m.generation # generation

\* The thread table once message m has been read: a transaction's last message
\* gives its thread back.
AfterReading(m) ==
    IF m.event \in Outcomes THEN [workers EXCEPT ![m.thread] = None] ELSE workers

ReadAuth(source, event) ==
    /\ authEvents # <<>>
    /\ ~Stale(Head(authEvents))
    /\ Head(authEvents).source = source
    /\ Head(authEvents).event = event
    /\ authEvents' = Tail(authEvents)

DropStaleMessage ==
    /\ authEvents # <<>>
    /\ Stale(Head(authEvents))
    /\ authEvents' = Tail(authEvents)
    /\ workers' = AfterReading(Head(authEvents))
    /\ UNCHANGED <<lockVars, promptVars, fingerVars, sleepVars, inputVars>>

\* responder.respond: the answer waits in the worker's own channel.
Answer(handle) ==
    IF handle \in Threads THEN [workers EXCEPT ![handle].answered = TRUE] ELSE workers

PasswordPrompts ==
    /\ ReadAuth("password", "prompt")
    /\ passwordPrompted' = TRUE
    /\ queuedResponse' = FALSE
    /\ IF queuedResponse
       THEN workers' = Answer(password) /\ UNCHANGED pendingPrompt
       ELSE pendingPrompt' = TRUE /\ UNCHANGED workers
    /\ UNCHANGED <<lockVars, password, fingerVars, sleepVars, inputVars>>

PasswordSucceeds ==
    /\ ReadAuth("password", "success")
    /\ UnlockSession
    /\ workers' = AfterReading(Head(authEvents))
    /\ UNCHANGED fingerprintAvailable

\* A typed attempt re-arms the reader, and the stack restarts if it had asked.
PasswordFails ==
    /\ ReadAuth("password", "failed")
    /\ pendingPrompt' = FALSE
    /\ queuedResponse' = FALSE
    /\ fingerprintFailures' = 0
    /\ UNCHANGED lockVars
    /\ LET fp == StartsFingerprint(fingerprintAvailable, fingerprintRunning, 0)
       IN /\ StartTransactions(passwordPrompted, fp, AfterReading(Head(authEvents)), None)
          /\ fingerprintRunning' = (fingerprintRunning \/ fp)
    /\ UNCHANGED <<fingerprintMessage, fingerprintAvailable, sleepVars, inputVars>>

\* Nothing answers a fingerprint prompt.
FingerprintPrompts ==
    /\ ReadAuth("fingerprint", "prompt")
    /\ UNCHANGED <<lockVars, promptVars, fingerVars, sleepVars, inputVars, workers>>

FingerprintSpeaks ==
    /\ ReadAuth("fingerprint", "info")
    /\ fingerprintMessage' = TRUE
    /\ UNCHANGED <<lockVars, promptVars, fingerprintRunning, fingerprintFailures,
                   fingerprintAvailable, sleepVars, inputVars, workers>>

FingerprintSucceeds ==
    /\ ReadAuth("fingerprint", "success")
    /\ fingerprintAvailable' = "yes"
    /\ UnlockSession
    /\ workers' = AfterReading(Head(authEvents))

FingerprintUnavailable ==
    /\ ReadAuth("fingerprint", "unavailable")
    /\ fingerprintRunning' = FALSE
    /\ fingerprintAvailable' = "no"
    /\ fingerprintFailures' = FingerprintAttempts
    /\ fingerprintMessage' = FALSE
    /\ workers' = AfterReading(Head(authEvents))
    /\ UNCHANGED <<lockVars, promptVars, sleepVars, inputVars>>

FingerprintFails ==
    /\ ReadAuth("fingerprint", "failed")
    /\ fingerprintAvailable' = "yes"
    /\ fingerprintFailures' = fingerprintFailures + 1
    /\ UNCHANGED lockVars
    /\ LET again == fingerprintFailures' < FingerprintAttempts
           fp    == again /\ StartsFingerprint("yes", FALSE, fingerprintFailures')
       IN /\ StartTransactions(FALSE, fp, AfterReading(Head(authEvents)), password)
          /\ fingerprintRunning' = fp
          /\ fingerprintMessage' = (fingerprintMessage /\ again)
    /\ UNCHANGED <<pendingPrompt, queuedResponse, sleepVars, inputVars>>

LoopReadsAuth ==
    \/ DropStaleMessage
    \/ PasswordPrompts \/ PasswordSucceeds \/ PasswordFails
    \/ FingerprintPrompts \/ FingerprintSpeaks \/ FingerprintSucceeds
    \/ FingerprintUnavailable \/ FingerprintFails

----------------------------------------------------------------------------
(* The loop: what the shell and logind ask for *)

\* lock_session, and logind's Lock
LockRequested ==
    /\ LockSession(TRUE)
    /\ UNCHANGED <<sleepPending, sleepRelease, authEvents>>

\* logind's Unlock
UnlockRequested ==
    /\ UnlockSession
    /\ UNCHANGED <<fingerprintAvailable, pamVars>>

\* respond, with a prompt waiting: the answer goes to the worker.
RespondToPrompt ==
    /\ locked
    /\ pendingPrompt
    /\ pendingPrompt' = FALSE
    /\ workers' = Answer(password)
    /\ UNCHANGED <<lockVars, password, passwordPrompted, queuedResponse, fingerVars,
                   sleepVars, inputVars, authEvents>>

\* respond, with none: the answer is kept for the next prompt, and a
\* transaction is started if there is none.
RespondLater ==
    /\ locked
    /\ ~pendingPrompt
    /\ queuedResponse' = TRUE
    /\ UNCHANGED lockVars
    /\ StartTransactions(NeedsPassword, FALSE, workers, password)
    /\ UNCHANGED <<pendingPrompt, fingerVars, sleepVars, inputVars, authEvents>>

\* on_shown: a waiting suspend gets the short grace.
LockScreenShown ==
    /\ locked
    /\ shown' = TRUE
    /\ sleepPending' = FALSE
    /\ sleepRelease' = (sleepRelease \/ sleepPending)
    /\ UNCHANGED <<lockVars, promptVars, fingerVars, inputVars, pamVars>>

\* replay_to_shell: a new shell has drawn nothing yet.
ReplayToShell ==
    /\ locked
    /\ shown' = FALSE
    /\ UNCHANGED <<lockVars, promptVars, fingerVars, sleepPending, sleepRelease,
                   inputVars, pamVars>>

\* PrepareForSleep, SleepRelease::Immediate: the lock screen is already up.
PrepareShown ==
    /\ locked /\ shown
    /\ sleepPending' = FALSE
    /\ CancelSleepRelease
    /\ UNCHANGED <<lockVars, promptVars, fingerVars, shown, inputVars, pamVars>>

\* Mutant: the timer is armed only if this suspend is what locks.
PrepareArmsIfOpen ==
    /\ ~(locked /\ shown)
    /\ sleepPending' = TRUE
    /\ sleepRelease' = (sleepRelease \/ ~locked)
    /\ IF locked
       THEN UNCHANGED <<lockVars, promptVars, fingerVars, shown, inputVars, workers>>
       ELSE LockSession(FALSE)
    /\ UNCHANGED authEvents

\* PrepareForSleep, SleepRelease::AfterDrawGrace: lock without PAM, and arm the
\* grace timer.
PrepareDraws ==
    /\ ~(locked /\ shown)
    /\ sleepPending' = TRUE
    /\ sleepRelease' = TRUE
    /\ IF locked
       THEN UNCHANGED <<lockVars, promptVars, fingerVars, shown, inputVars, workers>>
       ELSE LockSession(FALSE)
    /\ UNCHANGED authEvents

\* on_resume
Resumed ==
    /\ sleepPending' = FALSE
    /\ CancelSleepRelease
    /\ UNCHANGED lockVars
    /\ IF locked
       THEN LET fp == StartsFingerprint(fingerprintAvailable, fingerprintRunning,
                                        fingerprintFailures)
            IN /\ StartTransactions(NeedsPassword, fp, workers, password)
               /\ pendingPrompt' = (pendingPrompt /\ ~NeedsPassword)
               /\ fingerprintRunning' = (fingerprintRunning \/ fp)
       ELSE UNCHANGED <<password, passwordPrompted, pendingPrompt, fingerprintRunning,
                        workers>>
    /\ UNCHANGED <<queuedResponse, fingerprintFailures, fingerprintMessage,
                   fingerprintAvailable, shown, inputVars, authEvents>>

\* Mutant: the timer is not one-shot.
SleepReleaseRepeats ==
    /\ sleepRelease
    /\ sleepPending' = FALSE
    /\ UNCHANGED <<lockVars, promptVars, fingerVars, shown, sleepRelease, inputVars, pamVars>>

\* The timer of release_sleep_after: the inhibitor is released.
SleepReleaseFires ==
    /\ sleepRelease
    /\ sleepRelease' = FALSE
    /\ sleepPending' = FALSE
    /\ UNCHANGED <<lockVars, promptVars, fingerVars, shown, inputVars, pamVars>>

Requests ==
    \/ LockRequested \/ UnlockRequested \/ RespondToPrompt \/ RespondLater
    \/ LockScreenShown \/ ReplayToShell \/ PrepareShown \/ PrepareDraws \/ Resumed

----------------------------------------------------------------------------
(* PAM worker threads *)

Says(t, event) ==
    [source |-> workers[t].source, generation |-> workers[t].generation,
     lock |-> workers[t].lock, thread |-> t, event |-> event]

\* The other end of the worker's answer channel is gone: only a password
\* transaction the loop still holds has one.
Disconnected(t) == password # t

WorkerStep(t, stages) ==
    /\ workers[t] # None
    /\ workers[t].stage \in stages
    /\ UNCHANGED <<lockVars, promptVars, fingerVars, sleepVars, inputVars>>

\* converse: a prompt is sent, then recv blocks.
WorkerAsks(t) ==
    /\ WorkerStep(t, {"working"})
    /\ workers[t].source = "fingerprint" => FingerprintTalks
    /\ workers' = [workers EXCEPT ![t].stage = "asking"]
    /\ authEvents' = Append(authEvents, Says(t, "prompt"))

\* recv returns the shell's answer.
WorkerReceives(t) ==
    /\ WorkerStep(t, {"asking"})
    /\ workers[t].answered
    /\ workers' = [workers EXCEPT ![t].stage = "working", ![t].answered = FALSE]
    /\ UNCHANGED authEvents

\* recv fails: the responder was dropped (PAM_CONV_ERR).
WorkerRefused(t) ==
    /\ WorkerStep(t, {"asking"})
    /\ ~workers[t].answered
    /\ Disconnected(t)
    /\ workers' = [workers EXCEPT ![t].stage = "refused"]
    /\ UNCHANGED authEvents

\* PAM_TEXT_INFO or PAM_ERROR_MSG of the fingerprint stack, once per worker.
WorkerSpeaks(t) ==
    /\ WorkerStep(t, {"working"})
    /\ FingerprintTalks
    /\ workers[t].source = "fingerprint"
    /\ ~workers[t].spoke
    /\ workers' = [workers EXCEPT ![t].spoke = TRUE]
    /\ authEvents' = Append(authEvents, Says(t, "info"))

\* The transaction ends.  Only the enrolment probe of the fingerprint stack,
\* before PAM starts, can find it unavailable.
WorkerFinishes(t, outcome) ==
    /\ WorkerStep(t, {"working", "refused"})
    /\ outcome = "unavailable" =>
           /\ workers[t].source = "fingerprint"
           /\ workers[t].stage = "working"
           /\ ~workers[t].spoke
    /\ workers' = [workers EXCEPT ![t].stage = "done"]
    /\ authEvents' = Append(authEvents, Says(t, outcome))

WorkerRuns(t) ==
    \/ WorkerAsks(t) \/ WorkerReceives(t) \/ WorkerRefused(t) \/ WorkerSpeaks(t)
    \/ \E outcome \in Outcomes : WorkerFinishes(t, outcome)

----------------------------------------------------------------------------
(* Clients *)

InputStep == UNCHANGED <<lockVars, promptVars, fingerVars, sleepVars, pamVars>>

\* Mutant: the lock is not asked.
FocusRegardless(w) == focus' = w /\ UNCHANGED savedFocus

\* set_keyboard_focus: while locked the choice is kept for unlock.
SetKeyboardFocus(w) ==
    IF locked THEN savedFocus' = w /\ UNCHANGED focus
              ELSE focus' = w /\ UNCHANGED savedFocus

\* focus_surface
ActivateWindow(w) ==
    /\ w \in alive
    /\ InputStep
    /\ SetKeyboardFocus(w)
    /\ UNCHANGED <<alive, grabs>>

\* activate_window with activate = false
DeactivateWindow(w) ==
    /\ w \in alive
    /\ InputStep
    /\ savedFocus' = IF savedFocus = w THEN None ELSE savedFocus
    /\ focus' = IF focus = w THEN None ELSE focus
    /\ UNCHANGED <<alive, grabs>>

CloseWindow(w) ==
    /\ w \in alive
    /\ InputStep
    /\ alive' = alive \ {w}
    /\ UNCHANGED <<focus, savedFocus, grabs>>

\* A selection, a forwarded game key or a withheld Super key starts only on an
\* open session; a client's move or resize request is honoured at any time.
BeginGrab(g) ==
    /\ g \in GuardedGrabs => ~locked
    /\ InputStep
    /\ grabs' = grabs \cup {g}
    /\ UNCHANGED <<focus, savedFocus, alive>>

EndGrab(g) ==
    /\ g \in grabs
    /\ InputStep
    /\ grabs' = grabs \ {g}
    /\ UNCHANGED <<focus, savedFocus, alive>>

----------------------------------------------------------------------------
(* The specification *)

Workers == \E t \in Threads : WorkerRuns(t)
Clients ==
    \/ \E w \in Windows : ActivateWindow(w) \/ DeactivateWindow(w) \/ CloseWindow(w)
    \/ \E g \in Grabs : BeginGrab(g) \/ EndGrab(g)

Next == LoopReadsAuth \/ Requests \/ SleepReleaseFires \/ Workers \/ Clients

Spec == Init /\ [][Next]_vars

----------------------------------------------------------------------------
(* Properties *)

\* The values the code's types and the channels' payloads allow.
Types ==
    /\ locked \in BOOLEAN /\ generation \in Nat /\ locks \in Nat
    /\ password \in Threads \cup {None, Dead}
    /\ passwordPrompted \in BOOLEAN /\ pendingPrompt \in BOOLEAN /\ queuedResponse \in BOOLEAN
    /\ fingerprintRunning \in BOOLEAN /\ fingerprintMessage \in BOOLEAN
    /\ fingerprintFailures \in Nat
    /\ fingerprintAvailable \in {"unknown", "yes", "no"}
    /\ shown \in BOOLEAN /\ sleepPending \in BOOLEAN /\ sleepRelease \in BOOLEAN
    /\ focus \in Windows \cup {None} /\ savedFocus \in Windows \cup {None}
    /\ alive \subseteq Windows /\ grabs \subseteq Grabs
    /\ workers \in [Threads -> Worker \cup {None}]
    /\ authEvents \in Seq(AuthMessage)

\* Every variable keeps to its type, and the failures counted to the number of
\* attempts: fingerprint_failures is only ever compared with it.
TypeOK == Types /\ fingerprintFailures <= FingerprintAttempts

\* The transactions of `source` whose thread is up or whose end is unread, in
\* the generation the loop is in.
Current(source) ==
    {t \in Threads : /\ workers[t] # None
                     /\ workers[t].source = source
                     /\ workers[t].generation = generation}

\* A prompt the lock screen shows has a worker of this very lock blocked on it
\* with no answer yet: `respond` may hand over the answer and return without
\* looking at what became of it.
PromptReachesWorker ==
    pendingPrompt =>
        /\ locked
        /\ password \in Current("password")
        /\ workers[password].stage = "asking"
        /\ ~workers[password].answered

\* Within one lock each stack runs at most one transaction, and the loop knows
\* of the one that runs: on_resume and respond never start a second password
\* transaction over a pending one, nor a failure a second fingerprint reader.
OneTransactionPerStack ==
    locked =>
        /\ Current("password") \subseteq {password}
        /\ Cardinality(Current("fingerprint")) <= 1
        /\ Current("fingerprint") # {} => fingerprintRunning

\* The fingerprint attempts already failed and the one running never exceed
\* FINGERPRINT_ATTEMPTS, however password failures, suspends and relocks
\* interleave with the reader.
FingerprintBudget ==
    locked => fingerprintFailures + (IF fingerprintRunning THEN 1 ELSE 0)
                  <= FingerprintAttempts

\* A suspend is only ever waited for, and the inhibitor only ever due to be
\* released by the timer, while the session is locked.
ReleaseOnlyWhenLocked == sleepPending \/ sleepRelease => locked

\* While locked no client has the keyboard, and no selection, forwarded game
\* key or withheld Super key of before the lock is left.
NoClientInputWhileLocked == locked => focus = None /\ grabs \cap GuardedGrabs = {}

\* Only logind's Unlock, or the success of a transaction started since the last
\* lock, opens the session: a result of an earlier lock never does.
UnlockAuthorized ==
    [][ locked /\ ~locked' =>
          \/ UNCHANGED pamVars
          \/ /\ authEvents # <<>> /\ authEvents' = Tail(authEvents)
             /\ Head(authEvents).event = "success"
             /\ Head(authEvents).lock = locks ]_vars

\* Once the machine is known to have no usable reader, no later lock, password
\* failure or resume starts the fingerprint stack again.
MissingReaderRemembered ==
    [][ fingerprintAvailable = "no" =>
          /\ fingerprintAvailable' = "no"
          /\ \A t \in Threads : workers[t] = None /\ workers'[t] # None
                 => workers'[t].source = "password" ]_vars

=============================================================================
