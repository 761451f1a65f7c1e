----------------------------- MODULE LockScreen -----------------------------
(***************************************************************************)
(* The session lock together with the Flutter shell that draws it          *)
(* (lib/lock_screen), over the two directions of the platform channel.     *)
(* The shell runs on its own thread: both directions are FIFO queues, and  *)
(* a reload of the shell loses what it had not read.                       *)
(***************************************************************************)
EXTENDS SessionLock

CONSTANT
    ShellBudget    \* how often each outside event happens (bound)

ShellEvents == {"lock", "unlock", "sleep", "restart", "submit"}
ASSUME ShellBudgetAssumption == ShellBudget \in [ShellEvents -> Nat]

VARIABLES
    shell,      \* LockScreenState, as far as the lock depends on it
    toShell,    \* lock_state_changed and lock_auth_update
    fromShell,  \* lock_session, lock_auth_respond, lock_screen_shown, shell_ready
    remaining        \* what is left of ShellBudget

shellVars  == <<shell, toShell, fromShell>>
screenVars == <<vars, shellVars, remaining>>

\* The generation a message is about is history: the payload does not have it.
ShellMessage == [kind : {"state", "prompt", "failed", "notice", "unavailable"},
                 locked : BOOLEAN, generation : Nat]
ShellRequest == [kind : {"lock", "respond", "shown", "ready"}, generation : Nat]

\* `reported` is the overlay's own flag; `generation` is history: the state the
\* shell shows.
Shell == [locked : BOOLEAN, checking : BOOLEAN, notice : BOOLEAN,
          reported : BOOLEAN, generation : Nat]
FreshShell == [locked |-> FALSE, checking |-> FALSE, notice |-> FALSE,
               reported |-> FALSE, generation |-> 0]

ScreenInit ==
    /\ Init
    /\ shell = FreshShell /\ toShell = <<>> /\ fromShell = <<>>
    /\ remaining = ShellBudget

Happens(event) ==
    /\ remaining[event] > 0
    /\ remaining' = [remaining EXCEPT ![event] = @ - 1]

----------------------------------------------------------------------------
(* What each handler of the loop sends to the shell *)

Message(kind, lockedNow, gen) == [kind |-> kind, locked |-> lockedNow, generation |-> gen]

\* send_auth_message
Tell(kinds) ==
    toShell' = toShell \o [i \in DOMAIN kinds |-> Message(kinds[i], TRUE, generation)]

\* notify_lock_state, at the end of lock and unlock
TellState == toShell' = Append(toShell, Message("state", locked', generation'))

LoopTellsAuth ==
    /\ \/ (DropStaleMessage \/ FingerprintPrompts) /\ Tell(<<>>)
       \/ PasswordPrompts /\ Tell(IF queuedResponse THEN <<>> ELSE <<"prompt">>)
       \/ (PasswordSucceeds \/ FingerprintSucceeds) /\ TellState
       \/ PasswordFails /\ Tell(<<"failed">>)
       \/ FingerprintSpeaks /\ Tell(<<"notice">>)
       \/ FingerprintUnavailable /\ Tell(<<"unavailable">>)
       \/ FingerprintFails /\ Tell(IF fingerprintFailures' < FingerprintAttempts
                                   THEN <<>> ELSE <<"unavailable">>)
    /\ UNCHANGED <<shell, fromShell, remaining>>

\* logind and the release timer, as an environment
LoopTellsSystem ==
    /\ \/ Happens("lock") /\ LockRequested /\ TellState
       \/ Happens("unlock") /\ UnlockRequested /\ TellState
       \/ Happens("sleep") /\ PrepareDraws /\ IF locked THEN Tell(<<>>) ELSE TellState
       \/ Happens("sleep") /\ (PrepareShown \/ Resumed) /\ Tell(<<>>)
       \/ SleepReleaseFires /\ Tell(<<>>) /\ UNCHANGED remaining
    /\ UNCHANGED <<shell, fromShell>>

----------------------------------------------------------------------------
(* The loop reads the shell's requests *)

ReadShell(kind) ==
    /\ fromShell # <<>>
    /\ Head(fromShell).kind = kind
    /\ fromShell' = Tail(fromShell)
    /\ UNCHANGED <<shell, remaining>>

\* Mutant: the reader's message is not replayed.
ReplayPrompt == <<"state">> \o (IF pendingPrompt THEN <<"prompt">> ELSE <<>>)

\* replay_to_shell
Replay == <<"state">> \o (IF pendingPrompt THEN <<"prompt">> ELSE <<>>)
                      \o (IF fingerprintMessage THEN <<"notice">> ELSE <<>>)

LoopReadsShell ==
    \/ ReadShell("lock") /\ LockRequested /\ TellState
    \/ ReadShell("respond") /\ (RespondToPrompt \/ RespondLater) /\ Tell(<<>>)
    \/ ReadShell("shown") /\ LockScreenShown /\ Tell(<<>>)
    \/ ReadShell("ready") /\ ReplayToShell /\ Tell(Replay)

\* respond, on_shown and replay_to_shell do nothing while the session is open,
\* lock nothing while it is locked (or past the bound on locks).
LoopIgnoresShell ==
    /\ \/ ~locked /\ \E kind \in {"respond", "shown", "ready"} : ReadShell(kind)
       \/ (locked \/ locks = MaxLocks) /\ ReadShell("lock")
    /\ UNCHANGED <<vars, toShell>>

----------------------------------------------------------------------------
(* The shell *)

FromShell(kind) == fromShell' = Append(fromShell, [kind |-> kind, generation |-> shell.generation])

\* reduceAuthUpdate, called only while the shell believes the session locked
Reduce(kind) ==
    CASE kind \in {"prompt", "failed"} -> [shell EXCEPT !.checking = FALSE]
      [] kind = "notice"               -> [shell EXCEPT !.notice = TRUE]
      [] kind = "unavailable"          -> [shell EXCEPT !.notice = FALSE]

\* The state is rebuilt from scratch whenever the lock state is announced.
AnnouncedState(m) == [FreshShell EXCEPT !.locked = m.locked, !.reported = shell.reported,
                                   !.generation = m.generation]

\* _onEvent
Received(m) ==
    IF m.kind = "state" THEN AnnouncedState(m)
    ELSE IF shell.locked THEN Reduce(m.kind) ELSE shell

ShellReceives ==
    /\ toShell # <<>>
    /\ toShell' = Tail(toShell)
    /\ shell' = Received(Head(toShell))
    /\ UNCHANGED <<vars, fromShell, remaining>>

\* The overlay reports the lock screen once it is fully drawn; a frame of the
\* open session resets the flag.
ShellFrame ==
    /\ shell.locked # shell.reported
    /\ shell' = [shell EXCEPT !.reported = shell.locked]
    /\ IF shell.locked THEN FromShell("shown") ELSE UNCHANGED fromShell
    /\ UNCHANGED <<vars, toShell, remaining>>

\* submit: `checking` keeps a second answer back.
ShellSubmits ==
    /\ Happens("submit")
    /\ shell.locked /\ ~shell.checking
    /\ shell' = [shell EXCEPT !.checking = TRUE]
    /\ FromShell("respond")
    /\ UNCHANGED <<vars, toShell>>

\* lock: the hotkey or the power menu.
ShellAsksLock ==
    /\ Happens("lock")
    /\ FromShell("lock")
    /\ UNCHANGED <<vars, shell, toShell>>

\* A reloaded shell starts from nothing and announces itself.
ShellRestarts ==
    /\ Happens("restart")
    /\ shell' = FreshShell
    /\ toShell' = <<>>
    /\ fromShell' = Append(fromShell, [kind |-> "ready", generation |-> 0])
    /\ UNCHANGED vars

----------------------------------------------------------------------------
(* The specification *)

BesideShell == (Workers \/ Clients) /\ UNCHANGED <<shellVars, remaining>>

ScreenNext ==
    \/ LoopTellsAuth \/ LoopTellsSystem \/ LoopReadsShell \/ LoopIgnoresShell
    \/ ShellReceives \/ ShellFrame \/ ShellSubmits \/ ShellAsksLock \/ ShellRestarts
    \/ BesideShell

ScreenSpec == ScreenInit /\ [][ScreenNext]_screenVars

----------------------------------------------------------------------------
(* Properties *)

\* The variables of the shell and of the platform channel keep to their types,
\* and a shell that shows the desktop has nothing left of a lock screen.
ScreenTypeOK ==
    /\ shell \in Shell
    /\ ~shell.locked => ~shell.checking /\ ~shell.notice
    /\ toShell \in Seq(ShellMessage) /\ fromShell \in Seq(ShellRequest)
    /\ remaining \in [ShellEvents -> Nat]

InTransit(kind) == \E i \in DOMAIN fromShell : fromShell[i].kind = kind

\* Once the shell has read everything sent to it, it shows what the compositor
\* holds: the lock, the reader's last message, and a field that takes input
\* whenever a prompt waits and no answer to it is on its way.  A reload does not
\* break this once its replay has been read.
ShellMirrors ==
    toShell = <<>> /\ ~InTransit("ready") =>
        /\ shell.locked = locked
        /\ shell.notice = fingerprintMessage
        /\ pendingPrompt /\ ~InTransit("respond") => ~shell.checking

Underway == toShell # <<>> \/ fromShell # <<>> \/ authEvents # <<>>

\* Every password transaction waits for an answer that can still come.
PasswordWaits ==
    \A t \in Threads : Current("password") \cap {t} # {} /\ workers[t].stage # "done" =>
        workers[t].stage = "asking" /\ ~workers[t].answered /\ ~Disconnected(t)

\* An answer the user typed is never left behind: when nothing is under way that
\* could still settle it, the field takes input again and no answer is queued,
\* whatever became of the transaction that was running when it was typed
\* (lock/mod.rs:62, "handed to the next one's first prompt").  A thread the OS
\* refused is the exception: nobody is left to ask.
AnswerSettled ==
    ~Underway /\ PasswordWaits /\ password # Dead => ~shell.checking /\ ~queuedResponse

=============================================================================
