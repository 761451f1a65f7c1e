---------------------------- MODULE IdleService ----------------------------
(***************************************************************************)
(* The D-Bus threads of src/embedder/idle/dbus.rs composed with the        *)
(* machine they drive: the org.freedesktop.ScreenSaver object, served by   *)
(* the connection's executor thread, the watcher of departed clients, on   *)
(* the thread that called block_on, the watcher of logind's                *)
(* PrepareForSleep, and the channel on which all three tell the compositor *)
(* loop what it does not read otherwise.                                   *)
(*                                                                         *)
(* The cookies are shared under a mutex; what it computes there a thread   *)
(* sends only once it has let go of the mutex.                             *)
(***************************************************************************)
EXTENDS IdleMachine, FiniteSets

CONSTANTS
    Clients,    \* unique bus names
    MaxCookies, \* cookies handed out; next_cookie wraps at 2^32 (bound)
    MaxCalls,   \* calls and departures under way at a time (bound)
    MaxEvents,  \* events unread at a time (bound)
    Idle        \* a D-Bus thread with nothing left to send

ASSUME ServiceBounds == {MaxCookies, MaxCalls, MaxEvents} \subseteq Nat
ASSUME IdleAssumption == Idle \notin BOOLEAN

VARIABLES
    \* the bus: who is on it, the calls and departures delivered to each thread
    connected, calls, departures,
    \* Inhibitors, and what each thread has computed from it but not sent
    nextCookie, owners, served, watched,
    \* the channel, and the last PrepareForSleep of logind
    events, logindSleeps

busVars     == <<connected, calls, departures>>
threadVars  == <<nextCookie, owners, served, watched>>
serviceVars == <<busVars, threadVars, events, logindSleeps, idleVars>>

----------------------------------------------------------------------------

Cookies == 1 .. MaxCookies

Calls == [client : Clients, method : {"Inhibit", "UnInhibit", "SimulateUserActivity"},
          cookie : Cookies \cup {0}]

IdleDbusEvent == [is : {"Inhibited", "PreparingForSleep"}, value : BOOLEAN]
                     \cup {[is |-> "SimulateActivity"]}

ServiceInit ==
    /\ IdleInit
    /\ connected = Clients /\ calls = <<>> /\ departures = <<>>
    /\ nextCookie = 0 /\ owners = {} /\ served = Idle /\ watched = Idle
    /\ events = <<>> /\ logindSleeps = FALSE

\* Sender::send, on an unbounded channel
Send(event) ==
    /\ Len(events) < MaxEvents
    /\ events' = Append(events, event)

SendInhibited(inhibited) == Send([is |-> "Inhibited", value |-> inhibited])

----------------------------------------------------------------------------
(* The bus *)

\* A client calls the object; a cookie may be anybody's.
ClientCalls(call) ==
    /\ call.client \in connected
    /\ call.method # "UnInhibit" => call.cookie = 0
    /\ Len(calls) < MaxCalls
    /\ calls' = Append(calls, call)
    /\ UNCHANGED <<connected, departures, threadVars, events, logindSleeps, idleVars>>

\* A client leaves the bus, its last calls undelivered perhaps.
ClientLeaves(c) ==
    /\ c \in connected
    /\ connected' = connected \ {c}
    /\ departures' = Append(departures, c)
    /\ UNCHANGED <<calls, threadVars, events, logindSleeps, idleVars>>

----------------------------------------------------------------------------
(* The thread that serves the object: a call runs to its end before the next *)

Serves(method) ==
    /\ served = Idle
    /\ calls # <<>>
    /\ Head(calls).method = method
    /\ calls' = Tail(calls)
    /\ UNCHANGED <<connected, departures, watched, logindSleeps, idleVars>>

\* inhibit, under the mutex
Inhibit ==
    /\ Serves("Inhibit")
    /\ nextCookie < MaxCookies
    /\ nextCookie' = nextCookie + 1
    /\ owners' = owners \cup {[cookie |-> nextCookie', client |-> Head(calls).client]}
    /\ served' = (owners' # {})
    /\ UNCHANGED events

\* What un_inhibit removes: the caller's own cookie.
Released(call) == {o \in owners : o.cookie = call.cookie /\ o.client = call.client}

\* Mutant: a release tells the loop that nothing inhibits.
UnInhibitFalse ==
    /\ Serves("UnInhibit")
    /\ owners' = owners \ Released(Head(calls))
    /\ served' = FALSE
    /\ UNCHANGED <<nextCookie, events>>

\* un_inhibit, under the mutex
UnInhibit ==
    /\ Serves("UnInhibit")
    /\ owners' = owners \ Released(Head(calls))
    /\ served' = (owners' # {})
    /\ UNCHANGED <<nextCookie, events>>

\* simulate_user_activity
SimulateUserActivity ==
    /\ Serves("SimulateUserActivity")
    /\ Send([is |-> "SimulateActivity"])
    /\ UNCHANGED <<nextCookie, owners, served>>

\* The end of inhibit and un_inhibit
ServedSends ==
    /\ served # Idle
    /\ SendInhibited(served)
    /\ served' = Idle
    /\ UNCHANGED <<busVars, nextCookie, owners, watched, logindSleeps, idleVars>>

----------------------------------------------------------------------------
(* The watcher of NameOwnerChanged, the loop of serve *)

WatcherDrops ==
    /\ watched = Idle
    /\ departures # <<>>
    /\ departures' = Tail(departures)
    /\ owners' = {o \in owners : o.client # Head(departures)}
    /\ watched' = (owners' # {})
    /\ UNCHANGED <<connected, calls, nextCookie, served, events, logindSleeps, idleVars>>

WatcherSends ==
    /\ watched # Idle
    /\ SendInhibited(watched)
    /\ watched' = Idle
    /\ UNCHANGED <<busVars, nextCookie, owners, served, logindSleeps, idleVars>>

----------------------------------------------------------------------------
(* The watcher of logind *)

\* watch_sleep: one event for every PrepareForSleep, whose values alternate.
SleepWatcherForwards ==
    /\ logindSleeps' = ~logindSleeps
    /\ Send([is |-> "PreparingForSleep", value |-> ~logindSleeps])
    /\ UNCHANGED <<busVars, threadVars, idleVars>>

----------------------------------------------------------------------------
(* The compositor loop *)

\* The source IdleState::new inserts
LoopReadsDbus ==
    /\ events # <<>>
    /\ events' = Tail(events)
    /\ LET event == Head(events) IN
           \/ event.is = "Inhibited" /\ DbusInhibits(event.value)
           \/ event.is = "SimulateActivity" /\ DbusSimulates
           \/ event.is = "PreparingForSleep" /\ event.value /\ PrepareForSleep
           \/ event.is = "PreparingForSleep" /\ ~event.value /\ Resume
    /\ UNCHANGED <<busVars, threadVars, logindSleeps>>

----------------------------------------------------------------------------
(* The specification *)

Bus == \/ \E call \in Calls : ClientCalls(call)
       \/ \E c \in Clients : ClientLeaves(c)

DbusThreads == \/ Inhibit \/ UnInhibit \/ SimulateUserActivity \/ ServedSends
               \/ WatcherDrops \/ WatcherSends
               \/ SleepWatcherForwards

ServiceNext ==
    \/ Bus
    \/ DbusThreads
    \/ LoopReadsDbus
    \/ (Outside \/ TimerFires) /\ UNCHANGED <<busVars, threadVars, events, logindSleeps>>

\* A fade ends by the clock, the threads and the loop read what they are sent,
\* and a machine that suspends wakes up: strongly, because the channel, that has
\* no bound in the program, may be full whenever the watcher would send.
ServiceFairness ==
    /\ WF_serviceVars(FadeFires /\ UNCHANGED <<busVars, threadVars, events, logindSleeps>>)
    /\ WF_serviceVars(ServedSends) /\ WF_serviceVars(WatcherSends)
    /\ SF_serviceVars(logindSleeps /\ SleepWatcherForwards)
    /\ WF_serviceVars(LoopReadsDbus)

ServiceSpec == ServiceInit /\ [][ServiceNext]_serviceVars
FairServiceSpec == ServiceSpec /\ ServiceFairness

----------------------------------------------------------------------------
(* Properties *)

\* Every call and departure has been served and the loop has read what came of it.
Settled == /\ calls = <<>> /\ departures = <<>> /\ events = <<>>
           /\ served = Idle /\ watched = Idle

\* As long as no client has left, what the loop takes for the D-Bus inhibition is,
\* once all is settled, whether a cookie is still out.
LoopFollowsCookies == Settled /\ connected = Clients => dbusInhibited = (owners # {})

\* A fade that began comes to an end, the screen dark or lit again, also when a
\* suspend takes its timer: the resume that logind announces lights the screen.
FadeEnds == stage = "Fading" ~> stage # "Fading"

=============================================================================
