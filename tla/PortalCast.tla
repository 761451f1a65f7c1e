----------------------------- MODULE PortalCast -----------------------------
(***************************************************************************)
(* The screen cast half of the portal backend (src/embedder/portal): the   *)
(* ledger of sessions and requests, the consent picker, restore grants,    *)
(* the PipeWire producer and the handlers of the compositor loop that tie  *)
(* them together.                                                          *)
(*                                                                         *)
(* The frontend (xdg-desktop-portal) forwards the calls of applications,   *)
(* each under the path of a Request object, its handle.  A handle names no *)
(* two calls that wait for their answer at a time; it may come back after, *)
(* since an application chooses the end of the path.                       *)
(***************************************************************************)
EXTENDS Naturals, Sequences, FiniteSets

CONSTANTS
    Sessions, Handles,   \* paths of Session and of Request objects
    Monitors, Windows,   \* what can be shared
    Frontends,           \* bus names of the frontend's incarnations
    Demands,             \* the options clients send, each with types and persist
    RestoreLimit,        \* RESTORE_GRANT_LIMIT
    MaxTokens,           \* consent tokens minted (bound)
    MaxUnderWay,         \* producer events, and answers of the shell, under way (bound)
    None

Sources == Monitors \cup Windows
Kinds == {"monitor", "window"}
Kind(source) == IF source \in Monitors THEN "monitor" ELSE "window"
Demandable == [types : (SUBSET Kinds) \ {{}}, persist : BOOLEAN]

ASSUME DemandsAssumption == Demands \subseteq Demandable
ASSUME BoundsAssumption == {RestoreLimit, MaxTokens, MaxUnderWay} \subseteq Nat \ {0}
ASSUME NoneAssumption ==
    /\ None \notin Sessions \cup Handles \cup Sources \cup Frontends \cup Demandable
    /\ None \notin Nat
    /\ Sessions \cap Handles = {} /\ Monitors \cap Windows = {}

VARIABLES
    \* PortalLedger
    frontend, sessions, requests, restores, tokens,
    \* active_streams, and the streams of the Producer with its event channel
    streams, nodes, events,
    \* the sources that exist
    live,
    \* the objects the bridge serves; history: the Start calls not yet answered
    exported, awaiting,
    \* the shell: its picker, its indicators, and what it has sent
    picker, indicators, answers

ledgerVars == <<frontend, sessions, requests, restores, tokens>>
streamVars == <<streams, nodes, indicators>>
busVars    == <<exported, awaiting>>
castVars   == <<ledgerVars, streamVars, events, live, busVars, picker, answers>>

----------------------------------------------------------------------------
(* Values *)

TokensMinted == 1 .. MaxTokens

\* A restore grant has a token of its own: that of the consent it was minted for
\* tells it from the others.
Grants == [token : TokensMinted, owner : Frontends, source : Sources]
Wants == [types : SUBSET Kinds, persist : BOOLEAN, grant : Grants \cup {None}]
States == {"Created", "Configured", "Choosing", "Starting", "Active"}
SessionRecords ==
    [state : States, wants : Wants \cup {None}, pending : Handles \cup {None}]
RequestRecords ==
    [session : Sessions, cancelled : BOOLEAN, consent : TokensMinted \cup {None}]

StreamRecords == [source : Sources, owner : Frontends]   \* owner: history, who asked for it

\* A question the shell asks, what it sends back, and what the producer reports
Pickers == [session : Sessions, token : TokensMinted, offered : SUBSET Sources]
Answers ==
    [kind : {"Approved"}, session : Sessions, token : TokensMinted, source : Sources]
        \cup [kind : {"Cancelled"}, session : Sessions, token : TokensMinted]
        \cup [kind : {"Stop"}, session : Sessions]
Events ==
    [kind : {"NodeReady"}, session : Sessions]
        \cup [kind : {"Fatal"}, session : Sessions \cup {None}]

ASSUME RecordsAssumption == None \notin SessionRecords \cup RequestRecords \cup StreamRecords

NoSession == [s \in Sessions |-> None]

CastInit ==
    /\ frontend \in Frontends \cup {None}
    /\ sessions = NoSession /\ requests = [h \in Handles |-> None]
    /\ restores = {} /\ tokens = 0
    /\ streams = NoSession /\ nodes = [s \in Sessions |-> "none"] /\ indicators = {}
    /\ events = <<>> /\ live \in SUBSET Sources
    /\ exported = {} /\ awaiting = {}
    /\ picker = None /\ answers = <<>>

----------------------------------------------------------------------------
(* What the handlers share *)

Open == {s \in Sessions : sessions[s] # None}
RequestsOf(closed) == {h \in Handles : requests[h] # None /\ requests[h].session \in closed}

\* The calls whose reply link a request, or a session that starts, holds
Consenting(hs) == {h \in hs : requests[h] # None /\ requests[h].consent # None}
Pending(closed) == {sessions[s].pending : s \in closed \cap Open} \ {None}
Held == Consenting(Handles) \cup Pending(Sessions)

\* DismissPicker for each of these consents
Dismiss(consents) ==
    picker' = IF picker # None /\ picker.token \in consents THEN None ELSE picker

\* Mutant: the record of the stream goes, its PipeWire node stays.
StopRecord(closed) ==
    LET streaming == {s \in closed : streams[s] # None}
    IN  /\ streams' = [s \in Sessions |-> IF s \in streaming THEN None ELSE streams[s]]
        /\ indicators' = indicators \ streaming
        /\ UNCHANGED nodes

\* Mutant: the shell is not told.
StopSilently(closed) ==
    /\ streams' = [s \in Sessions |-> IF s \in closed THEN None ELSE streams[s]]
    /\ nodes' = [s \in Sessions |-> IF s \in closed THEN "none" ELSE nodes[s]]
    /\ UNCHANGED indicators

\* stop_capture_side
StopCapture(closed) ==
    LET streaming == {s \in closed : streams[s] # None}
    IN  /\ streams' = [s \in Sessions |-> IF s \in streaming THEN None ELSE streams[s]]
        /\ nodes' = [s \in Sessions |-> IF s \in streaming THEN "none" ELSE nodes[s]]
        /\ indicators' = indicators \ streaming

Forget(closed, hs) ==
    /\ sessions' = [s \in Sessions |-> IF s \in closed THEN None ELSE sessions[s]]
    /\ requests' = [h \in Handles |-> IF h \in hs THEN None ELSE requests[h]]

\* close_shared_session, of each of the sessions.  A consent still open is
\* dropped with its request: it is neither answered nor dismissed.
CloseShared(closed) ==
    /\ Forget(closed, RequestsOf(closed))
    /\ awaiting' = awaiting \ Pending(closed)
    /\ exported' = exported \ (closed \cup RequestsOf(closed))
    /\ StopCapture(closed)
    /\ UNCHANGED <<frontend, restores, tokens, picker>>

\* mint_restore_token, if the session asked for one: beyond the limit any of the
\* grants is dropped, the new one included.
Minted(wants, source, token) ==
    LET all == restores \cup {[token |-> token, owner |-> frontend, source |-> source]}
    IN  IF ~wants.persist THEN {restores}
        ELSE IF Cardinality(all) <= RestoreLimit THEN {all}
        ELSE {kept \in SUBSET all : Cardinality(kept) = RestoreLimit}

\* handle_consent_decision once the consent of call h was found: resolve_consent
\* gives the session the reply link, and begin_shared_stream starts its stream.
Grant(h, s, wants, source, token) ==
    /\ sessions' = [sessions EXCEPT ![s] = [state |-> "Starting", wants |-> wants, pending |-> h]]
    /\ requests' = [requests EXCEPT ![h] = None]
    /\ restores' \in Minted(wants, source, token)
    /\ streams' = [streams EXCEPT ![s] = [source |-> source, owner |-> frontend]]
    /\ nodes' = [nodes EXCEPT ![s] = IF @ = "none" THEN "connecting" ELSE @]
    /\ UNCHANGED indicators

\* The same, when the source cannot be resolved or PipeWire is not there.
GrantFails(h, s, wants, source, token) ==
    /\ Forget({s}, RequestsOf({s}) \cup {h})
    /\ restores' \in Minted(wants, source, token)
    /\ StopCapture({s})

----------------------------------------------------------------------------
(* The calls of the frontend; any other caller is answered "failed" *)

Authorized == frontend # None

CreateSession(s) ==
    /\ Authorized
    /\ sessions[s] = None
    /\ sessions' = [sessions EXCEPT ![s] = [state |-> "Created", wants |-> None, pending |-> None]]
    /\ exported' = exported \cup {s}
    /\ UNCHANGED <<frontend, requests, restores, tokens, streamVars, events, live, awaiting,
                   picker, answers>>

\* The grants a client may present.  A token dropped since restores nothing and is
\* left out; that a client learns of its grant with the answer of its Start is not
\* required here.
Presented == restores \cup {None}

SelectSources(h, s, demand, grant) ==
    /\ Authorized
    /\ h \notin Held
    /\ sessions[s] # None
    /\ sessions[s].state \in {"Created", "Configured"}
    /\ sessions' = [sessions EXCEPT
            ![s].state = "Configured",
            ![s].wants = [types |-> demand.types, persist |-> demand.persist, grant |-> grant]]
    /\ IF requests[h] # None THEN UNCHANGED <<requests, exported>>
       ELSE /\ requests' = [requests EXCEPT ![h] =
                    [session |-> s, cancelled |-> FALSE, consent |-> None]]
            /\ exported' = exported \cup {h}
    /\ UNCHANGED <<frontend, restores, tokens, streamVars, events, live, awaiting, picker, answers>>

\* The constraints a Start leaves behind: a key it omits falls back to what
\* SelectSources stored, and to the defaults of the parser without that.
Merged(s, demand, grant) ==
    LET stored == sessions[s].wants
        given  == IF demand = None THEN [types |-> {"monitor"}, persist |-> FALSE] ELSE demand
    IN  IF stored = None
        THEN [types |-> given.types, persist |-> given.persist, grant |-> grant]
        ELSE [types   |-> IF demand = None THEN stored.types ELSE given.types,
              persist |-> given.persist \/ stored.persist,
              grant   |-> IF grant = None THEN stored.grant ELSE grant]

\* Mutant: a session that is shared already may be asked for again.
StartableAgain(h, s) ==
    /\ requests[h] # None => ~requests[h].cancelled
    /\ sessions[s].state \in {"Created", "Configured", "Active"}

Startable(h, s) ==
    /\ requests[h] # None => ~requests[h].cancelled
    /\ sessions[s].state \in {"Created", "Configured"}

\* Start, up to the picker: the call h waits, under a new consent token.
Start(h, s) ==
    /\ Authorized
    /\ h \notin Held
    /\ sessions[s] # None
    /\ Startable(h, s)
    /\ tokens < MaxTokens
    /\ tokens' = tokens + 1
    /\ UNCHANGED <<frontend, events, live, answers>>

WithConsent(h, s) ==
    [requests EXCEPT ![h] =
        IF @ = None THEN [session |-> s, cancelled |-> FALSE, consent |-> tokens + 1]
                    ELSE [@ EXCEPT !.consent = tokens + 1]]

Chooses(h, s, wants) ==
    /\ sessions' = [sessions EXCEPT ![s].state = "Choosing", ![s].wants = wants]
    /\ requests' = WithConsent(h, s)

\* A picker, or a restored approval, finds the consent only under its session.
Finds(h, s) == requests[h] # None => requests[h].session = s

\* restore_source, of the kinds asked for, as long as the source is alive
Restored(wants) ==
    /\ wants.grant \in restores
    /\ wants.grant.owner = frontend
    /\ Kind(wants.grant.source) \in wants.types
    /\ wants.grant.source \in live

Offered(wants) == {source \in live : Kind(source) \in wants.types}

StartPrompts(h, s, wants) ==
    /\ Start(h, s)
    /\ ~Restored(wants)
    /\ Offered(wants) # {}
    /\ Chooses(h, s, wants)
    /\ awaiting' = awaiting \cup {h}
    /\ exported' = exported \cup (IF requests[h] = None THEN {h} ELSE {})
    /\ picker' = [session |-> s, token |-> tokens + 1, offered |-> Offered(wants)]
    /\ UNCHANGED <<restores, streamVars>>

\* The approval is applied before the object actions of the call are sent: the
\* Request object is removed first and served then.
StartRestored(h, s, wants) ==
    /\ Start(h, s)
    /\ Restored(wants)
    /\ exported' = IF requests[h] = None THEN exported \cup {h}
                   ELSE IF Finds(h, s) THEN exported \ {h} ELSE exported
    /\ awaiting' = awaiting \cup {h}
    /\ IF Finds(h, s) THEN Grant(h, s, wants, wants.grant.source, tokens + 1)
       ELSE Chooses(h, s, wants) /\ UNCHANGED <<restores, streamVars>>
    /\ UNCHANGED picker

StartRestoredFails(h, s, wants) ==
    /\ Start(h, s)
    /\ Restored(wants)
    /\ Finds(h, s)
    /\ GrantFails(h, s, wants, wants.grant.source, tokens + 1)
    /\ exported' = (exported \ ({s} \cup RequestsOf({s})))
                       \cup (IF requests[h] = None THEN {h} ELSE {})
    /\ UNCHANGED <<awaiting, picker>>

\* Nothing to offer: resolve_consent_no_picker rolls back an open consent of the
\* session, usually the one of this call, and answers it failed.
StartOffersNothing(h, s, wants) ==
    LET open == Consenting(RequestsOf({s})) \cup (IF Finds(h, s) THEN {h} ELSE {})
    IN  /\ Start(h, s)
        /\ ~Restored(wants)
        /\ Offered(wants) = {}
        /\ \/ /\ open = {}
              /\ Chooses(h, s, wants)
              /\ awaiting' = awaiting \cup {h}
              /\ UNCHANGED exported
           \/ \E found \in open :
                /\ sessions' = [sessions EXCEPT ![s] = None]
                /\ requests' = [WithConsent(h, s) EXCEPT ![found] = None]
                /\ awaiting' = (awaiting \cup {h}) \ {found}
                /\ exported' = (exported \ {s, found})
                                   \cup (IF requests[h] = None THEN {h} ELSE {})
        /\ UNCHANGED <<restores, streamVars, picker>>

\* A Start whose request was closed before it came is answered cancelled.
StartCancelled(h) ==
    /\ Authorized
    /\ h \notin Held
    /\ requests[h] # None
    /\ requests[h].cancelled
    /\ requests' = [requests EXCEPT ![h] = None]
    /\ exported' = exported \ {h}
    /\ UNCHANGED <<frontend, sessions, restores, tokens, streamVars, events, live, awaiting,
                   picker, answers>>

\* RequestClose of a request: it stays in the ledger, cancelled.
RequestCloses(h) ==
    /\ Authorized
    /\ requests[h] # None
    /\ requests' = [requests EXCEPT ![h].cancelled = TRUE, ![h].consent = None]
    /\ awaiting' = awaiting \ Consenting({h})
    /\ Dismiss({requests[h].consent})
    /\ UNCHANGED <<frontend, sessions, restores, tokens, streamVars, events, live, exported, answers>>

\* RequestClose of a session
SessionCloses(s) ==
    /\ Authorized
    /\ sessions[s] # None
    /\ Forget({s}, RequestsOf({s}))
    /\ awaiting' = awaiting \ (Pending({s}) \cup Consenting(RequestsOf({s})))
    /\ Dismiss({requests[h].consent : h \in RequestsOf({s})})
    /\ exported' = exported \ ({s} \cup RequestsOf({s}))
    /\ StopCapture({s})
    /\ UNCHANGED <<frontend, restores, tokens, events, live, answers>>

\* frontend_owner_changed, and stop_capture_side for each session it closed
FrontendOwnerChanged(owner) ==
    /\ frontend' = owner
    /\ restores' = {}
    /\ IF owner = frontend /\ owner # None
       THEN UNCHANGED <<sessions, requests, streamVars, busVars, picker>>
       ELSE LET held == {h \in Handles : requests[h] # None}
            IN  /\ Forget(Open, held)
                /\ awaiting' = awaiting \ (Pending(Open) \cup Consenting(held))
                /\ Dismiss({requests[h].consent : h \in held})
                /\ exported' = exported \ (Open \cup held)
                /\ StopCapture(Open)
    /\ UNCHANGED <<tokens, events, live, answers>>

----------------------------------------------------------------------------
(* The shell: a picker, replaced by the next one, and the stop button of   *)
(* each indicator.  What it sends arrives in order, and later.             *)

Sends(answer) ==
    /\ Len(answers) < MaxUnderWay
    /\ answers' = Append(answers, answer)
    /\ UNCHANGED <<ledgerVars, streamVars, events, live, busVars>>

ShellApproves(source) ==
    /\ picker # None
    /\ source \in picker.offered
    /\ Sends([kind |-> "Approved", session |-> picker.session, token |-> picker.token,
              source |-> source])
    /\ picker' = None

ShellCancels ==
    /\ picker # None
    /\ Sends([kind |-> "Cancelled", session |-> picker.session, token |-> picker.token])
    /\ picker' = None

ShellStops(s) ==
    /\ s \in indicators
    /\ Sends([kind |-> "Stop", session |-> s])
    /\ UNCHANGED picker

Answer(kind) ==
    /\ answers # <<>>
    /\ Head(answers).kind = kind
    /\ answers' = Tail(answers)
    /\ UNCHANGED <<events, live>>

Shareable(s, source) ==
    /\ source \in live
    /\ sessions[s] # None
    /\ sessions[s].wants # None
    /\ Kind(source) \in sessions[s].wants.types

\* Mutant: the token of the decision is not compared.
MatchingSession(answer) == Consenting(RequestsOf({answer.session}))

\* The request whose consent a decision is about
Matching(answer) ==
    {h \in RequestsOf({answer.session}) : requests[h].consent = answer.token}

\* handle_consent_decision: a source that is not shareable (any more) closes the
\* session the answer names, whatever its token.
ApprovalRefused ==
    /\ Answer("Approved")
    /\ ~Shareable(Head(answers).session, Head(answers).source)
    /\ CloseShared({Head(answers).session})

ApprovalGrants ==
    LET answer == Head(answers)
        s == answer.session
    IN  /\ Answer("Approved")
        /\ Shareable(s, answer.source)
        /\ \E h \in Matching(answer) :
            /\ \/ /\ Grant(h, s, sessions[s].wants, answer.source, answer.token)
                  /\ exported' = exported \ {h}
                  /\ UNCHANGED awaiting
               \/ /\ GrantFails(h, s, sessions[s].wants, answer.source, answer.token)
                  /\ exported' = exported \ ({s} \cup RequestsOf({s}))
                  /\ awaiting' = awaiting \ {h}
        /\ Dismiss({answer.token})
        /\ UNCHANGED <<frontend, tokens>>

\* Mutant: the request keeps the reply link that was answered.
CancelKeepsLink ==
    LET answer == Head(answers)
        s == answer.session
    IN  /\ Answer("Cancelled")
        /\ \E h \in Matching(answer) : Forget({s}, {}) /\ awaiting' = awaiting \ {h}
        /\ exported' = exported \ {s}
        /\ Dismiss({answer.token})
        /\ UNCHANGED <<frontend, restores, tokens, streamVars>>

\* resolve_consent, of a picker cancelled
CancelApplies ==
    LET answer == Head(answers)
        s == answer.session
    IN  /\ Answer("Cancelled")
        /\ \E h \in Matching(answer) :
            /\ Forget({s}, {h})
            /\ awaiting' = awaiting \ {h}
            /\ exported' = exported \ {h, s}
        /\ Dismiss({answer.token})
        /\ UNCHANGED <<frontend, restores, tokens, streamVars>>

\* A decision whose token matches no open consent
AnswerIgnored ==
    /\ \/ /\ Answer("Approved")
          /\ Shareable(Head(answers).session, Head(answers).source)
       \/ Answer("Cancelled")
    /\ Matching(Head(answers)) = {}
    /\ UNCHANGED <<ledgerVars, streamVars, busVars, picker>>

\* screen_cast_stop
Stops ==
    /\ Answer("Stop")
    /\ CloseShared({Head(answers).session})

----------------------------------------------------------------------------
(* The producer, whose events the compositor loop handles in order *)

Reports(event) ==
    /\ Len(events) < MaxUnderWay
    /\ events' = Append(events, event)
    /\ UNCHANGED <<ledgerVars, streams, indicators, live, busVars, picker, answers>>

\* The stream is paused for the first time: its node is bound.
NodeBinds(s) ==
    /\ nodes[s] = "connecting"
    /\ nodes' = [nodes EXCEPT ![s] = "bound"]
    /\ Reports([kind |-> "NodeReady", session |-> s])

StreamErrors(s) ==
    /\ nodes[s] # "none"
    /\ \/ nodes' = nodes
       \/ nodes[s] = "connecting" /\ nodes' = [nodes EXCEPT ![s] = "none"]
    /\ Reports([kind |-> "Fatal", session |-> s])

\* The connection broke: reported once, for the path of the backend itself.
CoreFails ==
    /\ \E s \in Sessions : nodes[s] # "none"
    /\ nodes' = nodes
    /\ Reports([kind |-> "Fatal", session |-> None])

Event(kind) ==
    /\ events # <<>>
    /\ Head(events).kind = kind
    /\ events' = Tail(events)
    /\ UNCHANGED <<live, answers>>

NodeReady ==
    LET s == Head(events).session
        started == sessions[s] # None /\ sessions[s].state = "Starting"
    IN  /\ Event("NodeReady")
        /\ IF streams[s] # None /\ started
           THEN /\ sessions' = [sessions EXCEPT ![s].state = "Active", ![s].pending = None]
                /\ awaiting' = awaiting \ {sessions[s].pending}
                /\ indicators' = indicators \cup {s}
           ELSE UNCHANGED <<sessions, awaiting, indicators>>
        /\ streams' = IF sessions[s] = None THEN [streams EXCEPT ![s] = None] ELSE streams
        /\ UNCHANGED <<frontend, requests, restores, tokens, nodes, exported, picker>>

StreamFatal ==
    /\ Event("Fatal")
    /\ Head(events).session # None
    /\ CloseShared({Head(events).session})

\* close_shared_session for the backend's path, which is no session's: its
\* capture side stops every stream, the ledger keeps its sessions.
CoreFatal ==
    /\ Event("Fatal")
    /\ Head(events).session = None
    /\ StopCapture(Sessions)
    /\ UNCHANGED <<ledgerVars, busVars, picker>>

----------------------------------------------------------------------------
(* The sources *)

\* An output or a window is mapped.
SourceAppears(source) ==
    /\ source \notin live
    /\ live' = live \cup {source}
    /\ UNCHANGED <<ledgerVars, streamVars, events, busVars, picker, answers>>

\* Mutant: the shares of a window that is gone go on.
WindowForgotten(w) ==
    /\ w \in live
    /\ live' = live \ {w}
    /\ UNCHANGED <<ledgerVars, streamVars, events, busVars, picker, answers>>

\* A window is unmapped or closed: close_source_share_sessions
WindowVanishes(w) ==
    /\ w \in live
    /\ live' = live \ {w}
    /\ CloseShared({s \in Sessions : streams[s] # None /\ streams[s].source = w})
    /\ UNCHANGED <<events, answers>>

MonitorVanishes(m) ==
    /\ m \in live
    /\ live' = live \ {m}
    /\ UNCHANGED <<ledgerVars, streamVars, events, busVars, picker, answers>>

\* deliver_window_frame: the window has another size, or could not be rendered.
FrameFails(s) ==
    /\ streams[s] # None
    /\ streams[s].source \in Windows
    /\ CloseShared({s})
    /\ UNCHANGED <<events, live, answers>>

----------------------------------------------------------------------------

Calls ==
    \/ \E s \in Sessions : CreateSession(s) \/ SessionCloses(s)
    \/ \E h \in Handles : RequestCloses(h) \/ StartCancelled(h)
    \/ \E h \in Handles, s \in Sessions, grant \in Presented :
        \/ \E demand \in Demands : SelectSources(h, s, demand, grant)
        \/ \E demand \in Demands \cup {None} :
            /\ sessions[s] # None
            /\ LET wants == Merged(s, demand, grant)
               IN  \/ StartPrompts(h, s, wants)
                   \/ StartRestored(h, s, wants)
                   \/ StartRestoredFails(h, s, wants)
                   \/ StartOffersNothing(h, s, wants)
    \/ \E owner \in Frontends \cup {None} : FrontendOwnerChanged(owner)

Shell ==
    \/ \E source \in Sources : ShellApproves(source)
    \/ ShellCancels
    \/ \E s \in Sessions : ShellStops(s)
    \/ ApprovalRefused \/ ApprovalGrants \/ CancelApplies \/ AnswerIgnored \/ Stops

Producer ==
    \/ \E s \in Sessions : NodeBinds(s) \/ StreamErrors(s) \/ FrameFails(s)
    \/ CoreFails \/ NodeReady \/ StreamFatal \/ CoreFatal

World ==
    \/ \E source \in Sources : SourceAppears(source)
    \/ \E w \in Windows : WindowVanishes(w)
    \/ \E m \in Monitors : MonitorVanishes(m)

CastNext == Calls \/ Shell \/ Producer \/ World

CastSpec == CastInit /\ [][CastNext]_castVars

----------------------------------------------------------------------------
(* Properties *)

\* Type invariant: the ledger, the streams and the queues hold what their Rust
\* types allow.
CastTypes ==
    /\ frontend \in Frontends \cup {None}
    /\ sessions \in [Sessions -> SessionRecords \cup {None}]
    /\ requests \in [Handles -> RequestRecords \cup {None}]
    /\ restores \in SUBSET Grants /\ tokens \in 0 .. MaxTokens
    /\ streams \in [Sessions -> StreamRecords \cup {None}]
    /\ nodes \in [Sessions -> {"none", "connecting", "bound"}]
    /\ indicators \in SUBSET Sessions /\ live \in SUBSET Sources
    /\ exported \in SUBSET (Sessions \cup Handles) /\ awaiting \in SUBSET Handles
    /\ picker \in Pickers \cup {None} /\ answers \in Seq(Answers) /\ events \in Seq(Events)

\* No reply is sent twice: whoever holds the reply link of a Start, a request in
\* the picker or a session that starts, holds it alone, and no other path (a close,
\* a failure, the node) has answered it before; a request that was closed holds
\* none, as long as the ledger remembers it.
AnsweredOnce ==
    /\ Held \subseteq awaiting
    /\ Consenting(Handles) \cap Pending(Sessions) = {}
    /\ \A s, t \in Open :
        sessions[s].pending # None /\ sessions[s].pending = sessions[t].pending => s = t
    /\ \A h \in Handles : requests[h] # None /\ requests[h].cancelled => h \notin Held

\* What is streamed was asked for by the frontend that is there now, in a session
\* that is still open and past its consent, is of a kind that session asked for,
\* and if it is a window, the window is there.
SharedAsApproved ==
    \A s \in Sessions : streams[s] # None =>
        /\ streams[s].owner = frontend
        /\ sessions[s] # None
        /\ sessions[s].state \in {"Starting", "Active"}
        /\ Kind(streams[s].source) \in sessions[s].wants.types
        /\ streams[s].source \in Monitors \cup live

\* A session leaves nothing behind and is never half gone, whatever closed it and
\* in whatever order the producer's events came: no PipeWire node outlives the
\* record of its stream, which could not be stopped then, a session is served on
\* the bus as long as it is open and no longer, and every request of the ledger can
\* be closed by its object; and the shell shows the indicator, with its stop button,
\* of exactly the sessions whose Start was answered with a node still streamed.
NothingLeftBehind ==
    /\ \A s \in Sessions : nodes[s] # "none" => streams[s] # None
    /\ exported \cap Sessions = Open
    /\ \A h \in Handles : requests[h] # None => h \in exported
    /\ indicators = {s \in Open : sessions[s].state = "Active" /\ streams[s] # None}

\* As long as the user is asked, nothing is shared in that session: a decision
\* about an earlier consent, on its way when the session was closed and asked anew
\* under the same path, does not count for the new one.
NotSharedWhileAsked ==
    [][ \A h \in RequestsOf({p.session : p \in {picker} \ {None}}) :
          requests[h].consent = picker.token /\ picker' = picker
          => streams'[picker.session] = None ]_castVars

\* The screen is shared as the user approved it: what was asked for, in a session
\* past its consent, and not while the question is still open.
OnlyApprovedShared == []SharedAsApproved /\ NotSharedWhileAsked

\* The life of a session as its clients see it (CastLifecycle): one phase after the
\* other, nothing streamed before it was granted or after it was closed.
Lifecycle == INSTANCE CastLifecycle WITH
    phase   <- [s \in Sessions |-> IF sessions[s] = None THEN "Closed" ELSE sessions[s].state],
    sharing <- {s \in Sessions : streams[s] # None}

\* Every step is a step of that life, or none.
FollowsLifecycle == Lifecycle!LifecycleSpec

=============================================================================
