-------------------------- MODULE PortalCastProofs --------------------------
(***************************************************************************)
(* Proofs about PortalCast, for any number of sessions, handles, sources,  *)
(* frontends, tokens, and messages under way.                              *)
(***************************************************************************)
EXTENDS PortalCast, TLAPS

----------------------------------------------------------------------------
(* Types *)

\* Who has a session open is there.
TypeInv == CastTypes /\ (Open # {} => frontend # None)

\* What stop_capture_side, and forgetting sessions and requests, leave has its type.
LEMMA StopTypes ==
    ASSUME CastTypes, NEW closed, StopCapture(closed)
    PROVE  /\ streams' \in [Sessions -> StreamRecords \cup {None}]
           /\ nodes' \in [Sessions -> {"none", "connecting", "bound"}]
           /\ indicators' \in SUBSET Sessions
BY DEF CastTypes, StopCapture

\* The ledger after sessions and requests were dropped.
LEMMA ForgetTypes ==
    ASSUME CastTypes, NEW closed, NEW hs, Forget(closed, hs)
    PROVE  /\ sessions' \in [Sessions -> SessionRecords \cup {None}]
           /\ requests' \in [Handles -> RequestRecords \cup {None}]
           /\ \A s \in Sessions : sessions'[s] # None => sessions[s] # None
BY DEF CastTypes, Forget

\* mint_restore_token keeps restore grants.
LEMMA MintedTypes ==
    ASSUME CastTypes, frontend # None, NEW wants, NEW source \in Sources,
           NEW token \in TokensMinted, restores' \in Minted(wants, source, token)
    PROVE  restores' \in SUBSET Grants
<1> DEFINE new == [token |-> token, owner |-> frontend, source |-> source]
<1>1. new \in Grants
  BY DEF CastTypes, Grants
<1>2. restores \cup {new} \in SUBSET Grants
  BY <1>1 DEF CastTypes
<1>3. restores' \in SUBSET (restores \cup {new})
  BY DEF Minted
<1>4. QED
  BY <1>2, <1>3

\* begin_shared_stream, either way.
LEMMA GrantTypes ==
    ASSUME CastTypes, frontend # None, NEW h \in Handles, NEW s \in Sessions,
           NEW wants \in Wants, NEW source \in Sources, NEW token \in TokensMinted,
           Grant(h, s, wants, source, token)
    PROVE  /\ sessions' \in [Sessions -> SessionRecords \cup {None}]
           /\ requests' \in [Handles -> RequestRecords \cup {None}]
           /\ restores' \in SUBSET Grants
           /\ streams' \in [Sessions -> StreamRecords \cup {None}]
           /\ nodes' \in [Sessions -> {"none", "connecting", "bound"}]
           /\ indicators' \in SUBSET Sessions
<1>1. [state |-> "Starting", wants |-> wants, pending |-> h] \in SessionRecords
  BY DEF SessionRecords, States
<1>2. [source |-> source, owner |-> frontend] \in StreamRecords
  BY DEF StreamRecords, CastTypes
<1>3. restores' \in SUBSET Grants
  BY MintedTypes DEF Grant
<1>4. QED
  BY <1>1, <1>2, <1>3 DEF CastTypes, Grant

\* What a client asks for is well formed, however Start and SelectSources share it.
LEMMA WantsTypes ==
    ASSUME CastTypes, NEW s \in Sessions, sessions[s] # None,
           NEW grant \in Presented, NEW demand \in Demands \cup {None}
    PROVE  Merged(s, demand, grant) \in Wants
<1>1. grant \in Grants \cup {None}
  BY DEF Presented, CastTypes
<1>2. demand # None => demand.types \in SUBSET Kinds /\ demand.persist \in BOOLEAN
  BY DemandsAssumption DEF Demandable
<1>3. sessions[s].wants \in Wants \cup {None}
  BY DEF CastTypes, SessionRecords
<1>4. {"monitor"} \in SUBSET Kinds
  BY DEF Kinds
<1>5. CASE sessions[s].wants = None
  BY <1>1, <1>2, <1>4, <1>5 DEF Merged, Wants
<1>6. CASE sessions[s].wants # None
  <2> DEFINE stored == sessions[s].wants
             given == IF demand = None THEN [types |-> {"monitor"}, persist |-> FALSE] ELSE demand
  <2>1. stored.types \in SUBSET Kinds /\ stored.persist \in BOOLEAN /\ stored.grant \in Grants \cup {None}
    BY <1>3, <1>6 DEF Wants
  <2>2. given.types \in SUBSET Kinds /\ given.persist \in BOOLEAN
    BY <1>2, <1>4
  <2>3. given.persist \/ stored.persist \in BOOLEAN
    BY <2>1, <2>2
  <2>4. QED
    BY <1>1, <1>2, <1>6, <2>1, <2>2, <2>3 DEF Merged, Wants
<1>7. QED
  BY <1>5, <1>6

\* close_shared_session keeps the types.
LEMMA CloseTypes ==
    ASSUME TypeInv, NEW closed, CloseShared(closed),
           live' \in SUBSET Sources, events' \in Seq(Events), answers' \in Seq(Answers)
    PROVE  TypeInv'
<1>1. Forget(closed, RequestsOf(closed)) /\ StopCapture(closed)
  BY DEF CloseShared
<1>2. awaiting' \in SUBSET Handles /\ exported' \in SUBSET (Sessions \cup Handles)
  BY DEF CloseShared, TypeInv, CastTypes
<1>3. QED
  BY <1>1, <1>2, ForgetTypes, StopTypes DEF CloseShared, TypeInv, CastTypes, Open

\* The head of a queue is what its type allows.
LEMMA AnswerTypes ==
    ASSUME CastTypes, answers # <<>>
    PROVE  /\ Head(answers) \in Answers /\ Tail(answers) \in Seq(Answers)
           /\ Head(answers).session \in Sessions
           /\ Head(answers).kind # "Stop" => Head(answers).token \in TokensMinted
           /\ Head(answers).kind = "Approved" => Head(answers).source \in Sources
<1>1. Head(answers) \in Answers /\ Tail(answers) \in Seq(Answers)
  BY DEF CastTypes
<1>2. QED
  BY <1>1 DEF Answers

\* The next event is one of the kinds.
LEMMA EventTypes ==
    ASSUME CastTypes, events # <<>>
    PROVE  /\ Head(events) \in Events /\ Tail(events) \in Seq(Events)
           /\ Head(events).kind = "NodeReady" => Head(events).session \in Sessions
           /\ Head(events).session \in Sessions \cup {None}
<1>1. Head(events) \in Events /\ Tail(events) \in Seq(Events)
  BY DEF CastTypes
<1>2. QED
  BY <1>1 DEF Events

\* A session is created, and configured.
LEMMA CreateTypes ==
    ASSUME TypeInv, NEW s \in Sessions, CreateSession(s) PROVE TypeInv'
<1>1. [state |-> "Created", wants |-> None, pending |-> None] \in SessionRecords
  BY DEF SessionRecords, States
<1>2. QED
  BY <1>1 DEF CreateSession, TypeInv, CastTypes, Authorized, streamVars

\* SelectSources keeps the types.
LEMMA SelectTypes ==
    ASSUME TypeInv, NEW h \in Handles, NEW s \in Sessions, NEW demand \in Demands,
           NEW grant \in Presented, SelectSources(h, s, demand, grant)
    PROVE  TypeInv'
<1>1. sessions[s] \in SessionRecords
  BY DEF SelectSources, TypeInv, CastTypes
<1> DEFINE wants == [types |-> demand.types, persist |-> demand.persist, grant |-> grant]
<1>2. wants \in Wants
  BY DemandsAssumption DEF Demandable, Presented, TypeInv, CastTypes, Wants
<1>3. sessions' = [sessions EXCEPT ![s] = [@ EXCEPT !.state = "Configured", !.wants = wants]]
  BY <1>1 DEF SelectSources, SessionRecords, TypeInv, CastTypes
<1>4. [sessions[s] EXCEPT !.state = "Configured", !.wants = wants] \in SessionRecords
  BY <1>1, <1>2 DEF SessionRecords, States
<1>5. sessions' \in [Sessions -> SessionRecords \cup {None}]
  BY <1>3, <1>4 DEF TypeInv, CastTypes
<1>6. [session |-> s, cancelled |-> FALSE, consent |-> None] \in RequestRecords
  BY DEF RequestRecords
<1>7. requests' \in [Handles -> RequestRecords \cup {None}] /\ exported' \in SUBSET (Sessions \cup Handles)
  BY <1>6 DEF SelectSources, TypeInv, CastTypes
<1>8. QED
  BY <1>5, <1>7 DEF SelectSources, TypeInv, CastTypes, Authorized, streamVars

\* Every end of a Start.
Starts(h, s, wants) ==
    \/ StartPrompts(h, s, wants) \/ StartRestored(h, s, wants)
    \/ StartRestoredFails(h, s, wants) \/ StartOffersNothing(h, s, wants)

\* Start keeps the types, whichever way it goes.
LEMMA StartTypes ==
    ASSUME TypeInv, NEW h \in Handles, NEW s \in Sessions, sessions[s] # None,
           NEW demand \in Demands \cup {None}, NEW grant \in Presented,
           NEW wants, wants = Merged(s, demand, grant), Starts(h, s, wants)
    PROVE  TypeInv'
<1>1. wants \in Wants
  BY WantsTypes DEF TypeInv
<1>2. Start(h, s)
  BY DEF Starts, StartPrompts, StartRestored, StartRestoredFails, StartOffersNothing
<1>3. frontend # None /\ frontend' = frontend /\ tokens' \in 0 .. MaxTokens /\ tokens + 1 \in TokensMinted
  BY <1>2, BoundsAssumption DEF Start, Authorized, TypeInv, CastTypes, TokensMinted
<1>4. UNCHANGED <<events, live, answers>>
  BY <1>2 DEF Start
<1>5. WithConsent(h, s) \in [Handles -> RequestRecords \cup {None}]
  <2>1. [session |-> s, cancelled |-> FALSE, consent |-> tokens + 1] \in RequestRecords
    BY <1>3 DEF RequestRecords
  <2>2. requests[h] # None => [requests[h] EXCEPT !.consent = tokens + 1] \in RequestRecords
    BY <1>3 DEF RequestRecords, TypeInv, CastTypes
  <2>3. QED
    BY <2>1, <2>2 DEF WithConsent, TypeInv, CastTypes
<1>6. ASSUME Chooses(h, s, wants)
      PROVE  sessions' \in [Sessions -> SessionRecords \cup {None}] /\ requests' \in [Handles -> RequestRecords \cup {None}]
  <2>1. sessions[s] \in SessionRecords
    BY DEF TypeInv, CastTypes
  <2>2. sessions' = [sessions EXCEPT ![s] = [@ EXCEPT !.state = "Choosing", !.wants = wants]]
    BY <1>6, <2>1 DEF Chooses, SessionRecords, TypeInv, CastTypes
  <2>3. [sessions[s] EXCEPT !.state = "Choosing", !.wants = wants] \in SessionRecords
    BY <1>1, <2>1 DEF SessionRecords, States
  <2>4. QED
    BY <1>5, <1>6, <2>2, <2>3 DEF Chooses, TypeInv, CastTypes
<1>7. CASE StartPrompts(h, s, wants)
  <2>1. [session |-> s, token |-> tokens + 1, offered |-> Offered(wants)] \in Pickers
    BY <1>3 DEF Pickers, Offered, TypeInv, CastTypes
  <2>2. Chooses(h, s, wants)
    BY <1>7 DEF StartPrompts
  <2>3. QED
    BY <1>3, <1>4, <1>6, <1>7, <2>1, <2>2 DEF StartPrompts, streamVars, TypeInv, CastTypes
<1>8. CASE StartRestored(h, s, wants)
  <2>1. exported' \in SUBSET (Sessions \cup Handles) /\ awaiting' \in SUBSET Handles /\ picker' = picker
    BY <1>8 DEF StartRestored, TypeInv, CastTypes
  <2>2. CASE Finds(h, s)
    <3>1. wants.grant.source \in Sources
      BY <1>8 DEF StartRestored, Restored, TypeInv, CastTypes
    <3>2. Grant(h, s, wants, wants.grant.source, tokens + 1)
      BY <1>8, <2>2 DEF StartRestored
    <3>3. QED
      BY <1>1, <1>3, <1>4, <2>1, <3>1, <3>2, GrantTypes DEF TypeInv, CastTypes
  <2>3. CASE ~Finds(h, s)
    <3>1. Chooses(h, s, wants) /\ UNCHANGED <<restores, streamVars>>
      BY <1>8, <2>3 DEF StartRestored
    <3>2. QED
      BY <1>3, <1>4, <1>6, <2>1, <3>1 DEF streamVars, TypeInv, CastTypes
  <2>4. QED
    BY <2>2, <2>3
<1>9. CASE StartRestoredFails(h, s, wants)
  <2>1. wants.grant.source \in Sources
    BY <1>9 DEF StartRestoredFails, Restored, TypeInv, CastTypes
  <2>2. Forget({s}, RequestsOf({s}) \cup {h}) /\ StopCapture({s}) /\ restores' \in Minted(wants, wants.grant.source, tokens + 1)
    BY <1>9 DEF StartRestoredFails, GrantFails
  <2>3. restores' \in SUBSET Grants
    BY <1>3, <2>1, <2>2, MintedTypes DEF TypeInv
  <2>4. exported' \in SUBSET (Sessions \cup Handles) /\ awaiting' = awaiting /\ picker' = picker
    BY <1>9 DEF StartRestoredFails, TypeInv, CastTypes
  <2>5. QED
    BY <1>3, <1>4, <2>2, <2>3, <2>4, ForgetTypes, StopTypes DEF TypeInv, CastTypes
<1>10. CASE StartOffersNothing(h, s, wants)
  <2>1. restores' = restores /\ UNCHANGED streamVars /\ picker' = picker
    BY <1>10 DEF StartOffersNothing
  <2>2. CASE Chooses(h, s, wants) /\ awaiting' = awaiting \cup {h} /\ UNCHANGED exported
    BY <1>3, <1>4, <1>6, <2>1, <2>2 DEF streamVars, TypeInv, CastTypes
  <2>3. ASSUME NEW found,
               sessions' = [sessions EXCEPT ![s] = None],
               requests' = [WithConsent(h, s) EXCEPT ![found] = None],
               awaiting' = (awaiting \cup {h}) \ {found},
               exported' = (exported \ {s, found}) \cup (IF requests[h] = None THEN {h} ELSE {})
        PROVE  TypeInv'
    BY <1>3, <1>4, <1>5, <2>1, <2>3 DEF streamVars, TypeInv, CastTypes
  <2>4. QED
    BY <1>10, <2>2, <2>3 DEF StartOffersNothing
<1>11. QED
  BY <1>7, <1>8, <1>9, <1>10 DEF Starts

\* The calls that close, and the change of the frontend.
LEMMA EndTypes ==
    ASSUME TypeInv,
           \/ \E s \in Sessions : SessionCloses(s)
           \/ \E h \in Handles : RequestCloses(h) \/ StartCancelled(h)
           \/ \E owner \in Frontends \cup {None} : FrontendOwnerChanged(owner)
    PROVE  TypeInv'
<1>1. ASSUME NEW s \in Sessions, SessionCloses(s) PROVE TypeInv'
  <2>1. Forget({s}, RequestsOf({s})) /\ StopCapture({s})
    BY <1>1 DEF SessionCloses
  <2>2. QED
    BY <1>1, <2>1, ForgetTypes, StopTypes DEF SessionCloses, Dismiss, TypeInv, CastTypes, Open
<1>2. ASSUME NEW h \in Handles, RequestCloses(h) PROVE TypeInv'
  <2>1. requests[h] \in RequestRecords
    BY <1>2 DEF RequestCloses, TypeInv, CastTypes
  <2>2. requests' = [requests EXCEPT ![h] = [@ EXCEPT !.cancelled = TRUE, !.consent = None]]
    BY <1>2, <2>1 DEF RequestCloses, RequestRecords, TypeInv, CastTypes
  <2>3. [requests[h] EXCEPT !.cancelled = TRUE, !.consent = None] \in RequestRecords
    BY <2>1 DEF RequestRecords
  <2>4. requests' \in [Handles -> RequestRecords \cup {None}]
    BY <2>2, <2>3 DEF TypeInv, CastTypes
  <2>5. QED
    BY <1>2, <2>4 DEF RequestCloses, Dismiss, streamVars, TypeInv, CastTypes, Open
<1>3. ASSUME NEW h \in Handles, StartCancelled(h) PROVE TypeInv'
  BY <1>3 DEF StartCancelled, streamVars, TypeInv, CastTypes, Open
<1>4. ASSUME NEW owner \in Frontends \cup {None}, FrontendOwnerChanged(owner) PROVE TypeInv'
  <2>1. CASE owner = frontend /\ owner # None
    BY <1>4, <2>1 DEF FrontendOwnerChanged, streamVars, busVars, TypeInv, CastTypes, Open
  <2>2. CASE ~(owner = frontend /\ owner # None)
    <3>1. Forget(Open, {h \in Handles : requests[h] # None}) /\ StopCapture(Open)
      BY <1>4, <2>2 DEF FrontendOwnerChanged
    <3>2. \A s \in Sessions : sessions'[s] = None
      BY <3>1 DEF Forget, Open
    <3>3. awaiting' \in SUBSET Handles /\ exported' \in SUBSET (Sessions \cup Handles)
          /\ picker' \in Pickers \cup {None} /\ UNCHANGED <<tokens, events, live, answers>>
          /\ frontend' = owner /\ restores' = {}
      BY <1>4, <2>2 DEF FrontendOwnerChanged, Dismiss, TypeInv, CastTypes
    <3>4. QED
      BY <3>1, <3>2, <3>3, ForgetTypes, StopTypes DEF TypeInv, CastTypes, Open
  <2>3. QED
    BY <2>1, <2>2
<1>5. QED
  BY <1>1, <1>2, <1>3, <1>4

\* What the shell sends.
LEMMA SendTypes ==
    ASSUME TypeInv,
           \/ \E source \in Sources : ShellApproves(source)
           \/ ShellCancels
           \/ \E s \in Sessions : ShellStops(s)
    PROVE  TypeInv'
<1>1. ASSUME NEW answer \in Answers, Sends(answer), picker' \in {picker, None} PROVE TypeInv'
  BY <1>1 DEF Sends, ledgerVars, streamVars, busVars, TypeInv, CastTypes, Open
<1>2. picker # None => picker.session \in Sessions /\ picker.token \in TokensMinted
  BY DEF TypeInv, CastTypes, Pickers
<1>3. ASSUME NEW source \in Sources, ShellApproves(source) PROVE TypeInv'
  <2>1. [kind |-> "Approved", session |-> picker.session, token |-> picker.token, source |-> source] \in Answers
    BY <1>2, <1>3 DEF ShellApproves, Answers
  <2>2. QED
    BY <1>1, <1>3, <2>1 DEF ShellApproves
<1>4. ASSUME ShellCancels PROVE TypeInv'
  <2>1. [kind |-> "Cancelled", session |-> picker.session, token |-> picker.token] \in Answers
    BY <1>2, <1>4 DEF ShellCancels, Answers
  <2>2. QED
    BY <1>1, <1>4, <2>1 DEF ShellCancels
<1>5. ASSUME NEW s \in Sessions, ShellStops(s) PROVE TypeInv'
  <2>1. [kind |-> "Stop", session |-> s] \in Answers
    BY DEF Answers
  <2>2. QED
    BY <1>1, <1>5, <2>1 DEF ShellStops
<1>6. QED
  BY <1>3, <1>4, <1>5

\* What the loop makes of an answer.
LEMMA DecideTypes ==
    ASSUME TypeInv, ApprovalRefused \/ ApprovalGrants \/ CancelApplies \/ AnswerIgnored \/ Stops
    PROVE  TypeInv'
<1> DEFINE answer == Head(answers)
           s == answer.session
<1>1. /\ answers # <<>> /\ answers' = Tail(answers) /\ events' = events /\ live' = live
      /\ answer.session \in Sessions
      /\ answer.kind # "Stop" => answer.token \in TokensMinted
      /\ answer.kind = "Approved" => answer.source \in Sources
      /\ answers' \in Seq(Answers)
  BY AnswerTypes DEF ApprovalRefused, ApprovalGrants, CancelApplies, AnswerIgnored, Stops, Answer, TypeInv
<1>2. CASE ApprovalRefused \/ Stops
  BY <1>1, <1>2, CloseTypes DEF ApprovalRefused, Stops, TypeInv, CastTypes
<1>3. CASE ApprovalGrants
  <2>1. PICK h \in Matching(answer) :
          \/ /\ Grant(h, s, sessions[s].wants, answer.source, answer.token)
             /\ exported' = exported \ {h}
             /\ UNCHANGED awaiting
          \/ /\ GrantFails(h, s, sessions[s].wants, answer.source, answer.token)
             /\ exported' = exported \ ({s} \cup RequestsOf({s}))
             /\ awaiting' = awaiting \ {h}
    BY <1>3 DEF ApprovalGrants
  <2>2. /\ sessions[s] # None /\ sessions[s].wants \in Wants /\ h \in Handles /\ frontend # None
        /\ answer.source \in Sources /\ answer.token \in TokensMinted
    BY <1>1, <1>3 DEF ApprovalGrants, Shareable, Matching, RequestsOf, Answer, TypeInv, CastTypes, SessionRecords, Open
  <2>3. UNCHANGED <<frontend, tokens>> /\ picker' \in Pickers \cup {None}
        /\ exported' \in SUBSET (Sessions \cup Handles) /\ awaiting' \in SUBSET Handles
    BY <1>3, <2>1 DEF ApprovalGrants, Dismiss, TypeInv, CastTypes
  <2>4. CASE Grant(h, s, sessions[s].wants, answer.source, answer.token)
    BY <1>1, <2>2, <2>3, <2>4, GrantTypes DEF TypeInv, CastTypes
  <2>5. CASE GrantFails(h, s, sessions[s].wants, answer.source, answer.token)
    <3>1. Forget({s}, RequestsOf({s}) \cup {h}) /\ StopCapture({s}) /\ restores' \in SUBSET Grants
      BY <2>2, <2>5, MintedTypes DEF GrantFails, TypeInv
    <3>2. QED
      BY <1>1, <2>2, <2>3, <3>1, ForgetTypes, StopTypes DEF TypeInv, CastTypes
  <2>6. QED
    BY <2>1, <2>4, <2>5
<1>4. CASE CancelApplies
  <2>1. PICK h : Forget({s}, {h}) /\ awaiting' = awaiting \ {h} /\ exported' = exported \ {h, s}
    BY <1>4 DEF CancelApplies
  <2>2. UNCHANGED <<frontend, restores, tokens, streamVars>> /\ picker' \in Pickers \cup {None}
    BY <1>4 DEF CancelApplies, Dismiss, TypeInv, CastTypes
  <2>3. QED
    BY <1>1, <2>1, <2>2, ForgetTypes DEF streamVars, TypeInv, CastTypes, Open
<1>5. CASE AnswerIgnored
  BY <1>1, <1>5 DEF AnswerIgnored, ledgerVars, streamVars, busVars, TypeInv, CastTypes, Open
<1>6. QED
  BY <1>2, <1>3, <1>4, <1>5

\* The producer and what the loop makes of its events.
LEMMA ProducerTypes == TypeInv /\ Producer => TypeInv'
<1> SUFFICES ASSUME TypeInv, Producer PROVE TypeInv'
  OBVIOUS
<1>1. ASSUME NEW event \in Events, Reports(event), nodes' \in [Sessions -> {"none", "connecting", "bound"}]
      PROVE  TypeInv'
  BY <1>1 DEF Reports, ledgerVars, busVars, TypeInv, CastTypes, Open
<1>2. ASSUME NEW s \in Sessions, NodeBinds(s) \/ StreamErrors(s) PROVE TypeInv'
  <2>1. [kind |-> "NodeReady", session |-> s] \in Events /\ [kind |-> "Fatal", session |-> s] \in Events
    BY DEF Events
  <2>2. QED
    BY <1>1, <1>2, <2>1 DEF NodeBinds, StreamErrors, TypeInv, CastTypes
<1>3. CASE CoreFails
  <2>1. [kind |-> "Fatal", session |-> None] \in Events
    BY DEF Events
  <2>2. QED
    BY <1>1, <1>3, <2>1 DEF CoreFails, TypeInv, CastTypes
<1>4. ASSUME NEW s \in Sessions, FrameFails(s) PROVE TypeInv'
  BY <1>4, CloseTypes DEF FrameFails, TypeInv, CastTypes
<1>5. CASE NodeReady
  <2> DEFINE s == Head(events).session
  <2>1. s \in Sessions /\ events' \in Seq(Events)
    BY <1>5, EventTypes DEF NodeReady, Event, TypeInv
  <2>2. sessions' \in [Sessions -> SessionRecords \cup {None}]
        /\ \A x \in Sessions : sessions'[x] # None => sessions[x] # None
    <3>1. CASE sessions[s] # None /\ sessions[s].state = "Starting" /\ streams[s] # None
      <4>1. sessions[s] \in SessionRecords
        BY <2>1, <3>1 DEF TypeInv, CastTypes
      <4>2. sessions' = [sessions EXCEPT ![s] = [@ EXCEPT !.state = "Active", !.pending = None]]
        BY <1>5, <2>1, <3>1, <4>1 DEF NodeReady, SessionRecords, TypeInv, CastTypes
      <4>3. [sessions[s] EXCEPT !.state = "Active", !.pending = None] \in SessionRecords
        BY <4>1 DEF SessionRecords, States
      <4>4. QED
        BY <2>1, <3>1, <4>2, <4>3 DEF TypeInv, CastTypes
    <3>2. CASE ~(sessions[s] # None /\ sessions[s].state = "Starting" /\ streams[s] # None)
      BY <1>5, <3>2 DEF NodeReady, TypeInv, CastTypes
    <3>3. QED
      BY <3>1, <3>2
  <2>3. awaiting' \in SUBSET Handles /\ indicators' \in SUBSET Sessions
        /\ streams' \in [Sessions -> StreamRecords \cup {None}]
    BY <1>5, <2>1 DEF NodeReady, TypeInv, CastTypes
  <2>4. UNCHANGED <<frontend, requests, restores, tokens, nodes, exported, picker, live, answers>>
    BY <1>5 DEF NodeReady, Event
  <2>5. QED
    BY <2>1, <2>2, <2>3, <2>4 DEF TypeInv, CastTypes, Open
<1>6. CASE StreamFatal
  <2>1. events' \in Seq(Events) /\ live' = live /\ answers' = answers
    BY <1>6, EventTypes DEF StreamFatal, Event, TypeInv
  <2>2. QED
    BY <1>6, <2>1, CloseTypes DEF StreamFatal, TypeInv, CastTypes
<1>7. CASE CoreFatal
  <2>1. events' \in Seq(Events) /\ live' = live /\ answers' = answers
    BY <1>7, EventTypes DEF CoreFatal, Event, TypeInv
  <2>2. QED
    BY <1>7, <2>1, StopTypes DEF CoreFatal, ledgerVars, busVars, TypeInv, CastTypes, Open
<1>8. QED
  BY <1>2, <1>3, <1>4, <1>5, <1>6, <1>7 DEF Producer

\* The sources.
LEMMA WorldTypes == TypeInv /\ World => TypeInv'
<1> SUFFICES ASSUME TypeInv, World PROVE TypeInv'
  OBVIOUS
<1>1. ASSUME NEW source \in Sources, SourceAppears(source) PROVE TypeInv'
  BY <1>1 DEF SourceAppears, ledgerVars, streamVars, busVars, TypeInv, CastTypes, Open
<1>2. ASSUME NEW w \in Windows, WindowVanishes(w) PROVE TypeInv'
  BY <1>2, CloseTypes DEF WindowVanishes, TypeInv, CastTypes
<1>3. ASSUME NEW m \in Monitors, MonitorVanishes(m) PROVE TypeInv'
  BY <1>3 DEF MonitorVanishes, ledgerVars, streamVars, busVars, TypeInv, CastTypes, Open
<1>4. QED
  BY <1>1, <1>2, <1>3 DEF World

\* A call is one of those above.
LEMMA CallCases ==
    ASSUME Calls
    PROVE  \/ \E s \in Sessions : CreateSession(s)
           \/ \E h \in Handles, s \in Sessions, demand \in Demands, grant \in Presented :
                SelectSources(h, s, demand, grant)
           \/ \E h \in Handles, s \in Sessions, demand \in Demands \cup {None}, grant \in Presented :
                sessions[s] # None /\ Starts(h, s, Merged(s, demand, grant))
           \/ \E s \in Sessions : SessionCloses(s)
           \/ \E h \in Handles : RequestCloses(h) \/ StartCancelled(h)
           \/ \E owner \in Frontends \cup {None} : FrontendOwnerChanged(owner)
BY DEF Calls, Starts

\* Every step keeps the types.
LEMMA TypesKept == TypeInv /\ [CastNext]_castVars => TypeInv'
<1> SUFFICES ASSUME TypeInv, [CastNext]_castVars PROVE TypeInv'
  OBVIOUS
<1>1. CASE Calls
  BY <1>1, CallCases, CreateTypes, SelectTypes, StartTypes, EndTypes
<1>2. CASE Shell
  BY <1>2, SendTypes, DecideTypes DEF Shell
<1>3. CASE Producer \/ World
  BY <1>3, ProducerTypes, WorldTypes
<1>4. CASE UNCHANGED castVars
  BY <1>4 DEF castVars, ledgerVars, streamVars, busVars, TypeInv, CastTypes, Open
<1>5. QED
  BY <1>1, <1>2, <1>3, <1>4 DEF CastNext

\* The first state has the types.
LEMMA TypesInit == CastInit => TypeInv
BY BoundsAssumption DEF CastInit, NoSession, TypeInv, CastTypes, Open

----------------------------------------------------------------------------
(* The question that is open, and who waits for it *)

\* A decision about token t of session s is shown, or on its way to the loop.
Asked(s, t) ==
    \/ picker # None /\ picker.session = s /\ picker.token = t
    \/ \E i \in 1 .. Len(answers) :
        answers[i].kind # "Stop" /\ answers[i].session = s /\ answers[i].token = t

\* Call h would be settled by it.
Waits(h, s, t) ==
    /\ requests[h] # None /\ requests[h].session = s /\ requests[h].consent = t
    /\ Asked(s, t)

InPhase(s, states) == sessions[s] # None /\ sessions[s].state \in states

\* A call waits in a session that chooses, alone, under a token no later call will get.
ConsentInv ==
    /\ \A h \in Handles, s \in Sessions, t \in TokensMinted :
        Waits(h, s, t) => InPhase(s, {"Choosing"})
    /\ \A g, h \in Handles, s \in Sessions, t, u \in TokensMinted :
        Waits(g, s, t) /\ Waits(h, s, u) => g = h
    /\ \A s \in Sessions, t \in TokensMinted : Asked(s, t) => t <= tokens
    /\ \A h \in Consenting(Handles) : requests[h].consent <= tokens

CastInv == TypeInv /\ SharedAsApproved /\ ConsentInv

\* The step asks nothing new.
NoNewQuestion == \A s \in Sessions, t \in TokensMinted : Asked(s, t)' => Asked(s, t)

\* A queue of answers that is cut or left alone brings no new decision.
LEMMA NoneSent ==
    ASSUME picker' \in {picker, None}, answers' = answers PROVE NoNewQuestion
BY DEF NoNewQuestion, Asked

\* Reading an answer brings no new decision.
LEMMA OneRead ==
    ASSUME TypeInv, answers # <<>>, picker' \in {picker, None}, answers' = Tail(answers)
    PROVE  NoNewQuestion
<1>1. \A i \in 1 .. Len(answers') : i + 1 \in 1 .. Len(answers) /\ answers'[i] = answers[i + 1]
  BY DEF TypeInv, CastTypes
<1>2. QED
  BY <1>1 DEF NoNewQuestion, Asked

\* The shell decides the question it shows, and no other.
LEMMA Decided ==
    ASSUME TypeInv, picker' \in {picker, None}, NEW answer \in Answers,
           answers' = Append(answers, answer),
           \/ answer.kind = "Stop"
           \/ picker # None /\ answer.session = picker.session /\ answer.token = picker.token
    PROVE  NoNewQuestion
<1>1. /\ Len(answers) \in Nat /\ Len(answers') = Len(answers) + 1
      /\ \A i \in 1 .. Len(answers) : answers'[i] = answers[i]
      /\ answers'[Len(answers) + 1] = answer
  BY DEF TypeInv, CastTypes
<1>2. \A i \in 1 .. Len(answers') : i \in 1 .. Len(answers) \/ i = Len(answers) + 1
  BY <1>1
<1>3. QED
  BY <1>1, <1>2 DEF NoNewQuestion, Asked

\* The decision the loop reads was under way.
LEMMA ReadsAsked ==
    ASSUME TypeInv, answers # <<>>, Head(answers).kind # "Stop"
    PROVE  Asked(Head(answers).session, Head(answers).token)
<1>1. 1 \in 1 .. Len(answers) /\ Head(answers) = answers[1]
  BY DEF TypeInv, CastTypes
<1>2. QED
  BY <1>1 DEF Asked

\* What a step may do to a request: drop it, drop its consent, or give it a new token.
RequestsKept ==
    \A h \in Handles : requests'[h] # None =>
        \/ /\ requests[h] # None
           /\ requests'[h].session = requests[h].session
           /\ requests'[h].consent = requests[h].consent
        \/ requests'[h].consent = None
        \/ requests'[h].consent = tokens + 1 /\ tokens' = tokens + 1

\* A session stops choosing with nobody left that waits.
ChoicesSettled ==
    \A s \in Sessions : InPhase(s, {"Choosing"}) =>
        \/ InPhase(s, {"Choosing"})'
        \/ \A h \in Handles, t \in TokensMinted : ~Waits(h, s, t)'

\* No step but a Start with a picker makes anybody wait.
LEMMA NobodyNew ==
    ASSUME TypeInv, ConsentInv, NoNewQuestion, RequestsKept,
           NEW h \in Handles, NEW s \in Sessions, NEW t \in TokensMinted, Waits(h, s, t)'
    PROVE  Waits(h, s, t)
<1>1. Asked(s, t) /\ t <= tokens /\ t \in Nat
  BY DEF Waits, NoNewQuestion, ConsentInv, TokensMinted
<1>2. requests'[h] # None /\ requests'[h].session = s /\ requests'[h].consent = t
  BY DEF Waits
<1>3. t # tokens + 1 /\ t # None
  BY <1>1, NoneAssumption DEF TypeInv, CastTypes
<1>4. QED
  BY <1>1, <1>2, <1>3 DEF Waits, RequestsKept

\* Who waited goes on waiting alone, and nobody new does.
LEMMA ConsentKept ==
    ASSUME TypeInv, ConsentInv, NoNewQuestion, RequestsKept, ChoicesSettled,
           tokens' \in {tokens, tokens + 1}
    PROVE  ConsentInv'
<1>1. \A h \in Handles, s \in Sessions, t \in TokensMinted : Waits(h, s, t)' => Waits(h, s, t)
  BY NobodyNew
<1>2. \A h \in Handles, s \in Sessions, t \in TokensMinted : Waits(h, s, t)' => InPhase(s, {"Choosing"})'
  BY <1>1 DEF ConsentInv, ChoicesSettled
<1>3. \A g, h \in Handles, s \in Sessions, t, u \in TokensMinted :
        Waits(g, s, t)' /\ Waits(h, s, u)' => g = h
  BY <1>1 DEF ConsentInv
<1>4. \A s \in Sessions, t \in TokensMinted : Asked(s, t)' => t <= tokens'
  BY DEF NoNewQuestion, ConsentInv, TokensMinted, TypeInv, CastTypes
<1>5. \A h \in Consenting(Handles)' : requests'[h].consent <= tokens'
  <2> SUFFICES ASSUME NEW h \in Handles, requests'[h] # None, requests'[h].consent # None
               PROVE  requests'[h].consent <= tokens'
    BY DEF Consenting
  <2>1. tokens \in Nat
    BY DEF TypeInv, CastTypes
  <2>2. CASE requests'[h].consent = tokens + 1 /\ tokens' = tokens + 1
    BY <2>1, <2>2
  <2>3. CASE requests[h] # None /\ requests'[h].consent = requests[h].consent
    <3>1. h \in Consenting(Handles) /\ requests[h].consent \in Nat
      BY <2>3 DEF Consenting, TypeInv, CastTypes, RequestRecords, TokensMinted
    <3>2. QED
      BY <2>1, <2>3, <3>1 DEF ConsentInv
  <2>4. QED
    BY <2>2, <2>3 DEF RequestsKept
<1>6. QED
  BY <1>2, <1>3, <1>4, <1>5 DEF ConsentInv

----------------------------------------------------------------------------
(* What a step must do *)

\* A session as CastLifecycle sees it.
PhaseOf(s) == IF sessions[s] = None THEN "Closed" ELSE sessions[s].state
Sharing == {s \in Sessions : streams[s] # None}

LifeStep == [Lifecycle!LifecycleNext]_(Lifecycle!lifecycleVars)

\* One session moves on, the others stay.
LEMMA Moved ==
    ASSUME NEW s \in Sessions, NEW from, NEW to, PhaseOf(s) \in from, PhaseOf(s)' = to,
           \A x \in Sessions \ {s} : sessions'[x] = sessions[x]
    PROVE  Lifecycle!Moves(s, from, to)
BY DEF Lifecycle!Moves, PhaseOf

\* A session that stays as it is takes a step of its life.
LEMMA Stays ==
    ASSUME \A x \in Sessions : PhaseOf(x)' = PhaseOf(x), Sharing' = Sharing
    PROVE  LifeStep
BY DEF LifeStep, Lifecycle!lifecycleVars, PhaseOf, Sharing

\* Sessions end, and what they shared with them.
LEMMA Ends ==
    ASSUME NEW closed \in SUBSET Sessions,
           \A x \in Sessions : PhaseOf(x)' = IF x \in closed THEN "Closed" ELSE PhaseOf(x),
           Sharing' = Sharing \ closed
    PROVE  LifeStep
<1>1. Lifecycle!CloseAll(closed)
  BY DEF Lifecycle!CloseAll, PhaseOf, Sharing
<1>2. QED
  BY <1>1 DEF LifeStep, Lifecycle!LifecycleNext

\* As long as the question is open nothing is shared.
AskedStep ==
    \A h \in RequestsOf({p.session : p \in {picker} \ {None}}) :
        requests[h].consent = picker.token /\ picker' = picker => streams'[picker.session] = None

\* Unless it takes the question down, a step begins no stream of a session that chooses.
LEMMA AskedUnshared ==
    ASSUME CastInv,
           \A s \in Sessions : streams'[s] # None =>
                streams[s] # None \/ ~InPhase(s, {"Choosing"})
    PROVE  AskedStep
<1> SUFFICES ASSUME NEW h \in RequestsOf({p.session : p \in {picker} \ {None}}),
                    requests[h].consent = picker.token, picker' = picker
             PROVE  streams'[picker.session] = None
  BY DEF AskedStep
<1>1. /\ h \in Handles /\ requests[h] # None /\ picker # None /\ requests[h].session = picker.session
      /\ picker.session \in Sessions /\ picker.token \in TokensMinted
  BY DEF RequestsOf, CastInv, TypeInv, CastTypes, Pickers
<1>2. Waits(h, picker.session, picker.token)
  BY <1>1 DEF Waits, Asked
<1>3. InPhase(picker.session, {"Choosing"})
  BY <1>1, <1>2 DEF CastInv, ConsentInv
<1>4. streams[picker.session] = None
  BY <1>1, <1>3 DEF CastInv, SharedAsApproved, InPhase
<1>5. QED
  BY <1>1, <1>2, <1>3, <1>4

\* The invariant, the life of the sessions and the consent, each kept by the step.
Keeps == SharedAsApproved' /\ ConsentInv' /\ LifeStep /\ AskedStep

----------------------------------------------------------------------------
(* The shapes of steps *)

\* Neither sessions nor streams change.
LEMMA QuietKeeps ==
    ASSUME CastInv, TypeInv', NoNewQuestion, RequestsKept,
           UNCHANGED <<sessions, streams, frontend, tokens>>, live \cap Windows \subseteq live'
    PROVE  Keeps
<1>1. SharedAsApproved'
  <2>1. \A s \in Sessions : streams[s] # None => streams[s].source \in Sources
    BY DEF CastInv, TypeInv, CastTypes, StreamRecords
  <2>2. QED
    BY <2>1 DEF SharedAsApproved, Sources, CastInv
<1>2. ConsentInv'
  <2>1. ChoicesSettled
    BY DEF ChoicesSettled, InPhase
  <2>2. QED
    BY <2>1, ConsentKept DEF CastInv
<1>3. LifeStep
  BY Stays DEF PhaseOf, Sharing
<1>4. AskedStep
  BY AskedUnshared
<1>5. QED
  BY <1>1, <1>2, <1>3, <1>4 DEF Keeps

\* Sessions are closed, with their requests and streams.
LEMMA CloseKeeps ==
    ASSUME CastInv, TypeInv', NoNewQuestion, NEW closed \in SUBSET Sessions, NEW hs,
           RequestsOf(closed) \subseteq hs, Forget(closed, hs), StopCapture(closed),
           tokens' \in {tokens, tokens + 1},
           frontend' = frontend \/ Open \subseteq closed,
           \A s \in Sessions \ closed : streams[s] # None => streams[s].source \in Monitors \cup live'
    PROVE  Keeps
<1>1. \A s \in Sessions : /\ sessions'[s] = IF s \in closed THEN None ELSE sessions[s]
                         /\ streams'[s] = IF s \in closed THEN None ELSE streams[s]
  BY DEF Forget, StopCapture
<1>2. \A h \in Handles : requests'[h] = IF h \in hs THEN None ELSE requests[h]
  BY DEF Forget
<1>3. SharedAsApproved'
  BY <1>1 DEF SharedAsApproved, CastInv, Open
<1>4. ConsentInv'
  <2>1. RequestsKept
    BY <1>2 DEF RequestsKept
  <2>2. ASSUME NEW s \in closed, NEW h \in Handles, NEW t, Waits(h, s, t)' PROVE FALSE
    BY <1>2, <2>2 DEF Waits, RequestsOf
  <2>3. ChoicesSettled
    BY <1>1, <2>2 DEF ChoicesSettled, InPhase
  <2>4. QED
    BY <2>1, <2>3, ConsentKept DEF CastInv
<1>5. LifeStep
  BY <1>1, Ends DEF PhaseOf, Sharing
<1>6. AskedStep
  BY <1>1, AskedUnshared
<1>7. QED
  BY <1>3, <1>4, <1>5, <1>6 DEF Keeps

\* One session that shares nothing, and does not choose, moves; nothing is streamed.
LEMMA MoveKeeps ==
    ASSUME CastInv, TypeInv', NoNewQuestion, RequestsKept, NEW s \in Sessions,
           ~InPhase(s, {"Choosing", "Starting", "Active"}),
           \A x \in Sessions \ {s} : sessions'[x] = sessions[x],
           UNCHANGED <<streams, frontend, live>>, tokens' \in {tokens, tokens + 1}
    PROVE  SharedAsApproved' /\ ConsentInv' /\ AskedStep
<1>1. streams[s] = None
  BY DEF CastInv, SharedAsApproved, InPhase
<1>2. SharedAsApproved'
  BY <1>1 DEF SharedAsApproved, CastInv
<1>3. ChoicesSettled
  BY DEF ChoicesSettled, InPhase
<1>4. ConsentInv'
  BY <1>3, ConsentKept DEF CastInv
<1>5. AskedStep
  BY AskedUnshared
<1>6. QED
  BY <1>2, <1>4, <1>5

\* A session is granted: the user who was asked agreed, or had agreed before.
LEMMA GrantKeeps ==
    ASSUME CastInv, TypeInv', NoNewQuestion, NEW h \in Handles, NEW s \in Sessions,
           NEW wants \in Wants, NEW source \in live, NEW token, Grant(h, s, wants, source, token),
           Kind(source) \in wants.types, UNCHANGED <<frontend, live>>,
           tokens' \in {tokens, tokens + 1},
           \/ InPhase(s, {"Created", "Configured"})
           \/ /\ token \in TokensMinted /\ Waits(h, s, token)
              /\ picker' = IF picker # None /\ picker.token \in {token} THEN None ELSE picker
    PROVE  Keeps
<1>1. InPhase(s, {"Created", "Configured", "Choosing"})
  BY DEF CastInv, ConsentInv, InPhase
<1>2. /\ \A x \in Sessions \ {s} : sessions'[x] = sessions[x] /\ streams'[x] = streams[x]
      /\ sessions'[s] = [state |-> "Starting", wants |-> wants, pending |-> h]
      /\ streams'[s] = [source |-> source, owner |-> frontend]
      /\ requests'[h] = None /\ \A g \in Handles \ {h} : requests'[g] = requests[g]
  BY DEF Grant, CastInv, TypeInv, CastTypes
<1>3. sessions'[s] # None /\ streams'[s] # None
  <2>1. [state |-> "Starting", wants |-> wants, pending |-> h] \in SessionRecords
    BY DEF SessionRecords, States
  <2>2. [source |-> source, owner |-> frontend] \in StreamRecords
    BY <1>1 DEF StreamRecords, CastInv, TypeInv, CastTypes, InPhase, Open
  <2>3. QED
    BY <1>2, <2>1, <2>2, RecordsAssumption
<1>4. SharedAsApproved'
  BY <1>2, <1>3 DEF SharedAsApproved, CastInv
<1>5. RequestsKept
  BY <1>2 DEF RequestsKept
<1>6. ChoicesSettled
  <2> SUFFICES ASSUME InPhase(s, {"Choosing"}), NEW g \in Handles, NEW t \in TokensMinted, Waits(g, s, t)'
               PROVE  FALSE
    BY <1>2 DEF ChoicesSettled, InPhase
  <2>1. Waits(g, s, t)
    BY <1>5, NobodyNew DEF CastInv
  <2>2. g # h
    BY <1>2 DEF Waits
  <2>3. Waits(h, s, token) /\ token \in TokensMinted
    BY DEF InPhase
  <2>4. QED
    BY <2>1, <2>2, <2>3 DEF CastInv, ConsentInv
<1>7. ConsentInv'
  BY <1>5, <1>6, ConsentKept DEF CastInv
<1>8. LifeStep
  <2>1. Lifecycle!Moves(s, {"Created", "Configured", "Choosing"}, "Starting")
    BY <1>1, <1>2, <1>3, Moved DEF PhaseOf, InPhase
  <2>2. Sharing' = Sharing \cup {s}
    BY <1>2, <1>3 DEF Sharing
  <2>3. Lifecycle!Grant(s)
    BY <2>1, <2>2 DEF Lifecycle!Grant, Sharing
  <2>4. QED
    BY <2>3 DEF LifeStep, Lifecycle!LifecycleNext
<1>9. AskedStep
  <2>1. ASSUME InPhase(s, {"Choosing"}), NEW g \in Handles, Waits(g, s, picker.token), picker # None
        PROVE  picker.session = s => picker' # picker
    <3>1. picker.token \in TokensMinted
      BY <2>1 DEF CastInv, TypeInv, CastTypes, Pickers
    <3>2. /\ token \in TokensMinted /\ Waits(h, s, token)
          /\ picker' = IF picker # None /\ picker.token \in {token} THEN None ELSE picker
      BY <2>1 DEF InPhase
    <3>3. g = h
      BY <2>1, <3>1, <3>2 DEF CastInv, ConsentInv
    <3>4. picker.token = token
      BY <2>1, <3>2, <3>3 DEF Waits
    <3>5. QED
      BY <2>1, <3>2, <3>4
  <2>2. SUFFICES ASSUME NEW g \in RequestsOf({p.session : p \in {picker} \ {None}}),
                        requests[g].consent = picker.token, picker' = picker
                 PROVE  streams'[picker.session] = None
    BY DEF AskedStep
  <2>3. /\ g \in Handles /\ requests[g] # None /\ picker # None /\ requests[g].session = picker.session
        /\ picker.session \in Sessions /\ picker.token \in TokensMinted
    BY DEF RequestsOf, CastInv, TypeInv, CastTypes, Pickers
  <2>4. Waits(g, picker.session, picker.token)
    BY <2>2, <2>3 DEF Waits, Asked
  <2>5. InPhase(picker.session, {"Choosing"})
    BY <2>3, <2>4 DEF CastInv, ConsentInv
  <2>6. picker.session # s
    BY <2>1, <2>2, <2>3, <2>4, <2>5
  <2>7. QED
    BY <1>2, <2>3, <2>5, <2>6 DEF CastInv, SharedAsApproved, InPhase
<1>10. QED
  BY <1>4, <1>7, <1>8, <1>9 DEF Keeps

----------------------------------------------------------------------------
(* The steps *)

\* A session is created.
LEMMA CreateKeeps ==
    ASSUME CastInv, TypeInv', NEW s \in Sessions, CreateSession(s) PROVE Keeps
<1>1. /\ sessions[s] = None /\ sessions'[s] = [state |-> "Created", wants |-> None, pending |-> None]
      /\ \A x \in Sessions \ {s} : sessions'[x] = sessions[x]
      /\ UNCHANGED <<frontend, requests, streams, live, tokens, picker, answers>>
  BY DEF CreateSession, streamVars, CastInv, TypeInv, CastTypes
<1>2. NoNewQuestion /\ RequestsKept
  BY <1>1, NoneSent DEF RequestsKept
<1>3. SharedAsApproved' /\ ConsentInv' /\ AskedStep
  BY <1>1, <1>2, MoveKeeps DEF InPhase
<1>4. sessions'[s] # None
  <2>1. [state |-> "Created", wants |-> None, pending |-> None] \in SessionRecords
    BY DEF SessionRecords, States
  <2>2. QED
    BY <1>1, <2>1, RecordsAssumption
<1>5. Lifecycle!Create(s)
  BY <1>1, <1>4, Moved DEF Lifecycle!Create, PhaseOf
<1>6. QED
  BY <1>3, <1>5 DEF Keeps, LifeStep, Lifecycle!LifecycleNext

\* A session gets a state and what it wants, and keeps the reply link it has.
LEMMA Updated ==
    ASSUME CastTypes, NEW s \in Sessions, sessions[s] # None, NEW state \in States, NEW wants \in Wants,
           sessions' = [sessions EXCEPT ![s].state = state, ![s].wants = wants]
    PROVE  /\ sessions'[s] # None /\ sessions'[s].state = state /\ sessions'[s].pending = sessions[s].pending
           /\ \A x \in Sessions \ {s} : sessions'[x] = sessions[x]
<1> DEFINE new == [sessions[s] EXCEPT !.state = state, !.wants = wants]
<1>1. sessions[s] \in SessionRecords
  BY DEF CastTypes
<1>2. sessions' = [sessions EXCEPT ![s] = new]
  BY <1>1 DEF SessionRecords, CastTypes
<1>3. new \in SessionRecords /\ new.state = state
  BY <1>1 DEF SessionRecords
<1>4. new.pending = sessions[s].pending
  BY <1>1 DEF SessionRecords
<1>5. sessions'[s] = new /\ \A x \in Sessions \ {s} : sessions'[x] = sessions[x]
  BY <1>2 DEF CastTypes
<1>6. QED
  BY <1>3, <1>4, <1>5, RecordsAssumption

\* It is told what to share.
LEMMA SelectKeeps ==
    ASSUME CastInv, TypeInv', NEW h \in Handles, NEW s \in Sessions, NEW demand \in Demands,
           NEW grant \in Presented, SelectSources(h, s, demand, grant)
    PROVE  Keeps
<1>1. InPhase(s, {"Created", "Configured"}) /\ UNCHANGED <<frontend, streams, live, tokens, picker, answers>>
  BY DEF SelectSources, InPhase, streamVars
<1>2. /\ sessions'[s] # None /\ sessions'[s].state = "Configured"
      /\ \A x \in Sessions \ {s} : sessions'[x] = sessions[x]
  <2> DEFINE wants == [types |-> demand.types, persist |-> demand.persist, grant |-> grant]
  <2>1. wants \in Wants
    <3>1. demand \in Demandable
      BY DemandsAssumption
    <3>2. demand.types \in SUBSET Kinds /\ demand.persist \in BOOLEAN
      BY <3>1 DEF Demandable
    <3>3. grant \in Grants \cup {None}
      BY DEF Presented, CastInv, TypeInv, CastTypes
    <3>4. QED
      BY <3>2, <3>3 DEF Wants
  <2>2. sessions' = [sessions EXCEPT ![s].state = "Configured", ![s].wants = wants] /\ sessions[s] # None
    BY DEF SelectSources
  <2>3. QED
    BY <2>1, <2>2, Updated DEF States, CastInv, TypeInv
<1>3. NoNewQuestion
  BY <1>1, NoneSent
<1>4. RequestsKept
  <2>1. requests \in [Handles -> RequestRecords \cup {None}]
    BY DEF CastInv, TypeInv, CastTypes
  <2>2. CASE requests[h] # None
    BY <2>2 DEF SelectSources, RequestsKept
  <2>3. CASE requests[h] = None
    BY <2>1, <2>3 DEF SelectSources, RequestsKept
  <2>4. QED
    BY <2>2, <2>3
<1>5. SharedAsApproved' /\ ConsentInv' /\ AskedStep
  BY <1>1, <1>2, <1>3, <1>4, MoveKeeps DEF InPhase
<1>6. Lifecycle!Configure(s)
  BY <1>1, <1>2, Moved DEF Lifecycle!Configure, PhaseOf, InPhase
<1>7. QED
  BY <1>5, <1>6 DEF Keeps, LifeStep, Lifecycle!LifecycleNext

\* What every Start leaves alone, and begins with.
LEMMA StartFacts ==
    ASSUME CastInv, NEW h \in Handles, NEW s \in Sessions, NEW wants, Starts(h, s, wants)
    PROVE  /\ InPhase(s, {"Created", "Configured"}) /\ h \notin Held
           /\ tokens' = tokens + 1 /\ tokens + 1 \in TokensMinted /\ frontend # None
           /\ UNCHANGED <<frontend, events, live, answers>>
<1>1. Start(h, s)
  BY DEF Starts, StartPrompts, StartRestored, StartRestoredFails, StartOffersNothing
<1>2. QED
  BY <1>1, BoundsAssumption DEF Start, Startable, InPhase, Authorized, TokensMinted, CastInv, TypeInv, CastTypes

\* The call h waits under the new token.
LEMMA ConsentGiven ==
    ASSUME CastInv, NEW h \in Handles, NEW s \in Sessions, tokens + 1 \in TokensMinted
    PROVE  /\ WithConsent(h, s)[h].consent = tokens + 1
           /\ \A g \in Handles \ {h} : WithConsent(h, s)[g] = requests[g]
BY DEF WithConsent, CastInv, TypeInv, CastTypes, RequestRecords

\* The session chooses.
LEMMA ChoosesFacts ==
    ASSUME CastInv, NEW h \in Handles, NEW s \in Sessions, InPhase(s, {"Created", "Configured"}),
           NEW wants \in Wants, Chooses(h, s, wants), UNCHANGED streams
    PROVE  /\ InPhase(s, {"Choosing"})' /\ Lifecycle!Ask(s)
           /\ \A x \in Sessions \ {s} : sessions'[x] = sessions[x]
<1>1. /\ sessions'[s] # None /\ sessions'[s].state = "Choosing"
      /\ \A x \in Sessions \ {s} : sessions'[x] = sessions[x]
  BY Updated DEF Chooses, States, InPhase, CastInv, TypeInv
<1>2. QED
  BY <1>1, Moved DEF Lifecycle!Ask, PhaseOf, InPhase

\* The user is asked.  It is the only question about the session, and the only call
\* that waits for it.
LEMMA PromptKeeps ==
    ASSUME CastInv, TypeInv', NEW h \in Handles, NEW s \in Sessions, NEW wants \in Wants,
           StartPrompts(h, s, wants)
    PROVE  Keeps
<1>1. /\ InPhase(s, {"Created", "Configured"}) /\ tokens' = tokens + 1 /\ tokens + 1 \in TokensMinted
      /\ UNCHANGED <<frontend, live, answers>>
  BY StartFacts DEF Starts
<1>2. /\ Chooses(h, s, wants) /\ UNCHANGED streams
      /\ picker' = [session |-> s, token |-> tokens + 1, offered |-> Offered(wants)]
  BY DEF StartPrompts, streamVars
<1>3. /\ InPhase(s, {"Choosing"})' /\ Lifecycle!Ask(s)
      /\ \A x \in Sessions \ {s} : sessions'[x] = sessions[x]
  BY <1>1, <1>2, ChoosesFacts
<1>4. SharedAsApproved' /\ AskedStep
  <2>1. streams[s] = None
    BY <1>1 DEF CastInv, SharedAsApproved, InPhase
  <2>2. QED
    BY <1>1, <1>2, <1>3, <2>1, AskedUnshared DEF SharedAsApproved, CastInv
<1>5. \A x \in Sessions, t \in TokensMinted : Asked(x, t)' => Asked(x, t) \/ (x = s /\ t = tokens + 1)
  BY <1>1, <1>2 DEF Asked
<1>6. \A x \in Sessions, t \in TokensMinted : Asked(x, t) => t <= tokens /\ t # None
  BY NoneAssumption DEF CastInv, ConsentInv, TokensMinted
<1>7. ASSUME NEW g \in Handles, NEW x \in Sessions, NEW t \in TokensMinted, Waits(g, x, t)'
      PROVE  (x = s /\ g = h) \/ (x # s /\ Waits(g, x, t))
  <2>1. requests'[g] # None /\ requests'[g].session = x /\ requests'[g].consent = t /\ Asked(x, t)'
    BY <1>7 DEF Waits
  <2>2. /\ requests'[h].consent = tokens + 1
        /\ \A f \in Handles \ {h} : requests'[f] = requests[f]
    BY <1>1, <1>2, ConsentGiven DEF Chooses
  <2>3. CASE g = h
    <3>1. t = tokens + 1
      BY <2>1, <2>2, <2>3
    <3>2. ~Asked(x, t)
      BY <1>6, <3>1 DEF CastInv, TypeInv, CastTypes
    <3>3. QED
      BY <1>5, <2>1, <2>3, <3>2
  <2>4. CASE g # h
    <3>1. requests[g] # None /\ requests[g].session = x /\ requests[g].consent = t
      BY <2>1, <2>2, <2>4
    <3>2. Asked(x, t) => Waits(g, x, t) /\ x # s
      BY <1>1, <3>1 DEF Waits, CastInv, ConsentInv, InPhase
    <3>3. t # tokens + 1
      <4>1. t <= tokens
        BY <3>1, NoneAssumption DEF Consenting, CastInv, ConsentInv, TokensMinted
      <4>2. QED
        BY <4>1 DEF TokensMinted, CastInv, TypeInv, CastTypes
    <3>4. QED
      BY <1>5, <2>1, <3>2, <3>3
  <2>5. QED
    BY <2>3, <2>4
<1>8. ConsentInv'
  <2>1. \A g \in Handles, x \in Sessions, t \in TokensMinted : Waits(g, x, t)' => InPhase(x, {"Choosing"})'
    BY <1>3, <1>7 DEF CastInv, ConsentInv, InPhase
  <2>2. \A f, g \in Handles, x \in Sessions, t, u \in TokensMinted : Waits(f, x, t)' /\ Waits(g, x, u)' => f = g
    BY <1>7 DEF CastInv, ConsentInv
  <2>3. \A x \in Sessions, t \in TokensMinted : Asked(x, t)' => t <= tokens'
    BY <1>1, <1>5, <1>6 DEF TokensMinted, CastInv, TypeInv, CastTypes
  <2>4. \A g \in Consenting(Handles)' : requests'[g].consent <= tokens'
    <3> SUFFICES ASSUME NEW g \in Handles, requests'[g] # None, requests'[g].consent # None
                 PROVE  requests'[g].consent <= tokens'
      BY DEF Consenting
    <3>1. tokens \in Nat
      BY DEF CastInv, TypeInv, CastTypes
    <3>2. CASE g = h
      BY <1>1, <1>2, <3>1, <3>2, ConsentGiven DEF Chooses
    <3>3. CASE g # h
      <4>1. requests'[g] = requests[g] /\ g \in Consenting(Handles)
        BY <1>1, <1>2, <3>3, ConsentGiven DEF Chooses, Consenting
      <4>2. requests[g].consent \in Nat /\ requests[g].consent <= tokens
        BY <4>1 DEF Consenting, CastInv, ConsentInv, TypeInv, CastTypes, RequestRecords, TokensMinted
      <4>3. QED
        BY <1>1, <3>1, <4>1, <4>2
    <3>4. QED
      BY <3>2, <3>3
  <2>5. QED
    BY <2>1, <2>2, <2>3, <2>4 DEF ConsentInv
<1>9. QED
  BY <1>3, <1>4, <1>8 DEF Keeps, LifeStep, Lifecycle!LifecycleNext

\* The call waits, or was refused, without a question: what the ledger keeps of its
\* consent no decision settles.
LEMMA UnaskedKeeps ==
    ASSUME CastInv, TypeInv', NEW h \in Handles, NEW s \in Sessions, NEW wants \in Wants,
           InPhase(s, {"Created", "Configured"}), tokens' = tokens + 1, tokens + 1 \in TokensMinted,
           UNCHANGED <<frontend, live, answers, picker, streams>>,
           \/ Chooses(h, s, wants)
           \/ \E found : /\ sessions' = [sessions EXCEPT ![s] = None]
                         /\ requests' = [WithConsent(h, s) EXCEPT ![found] = None]
    PROVE  Keeps
<1>1. NoNewQuestion
  BY NoneSent
<1>2. \A g \in Handles : requests'[g] # None =>
        requests'[g] = requests[g] \/ requests'[g].consent = tokens + 1
  <2>1. \A g \in Handles : WithConsent(h, s)[g] # None =>
            WithConsent(h, s)[g] = requests[g] \/ WithConsent(h, s)[g].consent = tokens + 1
    BY ConsentGiven
  <2>2. DOMAIN WithConsent(h, s) = Handles
    BY DEF WithConsent, CastInv, TypeInv, CastTypes
  <2>3. QED
    BY <2>1, <2>2 DEF Chooses
<1>3. RequestsKept
  BY <1>2 DEF RequestsKept
<1>4. CASE Chooses(h, s, wants)
  <2>1. Lifecycle!Ask(s) /\ \A x \in Sessions \ {s} : sessions'[x] = sessions[x]
    BY <1>4, ChoosesFacts
  <2>2. SharedAsApproved' /\ ConsentInv' /\ AskedStep
    BY <1>1, <1>3, <2>1, MoveKeeps DEF InPhase
  <2>3. QED
    BY <2>1, <2>2 DEF Keeps, LifeStep, Lifecycle!LifecycleNext
<1>5. CASE sessions' = [sessions EXCEPT ![s] = None]
  <2>1. sessions'[s] = None /\ \A x \in Sessions \ {s} : sessions'[x] = sessions[x]
    BY <1>5 DEF CastInv, TypeInv, CastTypes
  <2>2. SharedAsApproved' /\ ConsentInv' /\ AskedStep
    BY <1>1, <1>3, <2>1, MoveKeeps DEF InPhase
  <2>3. streams[s] = None
    BY DEF CastInv, SharedAsApproved, InPhase
  <2>4. LifeStep
    <3>1. \A x \in Sessions : PhaseOf(x)' = IF x \in {s} THEN "Closed" ELSE PhaseOf(x)
      BY <2>1 DEF PhaseOf
    <3>2. Sharing' = Sharing \ {s}
      BY <2>3 DEF Sharing
    <3>3. QED
      BY <3>1, <3>2, Ends
  <2>5. QED
    BY <2>2, <2>4 DEF Keeps
<1>6. QED
  BY <1>4, <1>5

\* Start keeps the invariant, whichever way it goes.
LEMMA StartKeeps ==
    ASSUME CastInv, TypeInv', NEW h \in Handles, NEW s \in Sessions, NEW wants \in Wants,
           Starts(h, s, wants)
    PROVE  Keeps
<1>1. /\ InPhase(s, {"Created", "Configured"}) /\ tokens' = tokens + 1 /\ tokens + 1 \in TokensMinted
      /\ UNCHANGED <<frontend, live, answers>>
  BY StartFacts
<1>2. CASE StartPrompts(h, s, wants)
  BY <1>2, PromptKeeps
<1>3. CASE StartRestored(h, s, wants)
  <2>1. picker' = picker /\ Restored(wants)
    BY <1>3 DEF StartRestored
  <2>2. CASE Finds(h, s)
    <3>1. Grant(h, s, wants, wants.grant.source, tokens + 1)
      BY <1>3, <2>2 DEF StartRestored
    <3>2. wants.grant.source \in live /\ Kind(wants.grant.source) \in wants.types
      BY <2>1 DEF Restored
    <3>3. NoNewQuestion
      BY <1>1, <2>1, NoneSent
    <3>4. QED
      BY <1>1, <3>1, <3>2, <3>3, GrantKeeps
  <2>3. CASE ~Finds(h, s)
    <3>1. Chooses(h, s, wants) /\ UNCHANGED streams
      BY <1>3, <2>3 DEF StartRestored, streamVars
    <3>2. QED
      BY <1>1, <2>1, <3>1, UnaskedKeeps
  <2>4. QED
    BY <2>2, <2>3
<1>4. CASE StartRestoredFails(h, s, wants)
  <2>1. Forget({s}, RequestsOf({s}) \cup {h}) /\ StopCapture({s}) /\ picker' = picker
    BY <1>4 DEF StartRestoredFails, GrantFails
  <2>2. NoNewQuestion
    BY <1>1, <2>1, NoneSent
  <2>3. \A x \in Sessions : streams[x] # None => streams[x].source \in Monitors \cup live'
    BY <1>1 DEF CastInv, SharedAsApproved
  <2>4. {s} \in SUBSET Sessions /\ RequestsOf({s}) \subseteq RequestsOf({s}) \cup {h}
    OBVIOUS
  <2>5. QED
    BY <1>1, <2>1, <2>2, <2>3, <2>4, CloseKeeps
<1>5. CASE StartOffersNothing(h, s, wants)
  <2>1. UNCHANGED <<picker, streams>>
    BY <1>5 DEF StartOffersNothing, streamVars
  <2>2. \/ Chooses(h, s, wants)
        \/ \E found : /\ sessions' = [sessions EXCEPT ![s] = None]
                      /\ requests' = [WithConsent(h, s) EXCEPT ![found] = None]
    BY <1>5 DEF StartOffersNothing
  <2>3. QED
    BY <1>1, <2>1, <2>2, UnaskedKeeps
<1>6. QED
  BY <1>2, <1>3, <1>4, <1>5 DEF Starts

\* A session or a request is closed by the frontend, a cancelled Start is answered, or
\* the frontend is another one.
LEMMA EndKeeps ==
    ASSUME CastInv, TypeInv',
           \/ \E s \in Sessions : SessionCloses(s)
           \/ \E h \in Handles : RequestCloses(h) \/ StartCancelled(h)
           \/ \E owner \in Frontends \cup {None} : FrontendOwnerChanged(owner)
    PROVE  Keeps
<1>1. \A x \in Sessions : streams[x] # None => streams[x].source \in Monitors \cup live
  BY DEF CastInv, SharedAsApproved
<1>2. ASSUME NEW s \in Sessions, SessionCloses(s) PROVE Keeps
  <2>1. /\ Forget({s}, RequestsOf({s})) /\ StopCapture({s}) /\ picker' \in {picker, None}
        /\ UNCHANGED <<frontend, tokens, live, answers>>
    BY <1>2 DEF SessionCloses, Dismiss
  <2>2. NoNewQuestion /\ {s} \in SUBSET Sessions
    BY <2>1, NoneSent
  <2>3. QED
    BY <1>1, <2>1, <2>2, CloseKeeps
<1>3. ASSUME NEW h \in Handles, RequestCloses(h) \/ StartCancelled(h) PROVE Keeps
  <2>1. /\ UNCHANGED <<frontend, sessions, streams, tokens, live, answers>> /\ picker' \in {picker, None}
    BY <1>3 DEF RequestCloses, StartCancelled, Dismiss, streamVars
  <2>2. RequestsKept
    <3>1. CASE RequestCloses(h)
      <4>1. requests[h] \in RequestRecords
        BY <3>1 DEF RequestCloses, CastInv, TypeInv, CastTypes
      <4>2. requests' = [requests EXCEPT ![h] = [@ EXCEPT !.cancelled = TRUE, !.consent = None]]
        BY <3>1, <4>1 DEF RequestCloses, RequestRecords, CastInv, TypeInv, CastTypes
      <4>3. [requests[h] EXCEPT !.cancelled = TRUE, !.consent = None].consent = None
        BY <4>1 DEF RequestRecords
      <4>4. QED
        BY <4>2, <4>3 DEF RequestsKept, CastInv, TypeInv, CastTypes
    <3>2. CASE StartCancelled(h)
      BY <3>2 DEF StartCancelled, RequestsKept, CastInv, TypeInv, CastTypes
    <3>3. QED
      BY <1>3, <3>1, <3>2
  <2>3. NoNewQuestion
    BY <2>1, NoneSent
  <2>4. QED
    BY <2>1, <2>2, <2>3, QuietKeeps
<1>4. ASSUME NEW owner \in Frontends \cup {None}, FrontendOwnerChanged(owner) PROVE Keeps
  <2>1. UNCHANGED <<tokens, live, answers>> /\ picker' \in {picker, None} /\ frontend' = owner
    BY <1>4 DEF FrontendOwnerChanged, Dismiss
  <2>2. NoNewQuestion
    BY <2>1, NoneSent
  <2>3. CASE owner = frontend /\ owner # None
    <3>1. UNCHANGED <<sessions, requests, streams>>
      BY <1>4, <2>3 DEF FrontendOwnerChanged, streamVars
    <3>2. RequestsKept
      BY <3>1 DEF RequestsKept
    <3>3. QED
      BY <2>1, <2>2, <2>3, <3>1, <3>2, QuietKeeps
  <2>4. CASE ~(owner = frontend /\ owner # None)
    <3>1. Forget(Open, {h \in Handles : requests[h] # None}) /\ StopCapture(Open)
      BY <1>4, <2>4 DEF FrontendOwnerChanged
    <3>2. Open \in SUBSET Sessions /\ RequestsOf(Open) \subseteq {h \in Handles : requests[h] # None}
      BY DEF Open, RequestsOf
    <3>3. QED
      BY <1>1, <2>1, <2>2, <3>1, <3>2, CloseKeeps
  <2>5. QED
    BY <2>3, <2>4
<1>5. QED
  BY <1>2, <1>3, <1>4

\* The shell decides, or stops.
LEMMA SendKeeps ==
    ASSUME CastInv, TypeInv',
           \/ \E source \in Sources : ShellApproves(source)
           \/ ShellCancels
           \/ \E s \in Sessions : ShellStops(s)
    PROVE  Keeps
<1>1. ASSUME NEW answer \in Answers, Sends(answer), picker' \in {picker, None},
             \/ answer.kind = "Stop"
             \/ picker # None /\ answer.session = picker.session /\ answer.token = picker.token
      PROVE  Keeps
  <2>1. answers' = Append(answers, answer) /\ UNCHANGED <<frontend, sessions, requests, streams, tokens, live>>
    BY <1>1 DEF Sends, ledgerVars, streamVars
  <2>2. NoNewQuestion
    BY <1>1, <2>1, Decided DEF CastInv
  <2>3. RequestsKept
    BY <2>1 DEF RequestsKept
  <2>4. QED
    BY <2>1, <2>2, <2>3, QuietKeeps
<1>2. picker # None => picker.session \in Sessions /\ picker.token \in TokensMinted
  BY DEF CastInv, TypeInv, CastTypes, Pickers
<1>3. ASSUME NEW source \in Sources, ShellApproves(source) PROVE Keeps
  <2> DEFINE answer == [kind |-> "Approved", session |-> picker.session, token |-> picker.token, source |-> source]
  <2>1. answer \in Answers
    BY <1>2, <1>3 DEF ShellApproves, Answers
  <2>2. Sends(answer) /\ picker # None /\ picker' = None
    BY <1>3 DEF ShellApproves
  <2>3. QED
    BY <1>1, <2>1, <2>2
<1>4. ASSUME ShellCancels PROVE Keeps
  <2> DEFINE answer == [kind |-> "Cancelled", session |-> picker.session, token |-> picker.token]
  <2>1. answer \in Answers
    BY <1>2, <1>4 DEF ShellCancels, Answers
  <2>2. Sends(answer) /\ picker # None /\ picker' = None
    BY <1>4 DEF ShellCancels
  <2>3. QED
    BY <1>1, <2>1, <2>2
<1>5. ASSUME NEW s \in Sessions, ShellStops(s) PROVE Keeps
  <2>1. [kind |-> "Stop", session |-> s] \in Answers
    BY DEF Answers
  <2>2. QED
    BY <1>1, <1>5, <2>1 DEF ShellStops
<1>6. QED
  BY <1>3, <1>4, <1>5

\* close_shared_session of one session, or of those that share a source.
LEMMA CloseSharedKeeps ==
    ASSUME CastInv, TypeInv', NoNewQuestion, NEW closed \in SUBSET Sessions, CloseShared(closed),
           \A s \in Sessions \ closed : streams[s] # None => streams[s].source \in Monitors \cup live'
    PROVE  Keeps
BY CloseKeeps DEF CloseShared

\* The loop reads a decision.
LEMMA DecideKeeps ==
    ASSUME CastInv, TypeInv', ApprovalRefused \/ ApprovalGrants \/ CancelApplies \/ AnswerIgnored \/ Stops
    PROVE  Keeps
<1> DEFINE answer == Head(answers)
           s == answer.session
<1>1. /\ answers # <<>> /\ answers' = Tail(answers) /\ live' = live /\ s \in Sessions
      /\ answer.kind # "Stop" => answer.token \in TokensMinted /\ Asked(s, answer.token)
  BY AnswerTypes, ReadsAsked
     DEF ApprovalRefused, ApprovalGrants, CancelApplies, AnswerIgnored, Stops, Answer, CastInv, TypeInv
<1>2. picker' \in {picker, None}
  BY DEF ApprovalRefused, ApprovalGrants, CancelApplies, AnswerIgnored, Stops, CloseShared, Dismiss
<1>3. NoNewQuestion
  BY <1>1, <1>2, OneRead DEF CastInv
<1>4. \A x \in Sessions : streams[x] # None => streams[x].source \in Monitors \cup live'
  BY <1>1 DEF CastInv, SharedAsApproved
<1>5. CASE ApprovalRefused \/ Stops
  <2>1. CloseShared({s}) /\ {s} \in SUBSET Sessions
    BY <1>1, <1>5 DEF ApprovalRefused, Stops
  <2>2. QED
    BY <1>3, <1>4, <2>1, CloseSharedKeeps
<1>6. CASE ApprovalGrants
  <2>1. PICK h \in Matching(answer) :
          \/ Grant(h, s, sessions[s].wants, answer.source, answer.token)
          \/ GrantFails(h, s, sessions[s].wants, answer.source, answer.token)
    BY <1>6 DEF ApprovalGrants
  <2>2. /\ answer.kind # "Stop" /\ h \in Handles /\ requests[h] # None
        /\ requests[h].session = s /\ requests[h].consent = answer.token
    BY <1>6, <2>1 DEF ApprovalGrants, Answer, Matching, RequestsOf
  <2>3. Waits(h, s, answer.token) /\ answer.token \in TokensMinted
    BY <1>1, <2>2 DEF Waits
  <2>4. /\ sessions[s].wants \in Wants /\ answer.source \in live
        /\ Kind(answer.source) \in sessions[s].wants.types
    BY <1>1, <1>6 DEF ApprovalGrants, Shareable, CastInv, TypeInv, CastTypes, SessionRecords
  <2>5. /\ UNCHANGED <<frontend, tokens>>
        /\ picker' = IF picker # None /\ picker.token \in {answer.token} THEN None ELSE picker
    BY <1>6 DEF ApprovalGrants, Dismiss
  <2>6. CASE Grant(h, s, sessions[s].wants, answer.source, answer.token)
    BY <1>1, <1>3, <2>2, <2>3, <2>4, <2>5, <2>6, GrantKeeps
  <2>7. CASE GrantFails(h, s, sessions[s].wants, answer.source, answer.token)
    <3>1. Forget({s}, RequestsOf({s}) \cup {h}) /\ StopCapture({s})
      BY <2>7 DEF GrantFails
    <3>2. {s} \in SUBSET Sessions /\ RequestsOf({s}) \subseteq RequestsOf({s}) \cup {h}
      BY <1>1
    <3>3. QED
      BY <1>3, <1>4, <2>5, <3>1, <3>2, CloseKeeps
  <2>8. QED
    BY <2>1, <2>6, <2>7
<1>7. CASE CancelApplies
  <2>0. PICK x \in Sessions : x = s
    BY <1>1
  <2>1. PICK h \in Matching(answer) : Forget({s}, {h})
    BY <1>7 DEF CancelApplies
  <2>2. /\ answer.kind # "Stop" /\ h \in Handles /\ requests[h] # None
        /\ requests[h].session = s /\ requests[h].consent = answer.token
    BY <1>7, <2>1 DEF CancelApplies, Answer, Matching, RequestsOf
  <2>3. Waits(h, s, answer.token) /\ answer.token \in TokensMinted
    BY <1>1, <2>2 DEF Waits
  <2>4. InPhase(s, {"Choosing"}) /\ UNCHANGED <<frontend, tokens, streams>>
    BY <1>1, <1>7, <2>2, <2>3 DEF CancelApplies, streamVars, CastInv, ConsentInv
  <2>5. streams[s] = None
    BY <1>1, <2>4 DEF CastInv, SharedAsApproved, InPhase
  <2>6. /\ sessions'[s] = None /\ \A y \in Sessions \ {s} : sessions'[y] = sessions[y]
        /\ requests'[h] = None /\ \A g \in Handles \ {h} : requests'[g] = requests[g]
    BY <1>1, <2>1, <2>2 DEF Forget
  <2>7. SharedAsApproved'
    BY <1>1, <2>4, <2>5, <2>6 DEF SharedAsApproved, CastInv
  <2>8. ConsentInv'
    <3>1. RequestsKept
      BY <2>6 DEF RequestsKept
    <3>2. ASSUME NEW g \in Handles, NEW t \in TokensMinted, Waits(g, x, t)' PROVE FALSE
      <4>1. Waits(g, x, t)
        BY <1>3, <3>1, <3>2, NobodyNew DEF CastInv
      <4>2. g = h
        BY <1>1, <2>0, <2>2, <2>3, <4>1 DEF CastInv, ConsentInv
      <4>3. QED
        BY <2>6, <3>2, <4>2 DEF Waits
    <3>3. ChoicesSettled
      BY <2>0, <2>6, <3>2 DEF ChoicesSettled, InPhase
    <3>4. QED
      BY <1>3, <2>4, <3>1, <3>3, ConsentKept DEF CastInv
  <2>9. LifeStep
    <3>1. \A y \in Sessions : PhaseOf(y)' = IF y \in {x} THEN "Closed" ELSE PhaseOf(y)
      BY <2>0, <2>6 DEF PhaseOf
    <3>2. Sharing' = Sharing \ {x} /\ {x} \in SUBSET Sessions
      BY <2>0, <2>4, <2>5 DEF Sharing
    <3>3. QED
      BY <3>1, <3>2, Ends
  <2>10. AskedStep
    BY <2>4, AskedUnshared
  <2>11. QED
    BY <2>7, <2>8, <2>9, <2>10 DEF Keeps
<1>8. CASE AnswerIgnored
  <2>1. UNCHANGED <<frontend, sessions, requests, streams, tokens>>
    BY <1>8 DEF AnswerIgnored, ledgerVars, streamVars
  <2>2. RequestsKept
    BY <2>1 DEF RequestsKept
  <2>3. QED
    BY <1>1, <1>3, <2>1, <2>2, QuietKeeps
<1>9. QED
  BY <1>5, <1>6, <1>7, <1>8

\* The producer reports, and the loop hears of it.
LEMMA ProducerKeeps ==
    ASSUME CastInv, TypeInv', Producer PROVE Keeps
<1>1. UNCHANGED <<picker, answers, live>>
  BY DEF Producer, NodeBinds, StreamErrors, FrameFails, CoreFails, NodeReady, StreamFatal, CoreFatal,
         Reports, Event, CloseShared
<1>2. NoNewQuestion
  BY <1>1, NoneSent
<1>3. \A x \in Sessions : streams[x] # None => streams[x].source \in Monitors \cup live'
  BY <1>1 DEF CastInv, SharedAsApproved
<1>4. CASE CoreFails \/ \E s \in Sessions : NodeBinds(s) \/ StreamErrors(s)
  <2>1. UNCHANGED <<frontend, sessions, requests, streams, tokens>>
    BY <1>4 DEF CoreFails, NodeBinds, StreamErrors, Reports, ledgerVars
  <2>2. RequestsKept
    BY <2>1 DEF RequestsKept
  <2>3. QED
    BY <1>1, <1>2, <2>1, <2>2, QuietKeeps
<1>5. ASSUME NEW s \in Sessions, FrameFails(s) PROVE Keeps
  <2>1. CloseShared({s}) /\ {s} \in SUBSET Sessions
    BY <1>5 DEF FrameFails
  <2>2. QED
    BY <1>2, <1>3, <2>1, CloseSharedKeeps
<1>6. CASE StreamFatal
  <2>1. CloseShared({Head(events).session}) /\ {Head(events).session} \in SUBSET Sessions
    BY <1>6, EventTypes DEF StreamFatal, Event, CastInv, TypeInv
  <2>2. QED
    BY <1>2, <1>3, <2>1, CloseSharedKeeps
<1>7. CASE NodeReady
  <2>0. PICK s \in Sessions : s = Head(events).session
    BY <1>7, EventTypes DEF NodeReady, Event, CastInv, TypeInv
  <2> DEFINE ready == streams[s] # None /\ sessions[s] # None /\ sessions[s].state = "Starting"
  <2>1. s \in Sessions /\ UNCHANGED <<frontend, requests, tokens>>
    BY <1>7 DEF NodeReady
  <2>2. sessions[s] = None => streams[s] = None
    BY <2>1 DEF CastInv, SharedAsApproved
  <2>3. streams' = streams
    BY <1>7, <2>0, <2>1, <2>2 DEF NodeReady, CastInv, TypeInv, CastTypes
  <2>4. RequestsKept
    BY <2>1 DEF RequestsKept
  <2>5. CASE ~ready
    <3>1. sessions' = sessions
      BY <1>7, <2>0, <2>5 DEF NodeReady
    <3>2. QED
      BY <1>1, <1>2, <2>1, <2>3, <2>4, <3>1, QuietKeeps
  <2>6. CASE ready
    <3> DEFINE new == [sessions[s] EXCEPT !.state = "Active", !.pending = None]
    <3>1. sessions[s] \in SessionRecords
      BY <2>1, <2>6 DEF CastInv, TypeInv, CastTypes
    <3>2. sessions' = [sessions EXCEPT ![s] = new]
      BY <1>7, <2>0, <2>1, <2>6, <3>1 DEF NodeReady, SessionRecords, CastInv, TypeInv, CastTypes
    <3>3. new \in SessionRecords /\ new.state = "Active" /\ new.wants = sessions[s].wants
      BY <3>1 DEF SessionRecords, States
    <3>4. /\ sessions'[s] = new /\ \A x \in Sessions \ {s} : sessions'[x] = sessions[x]
          /\ sessions'[s] # None
      BY <2>1, <3>2, <3>3, RecordsAssumption DEF CastInv, TypeInv, CastTypes
    <3>5. SharedAsApproved'
      BY <1>1, <2>1, <2>3, <3>3, <3>4 DEF SharedAsApproved, CastInv
    <3>6. ChoicesSettled
      BY <2>6, <3>4 DEF ChoicesSettled, InPhase
    <3>7. ConsentInv'
      BY <1>2, <2>1, <2>4, <3>6, ConsentKept DEF CastInv
    <3>8. LifeStep
      <4>1. Lifecycle!Moves(s, {"Starting"}, "Active")
        <5>1. PhaseOf(s) = "Starting"
          BY <2>6 DEF PhaseOf
        <5>2. PhaseOf(s)' = "Active"
          BY <3>3, <3>4 DEF PhaseOf
        <5>3. QED
          BY <2>1, <3>4, <5>1, <5>2, Moved
      <4>2. Sharing' = Sharing /\ s \in Sharing
        BY <2>1, <2>3, <2>6 DEF Sharing
      <4>3. Lifecycle!Publish(s)
        BY <4>1, <4>2 DEF Lifecycle!Publish, Sharing
      <4>4. QED
        BY <2>1, <4>3 DEF LifeStep, Lifecycle!LifecycleNext
    <3>9. AskedStep
      BY <2>3, AskedUnshared
    <3>10. QED
      BY <3>5, <3>7, <3>8, <3>9 DEF Keeps
  <2>7. QED
    BY <2>5, <2>6
<1>8. CASE CoreFatal
  <2>1. /\ UNCHANGED <<frontend, sessions, requests, tokens>>
        /\ \A x \in Sessions : streams'[x] = None
    BY <1>8 DEF CoreFatal, StopCapture, ledgerVars
  <2>2. RequestsKept /\ ChoicesSettled
    BY <2>1 DEF RequestsKept, ChoicesSettled, InPhase
  <2>3. SharedAsApproved'
    BY <2>1 DEF SharedAsApproved
  <2>4. ConsentInv'
    BY <1>2, <2>1, <2>2, ConsentKept DEF CastInv
  <2>5. LifeStep
    <3>1. Lifecycle!Silence
      BY <2>1 DEF Lifecycle!Silence
    <3>2. QED
      BY <3>1 DEF LifeStep, Lifecycle!LifecycleNext
  <2>6. AskedStep
    BY <2>1, AskedUnshared
  <2>7. QED
    BY <2>3, <2>4, <2>5, <2>6 DEF Keeps
<1>9. QED
  BY <1>4, <1>5, <1>6, <1>7, <1>8 DEF Producer

\* Sources come and go.
LEMMA WorldKeeps ==
    ASSUME CastInv, TypeInv', World PROVE Keeps
<1>1. UNCHANGED <<picker, answers>>
  BY DEF World, SourceAppears, WindowVanishes, MonitorVanishes, CloseShared
<1>2. NoNewQuestion
  BY <1>1, NoneSent
<1>3. CASE \/ \E source \in Sources : SourceAppears(source)
           \/ \E m \in Monitors : MonitorVanishes(m)
  <2>1. UNCHANGED <<frontend, sessions, requests, streams, tokens>> /\ live \cap Windows \subseteq live'
    BY <1>3, NoneAssumption DEF SourceAppears, MonitorVanishes, ledgerVars, streamVars
  <2>2. RequestsKept
    BY <2>1 DEF RequestsKept
  <2>3. QED
    BY <1>2, <2>1, <2>2, QuietKeeps
<1>4. ASSUME NEW w \in Windows, WindowVanishes(w) PROVE Keeps
  <2> DEFINE closed == {s \in Sessions : streams[s] # None /\ streams[s].source = w}
  <2>1. CloseShared(closed) /\ live' = live \ {w} /\ closed \in SUBSET Sessions
    BY <1>4 DEF WindowVanishes
  <2>2. \A x \in Sessions \ closed : streams[x] # None => streams[x].source \in Monitors \cup live'
    BY <2>1 DEF CastInv, SharedAsApproved
  <2>3. QED
    BY <1>2, <2>1, <2>2, CloseSharedKeeps
<1>5. QED
  BY <1>3, <1>4 DEF World

\* Every step keeps the invariant, is a step in the life of its session or none, and
\* shares nothing while the user is asked.
LEMMA StepKeeps == CastInv /\ [CastNext]_castVars => CastInv' /\ LifeStep /\ AskedStep
<1> SUFFICES ASSUME CastInv, [CastNext]_castVars PROVE CastInv' /\ LifeStep /\ AskedStep
  OBVIOUS
<1>1. TypeInv'
  BY TypesKept DEF CastInv
<1>2. CASE Calls
  <2>1. ASSUME NEW h \in Handles, NEW s \in Sessions, NEW demand \in Demands \cup {None},
               NEW grant \in Presented, sessions[s] # None, Starts(h, s, Merged(s, demand, grant))
        PROVE  Keeps
    <3>1. Merged(s, demand, grant) \in Wants
      BY <2>1, WantsTypes DEF CastInv, TypeInv
    <3>2. QED
      BY <1>1, <2>1, <3>1, StartKeeps
  <2>2. Keeps
    BY <1>1, <1>2, <2>1, CallCases, CreateKeeps, SelectKeeps, EndKeeps
  <2>3. QED
    BY <1>1, <2>2 DEF Keeps, CastInv
<1>3. CASE Shell
  BY <1>1, <1>3, SendKeeps, DecideKeeps DEF Shell, Keeps, CastInv
<1>4. CASE Producer \/ World
  BY <1>1, <1>4, ProducerKeeps, WorldKeeps DEF Keeps, CastInv
<1>5. CASE UNCHANGED castVars
  <2>1. UNCHANGED <<sessions, requests, streams, frontend, tokens, live, picker, answers>>
    BY <1>5 DEF castVars, ledgerVars, streamVars
  <2>2. NoNewQuestion /\ RequestsKept
    BY <2>1, NoneSent DEF RequestsKept
  <2>3. QED
    BY <1>1, <2>1, <2>2, QuietKeeps DEF Keeps, CastInv
<1>6. QED
  BY <1>2, <1>3, <1>4, <1>5 DEF CastNext

\* The first state has the invariant, and is the first of a life.
LEMMA CastStarts == CastInit => CastInv /\ Lifecycle!LifecycleInit
<1> SUFFICES ASSUME CastInit PROVE CastInv /\ Lifecycle!LifecycleInit
  OBVIOUS
<1>1. /\ \A s \in Sessions : sessions[s] = None /\ streams[s] = None
      /\ \A h \in Handles : requests[h] = None
      /\ picker = None /\ answers = <<>>
  BY DEF CastInit, NoSession
<1>2. SharedAsApproved /\ ConsentInv
  BY <1>1 DEF SharedAsApproved, ConsentInv, Waits, Asked, Consenting
<1>3. Lifecycle!LifecycleInit
  BY <1>1 DEF Lifecycle!LifecycleInit
<1>4. QED
  BY <1>2, <1>3, TypesInit DEF CastInv

\* The ledger, the streams and the queues keep their types.
THEOREM CastTypeCorrect == CastSpec => []CastTypes
<1>1. TypeInv => CastTypes
  BY DEF TypeInv
<1>2. QED
  BY <1>1, TypesInit, TypesKept, PTL DEF CastSpec

\* The portal implements the life a client is promised (CastLifecycle), for any number
\* of sessions: no late decision, late node or half-done failure starts what was not
\* granted, or revives what is closed.
THEOREM ImplementsLifecycle == CastSpec => FollowsLifecycle
BY CastStarts, StepKeeps, PTL DEF CastSpec, FollowsLifecycle, Lifecycle!LifecycleSpec, LifeStep

\* The screen is shared as the user approved it, and not while the question is open.
THEOREM SharesOnlyApproved == CastSpec => OnlyApprovedShared
<1>1. CastInv => SharedAsApproved
  BY DEF CastInv
<1>2. CastInv /\ [CastNext]_castVars => [AskedStep]_castVars
  BY StepKeeps
<1>3. [][AskedStep]_castVars => NotSharedWhileAsked
  BY PTL DEF AskedStep, NotSharedWhileAsked
<1>4. QED
  BY <1>1, <1>2, <1>3, CastStarts, StepKeeps, PTL DEF CastSpec, OnlyApprovedShared

-----------------------------------------------------------------------------
(***************************************************************************)
(* What PortalCast keeps in step with its ledger, on top of the invariant  *)
(* CastInv: the objects and indicators of sessions and requests, and the   *)
(* replies their calls still wait for.                                     *)
(***************************************************************************)

(* The shapes of steps, for what a session leaves behind *)

\* Sessions and requests are forgotten, their streams stopped and their objects removed.
LEMMA ClosedTidy ==
    ASSUME CastInv, NothingLeftBehind, NEW closed \in SUBSET Sessions, NEW hs,
           Forget(closed, hs), StopCapture(closed),
           exported' \cap Sessions = (exported \cap Sessions) \ closed,
           (exported \cap Handles) \ hs \subseteq exported'
    PROVE  NothingLeftBehind'
<1>1. Open' = Open \ closed /\ \A s \in Open' : sessions'[s] = sessions[s]
  BY DEF Forget, Open
<1>2. \A s \in Sessions : nodes'[s] # "none" => streams'[s] # None
  BY DEF StopCapture, NothingLeftBehind
<1>3. \A h \in Handles : requests'[h] # None => h \in exported'
  BY DEF Forget, NothingLeftBehind
<1>4. indicators' = {s \in Open' : sessions'[s].state = "Active" /\ streams'[s] # None}
  BY <1>1 DEF StopCapture, NothingLeftBehind, Open
<1>5. QED
  BY <1>1, <1>2, <1>3, <1>4 DEF NothingLeftBehind

\* A session that is not shared moves to where it is not either, or may be from now on.
LEMMA MovedTidy ==
    ASSUME CastInv, NothingLeftBehind, NEW s \in Sessions,
           \A x \in Sessions \ {s} : UNCHANGED <<sessions[x], streams[x], nodes[x]>>,
           ~InPhase(s, {"Active"}), ~InPhase(s, {"Active"})',
           nodes'[s] # "none" => streams'[s] # None,
           indicators' = indicators,
           exported' \cap Sessions = IF sessions'[s] = None THEN Open \ {s} ELSE Open \cup {s},
           \A h \in Handles : requests'[h] # None => h \in exported'
    PROVE  NothingLeftBehind'
<1>1. Open' = IF sessions'[s] = None THEN Open \ {s} ELSE Open \cup {s}
  BY DEF Open
<1>2. \A x \in Sessions : nodes'[x] # "none" => streams'[x] # None
  BY DEF NothingLeftBehind
<1>3. indicators' = {x \in Open' : sessions'[x].state = "Active" /\ streams'[x] # None}
  BY <1>1 DEF NothingLeftBehind, InPhase, Open
<1>4. QED
  BY <1>1, <1>2, <1>3 DEF NothingLeftBehind

\* Sessions, streams and indicators stay; no request loses its object.
LEMMA QuietTidy ==
    ASSUME NothingLeftBehind, UNCHANGED <<sessions, streams, indicators>>,
           \A s \in Sessions : nodes'[s] # "none" => nodes[s] # "none",
           exported' \cap Sessions = exported \cap Sessions,
           \A h \in Handles : requests'[h] # None => h \in exported'
    PROVE  NothingLeftBehind'
BY DEF NothingLeftBehind, Open

\* close_shared_session
LEMMA CloseSharedTidy ==
    ASSUME CastInv, NothingLeftBehind, NEW closed \in SUBSET Sessions, CloseShared(closed)
    PROVE  NothingLeftBehind'
<1>1. RequestsOf(closed) \subseteq Handles
  BY DEF RequestsOf
<1>2. /\ exported' \cap Sessions = (exported \cap Sessions) \ closed
      /\ (exported \cap Handles) \ RequestsOf(closed) \subseteq exported'
  BY <1>1, NoneAssumption DEF CloseShared
<1>3. QED
  BY <1>2, ClosedTidy DEF CloseShared

\* begin_shared_stream gives a session that is not shared yet its stream.
LEMMA GrantTidy ==
    ASSUME CastInv, NothingLeftBehind, NEW h \in Handles, NEW s \in Sessions, NEW wants, NEW source,
           NEW token, Grant(h, s, wants, source, token),
           [state |-> "Starting", wants |-> wants, pending |-> h] # None,
           [source |-> source, owner |-> frontend] # None,
           sessions[s] # None, ~InPhase(s, {"Active"}), exported' \cap Sessions = exported \cap Sessions,
           \A g \in Handles : requests'[g] # None => g \in exported'
    PROVE  NothingLeftBehind'
<1>1. /\ sessions' = [sessions EXCEPT ![s] = [state |-> "Starting", wants |-> wants, pending |-> h]]
      /\ streams' = [streams EXCEPT ![s] = [source |-> source, owner |-> frontend]]
      /\ nodes' = [nodes EXCEPT ![s] = IF @ = "none" THEN "connecting" ELSE @]
      /\ indicators' = indicators
  BY DEF Grant
<1>2. /\ sessions'[s] = [state |-> "Starting", wants |-> wants, pending |-> h]
      /\ streams'[s] = [source |-> source, owner |-> frontend]
      /\ \A x \in Sessions \ {s} : UNCHANGED <<sessions[x], streams[x], nodes[x]>>
  BY <1>1 DEF CastInv, TypeInv, CastTypes
<1>3. exported \cap Sessions = Open /\ s \in Open
  BY DEF NothingLeftBehind, Open
<1>4. ~InPhase(s, {"Active"})'
  BY <1>2 DEF InPhase
<1>5. QED
  BY <1>1, <1>2, <1>3, <1>4, MovedTidy

\* SelectSources gives a session a state, and what it wants.
LEMMA Selected ==
    ASSUME CastInv, NEW h \in Handles, NEW s \in Sessions, NEW demand \in Demands,
           NEW grant \in Presented, SelectSources(h, s, demand, grant)
    PROVE  /\ sessions'[s] # None /\ sessions'[s].state = "Configured"
           /\ sessions'[s].pending = sessions[s].pending
           /\ \A x \in Sessions \ {s} : sessions'[x] = sessions[x]
<1> DEFINE wants == [types |-> demand.types, persist |-> demand.persist, grant |-> grant]
<1>1. wants \in Wants
  BY DemandsAssumption DEF Demandable, Presented, CastInv, TypeInv, CastTypes, Wants
<1>2. sessions' = [sessions EXCEPT ![s].state = "Configured", ![s].wants = wants] /\ sessions[s] # None
  BY DEF SelectSources
<1>3. QED
  BY <1>1, <1>2, Updated DEF States, CastInv, TypeInv

\* A decision that finds its call finds a session that chooses.
LEMMA DecidesChoosing ==
    ASSUME CastInv, ApprovalGrants \/ CancelApplies, NEW x \in Sessions, x = Head(answers).session,
           NEW h \in Matching(Head(answers))
    PROVE  /\ h \in Handles /\ requests[h] # None /\ requests[h].session = x
           /\ requests[h].consent # None
           /\ InPhase(x, {"Choosing"}) /\ sessions[x] # None
           /\ ApprovalGrants => sessions[x].wants \in Wants
<1>1. answers # <<>> /\ Head(answers).kind # "Stop"
  BY DEF ApprovalGrants, CancelApplies, Answer
<1>2. Asked(x, Head(answers).token) /\ Head(answers).token \in TokensMinted
  BY <1>1, AnswerTypes, ReadsAsked DEF CastInv, TypeInv
<1>3. /\ h \in Handles /\ requests[h] # None /\ requests[h].session = x
      /\ requests[h].consent = Head(answers).token
  BY DEF Matching, RequestsOf
<1>4. requests[h].consent # None
  BY <1>2, <1>3, NoneAssumption DEF TokensMinted
<1>5. InPhase(x, {"Choosing"})
  BY <1>2, <1>3 DEF Waits, CastInv, ConsentInv
<1>6. ApprovalGrants => sessions[x].wants \in Wants
  BY DEF ApprovalGrants, Shareable, CastInv, TypeInv, CastTypes, SessionRecords
<1>7. QED
  BY <1>3, <1>4, <1>5, <1>6 DEF InPhase

\* The session whose node was bound is answered.
SessionReady(s) ==
    /\ sessions'[s] # None /\ sessions'[s].state = "Active" /\ sessions'[s].pending = None
    /\ \A x \in Sessions \ {s} : sessions'[x] = sessions[x]

\* NodeReady does so, of a session that starts.
LEMMA BecomesReady ==
    ASSUME CastInv, NodeReady, NEW s \in Sessions, s = Head(events).session,
           streams[s] # None /\ sessions[s] # None /\ sessions[s].state = "Starting"
    PROVE  SessionReady(s)
<1> DEFINE new == [sessions[s] EXCEPT !.state = "Active", !.pending = None]
<1>1. sessions[s] \in SessionRecords /\ DOMAIN sessions = Sessions
  BY DEF CastInv, TypeInv, CastTypes
<1>2. sessions' = [sessions EXCEPT ![s] = new]
  BY <1>1 DEF NodeReady, SessionRecords
<1>3. new \in SessionRecords /\ new.state = "Active" /\ new.pending = None
  BY <1>1 DEF SessionRecords, States
<1>4. sessions'[s] = new /\ \A x \in Sessions \ {s} : sessions'[x] = sessions[x]
  BY <1>1, <1>2
<1>5. QED
  BY <1>3, <1>4, RecordsAssumption DEF SessionReady

----------------------------------------------------------------------------
(* The steps *)

\* A session is created, or told what to share.
LEMMA SetUpTidy ==
    ASSUME CastInv, NothingLeftBehind,
           \/ \E s \in Sessions : CreateSession(s)
           \/ \E h \in Handles, s \in Sessions, demand \in Demands, grant \in Presented :
                SelectSources(h, s, demand, grant)
    PROVE  NothingLeftBehind'
<1>1. ASSUME NEW s \in Sessions, CreateSession(s) PROVE NothingLeftBehind'
  <2> DEFINE new == [state |-> "Created", wants |-> None, pending |-> None]
  <2>1. new \in SessionRecords /\ new # None
    BY RecordsAssumption DEF SessionRecords, States
  <2>2. /\ sessions' = [sessions EXCEPT ![s] = new] /\ exported' = exported \cup {s}
        /\ sessions[s] = None /\ UNCHANGED <<requests, streams, nodes, indicators>>
    BY <1>1 DEF CreateSession, streamVars
  <2>3. sessions'[s] = new /\ \A x \in Sessions \ {s} : sessions'[x] = sessions[x]
    BY <2>2 DEF CastInv, TypeInv, CastTypes
  <2>4. ~InPhase(s, {"Active"}) /\ ~InPhase(s, {"Active"})'
    BY <2>2, <2>3 DEF InPhase
  <2>5. /\ exported' \cap Sessions = Open \cup {s}
        /\ \A h \in Handles : requests'[h] # None => h \in exported'
    BY <2>2 DEF NothingLeftBehind
  <2>6. nodes'[s] # "none" => streams'[s] # None
    BY <2>2 DEF NothingLeftBehind
  <2>7. QED
    BY <2>1, <2>2, <2>3, <2>4, <2>5, <2>6, MovedTidy
<1>2. ASSUME NEW h \in Handles, NEW s \in Sessions, NEW demand \in Demands, NEW grant \in Presented,
             SelectSources(h, s, demand, grant)
      PROVE  NothingLeftBehind'
  <2>1. /\ sessions[s] # None /\ sessions[s].state \in {"Created", "Configured"}
        /\ UNCHANGED <<streams, nodes, indicators>>
    BY <1>2 DEF SelectSources, streamVars
  <2>2. /\ sessions'[s] # None /\ sessions'[s].state = "Configured"
        /\ \A x \in Sessions \ {s} : sessions'[x] = sessions[x]
    BY <1>2, <2>1, Selected
  <2>3. ~InPhase(s, {"Active"}) /\ ~InPhase(s, {"Active"})'
    BY <2>1, <2>2 DEF InPhase
  <2>4. exported' \cap Sessions = Open \cup {s}
    BY <1>2, <2>1, NoneAssumption DEF SelectSources, NothingLeftBehind, Open
  <2>5. \A g \in Handles : requests'[g] # None => g \in exported'
    BY <1>2 DEF SelectSources, NothingLeftBehind, CastInv, TypeInv, CastTypes
  <2>6. nodes'[s] # "none" => streams'[s] # None
    BY <2>1 DEF NothingLeftBehind
  <2>7. QED
    BY <2>1, <2>2, <2>3, <2>4, <2>5, <2>6, MovedTidy
<1>3. QED
  BY <1>1, <1>2

\* Start, whichever way it goes.
LEMMA StartTidy ==
    ASSUME CastInv, NothingLeftBehind, NEW h \in Handles, NEW s \in Sessions, NEW wants \in Wants,
           Starts(h, s, wants)
    PROVE  NothingLeftBehind'
<1>1. /\ InPhase(s, {"Created", "Configured"}) /\ frontend # None /\ tokens + 1 \in TokensMinted
      /\ s \in Open /\ ~InPhase(s, {"Active"}) /\ streams[s] = None
  BY StartFacts DEF InPhase, Open, CastInv, SharedAsApproved
<1>2. exported \cap Sessions = Open /\ nodes[s] = "none"
  BY <1>1 DEF NothingLeftBehind, CastInv, TypeInv, CastTypes
<1>3. \A g \in Handles \ {h} : WithConsent(h, s)[g] = requests[g]
  BY <1>1, ConsentGiven
<1>4. ASSUME Chooses(h, s, wants), UNCHANGED <<streams, nodes, indicators>>,
             exported \subseteq exported', exported' \subseteq exported \cup {h}, h \in exported'
      PROVE  NothingLeftBehind'
  <2>1. /\ sessions'[s] # None /\ ~InPhase(s, {"Active"})'
        /\ \A x \in Sessions \ {s} : sessions'[x] = sessions[x]
    BY <1>1, <1>4, Updated DEF Chooses, States, Open, InPhase, CastInv, TypeInv
  <2>2. exported' \cap Sessions = Open \cup {s}
    BY <1>1, <1>2, <1>4, NoneAssumption
  <2>3. \A g \in Handles : requests'[g] # None => g \in exported'
    BY <1>3, <1>4 DEF Chooses, NothingLeftBehind
  <2>4. QED
    BY <1>1, <1>2, <1>4, <2>1, <2>2, <2>3, MovedTidy
<1>5. requests[h] # None => h \in exported
  BY DEF NothingLeftBehind
<1>6. CASE StartPrompts(h, s, wants)
  BY <1>4, <1>5, <1>6 DEF StartPrompts, streamVars
<1>7. CASE StartRestored(h, s, wants)
  <2>1. CASE Finds(h, s)
    <3>1. Grant(h, s, wants, wants.grant.source, tokens + 1) /\ Restored(wants)
      BY <1>7, <2>1 DEF StartRestored
    <3>2. [state |-> "Starting", wants |-> wants, pending |-> h] # None
      BY RecordsAssumption DEF SessionRecords, States
    <3>3. [source |-> wants.grant.source, owner |-> frontend] # None
      BY <1>1, <3>1, RecordsAssumption DEF Restored, StreamRecords, CastInv, TypeInv, CastTypes
    <3>4. exported' \cap Sessions = exported \cap Sessions
      BY <1>7, <2>1, NoneAssumption DEF StartRestored
    <3>5. \A g \in Handles : requests'[g] # None => g \in exported'
      BY <1>7, <2>1, <3>1 DEF StartRestored, Grant, NothingLeftBehind, CastInv, TypeInv, CastTypes
    <3>6. QED
      BY <1>1, <3>1, <3>2, <3>3, <3>4, <3>5, GrantTidy DEF Open
  <2>2. CASE ~Finds(h, s)
    BY <1>4, <1>5, <1>7, <2>2 DEF StartRestored, Finds, streamVars
  <2>3. QED
    BY <2>1, <2>2
<1>8. CASE StartRestoredFails(h, s, wants)
  <2>1. Forget({s}, RequestsOf({s}) \cup {h}) /\ StopCapture({s})
    BY <1>8 DEF StartRestoredFails, GrantFails
  <2>2. exported' = (exported \ ({s} \cup RequestsOf({s}))) \cup (IF requests[h] = None THEN {h} ELSE {})
    BY <1>8 DEF StartRestoredFails
  <2>3. exported' \cap Sessions = (exported \cap Sessions) \ {s}
    BY <2>2, NoneAssumption DEF RequestsOf
  <2>4. (exported \cap Handles) \ (RequestsOf({s}) \cup {h}) \subseteq exported'
    BY <2>2, NoneAssumption
  <2>5. QED
    BY <2>1, <2>3, <2>4, ClosedTidy
<1>9. CASE StartOffersNothing(h, s, wants)
  <2>1. UNCHANGED <<streams, nodes, indicators>>
    BY <1>9 DEF StartOffersNothing, streamVars
  <2>2. CASE /\ Consenting(RequestsOf({s})) \cup (IF Finds(h, s) THEN {h} ELSE {}) = {}
             /\ Chooses(h, s, wants) /\ UNCHANGED exported
    BY <1>4, <1>5, <2>1, <2>2 DEF Finds
  <2>3. CASE \E found \in Consenting(RequestsOf({s})) \cup (IF Finds(h, s) THEN {h} ELSE {}) :
                /\ sessions' = [sessions EXCEPT ![s] = None]
                /\ requests' = [WithConsent(h, s) EXCEPT ![found] = None]
                /\ exported' = (exported \ {s, found}) \cup (IF requests[h] = None THEN {h} ELSE {})
    <3>1. PICK found \in Handles :
                /\ sessions' = [sessions EXCEPT ![s] = None]
                /\ requests' = [WithConsent(h, s) EXCEPT ![found] = None]
                /\ exported' = (exported \ {s, found}) \cup (IF requests[h] = None THEN {h} ELSE {})
      BY <2>3 DEF Consenting, RequestsOf
    <3>2. sessions'[s] = None /\ \A x \in Sessions \ {s} : sessions'[x] = sessions[x]
      BY <3>1 DEF CastInv, TypeInv, CastTypes
    <3>3. exported' \cap Sessions = Open \ {s}
      BY <1>2, <3>1, NoneAssumption
    <3>4. \A g \in Handles : requests'[g] # None => g \in exported'
      <4>1. DOMAIN WithConsent(h, s) = Handles
        BY DEF WithConsent, CastInv, TypeInv, CastTypes
      <4>2. QED
        BY <1>3, <1>5, <3>1, <4>1, NoneAssumption DEF NothingLeftBehind
    <3>5. ~InPhase(s, {"Active"})' /\ (nodes'[s] # "none" => streams'[s] # None)
      BY <1>2, <2>1, <3>2 DEF InPhase
    <3>6. QED
      BY <1>1, <2>1, <3>2, <3>3, <3>4, <3>5, MovedTidy
  <2>4. QED
    BY <1>9, <2>2, <2>3 DEF StartOffersNothing
<1>10. QED
  BY <1>6, <1>7, <1>8, <1>9 DEF Starts

\* The calls that close, and the change of the frontend.
LEMMA EndTidy ==
    ASSUME CastInv, NothingLeftBehind,
           \/ \E s \in Sessions : SessionCloses(s)
           \/ \E h \in Handles : RequestCloses(h) \/ StartCancelled(h)
           \/ \E owner \in Frontends \cup {None} : FrontendOwnerChanged(owner)
    PROVE  NothingLeftBehind'
<1>1. ASSUME NEW s \in Sessions, SessionCloses(s) PROVE NothingLeftBehind'
  <2>1. /\ Forget({s}, RequestsOf({s})) /\ StopCapture({s}) /\ RequestsOf({s}) \subseteq Handles
        /\ exported' = exported \ ({s} \cup RequestsOf({s}))
    BY <1>1 DEF SessionCloses, RequestsOf
  <2>2. /\ exported' \cap Sessions = (exported \cap Sessions) \ {s}
        /\ (exported \cap Handles) \ RequestsOf({s}) \subseteq exported'
    BY <2>1, NoneAssumption
  <2>3. QED
    BY <2>1, <2>2, ClosedTidy
<1>2. ASSUME NEW h \in Handles, RequestCloses(h) \/ StartCancelled(h) PROVE NothingLeftBehind'
  <2>1. UNCHANGED <<sessions, streams, nodes, indicators>> /\ exported \ {h} \subseteq exported' /\ exported' \subseteq exported
    BY <1>2 DEF RequestCloses, StartCancelled, streamVars
  <2>2. exported' \cap Sessions = exported \cap Sessions
    BY <2>1, NoneAssumption
  <2>3. CASE RequestCloses(h)
    <3>1. exported' = exported /\ \A g \in Handles : requests'[g] # None => requests[g] # None
      BY <2>3 DEF RequestCloses, CastInv, TypeInv, CastTypes
    <3>2. QED
      BY <2>1, <3>1, QuietTidy DEF NothingLeftBehind
  <2>4. CASE StartCancelled(h)
    <3>1. \A g \in Handles : requests'[g] # None => requests[g] # None /\ g # h
      BY <2>4 DEF StartCancelled, CastInv, TypeInv, CastTypes
    <3>2. QED
      BY <2>1, <2>2, <3>1, QuietTidy DEF NothingLeftBehind
  <2>5. QED
    BY <1>2, <2>3, <2>4
<1>3. ASSUME NEW owner \in Frontends \cup {None}, FrontendOwnerChanged(owner) PROVE NothingLeftBehind'
  <2> DEFINE held == {h \in Handles : requests[h] # None}
  <2>1. CASE owner = frontend /\ owner # None
    BY <1>3, <2>1, QuietTidy DEF FrontendOwnerChanged, streamVars, busVars, NothingLeftBehind
  <2>2. CASE ~(owner = frontend /\ owner # None)
    <3>1. Forget(Open, held) /\ StopCapture(Open) /\ exported' = exported \ (Open \cup held)
      BY <1>3, <2>2 DEF FrontendOwnerChanged
    <3>2. /\ exported' \cap Sessions = (exported \cap Sessions) \ Open
          /\ (exported \cap Handles) \ held \subseteq exported'
      BY <3>1, NoneAssumption DEF Open
    <3>3. Open \in SUBSET Sessions
      BY DEF Open
    <3>4. QED
      BY <3>1, <3>2, <3>3, ClosedTidy
  <2>3. QED
    BY <2>1, <2>2
<1>4. QED
  BY <1>1, <1>2, <1>3

\* The shell answers, and the loop reads what it answered.
LEMMA ShellTidy == ASSUME CastInv, NothingLeftBehind, Shell PROVE NothingLeftBehind'
<1> DEFINE answer == Head(answers)
           s == answer.session
<1>1. CASE \/ \E source \in Sources : ShellApproves(source)
           \/ ShellCancels \/ AnswerIgnored
           \/ \E x \in Sessions : ShellStops(x)
  <2>1. UNCHANGED <<sessions, requests, streams, nodes, indicators, exported>>
    BY <1>1 DEF ShellApproves, ShellCancels, ShellStops, AnswerIgnored, Sends, ledgerVars, streamVars, busVars
  <2>2. QED
    BY <2>1, QuietTidy DEF NothingLeftBehind
<1>2. CASE ApprovalRefused \/ Stops
  <2>1. CloseShared({s}) /\ {s} \in SUBSET Sessions
    BY <1>2, AnswerTypes DEF ApprovalRefused, Stops, Answer, CastInv, TypeInv
  <2>2. QED
    BY <2>1, CloseSharedTidy
<1>3. CASE ApprovalGrants
  <2>1. PICK x \in Sessions : x = s
    BY <1>3, AnswerTypes DEF ApprovalGrants, Answer, CastInv, TypeInv
  <2>2. PICK h \in Matching(answer) :
          \/ /\ Grant(h, x, sessions[x].wants, answer.source, answer.token)
             /\ exported' = exported \ {h}
          \/ /\ GrantFails(h, x, sessions[x].wants, answer.source, answer.token)
             /\ exported' = exported \ ({x} \cup RequestsOf({x}))
    BY <1>3, <2>1 DEF ApprovalGrants
  <2>3. /\ h \in Handles /\ requests[h] # None /\ requests[h].session = x
        /\ sessions[x].wants \in Wants /\ sessions[x] # None /\ InPhase(x, {"Choosing"})
    BY <1>3, <2>1, <2>2, DecidesChoosing
  <2>4. CASE /\ Grant(h, x, sessions[x].wants, answer.source, answer.token) /\ exported' = exported \ {h}
    <3>1. [state |-> "Starting", wants |-> sessions[x].wants, pending |-> h] # None
      BY <2>3, RecordsAssumption DEF SessionRecords, States
    <3>2. [source |-> answer.source, owner |-> frontend] # None
      <4>1. answer.source \in Sources
        BY <1>3, AnswerTypes DEF ApprovalGrants, Answer, CastInv, TypeInv
      <4>2. frontend \in Frontends
        BY <2>3 DEF CastInv, TypeInv, CastTypes, Open
      <4>3. QED
        BY <4>1, <4>2, RecordsAssumption DEF StreamRecords
    <3>3. exported' \cap Sessions = exported \cap Sessions
      BY <2>3, <2>4, NoneAssumption
    <3>4. \A g \in Handles : requests'[g] # None => g \in exported'
      BY <2>3, <2>4 DEF Grant, NothingLeftBehind, CastInv, TypeInv, CastTypes
    <3>5. ~InPhase(x, {"Active"})
      BY <2>3 DEF InPhase
    <3>6. QED
      BY <2>3, <2>4, <3>1, <3>2, <3>3, <3>4, <3>5, GrantTidy
  <2>5. CASE /\ GrantFails(h, x, sessions[x].wants, answer.source, answer.token)
             /\ exported' = exported \ ({x} \cup RequestsOf({x}))
    <3>1. /\ Forget({x}, RequestsOf({x}) \cup {h}) /\ StopCapture({x}) /\ {x} \in SUBSET Sessions
          /\ RequestsOf({x}) \subseteq Handles
      BY <2>5 DEF GrantFails, RequestsOf
    <3>2. /\ exported' \cap Sessions = (exported \cap Sessions) \ {x}
          /\ (exported \cap Handles) \ (RequestsOf({x}) \cup {h}) \subseteq exported'
      BY <2>5, <3>1, NoneAssumption
    <3>3. QED
      BY <3>1, <3>2, ClosedTidy
  <2>6. QED
    BY <2>2, <2>4, <2>5
<1>4. CASE CancelApplies
  <2>1. PICK x \in Sessions : x = s
    BY <1>4, AnswerTypes DEF CancelApplies, Answer, CastInv, TypeInv
  <2>2. PICK h \in Matching(answer) : Forget({x}, {h}) /\ exported' = exported \ {h, x}
    BY <1>4, <2>1 DEF CancelApplies
  <2>3. h \in Handles /\ InPhase(x, {"Choosing"}) /\ UNCHANGED <<streams, nodes, indicators>>
    BY <1>4, <2>1, <2>2, DecidesChoosing DEF CancelApplies, streamVars
  <2>4. streams[x] = None /\ nodes[x] = "none" /\ ~InPhase(x, {"Active"})
    BY <2>3 DEF InPhase, NothingLeftBehind, CastInv, SharedAsApproved
  <2>5. /\ sessions'[x] = None /\ \A y \in Sessions \ {x} : sessions'[y] = sessions[y]
        /\ ~InPhase(x, {"Active"})'
    BY <2>2 DEF Forget, InPhase
  <2>6. /\ exported' \cap Sessions = Open \ {x}
        /\ \A g \in Handles : requests'[g] # None => g \in exported'
    BY <2>2, <2>3, NoneAssumption DEF Forget, NothingLeftBehind
  <2>7. QED
    BY <2>3, <2>4, <2>5, <2>6, MovedTidy
<1>5. QED
  BY <1>1, <1>2, <1>3, <1>4 DEF Shell

\* The producer reports, the loop hears of it, and the sources come and go.
LEMMA OutsideTidy == ASSUME CastInv, NothingLeftBehind, Producer \/ World PROVE NothingLeftBehind'
<1>1. CASE \/ CoreFails \/ \E s \in Sessions : NodeBinds(s) \/ StreamErrors(s)
           \/ \E source \in Sources : SourceAppears(source)
           \/ \E m \in Monitors : MonitorVanishes(m)
  <2>1. UNCHANGED <<sessions, requests, streams, indicators, exported>>
    BY <1>1 DEF CoreFails, NodeBinds, StreamErrors, SourceAppears, MonitorVanishes, Reports,
                ledgerVars, streamVars, busVars
  <2>2. \A s \in Sessions : nodes'[s] # "none" => nodes[s] # "none"
    BY <1>1 DEF CoreFails, NodeBinds, StreamErrors, SourceAppears, MonitorVanishes, streamVars,
                CastInv, TypeInv, CastTypes
  <2>3. QED
    BY <2>1, <2>2, QuietTidy DEF NothingLeftBehind
<1>2. ASSUME NEW s \in Sessions, FrameFails(s) PROVE NothingLeftBehind'
  <2>1. CloseShared({s}) /\ {s} \in SUBSET Sessions
    BY <1>2 DEF FrameFails
  <2>2. QED
    BY <2>1, CloseSharedTidy
<1>3. CASE StreamFatal
  <2>1. CloseShared({Head(events).session}) /\ {Head(events).session} \in SUBSET Sessions
    BY <1>3, EventTypes DEF StreamFatal, Event, CastInv, TypeInv
  <2>2. QED
    BY <2>1, CloseSharedTidy
<1>4. ASSUME NEW w \in Windows, WindowVanishes(w) PROVE NothingLeftBehind'
  <2> DEFINE closed == {s \in Sessions : streams[s] # None /\ streams[s].source = w}
  <2>1. CloseShared(closed) /\ closed \in SUBSET Sessions
    BY <1>4 DEF WindowVanishes
  <2>2. QED
    BY <2>1, CloseSharedTidy
<1>5. CASE CoreFatal
  <2>1. UNCHANGED <<sessions, requests, exported>> /\ StopCapture(Sessions)
    BY <1>5 DEF CoreFatal, ledgerVars, busVars
  <2>2. \A s \in Sessions : streams'[s] = None /\ nodes'[s] = "none"
    BY <2>1 DEF StopCapture, NothingLeftBehind, CastInv, TypeInv, CastTypes
  <2>3. indicators' = {}
    BY <2>1 DEF StopCapture, NothingLeftBehind, Open
  <2>4. QED
    BY <2>1, <2>2, <2>3 DEF NothingLeftBehind, Open
<1>6. CASE NodeReady
  <2>1. PICK s \in Sessions : s = Head(events).session
    BY <1>6, EventTypes DEF NodeReady, Event, CastInv, TypeInv
  <2>2. UNCHANGED <<requests, nodes, exported>>
    BY <1>6 DEF NodeReady
  <2>3. streams' = streams
    BY <1>6, <2>1 DEF NodeReady, CastInv, SharedAsApproved, TypeInv, CastTypes
  <2>4. CASE streams[s] # None /\ sessions[s] # None /\ sessions[s].state = "Starting"
    <3>1. SessionReady(s)
      BY <1>6, <2>1, <2>4, BecomesReady
    <3>2. Open' = Open /\ indicators' = indicators \cup {s}
      BY <1>6, <2>1, <2>4, <3>1 DEF NodeReady, SessionReady, Open
    <3>3. indicators' = {x \in Open' : sessions'[x].state = "Active" /\ streams'[x] # None}
      BY <2>3, <2>4, <3>1, <3>2 DEF NothingLeftBehind, SessionReady, Open
    <3>4. QED
      BY <2>2, <2>3, <3>2, <3>3 DEF NothingLeftBehind
  <2>5. CASE ~(streams[s] # None /\ sessions[s] # None /\ sessions[s].state = "Starting")
    <3>1. UNCHANGED <<sessions, indicators>>
      BY <1>6, <2>1, <2>5 DEF NodeReady
    <3>2. QED
      BY <2>2, <2>3, <3>1, QuietTidy DEF NothingLeftBehind
  <2>6. QED
    BY <2>4, <2>5
<1>7. QED
  BY <1>1, <1>2, <1>3, <1>4, <1>5, <1>6 DEF Producer, World

\* Every step leaves nothing behind.
LEMMA TidyKept == CastInv /\ NothingLeftBehind /\ [CastNext]_castVars => NothingLeftBehind'
<1> SUFFICES ASSUME CastInv, NothingLeftBehind, [CastNext]_castVars PROVE NothingLeftBehind'
  OBVIOUS
<1>1. CASE Calls
  <2>1. ASSUME NEW h \in Handles, NEW s \in Sessions, NEW demand \in Demands \cup {None},
               NEW grant \in Presented, sessions[s] # None, Starts(h, s, Merged(s, demand, grant))
        PROVE  NothingLeftBehind'
    <3>1. Merged(s, demand, grant) \in Wants
      BY <2>1, WantsTypes DEF CastInv, TypeInv
    <3>2. QED
      BY <2>1, <3>1, StartTidy
  <2>2. QED
    BY <1>1, <2>1, CallCases, SetUpTidy, EndTidy
<1>2. CASE Shell
  BY <1>2, ShellTidy
<1>3. CASE Producer \/ World
  BY <1>3, OutsideTidy
<1>4. CASE UNCHANGED castVars
  BY <1>4 DEF castVars, ledgerVars, streamVars, busVars, NothingLeftBehind, Open
<1>5. QED
  BY <1>1, <1>2, <1>3, <1>4 DEF CastNext

\* A session leaves nothing behind and is never half gone: no node outlives its stream,
\* no object its session or request, and the shell's indicators are those of the
\* sessions that are streamed.
THEOREM LeavesNothingBehind == CastSpec => []NothingLeftBehind
<1>1. CastInit => NothingLeftBehind
  BY DEF CastInit, NoSession, NothingLeftBehind, Open
<1>2. QED
  BY <1>1, CastStarts, StepKeeps, TidyKept, PTL DEF CastSpec

----------------------------------------------------------------------------
(* The replies that are owed *)

\* Session s holds the reply link of call h.
Pends(s, h) == sessions[s] # None /\ sessions[s].pending = h

\* Request h holds that of its call.
Consents(h) == requests[h] # None /\ requests[h].consent # None

\* AnsweredOnce, link by link; and the call whose link a session holds is in the ledger
\* no more, so that nothing can give it a second consent.
LinkInv ==
    /\ \A h \in Handles : Consents(h) => h \in awaiting /\ ~requests[h].cancelled
    /\ \A s \in Sessions, h \in Handles : Pends(s, h) => h \in awaiting /\ requests[h] = None
    /\ \A s, t \in Sessions, h \in Handles : Pends(s, h) /\ Pends(t, h) => s = t

\* The link of a call is held by a request or a session.
LEMMA HeldLinks ==
    ASSUME TypeInv, NEW h \in Handles
    PROVE  h \in Held <=> Consents(h) \/ \E s \in Sessions : Pends(s, h)
<1>1. h \in Consenting(Handles) <=> Consents(h)
  BY DEF Consenting, Consents
<1>2. h \in Pending(Sessions) <=> \E s \in Sessions : Pends(s, h)
  BY NoneAssumption DEF Pending, Pends, Open
<1>3. QED
  BY <1>1, <1>2 DEF Held

\* It is what is claimed.
LEMMA LinksAnsweredOnce == TypeInv /\ LinkInv => AnsweredOnce
<1> SUFFICES ASSUME TypeInv, LinkInv PROVE AnsweredOnce
  OBVIOUS
<1>1. \A h \in Held : h \in Handles
  BY DEF Held, Consenting, Pending, Open, TypeInv, CastTypes, SessionRecords
<1>2. Held \subseteq awaiting
  BY <1>1, HeldLinks DEF LinkInv
<1>3. Consenting(Handles) \cap Pending(Sessions) = {}
  <2> SUFFICES ASSUME NEW h \in Handles, Consents(h), NEW s \in Sessions, Pends(s, h) PROVE FALSE
    BY DEF Consenting, Consents, Pending, Pends, Open
  <2>1. QED
    BY DEF LinkInv, Consents
<1>4. \A s, t \in Open : sessions[s].pending # None /\ sessions[s].pending = sessions[t].pending => s = t
  BY DEF LinkInv, Pends, Open, TypeInv, CastTypes, SessionRecords
<1>5. \A h \in Handles : requests[h] # None /\ requests[h].cancelled => h \notin Held
  BY HeldLinks DEF LinkInv, Consents
<1>6. QED
  BY <1>2, <1>3, <1>4, <1>5 DEF AnsweredOnce

\* Sessions and requests are forgotten; what they held is answered, or let go of.
LEMMA ClosedLinks ==
    ASSUME CastInv, LinkInv, NEW closed \in SUBSET Sessions, NEW hs, Forget(closed, hs),
           NEW gone, awaiting' = awaiting \ gone,
           \A h \in Handles \cap gone :
                (h \in hs /\ requests[h] # None) \/ (\E s \in closed : Pends(s, h))
    PROVE  LinkInv'
<1>1. \A s \in Sessions, h \in Handles : Pends(s, h)' => s \notin closed /\ Pends(s, h)
  BY DEF Pends, Forget
<1>2. \A h \in Handles : Consents(h)' => h \notin hs /\ requests'[h] = requests[h] /\ Consents(h)
  BY DEF Consents, Forget
<1>3. \A h \in Handles : Consents(h)' => h \in awaiting' /\ ~requests'[h].cancelled
  BY <1>2 DEF LinkInv, Consents
<1>4. \A s \in Sessions, h \in Handles : Pends(s, h)' => h \in awaiting' /\ requests'[h] = None
  <2> SUFFICES ASSUME NEW s \in Sessions, NEW h \in Handles, Pends(s, h)'
               PROVE  h \in awaiting' /\ requests'[h] = None
    OBVIOUS
  <2>1. Pends(s, h) /\ s \notin closed /\ h \in awaiting /\ requests[h] = None
    BY <1>1 DEF LinkInv
  <2>2. h \notin gone
    BY <2>1 DEF LinkInv
  <2>3. QED
    BY <2>1, <2>2 DEF Forget
<1>5. QED
  BY <1>1, <1>3, <1>4 DEF LinkInv

\* The sessions stay; a request may give up its link, which is answered, and go.
LEMMA QuietLinks ==
    ASSUME CastInv, LinkInv, sessions' = sessions, NEW gone, awaiting' = awaiting \ gone,
           \A h \in Handles : Consents(h)' => requests'[h] = requests[h] /\ h \notin gone,
           \A h \in Handles : requests[h] = None => requests'[h] = None /\ h \notin gone
    PROVE  LinkInv'
<1>1. \A s \in Sessions, h \in Handles : Pends(s, h)' <=> Pends(s, h)
  BY DEF Pends
<1>2. \A h \in Handles : Consents(h)' => Consents(h)
  BY DEF Consents
<1>3. QED
  BY <1>1, <1>2 DEF LinkInv

\* Of one session at most the link is dropped; one call, whose link nobody holds, may get
\* a request, which may hold it from now on.
LEMMA AskedLinks ==
    ASSUME CastInv, LinkInv, NEW h \in Handles, h \notin Held,
           \A x \in Sessions, g \in Handles : Pends(x, g)' => Pends(x, g),
           \A g \in Handles \ {h} : requests'[g] = requests[g],
           Consents(h)' => h \in awaiting' /\ ~requests'[h].cancelled,
           awaiting \subseteq awaiting'
    PROVE  LinkInv'
<1>1. \A x \in Sessions : ~Pends(x, h)'
  BY HeldLinks DEF CastInv
<1>2. \A g \in Handles \ {h} : Consents(g)' <=> Consents(g)
  BY DEF Consents
<1>3. \A g \in Handles : Consents(g)' => g \in awaiting' /\ ~requests'[g].cancelled
  BY <1>2 DEF LinkInv
<1>4. \A x \in Sessions, g \in Handles : Pends(x, g)' => g \in awaiting' /\ requests'[g] = None
  BY <1>1 DEF LinkInv
<1>5. QED
  BY <1>3, <1>4 DEF LinkInv

\* The session gets the link of its call, which the request held, or nobody.
LEMMA GrantLinks ==
    ASSUME CastInv, LinkInv, NEW h \in Handles, NEW s \in Sessions, NEW wants, NEW source, NEW token,
           Grant(h, s, wants, source, token), Consents(h) \/ h \notin Held,
           h \in awaiting', awaiting \subseteq awaiting'
    PROVE  LinkInv'
<1>1. \A x \in Sessions : ~Pends(x, h)
  BY HeldLinks DEF LinkInv, Consents, CastInv
<1>2. /\ sessions'[s].pending = h /\ \A x \in Sessions \ {s} : sessions'[x] = sessions[x]
      /\ requests'[h] = None /\ \A g \in Handles \ {h} : requests'[g] = requests[g]
  BY DEF Grant, CastInv, TypeInv, CastTypes
<1>3. \A g \in Handles : Consents(g)' => g # h /\ Consents(g) /\ requests'[g] = requests[g]
  BY <1>2 DEF Consents
<1>4. \A x \in Sessions, g \in Handles : Pends(x, g)' => (x = s /\ g = h) \/ (x # s /\ g # h /\ Pends(x, g))
  BY <1>1, <1>2 DEF Pends
<1>5. \A x \in Sessions, g \in Handles : Pends(x, g)' => g \in awaiting' /\ requests'[g] = None
  BY <1>2, <1>4 DEF LinkInv
<1>6. QED
  BY <1>3, <1>4, <1>5 DEF LinkInv

\* close_shared_session: the sessions' links are answered, those of its requests are not.
LEMMA CloseSharedLinks ==
    ASSUME CastInv, LinkInv, NEW closed \in SUBSET Sessions, CloseShared(closed) PROVE LinkInv'
<1>1. \A h \in Handles \cap Pending(closed) : \E s \in closed : Pends(s, h)
  BY DEF Pending, Pends, Open
<1>2. QED
  BY <1>1, ClosedLinks DEF CloseShared

\* A session is created, or told what to share.
LEMMA SetUpLinks ==
    ASSUME CastInv, LinkInv,
           \/ \E s \in Sessions : CreateSession(s)
           \/ \E h \in Handles, s \in Sessions, demand \in Demands, grant \in Presented :
                SelectSources(h, s, demand, grant)
    PROVE  LinkInv'
<1>1. ASSUME NEW s \in Sessions, CreateSession(s) PROVE LinkInv'
  <2>1. \A x \in Sessions, h \in Handles : Pends(x, h)' => Pends(x, h)
    BY <1>1, NoneAssumption DEF CreateSession, Pends, CastInv, TypeInv, CastTypes
  <2>2. UNCHANGED <<requests, awaiting>>
    BY <1>1 DEF CreateSession
  <2>3. QED
    BY <2>1, <2>2 DEF LinkInv, Consents
<1>2. ASSUME NEW h \in Handles, NEW s \in Sessions, NEW demand \in Demands, NEW grant \in Presented,
             SelectSources(h, s, demand, grant)
      PROVE  LinkInv'
  <2>1. h \notin Held /\ sessions[s] # None /\ awaiting' = awaiting
    BY <1>2 DEF SelectSources
  <2>2. \A x \in Sessions, g \in Handles : Pends(x, g)' => Pends(x, g)
    BY <1>2, <2>1, Selected DEF Pends
  <2>3. /\ \A g \in Handles \ {h} : requests'[g] = requests[g]
        /\ Consents(h)' => Consents(h)
    BY <1>2 DEF SelectSources, Consents, CastInv, TypeInv, CastTypes
  <2>4. ~Consents(h)
    BY <2>1, HeldLinks DEF CastInv
  <2>5. QED
    BY <2>1, <2>2, <2>3, <2>4, AskedLinks
<1>3. QED
  BY <1>1, <1>2

\* Start, whichever way it goes.
LEMMA StartLinks ==
    ASSUME CastInv, LinkInv, NEW h \in Handles, NEW s \in Sessions, NEW wants \in Wants,
           Starts(h, s, wants)
    PROVE  LinkInv'
<1>1. /\ InPhase(s, {"Created", "Configured"}) /\ tokens + 1 \in TokensMinted
      /\ sessions[s] # None /\ h \notin Held
  BY StartFacts DEF InPhase
<1>2. requests[h] # None => ~requests[h].cancelled
  BY DEF Starts, StartPrompts, StartRestored, StartRestoredFails, StartOffersNothing, Start, Startable
<1>3. /\ \A g \in Handles \ {h} : WithConsent(h, s)[g] = requests[g]
      /\ ~WithConsent(h, s)[h].cancelled /\ DOMAIN WithConsent(h, s) = Handles
  BY <1>1, <1>2, ConsentGiven DEF WithConsent, CastInv, TypeInv, CastTypes, RequestRecords
<1>4. ~Consents(h) /\ \A x \in Sessions : ~Pends(x, h)
  BY <1>1, HeldLinks DEF CastInv
<1>5. ASSUME Chooses(h, s, wants), awaiting' = awaiting \cup {h} PROVE LinkInv'
  <2>1. \A x \in Sessions, g \in Handles : Pends(x, g)' => Pends(x, g)
    BY <1>1, <1>5, Updated DEF Chooses, States, Pends, CastInv, TypeInv
  <2>2. requests' = WithConsent(h, s)
    BY <1>5 DEF Chooses
  <2>3. QED
    BY <1>1, <1>3, <1>5, <2>1, <2>2, AskedLinks
<1>6. CASE StartPrompts(h, s, wants)
  BY <1>5, <1>6 DEF StartPrompts
<1>7. CASE StartRestored(h, s, wants)
  BY <1>1, <1>5, <1>7, GrantLinks DEF StartRestored
<1>8. CASE StartRestoredFails(h, s, wants)
  <2>1. Forget({s}, RequestsOf({s}) \cup {h}) /\ awaiting' = awaiting \ {}
    BY <1>8 DEF StartRestoredFails, GrantFails
  <2>2. {s} \in SUBSET Sessions /\ Handles \cap {} = {}
    OBVIOUS
  <2>3. QED
    BY <2>1, <2>2, ClosedLinks
<1>9. CASE StartOffersNothing(h, s, wants)
  <2> DEFINE open == Consenting(RequestsOf({s})) \cup (IF Finds(h, s) THEN {h} ELSE {})
  <2>1. CASE Chooses(h, s, wants) /\ awaiting' = awaiting \cup {h}
    BY <1>5, <2>1
  <2>2. CASE \E found \in open : /\ sessions' = [sessions EXCEPT ![s] = None]
                                /\ requests' = [WithConsent(h, s) EXCEPT ![found] = None]
                                /\ awaiting' = (awaiting \cup {h}) \ {found}
    <3>1. PICK found \in open : /\ sessions' = [sessions EXCEPT ![s] = None]
                                /\ requests' = [WithConsent(h, s) EXCEPT ![found] = None]
                                /\ awaiting' = (awaiting \cup {h}) \ {found}
      BY <2>2
    <3>2. found \in Handles /\ \A x \in Sessions : ~Pends(x, found)
      BY <1>4 DEF Consenting, RequestsOf, LinkInv, Consents
    <3>3. \A x \in Sessions, g \in Handles : Pends(x, g)' => Pends(x, g)
      BY <3>1 DEF Pends, CastInv, TypeInv, CastTypes
    <3>4. /\ requests'[found] = None
          /\ \A g \in Handles \ {found} : requests'[g] = WithConsent(h, s)[g]
      BY <1>3, <3>1, <3>2
    <3>5. \A g \in Handles : Consents(g)' => g \in awaiting' /\ ~requests'[g].cancelled
      BY <1>3, <3>1, <3>4 DEF LinkInv, Consents
    <3>6. \A x \in Sessions, g \in Handles : Pends(x, g)' => g \in awaiting' /\ requests'[g] = None
      BY <1>3, <1>4, <3>1, <3>2, <3>3, <3>4 DEF LinkInv
    <3>7. QED
      BY <3>3, <3>5, <3>6 DEF LinkInv
  <2>3. QED
    BY <1>9, <2>1, <2>2 DEF StartOffersNothing
<1>10. QED
  BY <1>6, <1>7, <1>8, <1>9 DEF Starts

\* The calls that close, and the change of the frontend.
LEMMA EndLinks ==
    ASSUME CastInv, LinkInv,
           \/ \E s \in Sessions : SessionCloses(s)
           \/ \E h \in Handles : RequestCloses(h) \/ StartCancelled(h)
           \/ \E owner \in Frontends \cup {None} : FrontendOwnerChanged(owner)
    PROVE  LinkInv'
<1>1. ASSUME NEW s \in Sessions, SessionCloses(s) PROVE LinkInv'
  <2> DEFINE gone == Pending({s}) \cup Consenting(RequestsOf({s}))
  <2>1. Forget({s}, RequestsOf({s})) /\ awaiting' = awaiting \ gone
    BY <1>1 DEF SessionCloses
  <2>2. \A h \in Handles \cap gone :
            (h \in RequestsOf({s}) /\ requests[h] # None) \/ (\E x \in {s} : Pends(x, h))
    BY DEF Pending, Pends, Open, Consenting
  <2>3. PICK closed \in SUBSET Sessions : closed = {s}
    OBVIOUS
  <2> HIDE DEF gone
  <2>4. /\ Forget(closed, RequestsOf({s}))
        /\ \A h \in Handles \cap gone :
            (h \in RequestsOf({s}) /\ requests[h] # None) \/ (\E x \in closed : Pends(x, h))
    BY <2>1, <2>2, <2>3
  <2>5. QED
    BY <2>1, <2>4, ClosedLinks
<1>2. ASSUME NEW h \in Handles, RequestCloses(h) PROVE LinkInv'
  <2>1. requests[h] # None /\ sessions' = sessions /\ awaiting' = awaiting \ Consenting({h})
    BY <1>2 DEF RequestCloses
  <2>2. ~Consents(h)' /\ \A g \in Handles \ {h} : requests'[g] = requests[g]
    BY <1>2, <2>1 DEF RequestCloses, Consents, CastInv, TypeInv, CastTypes, RequestRecords
  <2>3. \A g \in Handles : g \in Consenting({h}) => g = h
    BY DEF Consenting
  <2>4. QED
    BY <2>1, <2>2, <2>3, QuietLinks
<1>3. ASSUME NEW h \in Handles, StartCancelled(h) PROVE LinkInv'
  <2> DEFINE gone == {}
  <2>1. requests' = [requests EXCEPT ![h] = None] /\ sessions' = sessions /\ awaiting' = awaiting \ gone
    BY <1>3 DEF StartCancelled
  <2>2. requests'[h] = None /\ \A g \in Handles \ {h} : requests'[g] = requests[g]
    BY <2>1 DEF CastInv, TypeInv, CastTypes
  <2>3. \A g \in Handles : Consents(g)' => requests'[g] = requests[g] /\ g \notin gone
    BY <2>2 DEF Consents
  <2>4. \A g \in Handles : requests[g] = None => requests'[g] = None /\ g \notin gone
    BY <2>2
  <2> HIDE DEF gone
  <2>5. QED
    BY <2>1, <2>3, <2>4, QuietLinks
<1>4. ASSUME NEW owner \in Frontends \cup {None}, FrontendOwnerChanged(owner) PROVE LinkInv'
  <2>1. CASE owner = frontend /\ owner # None
    BY <1>4, <2>1 DEF FrontendOwnerChanged, busVars, LinkInv, Pends, Consents
  <2>2. CASE ~(owner = frontend /\ owner # None)
    <3> DEFINE held == {h \in Handles : requests[h] # None}
    <3>1. Forget(Open, held)
      BY <1>4, <2>2 DEF FrontendOwnerChanged
    <3>2. (\A s \in Sessions : sessions'[s] = None) /\ (\A h \in Handles : requests'[h] = None)
      BY <3>1 DEF Forget, Open
    <3>3. QED
      BY <3>2 DEF LinkInv, Pends, Consents
  <2>3. QED
    BY <2>1, <2>2
<1>5. QED
  BY <1>1, <1>2, <1>3, <1>4

\* The shell answers, and the loop reads what it answered.
LEMMA ShellLinks == ASSUME CastInv, LinkInv, Shell PROVE LinkInv'
<1> DEFINE answer == Head(answers)
           s == answer.session
<1>1. CASE \/ \E source \in Sources : ShellApproves(source)
           \/ ShellCancels \/ AnswerIgnored
           \/ \E x \in Sessions : ShellStops(x)
  <2>1. UNCHANGED <<sessions, requests, awaiting>>
    BY <1>1 DEF ShellApproves, ShellCancels, ShellStops, AnswerIgnored, Sends, ledgerVars, busVars
  <2>2. QED
    BY <2>1 DEF LinkInv, Pends, Consents
<1>2. CASE ApprovalRefused \/ Stops
  <2>1. CloseShared({s}) /\ {s} \in SUBSET Sessions
    BY <1>2, AnswerTypes DEF ApprovalRefused, Stops, Answer, CastInv, TypeInv
  <2>2. QED
    BY <2>1, CloseSharedLinks
<1>3. CASE ApprovalGrants
  <2>1. PICK x \in Sessions : x = s
    BY <1>3, AnswerTypes DEF ApprovalGrants, Answer, CastInv, TypeInv
  <2>2. PICK h \in Matching(answer) :
          \/ Grant(h, x, sessions[x].wants, answer.source, answer.token) /\ awaiting' = awaiting
          \/ Forget({x}, RequestsOf({x}) \cup {h}) /\ awaiting' = awaiting \ {h}
    BY <1>3, <2>1 DEF ApprovalGrants, GrantFails
  <2>3. h \in Handles /\ requests[h] # None /\ Consents(h)
    BY <1>3, <2>1, <2>2, DecidesChoosing DEF Consents
  <2>4. h \in awaiting
    BY <2>3 DEF LinkInv
  <2>5. CASE Grant(h, x, sessions[x].wants, answer.source, answer.token) /\ awaiting' = awaiting
    BY <2>3, <2>4, <2>5, GrantLinks
  <2>6. CASE Forget({x}, RequestsOf({x}) \cup {h}) /\ awaiting' = awaiting \ {h}
    <3>1. /\ {x} \in SUBSET Sessions
          /\ \A g \in Handles \cap {h} : g \in RequestsOf({x}) \cup {h} /\ requests[g] # None
      BY <2>3
    <3>2. QED
      BY <2>6, <3>1, ClosedLinks
  <2>7. QED
    BY <2>2, <2>5, <2>6
<1>4. CASE CancelApplies
  <2>1. PICK x \in Sessions : x = s
    BY <1>4, AnswerTypes DEF CancelApplies, Answer, CastInv, TypeInv
  <2>2. PICK h \in Matching(answer) : Forget({x}, {h}) /\ awaiting' = awaiting \ {h}
    BY <1>4, <2>1 DEF CancelApplies
  <2>3. h \in Handles /\ requests[h] # None
    BY <1>4, <2>1, <2>2, DecidesChoosing
  <2>4. QED
    BY <2>2, <2>3, ClosedLinks
<1>5. QED
  BY <1>1, <1>2, <1>3, <1>4 DEF Shell

\* The producer reports, the loop hears of it, and the sources come and go.
LEMMA OutsideLinks == ASSUME CastInv, LinkInv, Producer \/ World PROVE LinkInv'
<1>1. CASE \/ CoreFails \/ CoreFatal \/ \E s \in Sessions : NodeBinds(s) \/ StreamErrors(s)
           \/ \E source \in Sources : SourceAppears(source)
           \/ \E m \in Monitors : MonitorVanishes(m)
  <2>1. UNCHANGED <<sessions, requests, awaiting>>
    BY <1>1 DEF CoreFails, CoreFatal, NodeBinds, StreamErrors, SourceAppears, MonitorVanishes, Reports,
                ledgerVars, busVars
  <2>2. QED
    BY <2>1 DEF LinkInv, Pends, Consents
<1>2. ASSUME NEW closed \in SUBSET Sessions, CloseShared(closed) PROVE LinkInv'
  BY <1>2, CloseSharedLinks
<1>3. ASSUME NEW s \in Sessions, FrameFails(s) PROVE LinkInv'
  BY <1>2, <1>3 DEF FrameFails
<1>4. CASE StreamFatal
  <2>1. CloseShared({Head(events).session}) /\ {Head(events).session} \in SUBSET Sessions
    BY <1>4, EventTypes DEF StreamFatal, Event, CastInv, TypeInv
  <2>2. QED
    BY <1>2, <2>1
<1>5. ASSUME NEW w \in Windows, WindowVanishes(w) PROVE LinkInv'
  <2>1. \E closed \in SUBSET Sessions : CloseShared(closed)
    BY <1>5 DEF WindowVanishes
  <2>2. QED
    BY <1>2, <2>1
<1>6. CASE NodeReady
  <2>1. PICK s \in Sessions : s = Head(events).session
    BY <1>6, EventTypes DEF NodeReady, Event, CastInv, TypeInv
  <2>2. CASE streams[s] # None /\ sessions[s] # None /\ sessions[s].state = "Starting"
    <3>1. SessionReady(s) /\ requests' = requests /\ awaiting' = awaiting \ {sessions[s].pending}
      BY <1>6, <2>1, <2>2, BecomesReady DEF NodeReady
    <3>2. \A x \in Sessions, h \in Handles : Pends(x, h)' => x # s /\ Pends(x, h)
      BY <3>1, NoneAssumption DEF SessionReady, Pends
    <3>3. \A h \in Handles : h \in {sessions[s].pending} => Pends(s, h)
      BY <2>2 DEF Pends
    <3>4. \A h \in Handles : Consents(h)' => h \in awaiting' /\ ~requests'[h].cancelled
      BY <3>1, <3>3 DEF LinkInv, Consents
    <3>5. \A x \in Sessions, h \in Handles : Pends(x, h)' => h \in awaiting' /\ requests'[h] = None
      BY <3>1, <3>2, <3>3 DEF LinkInv
    <3>6. QED
      BY <3>2, <3>4, <3>5 DEF LinkInv
  <2>3. CASE ~(streams[s] # None /\ sessions[s] # None /\ sessions[s].state = "Starting")
    <3>1. UNCHANGED <<sessions, requests, awaiting>>
      BY <1>6, <2>1, <2>3 DEF NodeReady
    <3>2. QED
      BY <3>1 DEF LinkInv, Pends, Consents
  <2>4. QED
    BY <2>2, <2>3
<1>7. QED
  BY <1>1, <1>3, <1>4, <1>5, <1>6 DEF Producer, World

\* Every step keeps the links.
LEMMA LinksKept == CastInv /\ LinkInv /\ [CastNext]_castVars => LinkInv'
<1> SUFFICES ASSUME CastInv, LinkInv, [CastNext]_castVars PROVE LinkInv'
  OBVIOUS
<1>1. CASE Calls
  <2>1. ASSUME NEW h \in Handles, NEW s \in Sessions, NEW demand \in Demands \cup {None},
               NEW grant \in Presented, sessions[s] # None, Starts(h, s, Merged(s, demand, grant))
        PROVE  LinkInv'
    <3>1. Merged(s, demand, grant) \in Wants
      BY <2>1, WantsTypes DEF CastInv, TypeInv
    <3>2. QED
      BY <2>1, <3>1, StartLinks
  <2>2. QED
    BY <1>1, <2>1, CallCases, SetUpLinks, EndLinks
<1>2. CASE Shell
  BY <1>2, ShellLinks
<1>3. CASE Producer \/ World
  BY <1>3, OutsideLinks
<1>4. CASE UNCHANGED castVars
  BY <1>4 DEF castVars, ledgerVars, busVars, LinkInv, Pends, Consents
<1>5. QED
  BY <1>1, <1>2, <1>3, <1>4 DEF CastNext

\* No reply is sent twice: its link is held once, by the request in the picker or the
\* session that starts, and by neither when it was answered.
THEOREM RepliesOnce == CastSpec => []AnsweredOnce
<1>1. CastInit => LinkInv
  BY DEF CastInit, NoSession, LinkInv, Pends, Consents
<1>2. CastInv /\ LinkInv => AnsweredOnce
  BY LinksAnsweredOnce DEF CastInv
<1>3. QED
  BY <1>1, <1>2, CastStarts, StepKeeps, LinksKept, PTL DEF CastSpec

=============================================================================
