--------------------------- MODULE CastLifecycle ---------------------------
(***************************************************************************)
(* What the portal backend promises of a screen cast session: it moves     *)
(* from one phase to the next and never back, it is over once it is        *)
(* closed, and nothing is shared before it was granted.                    *)
(***************************************************************************)
CONSTANT Sessions

VARIABLES
    phase,     \* where each session stands
    sharing    \* the sessions whose source is streamed

lifecycleVars == <<phase, sharing>>

Phases == {"Closed", "Created", "Configured", "Choosing", "Starting", "Active"}

LifecycleInit ==
    /\ phase = [s \in Sessions |-> "Closed"]
    /\ sharing = {}

Moves(s, from, to) ==
    /\ phase[s] \in from
    /\ phase' = [phase EXCEPT ![s] = to]

Create(s)    == Moves(s, {"Closed"}, "Created") /\ UNCHANGED sharing
Configure(s) == Moves(s, {"Created", "Configured"}, "Configured") /\ UNCHANGED sharing
Ask(s)       == Moves(s, {"Created", "Configured"}, "Choosing") /\ UNCHANGED sharing

\* Granted by the user who was asked, or by a grant of an earlier session.
Grant(s) ==
    /\ Moves(s, {"Created", "Configured", "Choosing"}, "Starting")
    /\ sharing' = sharing \cup {s}

Publish(s) == s \in sharing /\ Moves(s, {"Starting"}, "Active") /\ UNCHANGED sharing

CloseAll(closed) ==
    /\ phase' = [s \in Sessions |-> IF s \in closed THEN "Closed" ELSE phase[s]]
    /\ sharing' = sharing \ closed

\* The PipeWire core is gone, and every stream with it.
Silence == sharing' = {} /\ UNCHANGED phase

LifecycleNext ==
    \/ \E s \in Sessions : Create(s) \/ Configure(s) \/ Ask(s) \/ Grant(s) \/ Publish(s)
    \/ \E closed \in SUBSET Sessions : CloseAll(closed)
    \/ Silence

LifecycleSpec == LifecycleInit /\ [][LifecycleNext]_lifecycleVars

=============================================================================
