-------------------------- MODULE MCPortalPrompts --------------------------
(* Small instances of PortalPrompts.  A plan, drawn once, says which calls   *)
(* the frontend makes, how often it closes a request and how often its name *)
(* changes: a handle closed and used again while its first request is under *)
(* way, two prompts where the stash holds one, a screenshot and a chooser   *)
(* under one handle, a second generation of the frontend.  A call made      *)
(* while the backend starts waits in the channel like one made just after,  *)
(* so the calls begin once it runs.                                         *)
EXTENDS PortalPrompts

CONSTANTS h1, h2

VARIABLE plan
mcVars == <<vars, plan>>

Call(kind, h) == [kind |-> kind, handle |-> h]
Plan(cs, closes, changes) == [calls |-> cs, closes |-> closes, changes |-> changes]
Plans == {
    Plan(<<Call("screen", h1), Call("color", h2)>>, 1, 0),
    Plan(<<Call("screen", h1), Call("color", h1)>>, 1, 1),
    Plan(<<Call("screen", h1), Call("screen", h1)>>, 2, 0),
    Plan(<<Call("file", h1), Call("screen", h2)>>, 0, 1),
    Plan(<<Call("screen", h1), Call("file", h1)>>, 2, 0),
    Plan(<<Call("file", h1), Call("file", h1)>>, 1, 0),
    Plan(<<Call("color", h1)>>, 1, 2),
    Plan(<<Call("screen", h1), Call("color", h2), Call("screen", h1)>>, 1, 0),
    Plan(<<Call("screen", h1), Call("file", h2), Call("screen", h1)>>, 0, 1) }

MCPromptInit == PromptInit /\ plan \in Plans

MCPromptNext ==
    /\ PromptNext
    /\ made' # made => /\ stage = "run"
                       /\ Len(made) < Len(plan.calls)
                       /\ Last(made').kind = plan.calls[Len(made')].kind
                       /\ Last(made').handle = plan.calls[Len(made')].handle
    /\ plan' = [plan EXCEPT !.changes = IF owner' # owner THEN @ - 1 ELSE @,
                            !.closes = IF owner' = owner /\ \E h \in Handles : live[h] # 0 /\ live'[h] = 0
                                       THEN @ - 1 ELSE @]
    /\ plan'.changes >= 0 /\ plan'.closes >= 0

MCPromptSpec ==
    /\ MCPromptInit /\ [][MCPromptNext]_mcVars
    /\ PromptFairness
=============================================================================
