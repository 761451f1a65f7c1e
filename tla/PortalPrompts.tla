--------------------------- MODULE PortalPrompts ---------------------------
(***************************************************************************)
(* The portal calls that open one trusted dialog and have no session:      *)
(* Screenshot, PickColor and the file chooser (embedder/portal).  The      *)
(* frontend's calls and its changes of bus name reach the compositor's     *)
(* loop through one channel, from two threads; the loop keeps the reply in *)
(* its ledger, freezes the desktop's pixels, opens the dialog in the shell *)
(* and hands the export of the Request object to the bridge thread.  The   *)
(* user's decision comes back through the platform channel, a worker       *)
(* thread encodes the picture, and its outcome returns through a third     *)
(* channel.  Any of them may be overtaken by a Close, by a new request     *)
(* under the same handle, or by the loss of the frontend.                  *)
(***************************************************************************)
EXTENDS Integers, Sequences, FiniteSets, Functions, FiniteSetsExt, SequencesExt

CONSTANTS Handles,      \* request object paths, chosen by the applications
          MaxOwners,    \* unique bus names the frontend may take, 1, 2, ...
          MaxCalls,     \* method calls made in one behaviour
          StashCap      \* frozen desktops the loop keeps (4 in the source)

ASSUME PromptBounds == MaxOwners \in Nat /\ MaxCalls \in Nat /\ StashCap \in Nat \ {0}
ASSUME PromptFinite == IsFiniteSet(Handles)

VARIABLES
    owner,      \* the frontend's unique name on the bus, 0 when there is none
    names,      \* unique names given so far: the bus never reuses one
    live,       \* the frontend's own table: handle -> the call it waits for
    made,       \* method calls so far, each [kind, handle, caller]
    answers,    \* what the backend answered to each of them, in order
    stage,      \* the backend's start: lookup, subscribe, run
    watch,      \* changes of owner the watch thread has not forwarded
    calls,      \* the loop's channel of calls
    frontend,   \* the ledger's frontend
    shots,      \* ledger.screenshots
    choosers,   \* ledger.file_choosers
    askedBy,    \* tokens minted: the call each consent token was minted for
    stash,      \* pending_pixels: tokens whose frozen desktop is held
    bridge,     \* object actions on their way to the bridge thread
    served,     \* Request objects on the bus
    working,    \* encode threads
    outcomes,   \* the channel of capture outcomes
    toShell,    \* platform calls the shell has not handled
    fromShell,  \* decisions the loop has not handled
    prompt,     \* the shell's ScreenshotPrompt, a token or 0
    chooser,    \* the shell's FileChooserRequest, a token or 0
    approved,   \* tokens the user approved
    denied,     \* handles whose prompt was denied: their object stays served
    doubled     \* handles a screenshot and a file chooser had at once

busVars == <<owner, names, live, made>>
ledgerVars == <<frontend, shots, choosers, askedBy, stash>>
shellVars == <<prompt, chooser, approved>>
channelVars == <<watch, calls, bridge, outcomes, toShell, fromShell>>
vars == <<busVars, answers, stage, ledgerVars, served, working, shellVars, channelVars, denied, doubled>>

CaptureKinds == {"screen", "color"}
Kinds == CaptureKinds \union {"file"}
Entry == [call : 1..MaxCalls, kind : CaptureKinds, token : 1..MaxCalls,
          stage : {"consent", "capture"}]
NoAnswer == [response |-> "none", token |-> 0, pixels |-> "none"]
Cancelled == [NoAnswer EXCEPT !.response = "cancelled"]
Failed == [NoAnswer EXCEPT !.response = "failed"]
Without(f, x) == Restrict(f, DOMAIN f \ {x})
With(f, x, y) == [z \in DOMAIN f \union {x} |-> IF z = x THEN y ELSE f[z]]
Empty == <<>>

PromptInit ==
    /\ owner \in {0, 1} /\ names = owner
    /\ live = [h \in Handles |-> 0]
    /\ made = <<>> /\ answers = [c \in 1..MaxCalls |-> <<>>]
    /\ stage = "lookup" /\ frontend = 0
    /\ shots = Empty /\ choosers = Empty /\ askedBy = <<>> /\ stash = {}
    /\ served = {} /\ working = {}
    /\ watch = <<>> /\ calls = <<>> /\ bridge = <<>> /\ outcomes = <<>>
    /\ toShell = <<>> /\ fromShell = <<>>
    /\ prompt = 0 /\ chooser = 0 /\ approved = {} /\ denied = {} /\ doubled = {}

(* An answer given to a call, or the same answer to each of a set of calls. *)
Answered(cs, a) == [c \in 1..MaxCalls |-> IF c \in cs THEN Append(answers[c], a) ELSE answers[c]]

-----------------------------------------------------------------------------
(* The frontend and the bus.  The frontend never has two live requests     *)
(* under one handle: it uses a handle again once its call is answered, or, *)
(* as it forgets a request it closes at once, while the close is still on  *)
(* its way.                                                                *)

Free(h) == live[h] # 0 => answers[live[h]] # <<>>

(* parse_screenshot_options: the whole screen is the only target served.   *)
TargetUnavailable(target) == target \notin {"none", "screen"}
(* parse_file_chooser_options: SaveFiles must name the files.              *)
NoFileNames(method, files) == method = "SaveFiles" /\ files = 0

Asked(kind, h, refused) ==
    /\ owner # 0 /\ Free(h) /\ Len(made) < MaxCalls
    /\ made' = Append(made, [kind |-> kind, handle |-> h, caller |-> owner])
    /\ IF refused
       THEN /\ answers' = Answered({Len(made) + 1}, Failed)
            /\ UNCHANGED <<calls, live>>
       ELSE /\ calls' = Append(calls, [type |-> kind, handle |-> h, caller |-> owner,
                                       call |-> Len(made) + 1])
            /\ live' = [live EXCEPT ![h] = Len(made) + 1]
            /\ UNCHANGED answers
    /\ UNCHANGED <<owner, names, stage, ledgerVars, served, working, shellVars,
                   watch, bridge, outcomes, toShell, fromShell, denied, doubled>>

ScreenshotCall(kind, h, target) == Asked(kind, h, TargetUnavailable(target))
FileChooserCall(method, h, files) == Asked("file", h, NoFileNames(method, files))

(* Close is a method of the Request object: before the bridge has exported *)
(* the object the bus refuses it, and nothing reaches the loop.            *)
CloseRequest(h) ==
    /\ owner # 0 /\ live[h] # 0
    /\ live' = [live EXCEPT ![h] = 0]
    /\ calls' = IF h \in served
                THEN Append(calls, [type |-> "close", handle |-> h, caller |-> owner, call |-> 0])
                ELSE calls
    /\ UNCHANGED <<owner, names, made, answers, stage, ledgerVars, served, working, shellVars,
                   watch, bridge, outcomes, toShell, fromShell, denied, doubled>>

(* The frontend's name is lost, taken, or taken over; the bus tells those  *)
(* who have subscribed.                                                    *)
OwnerChanges(o) ==
    /\ o # owner
    /\ \/ o = 0 /\ names' = names
       \/ o = names + 1 /\ o <= MaxOwners /\ names' = o
    /\ owner' = o
    /\ live' = [h \in Handles |-> 0]
    /\ watch' = IF stage = "run" THEN Append(watch, o) ELSE watch
    /\ UNCHANGED <<made, answers, stage, ledgerVars, served, working, shellVars,
                   calls, bridge, outcomes, toShell, fromShell, denied, doubled>>

(* The backend starts: it reads the owner, then subscribes to its changes. *)
Lookup ==
    /\ stage = "lookup" /\ stage' = "subscribe" /\ frontend' = owner
    /\ UNCHANGED <<busVars, answers, shots, choosers, askedBy, stash, served, working, shellVars,
                   channelVars, denied, doubled>>
Subscribe ==
    /\ stage = "subscribe" /\ stage' = "run"
    /\ UNCHANGED <<busVars, answers, ledgerVars, served, working, shellVars, channelVars, denied, doubled>>

(* The watch thread forwards a change of owner to the loop's channel.      *)
ForwardOwner ==
    /\ watch # <<>>
    /\ watch' = Tail(watch)
    /\ calls' = Append(calls, [type |-> "owner", handle |-> Head(watch)])
    /\ UNCHANGED <<busVars, answers, stage, ledgerVars, served, working, shellVars,
                   bridge, outcomes, toShell, fromShell, denied, doubled>>
-----------------------------------------------------------------------------
(* The loop handles one call: the ledger first, then the frozen pixels are *)
(* reconciled with it, then the shell is told, then the bridge.            *)

Tokens(s) == {s[h].token : h \in DOMAIN s}
Waiting(s) == {h \in DOMAIN s : s[h].stage = "consent"}

(* Mutant: nothing is reconciled.                                          *)
KeptForever(s) == stash
(* reconcile_portal_pending_pixels: only live requests keep their pixels.  *)
Reconciled(s) == stash \intersect Tokens(s)

Taken(actions, ui) ==
    /\ stage = "run" /\ calls # <<>>
    /\ calls' = Tail(calls)
    /\ bridge' = bridge \o actions
    /\ toShell' = toShell \o ui
    /\ UNCHANGED <<busVars, stage, served, working, shellVars, watch, outcomes, fromShell>>

CallIs(types) == calls # <<>> /\ Head(calls).type \in types
Authorized == frontend # 0 /\ Head(calls).caller = frontend
Shell(type, token) == [type |-> type, token |-> token]
Object(type, h) == [type |-> type, handle |-> h]
Each(S, Op(_)) == LET s == SetToSeq(S) IN [i \in 1..Len(s) |-> Op(s[i])]

(* frontend_owner_changed: every request of the old owner is answered,     *)
(* dismissed and unexported, whatever its stage.                           *)
FrontendOwnerChanged ==
    /\ CallIs({"owner"})
    /\ LET o == Head(calls).handle
           dismissed == {shots[h].token : h \in Waiting(shots)}
                          \union {choosers[h].token : h \in DOMAIN choosers}
       IN /\ frontend' = o
          /\ IF frontend # 0 /\ o = frontend
             THEN /\ Taken(<<>>, <<>>)
                  /\ UNCHANGED <<answers, shots, choosers>>
             ELSE /\ Taken(Each(DOMAIN shots, LAMBDA h : Object("unexport", h))
                             \o Each(DOMAIN choosers, LAMBDA h : Object("unexport", h)),
                           Each(dismissed, LAMBDA t : Shell("dismiss", t)))
                  /\ answers' = Answered({shots[h].call : h \in DOMAIN shots}
                                           \union {choosers[h].call : h \in DOMAIN choosers},
                                         Cancelled)
                  /\ shots' = Empty /\ choosers' = Empty
    /\ stash' = Reconciled(shots')
    /\ UNCHANGED <<askedBy, denied, doubled>>

(* A call of anyone but the frontend the ledger knows is refused.          *)
Unauthorized ==
    /\ CallIs(Kinds \union {"close"}) /\ ~Authorized
    /\ Taken(<<>>, <<>>)
    /\ answers' = Answered({Head(calls).call}, [NoAnswer EXCEPT !.response = "unauthorized"])
    /\ stash' = Reconciled(shots)
    /\ UNCHANGED <<frontend, shots, choosers, askedBy, denied, doubled>>

RequestExists(kind, h) == IF kind = "file" THEN h \in DOMAIN choosers ELSE h \in DOMAIN shots

Duplicate ==
    /\ CallIs(Kinds) /\ Authorized /\ RequestExists(Head(calls).type, Head(calls).handle)
    /\ Taken(<<>>, <<>>)
    /\ answers' = Answered({Head(calls).call}, Failed)
    /\ stash' = Reconciled(shots)
    /\ UNCHANGED <<frontend, shots, choosers, askedBy, denied, doubled>>

(* The frozen desktop of a new prompt takes a place in the stash; past the *)
(* bound the oldest one goes.                                              *)
Stashed(held, token) ==
    LET all == held \union {token}
    IN IF Cardinality(all) > StashCap THEN all \ {Min(all)} ELSE all

(* open_screenshot_request, then the freeze of perform_ui_event, which may *)
(* fail.                                                                   *)
OpenScreenshot(frozen) ==
    LET e == Head(calls)
        token == Len(askedBy) + 1
    IN /\ CallIs(CaptureKinds) /\ Authorized /\ ~RequestExists(e.type, e.handle)
       /\ Taken(<<Object("export", e.handle)>>, <<Shell("prompt", token)>>)
       /\ askedBy' = Append(askedBy, e.call)
       /\ shots' = With(shots, e.handle, [call |-> e.call, kind |-> e.type, token |-> token,
                                          stage |-> "consent"])
       /\ stash' = IF frozen THEN Stashed(Reconciled(shots'), token) ELSE Reconciled(shots')
       /\ denied' = denied \ {e.handle}
       /\ doubled' = doubled \union ({e.handle} \intersect DOMAIN choosers)
       /\ UNCHANGED <<answers, frontend, choosers>>

(* open_file_chooser_request                                               *)
OpenFileChooser ==
    LET e == Head(calls)
        token == Len(askedBy) + 1
    IN /\ CallIs({"file"}) /\ Authorized /\ ~RequestExists("file", e.handle)
       /\ Taken(<<Object("export", e.handle)>>, <<Shell("chooser", token)>>)
       /\ askedBy' = Append(askedBy, e.call)
       /\ choosers' = With(choosers, e.handle, [call |-> e.call, token |-> token])
       /\ stash' = Reconciled(shots)
       /\ denied' = denied \ {e.handle}
       /\ doubled' = doubled \union ({e.handle} \intersect DOMAIN shots)
       /\ UNCHANGED <<answers, frontend, shots>>

(* Mutant: only a prompt that waits is answered, not one whose capture is  *)
(* under way.                                                              *)
CloseForgettingCapture ==
    LET h == Head(calls).handle
    IN /\ CallIs({"close"}) /\ Authorized /\ h \in DOMAIN shots
       /\ Taken(<<Object("unexport", h)>>,
                IF shots[h].stage = "consent" THEN <<Shell("dismiss", shots[h].token)>> ELSE <<>>)
       /\ answers' = IF shots[h].stage = "consent" THEN Answered({shots[h].call}, Cancelled)
                     ELSE answers
       /\ shots' = Without(shots, h)
       /\ stash' = Reconciled(shots')
       /\ UNCHANGED <<frontend, choosers, askedBy, denied, doubled>>

(* RequestClose looks in the screenshots first, whatever their stage, then *)
(* in the file choosers.                                                   *)
CloseScreenshot ==
    LET h == Head(calls).handle
    IN /\ CallIs({"close"}) /\ Authorized /\ h \in DOMAIN shots
       /\ Taken(<<Object("unexport", h)>>,
                IF shots[h].stage = "consent" THEN <<Shell("dismiss", shots[h].token)>> ELSE <<>>)
       /\ answers' = Answered({shots[h].call}, Cancelled)
       /\ shots' = Without(shots, h)
       /\ stash' = Reconciled(shots')
       /\ UNCHANGED <<frontend, choosers, askedBy, denied, doubled>>

(* Mutant: the shell is not told that the chooser is over.                 *)
CloseChooserSilently ==
    LET h == Head(calls).handle
    IN /\ CallIs({"close"}) /\ Authorized /\ h \notin DOMAIN shots /\ h \in DOMAIN choosers
       /\ Taken(<<Object("unexport", h)>>, <<>>)
       /\ answers' = Answered({choosers[h].call}, Cancelled)
       /\ choosers' = Without(choosers, h)
       /\ stash' = Reconciled(shots)
       /\ UNCHANGED <<frontend, shots, askedBy, denied, doubled>>

CloseFileChooser ==
    LET h == Head(calls).handle
    IN /\ CallIs({"close"}) /\ Authorized /\ h \notin DOMAIN shots /\ h \in DOMAIN choosers
       /\ Taken(<<Object("unexport", h)>>, <<Shell("dismiss", choosers[h].token)>>)
       /\ answers' = Answered({choosers[h].call}, Cancelled)
       /\ choosers' = Without(choosers, h)
       /\ stash' = Reconciled(shots)
       /\ UNCHANGED <<frontend, shots, askedBy, denied, doubled>>

CloseNothing ==
    /\ CallIs({"close"}) /\ Authorized
    /\ Head(calls).handle \notin DOMAIN shots \union DOMAIN choosers
    /\ Taken(<<>>, <<>>)
    /\ stash' = Reconciled(shots)
    /\ UNCHANGED <<answers, frontend, shots, choosers, askedBy, denied, doubled>>

HandlePortalCall ==
    \/ FrontendOwnerChanged \/ Unauthorized \/ Duplicate
    \/ \E frozen \in BOOLEAN : OpenScreenshot(frozen)
    \/ OpenFileChooser \/ CloseScreenshot \/ CloseFileChooser \/ CloseNothing

-----------------------------------------------------------------------------
(* The object bridge thread.                                               *)
PerformBridgeAction ==
    /\ bridge # <<>>
    /\ bridge' = Tail(bridge)
    /\ served' = IF Head(bridge).type = "export" THEN served \union {Head(bridge).handle}
                 ELSE served \ {Head(bridge).handle}
    /\ UNCHANGED <<busVars, answers, stage, ledgerVars, working, shellVars,
                   watch, calls, outcomes, toShell, fromShell, denied, doubled>>

-----------------------------------------------------------------------------
(* The shell: one screenshot prompt and one chooser; a newer request takes *)
(* the place of the one shown.                                             *)

ScreenshotPrompt(e) ==
    CASE e.type = "prompt" -> e.token
      [] e.type = "dismiss" /\ prompt = e.token -> 0
      [] OTHER -> prompt
FileChooserRequest(e) ==
    CASE e.type = "chooser" -> e.token
      [] e.type = "dismiss" /\ chooser = e.token -> 0
      [] OTHER -> chooser

ShellHears ==
    /\ toShell # <<>>
    /\ prompt' = ScreenshotPrompt(Head(toShell))
    /\ chooser' = FileChooserRequest(Head(toShell))
    /\ toShell' = Tail(toShell)
    /\ UNCHANGED <<busVars, answers, stage, ledgerVars, served, working, approved,
                   watch, calls, bridge, outcomes, fromShell, denied, doubled>>

Told(dialog, token, outcome) ==
    /\ fromShell' = Append(fromShell, [dialog |-> dialog, token |-> token, outcome |-> outcome])
    /\ approved' = IF outcome = "approved" THEN approved \union {token} ELSE approved
    /\ UNCHANGED <<busVars, answers, stage, ledgerVars, served, working,
                   watch, calls, bridge, outcomes, toShell, denied, doubled>>

DecidePrompt(outcome) ==
    /\ prompt # 0 /\ prompt' = 0 /\ UNCHANGED chooser
    /\ Told("prompt", prompt, outcome)

DecideChooser(outcome) ==
    /\ chooser # 0 /\ chooser' = 0 /\ UNCHANGED prompt
    /\ Told("chooser", chooser, outcome)

-----------------------------------------------------------------------------
(* The loop handles a decision of the shell.                               *)

DecisionFor(dialog) == stage = "run" /\ fromShell # <<>> /\ Head(fromShell).dialog = dialog
DecisionTaken ==
    /\ fromShell' = Tail(fromShell)
    /\ UNCHANGED <<busVars, stage, frontend, askedBy, served, shellVars, watch, calls, toShell>>

HoldsToken(s, token) == {h \in DOMAIN s : s[h].token = token}

(* A decision that matches no waiting prompt is dropped.                   *)
StaleDecision ==
    /\ \/ DecisionFor("prompt") /\ HoldsToken(shots, Head(fromShell).token) \intersect Waiting(shots) = {}
       \/ DecisionFor("chooser") /\ HoldsToken(choosers, Head(fromShell).token) = {}
    /\ DecisionTaken
    /\ UNCHANGED <<answers, shots, choosers, stash, bridge, outcomes, working, denied, doubled>>

(* resolve_screenshot_consent, cancelled: the call is answered and its     *)
(* entry goes; neither its object nor its pixels are touched.              *)
PromptDenied ==
    /\ DecisionFor("prompt") /\ Head(fromShell).outcome = "cancelled"
    /\ \E h \in HoldsToken(shots, Head(fromShell).token) \intersect Waiting(shots) :
          /\ answers' = Answered({shots[h].call}, Cancelled)
          /\ shots' = Without(shots, h)
          /\ denied' = denied \union {h}
    /\ DecisionTaken
    /\ UNCHANGED <<choosers, stash, bridge, outcomes, working, doubled>>

(* The outcome of a capture names its request, its generation, its kind,   *)
(* and here whether the pixels are those frozen for the request.           *)
Outcome(h, kind, token, ok, pixels) ==
    [handle |-> h, kind |-> kind, token |-> token, ok |-> ok, pixels |-> pixels]

(* The approved pixels are taken once: the frozen ones, or, when they are  *)
(* gone, the live desktop; with no output the capture fails at once.       *)
PromptApproved(output, captured) ==
    LET token == Head(fromShell).token
        pixels == IF token \in stash THEN "frozen" ELSE "live"
    IN /\ DecisionFor("prompt") /\ Head(fromShell).outcome = "approved"
       /\ token \in stash => captured
       /\ \E h \in HoldsToken(shots, token) \intersect Waiting(shots) :
             /\ shots' = [shots EXCEPT ![h].stage = "capture"]
             /\ IF output /\ captured /\ shots[h].kind = "screen"
                THEN /\ working' = working \union {Outcome(h, "screen", token, TRUE, pixels)}
                     /\ UNCHANGED outcomes
                ELSE /\ outcomes' = Append(outcomes, Outcome(h, shots[h].kind, token,
                                                             output /\ captured, pixels))
                     /\ UNCHANGED working
       /\ stash' = IF output THEN stash \ {token} ELSE stash
       /\ DecisionTaken
       /\ UNCHANGED <<answers, choosers, bridge, denied, doubled>>

ChooserDecision ==
    /\ DecisionFor("chooser")
    /\ \E h \in HoldsToken(choosers, Head(fromShell).token) :
          /\ answers' = Answered({choosers[h].call},
                          IF Head(fromShell).outcome = "approved"
                          THEN [response |-> "ok", token |-> choosers[h].token, pixels |-> "none"]
                          ELSE Cancelled)
          /\ choosers' = Without(choosers, h)
          /\ bridge' = Append(bridge, Object("unexport", h))
    /\ DecisionTaken
    /\ UNCHANGED <<shots, stash, outcomes, working, denied, doubled>>

-----------------------------------------------------------------------------
(* The encode thread, and the loop's end of its channel.                   *)

(* Mutant: a thread whose encoding fails ends without a word.              *)
EncodeSilently(w, ok) ==
    /\ working' = working \ {w}
    /\ outcomes' = IF ok THEN Append(outcomes, w) ELSE outcomes
    /\ UNCHANGED <<busVars, answers, stage, ledgerVars, served, shellVars,
                   watch, calls, bridge, toShell, fromShell, denied, doubled>>

Encode(w, ok) ==
    /\ working' = working \ {w}
    /\ outcomes' = Append(outcomes, [w EXCEPT !.ok = ok])
    /\ UNCHANGED <<busVars, answers, stage, ledgerVars, served, shellVars,
                   watch, calls, bridge, toShell, fromShell, denied, doubled>>

(* Mutant: any capture under the handle takes the outcome.                 *)
MatchesHandle(o) ==
    /\ o.handle \in DOMAIN shots /\ shots[o.handle].stage = "capture"

(* An outcome belongs to a request in its capture stage, of the same token *)
(* and the same kind: a request that reuses the handle is another one.     *)
OutcomeMatches(o) ==
    /\ o.handle \in DOMAIN shots /\ shots[o.handle].stage = "capture"
    /\ shots[o.handle].token = o.token /\ shots[o.handle].kind = o.kind

PortalCaptureOutcome ==
    /\ stage = "run" /\ outcomes # <<>>
    /\ LET o == Head(outcomes)
       IN IF OutcomeMatches(o)
          THEN /\ answers' = Answered({shots[o.handle].call},
                               IF o.ok THEN [response |-> "ok", token |-> o.token, pixels |-> o.pixels]
                               ELSE Failed)
               /\ shots' = Without(shots, o.handle)
               /\ bridge' = Append(bridge, Object("unexport", o.handle))
          ELSE UNCHANGED <<answers, shots, bridge>>
    /\ outcomes' = Tail(outcomes)
    /\ UNCHANGED <<busVars, stage, frontend, choosers, askedBy, stash, served, working, shellVars,
                   watch, calls, toShell, fromShell, denied, doubled>>

-----------------------------------------------------------------------------
Loop == HandlePortalCall \/ StaleDecision \/ PromptDenied
          \/ (\E output, captured \in BOOLEAN : PromptApproved(output, captured))
          \/ ChooserDecision \/ PortalCaptureOutcome

PromptNext ==
    \/ \E h \in Handles, k \in CaptureKinds, target \in {"none", "screen", "window"} :
          ScreenshotCall(k, h, target)
    \/ \E h \in Handles, method \in {"OpenFile", "SaveFile", "SaveFiles"}, files \in 0..1 :
          FileChooserCall(method, h, files)
    \/ \E h \in Handles : CloseRequest(h)
    \/ \E o \in 0..MaxOwners : OwnerChanges(o)
    \/ Lookup \/ Subscribe \/ ForwardOwner
    \/ Loop \/ PerformBridgeAction \/ ShellHears
    \/ \E outcome \in {"approved", "cancelled"} : DecidePrompt(outcome) \/ DecideChooser(outcome)
    \/ \E w \in working, ok \in BOOLEAN : Encode(w, ok)

(* The loop serves each of its sources; the threads run.  Nothing is       *)
(* assumed of the user, of the frontend or of the bus.                     *)
PromptFairness ==
    /\ WF_vars(Lookup) /\ WF_vars(Subscribe) /\ WF_vars(ForwardOwner)
    /\ WF_vars(HandlePortalCall)
    /\ WF_vars(StaleDecision \/ PromptDenied \/ ChooserDecision
                 \/ \E output, captured \in BOOLEAN : PromptApproved(output, captured))
    /\ WF_vars(PortalCaptureOutcome) /\ WF_vars(PerformBridgeAction) /\ WF_vars(ShellHears)
    /\ WF_vars(\E w \in working, ok \in BOOLEAN : Encode(w, ok))

PromptSpec == PromptInit /\ [][PromptNext]_vars /\ PromptFairness

-----------------------------------------------------------------------------
(* The caller a reply link belongs to hears exactly once: from the moment  *)
(* the loop has taken a call off its channel, the link is either spent, or *)
(* held by exactly one entry of the ledger, through every hand-over from   *)
(* prompt to capture, close, decision, outcome and loss of the frontend    *)
(* (service.rs, ReplyLink).                                                *)
Holders(c) == Cardinality({h \in DOMAIN shots : shots[h].call = c})
                + Cardinality({h \in DOMAIN choosers : choosers[h].call = c})
Queued(c) == \E i \in DOMAIN calls : calls[i].type \in Kinds /\ calls[i].call = c
PromptAnsweredOnce ==
    \A c \in 1..Len(made) :
        Len(answers[c]) + Holders(c) + (IF Queued(c) THEN 1 ELSE 0) = 1

(* A positive answer is the answer to that very request: the user approved *)
(* the dialog opened for it, and the pixels are those taken for it, however *)
(* often its handle was closed and used again while a worker still encoded *)
(* (service.rs, handle_portal_capture_outcome).                            *)
ResultOfOwnRequest ==
    \A c \in 1..Len(made) :
        \A a \in Range(answers[c]) :
            a.response = "ok" => /\ a.token \in approved /\ askedBy[a.token] = c
                                 /\ (made[c].kind = "file") = (a.pixels = "none")

(* Frozen pixels live as long as their request: a call the loop handles    *)
(* leaves none without a request, and a prompt that still waits loses its  *)
(* own only to StashCap others that wait as well, the most that are ever   *)
(* held (service.rs, reconcile_portal_pending_pixels, perform_ui_event).   *)
PixelsFollowRequests ==
    [][/\ Cardinality(stash') <= StashCap
       /\ Len(calls') < Len(calls) => stash' \subseteq Tokens(shots')
       /\ \A t \in stash \ stash' :
             t \in {shots'[h].token : h \in Waiting(shots')} =>
                 /\ Cardinality(stash') = StashCap
                 /\ stash' \subseteq Tokens(shots')]_vars

(* When the messages under way have arrived, no dialog is on screen for a  *)
(* request that is over, and the Request objects on the bus are those of   *)
(* the requests that live, so that each of them can still be closed; only  *)
(* the object of a denied prompt stays (service.rs, resolve_screenshot_    *)
(* consent).                                                               *)
DialogsAndObjectsFollow ==
    /\ toShell = <<>> /\ fromShell = <<>> =>
          /\ prompt # 0 => HoldsToken(shots, prompt) \intersect Waiting(shots) # {}
          /\ chooser # 0 => HoldsToken(choosers, chooser) # {}
    /\ bridge = <<>> =>
          /\ (DOMAIN shots \union DOMAIN choosers) \ doubled \subseteq served
          /\ served \ doubled \subseteq DOMAIN shots \union DOMAIN choosers \union denied

(* No call is answered twice or never, and none with another's result.     *)
AnsweredWithItsOwn == PromptAnsweredOnce /\ ResultOfOwnRequest

(* Neither pixels, nor a dialog, nor an object on the bus outlives the     *)
(* request it was made for, or is gone before it.                          *)
NothingOutlivesItsRequest == []DialogsAndObjectsFollow /\ PixelsFollowRequests

(* What the user approved is answered, by a result, a failure, or the      *)
(* cancellation of a close or of the frontend's loss: no worker, channel   *)
(* or reused handle leaves the application waiting.                        *)
ApprovedIsAnswered ==
    \A t \in 1..MaxCalls : (t \in approved) ~> (t \in approved /\ answers[askedBy[t]] # <<>>)
=============================================================================
