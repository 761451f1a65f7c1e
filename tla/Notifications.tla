--------------------------- MODULE Notifications ---------------------------
(***************************************************************************)
(* The desktop notification server: the D-Bus object and the compositor's  *)
(* loop (notification/, its platform callbacks), and the shell that owns   *)
(* the entries, their popups and the notices it synthesizes for windows    *)
(* that ask for attention (shell/lib/notification/provider/).              *)
(*                                                                         *)
(* The loop and the shell are two threads joined by two FIFO channels;     *)
(* what a Dart function does up to its first await is one step, and what   *)
(* follows an awaited request is another, taken when the loop answered.    *)
(***************************************************************************)
EXTENDS Naturals, FiniteSets, SequencesExt

CONSTANTS
    Senders,    \* clients of the bus, each the owner of one meta window
    WindowOf,   \* the window the pid of a sender resolves to
    Shapes,     \* the notifications they send: [timed, resident, default]
    Placements, \* where the tiles of the windows are at first
    Budgets,    \* how often each outside event may happen (bounds)
    MaxCalls    \* the calls that can be made within the budgets

Outside == {"notify", "close", "click", "clear", "move", "demand", "leave"}
ASSUME WindowAssumption == DOMAIN WindowOf = Senders
ASSUME ShapeAssumption  == Shapes \subseteq [timed : BOOLEAN, resident : BOOLEAN, default : BOOLEAN]
ASSUME PlacementAssumption ==
    Placements \subseteq [Range(WindowOf) -> {"elsewhere", "tile", "displayed"}]
ASSUME BudgetsAssumption == Budgets \subseteq [Outside -> Nat]

Windows == Range(WindowOf)
None    == "none"

VARIABLES
    \* the bus and the loop
    calls,          \* calloop channel of accepted calls
    pending_notify, \* call token |-> the sender that waits
    notification_senders, \* id |-> its sender
    shell_ready, queued_outgoing,
    tokens,         \* activation tokens minted and not used: [to, window]
    \* the two directions of the platform channel
    toShell, toLoop,
    \* the shell
    notificationMap, lastIndex,
    popupChannels,  \* id |-> the channel its popup was pushed to
    cards,          \* the popups of all channels: [id, channel, timed]
    attention,      \* window |-> its live synthesized notice
    naming,         \* windows whose application name is being resolved
    routes,         \* id |-> the route at the last rebuild of the routes
    tasks,          \* what awaits an answer of the loop
    \* the world
    where,          \* window |-> its tile: "elsewhere", "tile", "displayed"
    open, metaWindows, \* the windows that exist, and those the shell knows of
    \* what is left of the budgets, and what was said on the bus: call token |->
    \* id, id |-> how often it was told closed, the grants of focus
    left, answered, closedSignals, granted

busVars   == <<calls, pending_notify, notification_senders, shell_ready, queued_outgoing>>
shellVars == <<notificationMap, lastIndex, popupChannels, cards, attention, naming, routes, tasks>>
worldVars == <<where, open, metaWindows>>
saidVars  == <<answered, closedSignals, granted>>
vars == <<busVars, tokens, toShell, toLoop, shellVars, worldVars, left, saidVars>>

Spend(event) ==
    /\ left[event] > 0
    /\ left' = [left EXCEPT ![event] = @ - 1]

Without(f, keys) == [k \in DOMAIN f \ keys |-> f[k]]
With(f, key, value) == [k \in DOMAIN f \cup {key} |-> IF k = key THEN value ELSE f[k]]

NotificationInit ==
    /\ calls = <<>> /\ pending_notify = <<>> /\ notification_senders = <<>>
    /\ shell_ready = FALSE /\ queued_outgoing = <<>>
    /\ tokens = {} /\ toShell = <<>> /\ toLoop = <<>>
    /\ notificationMap = <<>> /\ lastIndex = 0 /\ popupChannels = <<>> /\ cards = {}
    /\ attention = <<>> /\ naming = <<>> /\ routes = <<>> /\ tasks = <<>>
    /\ where \in Placements
    /\ open = Windows /\ metaWindows = Windows
    /\ left \in Budgets
    /\ answered = <<>> /\ closedSignals = <<>> /\ granted = {}

----------------------------------------------------------------------------
(* The bus *)

\* The token of a call is the number of calls before it, plus one.
CallTokens == DOMAIN pending_notify \cup DOMAIN answered
                  \cup {calls[i].token : i \in {j \in DOMAIN calls : calls[j].call = "Notify"}}

\* hints_to_json: of the hints, a shape keeps what the properties tell apart.
NotifyCall(sender, replaces, shape) ==
    [call |-> "Notify", token |-> Cardinality(CallTokens) + 1, sender |-> sender,
     replaces |-> replaces, shape |-> shape]

\* notify: a client replaces nothing, or a notification it or another was told of.
Notify(sender) ==
    /\ Spend("notify")
    /\ \E shape \in Shapes, replaces \in {0} \cup Range(answered) :
          calls' = Append(calls, NotifyCall(sender, replaces, shape))
    /\ UNCHANGED <<pending_notify, notification_senders, shell_ready, queued_outgoing,
                   tokens, toShell, toLoop, shellVars, worldVars, saidVars>>

CloseNotification ==
    /\ Spend("close")
    /\ \E id \in Range(answered) : calls' = Append(calls, [call |-> "Close", id |-> id])
    /\ UNCHANGED <<pending_notify, notification_senders, shell_ready, queued_outgoing,
                   tokens, toShell, toLoop, shellVars, worldVars, saidVars>>

----------------------------------------------------------------------------
(* The compositor's loop *)

\* deliver: pushed to the shell, or kept until it subscribed
Deliver(event) ==
    IF shell_ready
    THEN toShell' = Append(toShell, event) /\ UNCHANGED queued_outgoing
    ELSE queued_outgoing' = Append(queued_outgoing, event) /\ UNCHANGED toShell

\* handle_notification_call
HandleNotificationCall ==
    /\ calls # <<>>
    /\ calls' = Tail(calls)
    /\ LET call == Head(calls) IN
       /\ pending_notify' = IF call.call = "Notify"
                            THEN With(pending_notify, call.token, call.sender)
                            ELSE pending_notify
       /\ Deliver(call)
    /\ UNCHANGED <<notification_senders, shell_ready, tokens, toLoop, shellVars, worldVars,
                   left, saidVars>>

Request(name) == toLoop # <<>> /\ Head(toLoop).request = name /\ toLoop' = Tail(toLoop)

\* The future of a request completes: what awaits it may go on.
Completed(request) ==
    tasks' = IF request.task \in DOMAIN tasks
             THEN [tasks EXCEPT ![request.task].waits = FALSE] ELSE tasks

loopOnly == <<calls, notificationMap, lastIndex, popupChannels, cards, attention, naming,
              routes, worldVars, left>>

\* Mutant: the calls kept for the shell are dropped when it reports ready.
FlushedNothing == <<>>

\* What mark_shell_ready pushes at once
Flushed == queued_outgoing

\* mark_shell_ready
MarkShellReady ==
    /\ Request("ready")
    /\ shell_ready' = TRUE
    /\ queued_outgoing' = <<>>
    /\ toShell' = toShell \o Flushed
    /\ UNCHANGED <<loopOnly, pending_notify, notification_senders, tokens, tasks, saidVars>>

\* Mutant: complete_notify keeps the first sender of an id that is replaced.
SenderKept(call, id) ==
    IF id \in DOMAIN notification_senders THEN notification_senders
    ELSE With(notification_senders, id, pending_notify[call])

\* The sender complete_notify records for an id: that of the answered call.
SenderRecorded(call, id) == With(notification_senders, id, pending_notify[call])

\* complete_notify
CompleteNotify ==
    /\ Request("result")
    /\ LET request == Head(toLoop) IN
       IF request.call \in DOMAIN pending_notify
       THEN /\ pending_notify' = Without(pending_notify, {request.call})
            /\ notification_senders' = SenderRecorded(request.call, request.id)
            /\ answered' = With(answered, request.call, request.id)
       ELSE UNCHANGED <<pending_notify, notification_senders, answered>>
    /\ UNCHANGED <<loopOnly, shell_ready, queued_outgoing, tokens, toShell, tasks,
                   closedSignals, granted>>

\* mint_notification_activation_token: what was minted long ago and not used
\* is dropped; two tokens of one window for one client are not told apart.
Minted(to, window) == {kept \cup [to : to, window : {window}] : kept \in SUBSET tokens}

\* notification_activation_token: the token goes to the sender alone, and to
\* everyone when the id has none.
EmitActivationToken ==
    /\ Request("token")
    /\ LET request == Head(toLoop)
           to == IF request.id \in DOMAIN notification_senders
                 THEN {notification_senders[request.id]} ELSE Senders
       IN /\ tokens' \in Minted(to, request.window)
          /\ granted' = granted \cup [to : to, window : {request.window}]
          /\ Completed(request)
    /\ UNCHANGED <<loopOnly, pending_notify, notification_senders, shell_ready,
                   queued_outgoing, toShell, answered, closedSignals>>

EmitActionInvoked ==
    /\ Request("action")
    /\ Completed(Head(toLoop))
    /\ UNCHANGED <<loopOnly, pending_notify, notification_senders, shell_ready,
                   queued_outgoing, tokens, toShell, saidVars>>

\* How often an id was told closed
Signals(id) == IF id \in DOMAIN closedSignals THEN closedSignals[id] ELSE 0

\* notification_closed: the signal, then forget_notification
EmitNotificationClosed ==
    /\ Request("closed")
    /\ LET request == Head(toLoop) IN
       /\ closedSignals' = With(closedSignals, request.id, Signals(request.id) + 1)
       /\ notification_senders' = Without(notification_senders, {request.id})
       /\ Completed(request)
    /\ UNCHANGED <<loopOnly, pending_notify, shell_ready, queued_outgoing, tokens, toShell,
                   answered, granted>>

\* request_activation with a token of ours: the token is used up, the window
\* is focused and the shell told to bring it into view.
RequestActivation ==
    /\ \E token \in tokens :
          /\ tokens' = tokens \ {token}
          /\ toShell' = IF token.window \in open
                        THEN Append(toShell, [call |-> "activate", window |-> token.window])
                        ELSE toShell
    /\ UNCHANGED <<busVars, toLoop, shellVars, worldVars, left, saidVars>>

\* The client destroys its window.
WindowLeaves(window) ==
    /\ window \in open
    /\ Spend("leave")
    /\ open' = open \ {window}
    /\ toShell' = Append(toShell, [call |-> "left", window |-> window])
    /\ UNCHANGED <<busVars, tokens, toLoop, shellVars, where, metaWindows, saidVars>>

\* notify_window_attention_requested and _released: an X11 hint set or cleared,
\* or the activation of a window that exists
WindowDemands(window) ==
    /\ window \in open
    /\ Spend("demand")
    /\ \E call \in {"demand", "undemand"} :
          toShell' = Append(toShell, [call |-> call, window |-> window])
    /\ UNCHANGED <<busVars, tokens, toLoop, shellVars, worldVars, saidVars>>

----------------------------------------------------------------------------
(* The shell: popups and closing, the parts of its handlers *)

\* routeForWindow: the tile of a window outlives it; without a tile there is no
\* route.
RouteOf(entry) == IF entry.resolved THEN where[entry.window] ELSE "unresolved"

\* _popupChannelFor: nothing pops up for a tile that is displayed.
ChannelFor(route) == IF route = "unresolved" THEN "screen" ELSE route

\* The cards a set of ids has in the channels they were pushed to
CardsOf(ids) ==
    {c \in cards : c.id \in ids \cap DOMAIN popupChannels /\ c.channel = popupChannels[c.id]}

\* _showPopup: the channel replaces its card of that id, with its timer.
ShowPopup(id, entry, oldCards, oldChannels) ==
    LET route   == RouteOf(entry)
        channel == ChannelFor(route)
    IN IF route = "displayed"
       THEN cards' = oldCards /\ popupChannels' = oldChannels
       ELSE /\ popupChannels' = With(oldChannels, id, channel)
            /\ cards' = {c \in oldCards : c.id # id \/ c.channel # channel}
                           \cup {[id |-> id, channel |-> channel, timed |-> entry.shape.timed]}

\* Mutant: the flag is only set once the signal is out.
ClosedLate(entry, markRead) ==
    [entry EXCEPT !.closed = entry.synthetic, !.read = @ \/ (markRead /\ ~entry.synthetic)]

\* An entry as _closeNotification leaves it, before it sends the signal
ClosedEntry(entry, markRead) ==
    [entry EXCEPT !.closed = TRUE, !.read = @ \/ (markRead /\ ~entry.synthetic)]

\* The i-th of a set of ids
Nth(ids, i) == CHOOSE id \in ids : Cardinality({k \in ids : k <= id}) = i

\* _closeNotification of each of a set of ids: a notice the shell synthesized is
\* forgotten unless it merely expired; a client is told once.
Close(ids, reason, markRead, forget, task) ==
    LET known   == ids \cap DOMAIN notificationMap
        notices == {id \in known : notificationMap[id].synthetic}
        told    == {id \in known \ notices : ~notificationMap[id].closed}
        gone    == (IF reason = "expired" THEN {} ELSE notices)
                       \cup (IF forget THEN known \ notices ELSE {})
    IN /\ notificationMap' =
              [id \in DOMAIN notificationMap \ gone |->
                  IF id \in known THEN ClosedEntry(notificationMap[id], markRead)
                  ELSE notificationMap[id]]
       /\ cards' = cards \ CardsOf(known)
       /\ popupChannels' = Without(popupChannels, known)
       /\ attention' = Without(attention, {w \in DOMAIN attention : attention[w] \in gone})
       /\ toLoop' = toLoop \o [i \in 1..Cardinality(told) |->
                        [request |-> "closed", id |-> Nth(told, i), task |-> task]]

NothingClosed == UNCHANGED <<notificationMap, cards, popupChannels, attention, toLoop>>

----------------------------------------------------------------------------
(* The shell: what the loop sends *)

Event(name) == toShell # <<>> /\ Head(toShell).call = name /\ toShell' = Tail(toShell)

outsideShell == <<busVars, tokens, open, left, saidVars>>

\* build: the subscription exists, the compositor may flush.
ShellSubscribes ==
    /\ ~shell_ready
    /\ \A i \in DOMAIN toLoop : toLoop[i].request # "ready"
    /\ toLoop' = Append(toLoop, [request |-> "ready", task |-> 0])
    /\ UNCHANGED <<outsideShell, toShell, shellVars, where, metaWindows>>

\* _buildNotification: the window of the sender is looked up once.
Entry(call) ==
    LET window == WindowOf[call.sender] IN
    [window |-> window, resolved |-> window \in metaWindows, shape |-> call.shape,
     read |-> FALSE, closed |-> FALSE, synthetic |-> FALSE]

Live(id) == id \in DOMAIN notificationMap /\ ~notificationMap[id].closed

\* Mutant: a replacement leaves the popup it replaces.
NothingReplaced(id) == {}

\* The cards _replaceNotification drops before it routes the new one
ReplacedCards(id) == IF Live(id) THEN CardsOf({id}) ELSE {}

\* _onNewNotification: a live entry is replaced in place, any other call is new.
OnNewNotification ==
    /\ Event("Notify")
    /\ LET call == Head(toShell)
           id   == IF Live(call.replaces) THEN call.replaces ELSE lastIndex + 1
       IN /\ notificationMap' = With(notificationMap, id, Entry(call))
          /\ lastIndex' = IF id > lastIndex THEN id ELSE lastIndex
          /\ ShowPopup(id, Entry(call), cards \ ReplacedCards(id), Without(popupChannels, {id}))
          /\ toLoop' = Append(toLoop, [request |-> "result", call |-> call.token, id |-> id,
                                       task |-> 0])
    /\ UNCHANGED <<outsideShell, attention, naming, routes, tasks, where, metaWindows>>

OnCloseRequested ==
    /\ Event("Close")
    /\ Close({Head(toShell).id}, "closedByCall", FALSE, FALSE, 0)
    /\ UNCHANGED <<outsideShell, lastIndex, naming, routes, tasks, where, metaWindows>>

\* bringMetaWindowIntoView
OnActivationRequested ==
    /\ Event("activate")
    /\ LET window == Head(toShell).window IN
       where' = IF window \in metaWindows THEN [where EXCEPT ![window] = "displayed"] ELSE where
    /\ UNCHANGED <<outsideShell, toLoop, shellVars, metaWindows>>

\* The listener of the meta windows: _pruneAttentionNotification
OnWindowLeft ==
    /\ Event("left")
    /\ LET window == Head(toShell).window IN
       /\ metaWindows' = metaWindows \ {window}
       /\ IF window \in DOMAIN attention
          THEN Close({attention[window]}, "dismissed", TRUE, FALSE, 0)
          ELSE NothingClosed
    /\ UNCHANGED <<outsideShell, lastIndex, naming, routes, tasks, where>>

\* _onWindowAttentionRequested, up to the name of the application
OnAttentionRequested ==
    /\ Event("demand")
    /\ LET window  == Head(toShell).window
           covered == window \in DOMAIN attention /\ attention[window] \in DOMAIN notificationMap
       IN IF window \notin metaWindows \/ covered
          THEN UNCHANGED <<attention, naming>>
          ELSE /\ attention' = Without(attention, {window})
               /\ naming' = IF where[window] = "displayed" THEN naming ELSE Append(naming, window)
    /\ UNCHANGED <<outsideShell, toLoop, notificationMap, lastIndex, popupChannels, cards, routes,
                   tasks, where, metaWindows>>

\* Mutant: the window is not looked up again after the await.
StillThere(window) == TRUE

\* The window may have gone while the name was resolved.
WindowKnown(window) == window \in metaWindows

Notice(window) ==
    [window |-> window, resolved |-> TRUE, read |-> FALSE, closed |-> FALSE, synthetic |-> TRUE,
     shape |-> [timed |-> TRUE, resident |-> FALSE, default |-> FALSE]]

\* _onWindowAttentionRequested, once the name is there
AttentionNamed ==
    /\ \E i \in DOMAIN naming :
          /\ naming' = RemoveAt(naming, i)
          /\ IF WindowKnown(naming[i])
             THEN /\ lastIndex' = lastIndex + 1
                  /\ notificationMap' = With(notificationMap, lastIndex + 1, Notice(naming[i]))
                  /\ attention' = With(attention, naming[i], lastIndex + 1)
                  /\ ShowPopup(lastIndex + 1, Notice(naming[i]), cards, popupChannels)
             ELSE UNCHANGED <<lastIndex, notificationMap, attention, cards, popupChannels>>
    /\ UNCHANGED <<outsideShell, toShell, toLoop, routes, tasks, where, metaWindows>>

\* _onWindowAttentionReleased
OnAttentionReleased ==
    /\ Event("undemand")
    /\ LET window == Head(toShell).window IN
       IF window \notin DOMAIN attention THEN NothingClosed
       ELSE IF attention[window] \notin DOMAIN notificationMap
       THEN /\ attention' = Without(attention, {window})
            /\ UNCHANGED <<notificationMap, cards, popupChannels, toLoop>>
       ELSE Close({attention[window]}, "dismissed", TRUE, FALSE, 0)
    /\ UNCHANGED <<outsideShell, lastIndex, naming, routes, tasks, where, metaWindows>>

----------------------------------------------------------------------------
(* The shell: timers, routes and the user *)

shellAlone == <<outsideShell, toShell, lastIndex, naming, metaWindows>>

\* The timer of a card removes it from its channel, then closes as expired.
PopupExpires ==
    /\ \E card \in cards :
          /\ card.timed
          /\ Close({card.id}, "expired", FALSE, FALSE, 0)
    /\ UNCHANGED <<shellAlone, routes, tasks, where>>

RouteNow == [id \in DOMAIN notificationMap |-> RouteOf(notificationMap[id])]

\* notificationReadTracker: what is displayed has been seen, and so has the
\* notice of a hidden tile whose workspace was just shown.
Seen(id) ==
    /\ ~notificationMap[id].read
    /\ \/ RouteNow[id] = "displayed"
       \/ RouteNow[id] = "tile" /\ id \in DOMAIN routes /\ routes[id] = "elsewhere"

\* The routes are rebuilt, the tracker closes what was seen in a microtask.
RoutesRebuilt ==
    /\ routes # RouteNow
    /\ routes' = RouteNow
    /\ Close({id \in DOMAIN notificationMap : Seen(id)}, "dismissed", TRUE, FALSE, 0)
    /\ UNCHANGED <<shellAlone, tasks, where>>

\* The user selects a workspace, scrolls its tiles or opens the overview.
UserMoves(window) ==
    /\ Spend("move")
    /\ \E place \in {"elsewhere", "tile", "displayed"} \ {where[window]} :
          where' = [where EXCEPT ![window] = place]
    /\ UNCHANGED <<busVars, tokens, open, saidVars, toShell, toLoop, shellVars, metaWindows>>

userLeaves == <<busVars, tokens, open, saidVars, toShell, lastIndex, naming, routes, metaWindows>>

NewTask == Cardinality(DOMAIN tasks) + 1
Started(task) == tasks' = With(tasks, NewTask, task)

\* A task of one id asks for the token of its window, then for the signal.
AskNext(n, id, entry, step) ==
    toLoop' = Append(toLoop,
        IF step = "token" THEN [request |-> "token", id |-> id, window |-> entry.window, task |-> n]
        ELSE [request |-> "action", id |-> id, task |-> n])

FirstStep(entry) == IF entry.resolved THEN "token" ELSE "action"

\* A task keeps the entry it began with.
TaskFor(doing, id, entry) ==
    [doing |-> doing, ids |-> {id}, entry |-> entry, step |-> FirstStep(entry), waits |-> TRUE]

\* _invokeAction, up to its first await
InvokeAction(id) ==
    /\ Spend("click")
    /\ Live(id) /\ ~notificationMap[id].synthetic
    /\ LET entry == notificationMap[id] IN
       /\ notificationMap' = [notificationMap EXCEPT ![id].read = TRUE]
       /\ Started(TaskFor("invoke", id, entry))
       /\ AskNext(NewTask, id, entry, FirstStep(entry))
    /\ UNCHANGED <<userLeaves, popupChannels, cards, attention, where>>

\* The window of an entry, looked up again if it was not known on reception,
\* is brought into view.
Reveal(entry) ==
    where' = IF entry.resolved \/ entry.window \in metaWindows
             THEN [where EXCEPT ![entry.window] = "displayed"] ELSE where

\* The end of _openNotification and of _invokeAction
ClosedUnlessResident(id, entry, reads) ==
    IF ~entry.shape.resident THEN Close({id}, "dismissed", TRUE, FALSE, 0)
    ELSE /\ notificationMap' = IF reads /\ id \in DOMAIN notificationMap
                               THEN [notificationMap EXCEPT ![id].read = TRUE]
                               ELSE notificationMap
         /\ UNCHANGED <<cards, popupChannels, attention, toLoop>>

\* _openNotification: the sender of a live entry with a default action is told
\* first.
OpenNotification(id) ==
    /\ Spend("click")
    /\ id \in DOMAIN notificationMap
    /\ LET entry == notificationMap[id] IN
       IF entry.shape.default /\ ~entry.closed
       THEN /\ Started(TaskFor("open", id, entry))
            /\ AskNext(NewTask, id, entry, FirstStep(entry))
            /\ UNCHANGED <<notificationMap, cards, popupChannels, attention, where>>
       ELSE /\ Reveal(entry)
            /\ ClosedUnlessResident(id, entry, TRUE)
            /\ UNCHANGED tasks
    /\ UNCHANGED userLeaves

\* dismissNotification and dismissAndRemoveNotification
Dismiss(id) ==
    /\ Spend("click")
    /\ id \in DOMAIN notificationMap
    /\ \E forget \in BOOLEAN : Close({id}, "dismissed", TRUE, forget, 0)
    /\ UNCHANGED <<userLeaves, tasks, where>>

\* _dismissAllNotifications closes up to the first entry whose signal it awaits.
ClearSome(n, ids) ==
    LET told == {id \in ids : Live(id) /\ ~notificationMap[id].synthetic}
        now  == IF told = {} THEN ids ELSE {id \in ids : id <= Min(told)}
    IN /\ Close(now, "dismissed", TRUE, TRUE, n)
       /\ tasks' = With(tasks, n, [doing |-> "clear", ids |-> ids \ now, waits |-> told # {}])

DismissAll ==
    /\ Spend("clear")
    /\ ClearSome(NewTask, DOMAIN notificationMap)
    /\ UNCHANGED <<userLeaves, where>>

\* What awaited a request goes on.
TaskContinues ==
    /\ \E n \in DOMAIN tasks :
          LET task == tasks[n]
              id   == CHOOSE i \in task.ids : TRUE
          IN /\ ~task.waits /\ task.ids # {}
             /\ \/ /\ task.doing = "clear"
                   /\ ClearSome(n, task.ids)
                   /\ UNCHANGED where
                \/ /\ task.doing # "clear" /\ task.step = "token"
                   /\ tasks' = [tasks EXCEPT ![n].step = "action", ![n].waits = TRUE]
                   /\ AskNext(n, id, task.entry, "action")
                   /\ UNCHANGED <<notificationMap, cards, popupChannels, attention, where>>
                \/ /\ task.doing # "clear" /\ task.step = "action"
                   /\ tasks' = [tasks EXCEPT ![n].ids = {}]
                   /\ IF task.doing = "open" THEN Reveal(task.entry) ELSE UNCHANGED where
                   /\ ClosedUnlessResident(id, task.entry, task.doing = "open")
    /\ UNCHANGED <<userLeaves, left>>

----------------------------------------------------------------------------
(* The specification *)

Loop ==
    \/ HandleNotificationCall \/ MarkShellReady \/ CompleteNotify
    \/ EmitActivationToken \/ EmitActionInvoked \/ EmitNotificationClosed

ShellReads ==
    \/ OnNewNotification \/ OnCloseRequested \/ OnActivationRequested \/ OnWindowLeft
    \/ OnAttentionRequested \/ OnAttentionReleased

ShellWorks == ShellSubscribes \/ AttentionNamed \/ RoutesRebuilt \/ TaskContinues

Users ==
    \/ \E window \in Windows : UserMoves(window)
    \/ \E id \in DOMAIN notificationMap : InvokeAction(id) \/ OpenNotification(id) \/ Dismiss(id)
    \/ DismissAll

Clients ==
    \/ \E sender \in Senders : Notify(sender)
    \/ CloseNotification
    \/ RequestActivation
    \/ \E window \in Windows : WindowDemands(window) \/ WindowLeaves(window)

NotificationNext ==
    Loop \/ ShellReads \/ ShellWorks \/ PopupExpires \/ Users \/ Clients

NotificationSpec == NotificationInit /\ [][NotificationNext]_vars

\* The loop dispatches its channel, the shell its isolate; clients and the user
\* owe nothing.
NotificationFairness == WF_vars(Loop) /\ WF_vars(ShellReads) /\ WF_vars(ShellWorks)
FairNotificationSpec == NotificationSpec /\ NotificationFairness

----------------------------------------------------------------------------
(* Properties *)

\* Every accepted Notify is answered, calls that came before the shell
\* subscribed included.
NotifyAnswered ==
    \A token \in 1..MaxCalls : (token \in CallTokens) ~> (token \in DOMAIN answered)

Quiet == calls = <<>> /\ queued_outgoing = <<>> /\ toShell = <<>> /\ toLoop = <<>>

\* No id is told closed twice; and once nothing is under way the three parties
\* agree: the ids that were told closed are those the shell closed or forgot, and
\* the compositor knows the sender of exactly the live ones.
BooksAgree ==
    /\ \A id \in DOMAIN closedSignals : Signals(id) <= 1
    /\ Quiet => LET live == {id \in Range(answered) : Live(id)} IN
                /\ \A id \in Range(answered) : Signals(id) = 1 <=> id \notin live
                /\ DOMAIN notification_senders = live

\* An activation token is a focus grant: it reaches the owner of the window it
\* focuses and nobody else, whoever replaced or closed the notification meanwhile.
TokenToItsOwner == \A grant \in granted : WindowOf[grant.to] = grant.window

\* A popup stands for a live entry and there is one at most, whatever became of
\* the route it was pushed along; a card that left took its timer with it.
PopupsLive ==
    \A card \in cards :
        /\ Live(card.id)
        /\ card.id \in DOMAIN popupChannels /\ popupChannels[card.id] = card.channel

\* A demand for attention is remembered only for a window that is still there,
\* and by its own notice.
AttentionOfOpenWindows ==
    \A window \in DOMAIN attention :
        /\ window \in metaWindows
        /\ LET id == attention[window] IN
           id \in DOMAIN notificationMap => notificationMap[id].synthetic
                                             /\ notificationMap[id].window = window

\* Nothing on the desktop outlives what it stands for: neither a popup its entry,
\* nor a demand for attention its window.
NothingStale == PopupsLive /\ AttentionOfOpenWindows

=============================================================================
