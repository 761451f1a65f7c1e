------------------------------- MODULE Windows -------------------------------
(***************************************************************************)
(* Which windows and popups there are: the embedder's registry, filled and *)
(* emptied by XDG and X11 clients that end in any order, the shell's copy  *)
(* of it at the other end of the platform channel, and the one gaming      *)
(* takeover the two sides agree on (meta_window_state/{mod,meta_window,    *)
(* meta_popup}.rs, wayland/{mod,xdg,xwayland}.rs, keyboard/mod.rs and the  *)
(* shell's meta_window_manager.dart, meta_window_state.dart,               *)
(* meta_surface_gaming_overlay.dart).                                      *)
(*                                                                         *)
(* The embedder is one thread and the shell another; each direction of the *)
(* channel is a queue.  A window keeps its surface, whether it is mapped   *)
(* and whether its game has the input; a popup its surface and its parent. *)
(***************************************************************************)
EXTENDS Naturals, Sequences, FiniteSets, SequencesExt

CONSTANTS
    Toplevels,      \* surfaces that take the xdg_toplevel role
    X11Surfaces,    \* surfaces Xwayland associates with a managed window
    PopupSurfaces,  \* surfaces that take the xdg_popup role
    None,
    MaxIds,         \* bound: windows and popups ever created
    MaxQueue        \* bound: messages on their way to the shell

Surfaces == Toplevels \cup X11Surfaces \cup PopupSurfaces
Ids == 1 .. MaxIds

ASSUME WindowsAssumption ==
    /\ Toplevels \cap X11Surfaces = {} /\ Toplevels \cap PopupSurfaces = {}
    /\ X11Surfaces \cap PopupSurfaces = {}
    /\ None \notin Surfaces \cup Ids
    /\ MaxIds \in Nat /\ MaxQueue \in Nat

VARIABLES
    live,         \* surfaces, by their wl_surface
    roles,        \* xdg_toplevels, xdg_popups, X11 associations: the surfaces
    windows,      \* meta_windows: id -> [surface, mapped, game]
    windowOf,     \* meta_window_id_per_surface_id
    popups,       \* meta_popups: id -> [surface, parent]
    popupOf,      \* meta_popup_id_per_surface_id
    gaming,       \* meta_window_in_gaming_mode
    used,         \* how many ids were given out
    toShell,      \* the platform channel, the embedder's calls
    toEmbedder,   \* and the shell's: the windows to give the input to
    known,        \* the shell's MetaWindowManager.state
    arriving,     \* _pendingCreated: id -> the mapped flag it was created with
    gone,         \* _removedWhilePending
    mirror,       \* metaWindowStateProvider: id -> [mapped, game]
    shown,        \* _popupIds: popup -> its parent
    route,        \* the pushed _GamingZoomRoute: [of, zooming]
    missed        \* history: windows a patch of which came while arriving

client == <<live, roles>>
registry == <<windows, windowOf, popups, popupOf, gaming>>
shell == <<known, arriving, gone, mirror, shown, route, missed>>
vars == <<client, registry, used, toShell, toEmbedder, shell>>

NoRoute == [of |-> None, zooming |-> FALSE]
Without(f, X) == [x \in DOMAIN f \ X |-> f[x]]
With(f, x, v) == [y \in DOMAIN f \cup {x} |-> IF y = x THEN v ELSE f[y]]

Event(kind, id, flag, parent) ==
    [kind |-> kind, id |-> id, flag |-> flag, parent |-> parent]
Kinds == {"created", "mapped", "game", "removed", "popup", "popupRemoved"}

TypeOK ==
    /\ live \subseteq Surfaces /\ roles \subseteq Surfaces
    /\ DOMAIN windows \subseteq Ids /\ DOMAIN popups \subseteq Ids
    /\ \A w \in DOMAIN windows :
          windows[w] \in [surface : Surfaces, mapped : BOOLEAN, game : BOOLEAN]
    /\ \A p \in DOMAIN popups : popups[p] \in [surface : Surfaces, parent : Ids]
    /\ gaming \in Ids \cup {None} /\ used \in 0 .. MaxIds
    /\ toShell \in Seq([kind : Kinds, id : Ids, flag : BOOLEAN,
                        parent : Ids \cup {None}])
    /\ toEmbedder \in Seq(Ids)
    /\ known \subseteq Ids /\ gone \subseteq Ids /\ missed \subseteq Ids
    /\ route \in [of : Ids \cup {None}, zooming : BOOLEAN]

Init ==
    /\ live = Surfaces /\ roles = {}
    /\ windows = <<>> /\ windowOf = <<>> /\ popups = <<>> /\ popupOf = <<>>
    /\ gaming = None /\ used = 0 /\ toShell = <<>> /\ toEmbedder = <<>>
    /\ known = {} /\ arriving = <<>> /\ gone = {} /\ mirror = <<>>
    /\ shown = <<>> /\ route = NoRoute /\ missed = {}

(***************************************************************************)
(* The embedder.                                                           *)
(***************************************************************************)
Room == Len(toShell) < MaxQueue
Fresh == used + 1
Tell(events) == toShell' = toShell \o events

(* A new window of surface s.                                              *)
CreateMetaWindow(s, mapped) ==
    /\ used < MaxIds /\ used' = Fresh
    /\ windows' = With(windows, Fresh,
                       [surface |-> s, mapped |-> mapped, game |-> FALSE])
    /\ windowOf' = With(windowOf, s, Fresh)
    /\ Tell(<<Event("created", Fresh, mapped, None)>>)

(* A toplevel's window waits for its first buffer; an X11 window is mapped *)
(* from the start.                                                         *)
NewMetaWindowForToplevel(s) == CreateMetaWindow(s, FALSE)
NewMetaWindowForX11Surface(s) == CreateMetaWindow(s, TRUE)

(* A new popup of surface s, in window w.                                  *)
CreateMetaPopup(s, w) ==
    /\ used < MaxIds /\ used' = Fresh
    /\ popups' = With(popups, Fresh, [surface |-> s, parent |-> w])
    /\ popupOf' = With(popupOf, s, Fresh)
    /\ Tell(<<Event("popup", Fresh, FALSE, w)>>)

(* What taking the input from game w tells the shell: nothing when w does  *)
(* not have it.                                                            *)
Deactivated(w) ==
    IF gaming = w /\ windows[w].game THEN <<Event("game", w, FALSE, None)>>
    ELSE <<>>

(* Takes a registered window and these of its popups out of the registry   *)
(* and of the shell: the takeover first, then the popups, then itself.     *)
RegistryRemove(w, orphans) ==
    LET ended == [i \in 1 .. Cardinality(orphans) |->
                    Event("popupRemoved", SetToSeq(orphans)[i], FALSE, None)]
    IN /\ windows' = Without(windows, {w})
       /\ popups' = Without(popups, orphans)
       /\ popupOf' = Without(popupOf, {s \in DOMAIN popupOf :
                                          popupOf[s] \in orphans})
       /\ gaming' = IF gaming = w THEN None ELSE gaming
       /\ Tell(Deactivated(w) \o ended \o <<Event("removed", w, FALSE, None)>>)

(* Mutants: the reverse entry is left; a second removal is told again.     *)
RemoveKeepingEntry(w) ==
    /\ RegistryRemove(w, {p \in DOMAIN popups : popups[p].parent = w})
    /\ UNCHANGED windowOf

RemoveTwice(w) ==
    /\ UNCHANGED windowOf
    /\ IF w \in DOMAIN windows
       THEN RegistryRemove(w, {p \in DOMAIN popups : popups[p].parent = w})
       ELSE /\ Tell(<<Event("removed", w, FALSE, None)>>)
            /\ UNCHANGED <<windows, popups, popupOf, gaming>>

(* Removes window w, and whatever still leads to it, if it is still there. *)
RemoveMetaWindow(w) ==
    /\ windowOf' = Without(windowOf, {s \in DOMAIN windowOf : windowOf[s] = w})
    /\ IF w \notin DOMAIN windows
       THEN UNCHANGED <<windows, popups, popupOf, gaming, toShell>>
       ELSE RegistryRemove(w, {p \in DOMAIN popups : popups[p].parent = w})

RemoveMetaPopup(p) ==
    /\ popupOf' = Without(popupOf, {s \in DOMAIN popupOf : popupOf[s] = p})
    /\ IF p \notin DOMAIN popups THEN UNCHANGED <<popups, toShell>>
       ELSE /\ popups' = Without(popups, {p})
            /\ Tell(<<Event("popupRemoved", p, FALSE, None)>>)
    /\ UNCHANGED <<windows, windowOf, gaming>>

NewToplevel(s) ==
    /\ Room /\ s \in (live \cap Toplevels) \ roles
    /\ roles' = roles \cup {s}
    /\ NewMetaWindowForToplevel(s)
    /\ UNCHANGED <<live, popups, popupOf, gaming, toEmbedder, shell>>

SurfaceAssociated(s) ==
    /\ Room /\ s \in (live \cap X11Surfaces) \ roles
    /\ roles' = roles \cup {s}
    /\ NewMetaWindowForX11Surface(s)
    /\ UNCHANGED <<live, popups, popupOf, gaming, toEmbedder, shell>>

(* A commit with or without a buffer: told when it changes the window.     *)
Commit(s) ==
    /\ Room /\ s \in live \cap DOMAIN windowOf /\ windowOf[s] \in DOMAIN windows
    /\ LET w == windowOf[s]
           mapped == ~ windows[w].mapped
       IN /\ windows' = [windows EXCEPT ![w].mapped = mapped]
          /\ Tell(<<Event("mapped", w, mapped, None)>>)
    /\ UNCHANGED <<client, windowOf, popups, popupOf, gaming, used, toEmbedder,
                   shell>>

ToplevelDestroyed(s) ==
    /\ Room /\ s \in roles \cap Toplevels
    /\ roles' = roles \ {s}
    /\ IF s \in DOMAIN windowOf THEN RemoveMetaWindow(windowOf[s])
       ELSE UNCHANGED <<registry, toShell>>
    /\ UNCHANGED <<live, used, toEmbedder, shell>>

(* An X11 window is unmapped; nothing when its wl_surface went first.      *)
UnmappedWindow(s) ==
    /\ Room /\ s \in roles \cap X11Surfaces
    /\ roles' = roles \ {s}
    /\ IF s \in live /\ s \in DOMAIN windowOf THEN RemoveMetaWindow(windowOf[s])
       ELSE UNCHANGED <<registry, toShell>>
    /\ UNCHANGED <<live, used, toEmbedder, shell>>

(* A popup belongs to the window at the root of its chain of parents.      *)
RootOf(s) == IF s \in DOMAIN windowOf THEN windowOf[s]
             ELSE popups[popupOf[s]].parent

NewPopup(s, parent) ==
    /\ Room /\ s \in (live \cap PopupSurfaces) \ roles
    /\ parent \in (DOMAIN windowOf \cap Toplevels) \cup DOMAIN popupOf
    /\ roles' = roles \cup {s}
    /\ CreateMetaPopup(s, RootOf(parent))
    /\ UNCHANGED <<live, windows, windowOf, gaming, toEmbedder, shell>>

PopupDestroyed(s) ==
    /\ Room /\ s \in roles \cap PopupSurfaces
    /\ roles' = roles \ {s}
    /\ IF s \in DOMAIN popupOf THEN RemoveMetaPopup(popupOf[s])
       ELSE UNCHANGED <<registry, toShell>>
    /\ UNCHANGED <<live, used, toEmbedder, shell>>

(* The surface ends, with its role's object or before it: a crashed client *)
(* tears down in any order.                                                *)
SurfaceDestroyed(s) ==
    /\ Room /\ s \in live
    /\ live' = live \ {s}
    /\ IF s \in DOMAIN windowOf THEN RemoveMetaWindow(windowOf[s])
       ELSE IF s \in DOMAIN popupOf THEN RemoveMetaPopup(popupOf[s])
       ELSE UNCHANGED <<registry, toShell>>
    /\ UNCHANGED <<roles, used, toEmbedder, shell>>

(* The shell's patch: window w takes the input, if it still is there.      *)
ActivateGame ==
    /\ toEmbedder # <<>> /\ toEmbedder' = Tail(toEmbedder)
    /\ LET w == Head(toEmbedder)
       IN IF w \in DOMAIN windows /\ ~ windows[w].game
          THEN /\ windows' = [windows EXCEPT ![w].game = TRUE]
               /\ gaming' = w
          ELSE UNCHANGED <<windows, gaming>>
    /\ UNCHANGED <<client, windowOf, popups, popupOf, used, toShell, shell>>

(* Ctrl+Esc.                                                               *)
LeaveGame ==
    /\ Room /\ gaming # None
    /\ windows' = [windows EXCEPT ![gaming].game = FALSE]
    /\ gaming' = None
    /\ Tell(<<Event("game", gaming, FALSE, None)>>)
    /\ UNCHANGED <<client, windowOf, popups, popupOf, used, toEmbedder, shell>>

(***************************************************************************)
(* The shell.                                                              *)
(***************************************************************************)
embedder == <<client, registry, used>>
Next1(kind) == toShell # <<>> /\ Head(toShell).kind = kind
               /\ toShell' = Tail(toShell)

(* The creation awaits the desktop entry of the window's application.      *)
OnNewMetaWindow ==
    /\ Next1("created")
    /\ LET e == Head(toShell) IN arriving' = With(arriving, e.id, e.flag)
    /\ UNCHANGED <<embedder, toEmbedder, known, gone, mirror, shown, route, missed>>

(* Mutant: a window that has left meanwhile comes back.                    *)
CreatedAnyway(w) ==
    /\ w \in DOMAIN arriving
    /\ arriving' = Without(arriving, {w})
    /\ known' = known \cup {w}
    /\ mirror' = With(mirror, w, [mapped |-> arriving[w], game |-> FALSE])
    /\ UNCHANGED <<embedder, toShell, toEmbedder, gone, shown, route, missed>>

(* The entry was found: the window is known, unless it has left meanwhile. *)
Created(w) ==
    /\ w \in DOMAIN arriving
    /\ arriving' = Without(arriving, {w})
    /\ gone' = gone \ {w}
    /\ IF w \in gone THEN UNCHANGED <<known, mirror>>
       ELSE /\ known' = known \cup {w}
            /\ mirror' = With(mirror, w, [mapped |-> arriving[w], game |-> FALSE])
    /\ UNCHANGED <<embedder, toShell, toEmbedder, shown, route, missed>>

(* A patch of a window not known yet is dropped.                           *)
OnMapped ==
    /\ Next1("mapped")
    /\ LET e == Head(toShell)
       IN IF e.id \in known
          THEN /\ mirror' = [mirror EXCEPT ![e.id].mapped = e.flag]
               /\ UNCHANGED missed
          ELSE missed' = missed \cup {e.id} /\ UNCHANGED mirror
    /\ UNCHANGED <<embedder, toEmbedder, known, arriving, gone, shown, route>>

(* The embedder ended the takeover: the route that zoomed it in is popped. *)
OnGameLeft ==
    /\ Next1("game")
    /\ LET w == Head(toShell).id
       IN IF w \in known
          THEN /\ mirror' = [mirror EXCEPT ![w].game = FALSE]
               /\ route' = IF route.of = w /\ mirror[w].game THEN NoRoute
                           ELSE route
               /\ UNCHANGED missed
          ELSE missed' = missed \cup {w} /\ UNCHANGED <<mirror, route>>
    /\ UNCHANGED <<embedder, toEmbedder, known, arriving, gone, shown>>

(* A removal that overtakes the creation is left to its completion.        *)
OnMetaWindowRemoved ==
    /\ Next1("removed")
    /\ LET w == Head(toShell).id
       IN /\ known' = known \ {w}
          /\ gone' = IF w \in DOMAIN arriving THEN gone \cup {w} ELSE gone
          /\ mirror' = Without(mirror, {w})
    /\ UNCHANGED <<embedder, toEmbedder, arriving, shown, route, missed>>

OnNewMetaPopup ==
    /\ Next1("popup")
    /\ LET e == Head(toShell) IN shown' = With(shown, e.id, e.parent)
    /\ UNCHANGED <<embedder, toEmbedder, known, arriving, gone, mirror, route, missed>>

OnMetaPopupRemoved ==
    /\ Next1("popupRemoved")
    /\ shown' = Without(shown, {Head(toShell).id})
    /\ UNCHANGED <<embedder, toEmbedder, known, arriving, gone, mirror, route, missed>>

(* The user resumes a game: its surface zooms in on a route of its own.    *)
ZoomToGamingMode(w) ==
    /\ route = NoRoute /\ w \in known /\ mirror[w].mapped
    /\ route' = [of |-> w, zooming |-> TRUE]
    /\ UNCHANGED <<embedder, toShell, toEmbedder, known, arriving, gone, mirror,
                   shown, missed>>

(* The transition is over: the window is to have the input, and nothing is *)
(* said of a window destroyed meanwhile.                                   *)
Zoomed ==
    /\ route.zooming
    /\ route' = [route EXCEPT !.zooming = FALSE]
    /\ IF route.of \in known
       THEN /\ mirror' = [mirror EXCEPT ![route.of].game = TRUE]
            /\ toEmbedder' = Append(toEmbedder, route.of)
       ELSE UNCHANGED <<mirror, toEmbedder>>
    /\ UNCHANGED <<embedder, toShell, known, arriving, gone, shown, missed>>

Client ==
    \E s \in Surfaces :
        \/ NewToplevel(s) \/ SurfaceAssociated(s) \/ Commit(s)
        \/ ToplevelDestroyed(s) \/ UnmappedWindow(s)
        \/ \E p \in Surfaces : NewPopup(s, p)
        \/ PopupDestroyed(s) \/ SurfaceDestroyed(s)

Shell ==
    \/ OnNewMetaWindow \/ OnMapped \/ OnGameLeft \/ OnMetaWindowRemoved
    \/ OnNewMetaPopup \/ OnMetaPopupRemoved
    \/ \E w \in Ids : Created(w) \/ ZoomToGamingMode(w)
    \/ Zoomed

Next == Client \/ ActivateGame \/ LeaveGame \/ Shell
Spec == Init /\ [][Next]_vars

(***************************************************************************)
(* What must hold.                                                         *)
(***************************************************************************)
(* The registry and its reverse maps never part, in whatever order a role, *)
(* its surface and its parent end: an id found by a surface is a window or *)
(* popup of that surface, nothing is registered twice, and no popup is     *)
(* left over a window that is gone; and the flag on a window and           *)
(* meta_window_in_gaming_mode name the same window (meta_window.rs:412,    *)
(* mod.rs:507).                                                            *)
RegistryAgrees ==
    /\ \A s \in DOMAIN windowOf :
          windowOf[s] \in DOMAIN windows /\ windows[windowOf[s]].surface = s
    /\ \A s \in DOMAIN popupOf :
          popupOf[s] \in DOMAIN popups /\ popups[popupOf[s]].surface = s
    /\ \A w \in DOMAIN windows :
          /\ windows[w].game <=> gaming = w
          /\ windows[w].surface \in live
          /\ windows[w].surface \in DOMAIN windowOf
          /\ windowOf[windows[w].surface] = w
    /\ \A p \in DOMAIN popups :
          /\ popups[p].parent \in DOMAIN windows
          /\ popups[p].surface \in DOMAIN popupOf
          /\ popupOf[popups[p].surface] = p
    /\ gaming # None => gaming \in DOMAIN windows

(* The end of a window is told once, of a window the shell has or has      *)
(* heard of, and after that of its popups: no popup is shown over a window *)
(* that is gone (meta_window.rs:417, 455).                                 *)
TeardownTold ==
    /\ \A i \in DOMAIN toShell : toShell[i].kind = "removed" =>
         LET w == toShell[i].id
         IN /\ w \notin DOMAIN windows
            /\ \/ w \in known \cup (DOMAIN arriving \ gone)
               \/ \E j \in 1 .. i - 1 :
                     toShell[j].kind = "created" /\ toShell[j].id = w
            /\ \A j \in DOMAIN toShell :
                  toShell[j].kind = "removed" /\ toShell[j].id = w => j = i
    /\ \A p \in DOMAIN shown : shown[p] \in known \cup (DOMAIN arriving \ gone)

(* The books on either side of the channel stay whole through any teardown:*)
(* no reverse entry, popup or takeover outlives its window, no end is told *)
(* twice.                                                                  *)
TeardownWhole == RegistryAgrees /\ TeardownTold

Quiet == toShell = <<>> /\ toEmbedder = <<>> /\ DOMAIN arriving = {}
         /\ ~ route.zooming

(* Once every message was read and every lookup has ended, the shell has   *)
(* the windows and popups the embedder has, and what it believes of them   *)
(* is so, but for a window a patch of which came during its lookup: no     *)
(* removed window comes back, and no takeover lasts on one side only       *)
(* (meta_window_manager.dart:94).                                          *)
ShellConverges ==
    Quiet => /\ known = DOMAIN windows
             /\ DOMAIN shown = DOMAIN popups
             /\ gone = {}
             /\ \A w \in known \ missed :
                   /\ mirror[w].mapped = windows[w].mapped
                   /\ mirror[w].game = windows[w].game

=============================================================================
