------------------------------ MODULE Placement ------------------------------
(***************************************************************************)
(* Where one window of a floating tile is: the model the shell draws from, *)
(* the native X11 window, the pointer basis and an open popup, while the   *)
(* user drags or resizes it, the client configures or commits, the X       *)
(* server's ConfigureNotify events come back late and the shell publishes  *)
(* viewport, tile origin and rendered origin one patch at a time           *)
(* (meta_window_state/{meta_window,meta_popup,floating_move,mod}.rs,       *)
(* wayland/{xwayland,xdg}.rs, input_handling.rs).                          *)
(*                                                                         *)
(* One axis is kept, in whole logical pixels; the window is mapped, on one *)
(* output and without client-side margins.  Tiled stands for the maximized *)
(* and fullscreen display modes.  The code is one thread: a step is one    *)
(* event, with every patch it makes.                                       *)
(***************************************************************************)
EXTENDS Integers, Sequences

CONSTANTS
    Backends,     \* the backends explored: a subset of {"x11", "wayland"}
    Views,        \* the floating viewports the shell measures: [loc, len]
    Sizes,        \* the sizes clients and shell ask for
    Points,       \* where the pointer goes and clients place themselves
    Anchors,      \* where a popup asks to be, relative to its parent
    PopupSize,
    Edges,        \* the edges resized by: a subset of {"left", "right"}
    Root,         \* the synthetic root of a tiled X11 window
    MaxNotices,   \* bound: ConfigureNotify events on their way
    MaxSize,      \* bound: how far a resize enlarges a window
    Layout,       \* bound: the stretch of the axis explored
    Nowhere       \* an origin not known yet

ASSUME PlacementAssumption ==
    /\ Backends \subseteq {"x11", "wayland"}
    /\ Edges \subseteq {"left", "right"}
    /\ Views \subseteq [loc : Int, len : Nat]
    /\ Sizes \subseteq Nat \ {0} /\ Points \subseteq Int /\ Anchors \subseteq Int
    /\ PopupSize \in Nat \ {0} /\ Root \in Int /\ MaxNotices \in Nat \ {0}
    /\ MaxSize \in Nat /\ Layout \subseteq Int /\ Nowhere \notin Int

NoView  == [loc |-> Nowhere, len |-> 0]
NoPopup == [open |-> FALSE, anchor |-> 0, rel |-> 0, at |-> 0]
NoMove   == [on |-> FALSE, grab |-> 0]
NoResize == [edge |-> "none", grab |-> 0, from |-> [loc |-> 0, size |-> 0]]

VARIABLES
    backend,      \* the kind of client
    win,          \* the MetaWindow, its native window, popup and the two gestures
    pointer

vars == <<backend, win, pointer>>

Places == Int \cup {Nowhere}
Rects  == [loc : Int, size : Nat]
\* State::floating_move and State::floating_resize; neither ends the other.
Moves   == [on : BOOLEAN, grab : Int]
Resizes == [edge : {"none"} \cup Edges, grab : Int, from : Rects]
Popups  == [open : BOOLEAN, anchor : Int, rel : Int, at : Int]

(* rendered and tile are render_origin and tile_origin; native the rectangle *)
(* last given to the X server, notices its events on their way; basis the    *)
(* pointer focus's origin, Nowhere while another surface has it, and kept    *)
(* for X11 alone, whose clients move themselves by where the pointer is on   *)
(* the root window.                                                          *)
Wins == [mode : {"None", "Floating", "Tiled"}, maximized : BOOLEAN, explicit : BOOLEAN,
         position : Places, size : Nat, view : Views \cup {NoView},
         rendered : Places, tile : Places, basis : Places,
         native : Rects, notices : Seq(Rects), overruled : BOOLEAN,
         move : Moves, resize : Resizes, popup : Popups]

TypeOK == backend \in Backends /\ win \in Wins /\ pointer \in Points

----------------------------------------------------------------------------
(* The coordinate gateway                                                   *)

Greater(a, b) == IF a > b THEN a ELSE b
Within(lo, hi, p) == IF p < lo THEN lo ELSE IF p > Greater(lo, hi) THEN Greater(lo, hi) ELSE p
\* f64::round of half an integer: ties go away from zero.
RoundHalf(twice) == IF twice >= 0 THEN (twice + 1) \div 2 ELSE -((1 - twice) \div 2)

ClampPosition(v, size, p) == Within(v.loc, v.loc + v.len - size, p)
ClampPositionForMove(v, size, p) ==
    RoundHalf(Within(2 * v.loc - size, 2 * (v.loc + v.len) - size, 2 * p))
CenteredPlacement(v, size) == RoundHalf(2 * v.loc + v.len - size)

ResizeRect(edge, from, delta) ==
    LET left == edge = "left"
        size == IF left THEN from.size - delta ELSE from.size + delta
    IN  IF size < 1
        THEN [loc |-> IF left THEN from.loc + from.size - 1 ELSE from.loc, size |-> 1]
        ELSE [loc |-> IF left THEN from.loc + delta ELSE from.loc, size |-> size]

IsFloating(w) == w.mode = "Floating" \/ (w.mode = "None" /\ w.view # NoView)
Movable(w)    == IsFloating(w) /\ ~w.maximized
Resizing(w)   == w.resize.edge # "none"
Dragged(w)    == w.move.on \/ Resizing(w)
FloatingSize(w) == IF backend = "x11" THEN w.native.size ELSE w.size

TileContentOrigin(w) ==
    IF w.tile # Nowhere THEN w.tile
    ELSE IF IsFloating(w)
    THEN IF w.view # NoView THEN w.view.loc ELSE w.position
    ELSE IF w.rendered # Nowhere THEN w.rendered ELSE w.position

BoxOrigin(w) ==
    LET first  == IF IsFloating(w) THEN w.position ELSE w.rendered
        second == IF IsFloating(w) THEN w.rendered ELSE w.position
    IN  IF first # Nowhere THEN first ELSE second

\* Where a popup at rel in its parent's box is in the tile; without an origin
\* to start from, rel itself.
PopupTilePosition(w, rel) ==
    IF Nowhere \in {BoxOrigin(w), TileContentOrigin(w)} THEN rel
    ELSE BoxOrigin(w) - TileContentOrigin(w) + rel

----------------------------------------------------------------------------
(* Popups                                                                   *)

\* What the client's positioner, which may slide, gives in a window of size
\* (smithay's get_unconstrained_geometry).
Unconstrained(anchor, size) == Within(0, size - PopupSize, anchor)

TranslatePopup(w, d) ==
    IF w.popup.open THEN [w EXCEPT !.popup.at = @ + d] ELSE w

MovePopup(w, at) == [w EXCEPT !.popup.at = at]

\* The tile clips what is outside it: pull the popup in.
ClampPopupToTile(w) ==
    LET bound == IF w.view # NoView THEN w.view.len ELSE w.size
        at == Within(0, bound - PopupSize, w.popup.at)
    IN  [w EXCEPT !.popup.at = at]

Renormalize(w) ==
    IF /\ w.popup.open /\ Nowhere \notin {BoxOrigin(w), TileContentOrigin(w)}
       /\ PopupTilePosition(w, w.popup.rel) # w.popup.at
    THEN MovePopup(w, PopupTilePosition(w, w.popup.rel)) ELSE w

Reconstrain(w) ==
    LET rel == Unconstrained(w.popup.anchor, w.size)
        at  == PopupTilePosition(w, rel)
    IN  IF ~w.popup.open THEN w
        ELSE IF at = w.popup.at THEN [w EXCEPT !.popup.rel = rel]
        ELSE ClampPopupToTile(MovePopup([w EXCEPT !.popup.rel = rel], at))

----------------------------------------------------------------------------
(* The patches of the model                                                 *)

\* The X server tells of a change when it has made it.
Configure(w, rect) ==
    IF backend # "x11" THEN w
    ELSE [w EXCEPT !.native = rect,
                   !.notices = IF rect = w.native THEN @
                               ELSE Append(@, rect)]

\* During a resize the client lags behind: its position and size are ignored.
\* overruled: so was where something else has put the native window.
UpdatePosition(w, p) ==
    IF Resizing(w) THEN [w EXCEPT !.overruled = backend = "x11" /\ p # w.position]
    ELSE [w EXCEPT !.position = p, !.overruled = FALSE]

UpdateFloatingPointerBasis(w, p) ==
    IF IsFloating(w) /\ w.basis # Nowhere THEN [w EXCEPT !.basis = p] ELSE w

\* The pointer's focus is given to the window, at p.
Focused(w, p) == IF backend = "x11" THEN [w EXCEPT !.basis = p] ELSE w

(* Mutant: only the model is moved, not the native window. *)
ApplyModelOnly(w, p, byMove, follow) ==
    UpdatePosition(UpdateFloatingPointerBasis(w, p), p)

(* Mutant: the basis is left for the drag to move. *)
ApplyBasisLeft(w, p, byMove, follow) ==
    UpdatePosition(Configure(IF byMove THEN Focused([w EXCEPT !.explicit = TRUE], p) ELSE w,
                             [w.native EXCEPT !.loc = p]), p)

\* byMove: a drag of the compositor's, which takes the pointer focus and makes
\* the placement explicit.  follow: the Wayland popups go along.
ApplyFloatingPosition(w, p, byMove, follow) ==
    LET focused  == IF byMove THEN Focused([w EXCEPT !.explicit = TRUE], p) ELSE w
        placed   == UpdatePosition(UpdateFloatingPointerBasis(
                        Configure(focused, [w.native EXCEPT !.loc = p]), p), p)
    IN  IF follow /\ w.position # Nowhere /\ backend = "wayland"
        THEN TranslatePopup(placed, p - w.position) ELSE placed

(* Mutant: a window centred again leaves its popups behind. *)
CenterAlone(w) ==
    LET p == ClampPosition(w.view, FloatingSize(w), CenteredPlacement(w.view, FloatingSize(w)))
    IN  IF ~Movable(w) \/ w.explicit \/ w.view = NoView \/ FloatingSize(w) = 0 \/ p = w.position
        THEN w ELSE ApplyFloatingPosition(w, p, FALSE, FALSE)

CenterFloatingWindow(w) ==
    LET p == ClampPosition(w.view, FloatingSize(w), CenteredPlacement(w.view, FloatingSize(w)))
    IN  IF ~Movable(w) \/ w.explicit \/ w.view = NoView \/ FloatingSize(w) = 0 \/ p = w.position
        THEN w ELSE ApplyFloatingPosition(w, p, FALSE, TRUE)

ClampFloatingWindow(w) ==
    LET p == ClampPosition(w.view, FloatingSize(w), w.position)
    IN  IF \/ ~Movable(w) \/ w.position = Nowhere \/ w.view.len = 0 \/ FloatingSize(w) = 0
           \/ p = w.position
        THEN w ELSE ApplyFloatingPosition(w, p, FALSE, TRUE)

TranslateFloatingWindow(w, d) ==
    IF d = 0 \/ ~Movable(w) \/ w.position = Nowhere THEN w
    ELSE ApplyFloatingPosition(w, w.position + d, FALSE, FALSE)

UpdateClientMaximized(w, value) ==
    IF w.maximized = value THEN w
    ELSE IF value \/ ~IsFloating(w) THEN [w EXCEPT !.maximized = value]
    ELSE ClampFloatingWindow(CenterFloatingWindow([w EXCEPT !.maximized = value]))

\* propagate: a change of the client's, told to the shell.  Otherwise the
\* shell asks, and the client or the X window is configured.
UpdateGeometry(w, size, propagate) ==
    LET asked == [w EXCEPT !.size = size]
        loc   == IF ~IsFloating(w) THEN Root
                 ELSE IF w.position # Nowhere THEN w.position ELSE w.native.loc
        told  == IF propagate THEN asked ELSE Configure(asked, [loc |-> loc, size |-> size])
        fit   == Reconstrain(told)
    IN  IF Resizing(w) \/ w.size = size THEN w
        ELSE IF fit.view # NoView THEN CenterFloatingWindow(fit) ELSE fit

SetWindowRect(w, rect) ==
    LET d == IF w.position # Nowhere /\ backend = "wayland" THEN rect.loc - w.position ELSE 0
        placed == [w EXCEPT !.explicit = TRUE, !.position = rect.loc, !.size = rect.size,
                            !.overruled = FALSE]
        moved  == Configure(TranslatePopup(placed, d), rect)
    IN  IF ~IsFloating(w) THEN w
        ELSE IF w.size # rect.size THEN Reconstrain(moved) ELSE moved

----------------------------------------------------------------------------
(* The shell                                                                *)

Init ==
    /\ backend \in Backends /\ pointer \in Points
    /\ \E s \in Sizes :
         win = [mode |-> "None", maximized |-> FALSE, explicit |-> FALSE,
                position |-> IF backend = "x11" THEN Root ELSE Nowhere,
                size |-> IF backend = "x11" THEN s ELSE 0, view |-> NoView,
                rendered |-> Nowhere, tile |-> Nowhere, basis |-> Nowhere,
                native |-> [loc |-> Root, size |-> IF backend = "x11" THEN s ELSE 0], notices |-> <<>>,
                move |-> NoMove, resize |-> NoResize, popup |-> NoPopup, overruled |-> FALSE]

Room == Len(win.notices) < MaxNotices

InLayout(w) == w.position \in Layout \cup {Nowhere} /\ {w.popup.at, w.native.loc} \subseteq Layout
Becomes(w) == InLayout(w) /\ win' = w /\ UNCHANGED <<backend, pointer>>

UpdateDisplayMode(mode) ==
    LET w == [win EXCEPT !.mode = mode]
    IN  /\ Room
        /\ Becomes(IF mode = "Floating" /\ win.maximized THEN UpdateClientMaximized(w, FALSE) ELSE w)

UpdateViewport(v) ==
    LET w == [win EXCEPT !.view = v]
        d == IF win.view = NoView THEN 0 ELSE v.loc - win.view.loc
        t == TranslateFloatingWindow(w, d)
    IN  /\ Room
        /\ Becomes(IF ~Movable(w) THEN t
                   ELSE IF w.explicit THEN ClampFloatingWindow(t) ELSE CenterFloatingWindow(t))

\* Any change of where the window is drawn; only that of a tiled one is read.
UpdateRenderOrigin(o) ==
    o # win.rendered /\ Becomes(Renormalize([win EXCEPT !.rendered = o]))

\* A popup opened before the tile was first measured is rebased once.
UpdateTileOrigin(o) ==
    LET w == [win EXCEPT !.tile = o]
        previous == TileContentOrigin(win)
        rebased == IF win.tile = Nowhere /\ previous # Nowhere THEN TranslatePopup(w, previous - o) ELSE w
    IN  o # win.tile /\ Becomes(Renormalize(rebased))

ShellSizesTile(s) == ~IsFloating(win) /\ Room /\ Becomes(UpdateGeometry(win, s, FALSE))
ShellSetsRect(v, s) ==
    IsFloating(win) /\ Room /\ Becomes(SetWindowRect(win, [loc |-> v.loc, size |-> s]))

\* Flutter says the pointer is over the window, which it draws at o.
PointerEnters(o) ==
    Becomes([win EXCEPT !.basis = IF IsFloating(win) /\ win.position # Nowhere THEN win.position ELSE o])
PointerLeaves == Becomes([win EXCEPT !.basis = Nowhere])

----------------------------------------------------------------------------
(* The drags: asked for by the shell's title bar or edge, or by the client, *)
(* which may ask for both.  Bound: the second while the window is still     *)
(* where the first has it.                                                  *)

StartFloatingMove ==
    /\ Movable(win) /\ win.position # Nowhere
    /\ Resizing(win) => win.resize.grab = pointer /\ win.resize.from.loc = win.position
    /\ Becomes([win EXCEPT !.move = [on |-> TRUE, grab |-> pointer - win.position]])

StartFloatingResize(edge) ==
    /\ Movable(win) /\ win.position # Nowhere /\ win.size # 0
    /\ win.move.on => win.move.grab = pointer - win.position
    /\ Becomes([win EXCEPT !.resize =
           [edge |-> edge, grab |-> pointer,
            from |-> [loc |-> win.position, size |-> FloatingSize(win)]]])

EndMove(w)   == [w EXCEPT !.move = NoMove]
EndResize(w) == [w EXCEPT !.resize = NoResize]

UpdateFloatingMove(w, to) ==
    LET p == to - w.move.grab
        clamped == IF w.view.len = 0 \/ FloatingSize(w) = 0 THEN p
                   ELSE ClampPositionForMove(w.view, FloatingSize(w), p)
    IN  IF IsFloating(w) THEN ApplyFloatingPosition(w, clamped, TRUE, TRUE) ELSE EndMove(w)

UpdateFloatingResize(w, to) ==
    IF IsFloating(w)
    THEN SetWindowRect(w, ResizeRect(w.resize.edge, w.resize.from, to - w.resize.grab))
    ELSE EndResize(w)

Motion(to) ==
    /\ to # pointer /\ Room
    /\ pointer' = to
    /\ win' = CASE ~Dragged(win) -> win
                [] win.move.on   -> UpdateFloatingMove(win, to)
                [] OTHER         -> UpdateFloatingResize(win, to)
    /\ InLayout(win') /\ win'.size <= MaxSize
    /\ UNCHANGED backend

\* The last button is released: while the drag goes on, or, where it was asked
\* for too late or a selection swallowed the release, after another click.  The
\* session lock ends both drags as well.
Release == Dragged(win) /\ Becomes(EndMove(EndResize(win)))

----------------------------------------------------------------------------
(* The client and the X server                                              *)

ConfigureRequest(xs, sizes) ==
    LET can  == IsFloating(win)
        size == IF sizes = {} THEN win.native.size ELSE CHOOSE s \in sizes : TRUE
        want == IF xs = {} THEN win.native.loc ELSE CHOOSE x \in xs : TRUE
        loc  == IF ~can THEN Root
                ELSE IF win.view.len > 0 THEN ClampPosition(win.view, size, want) ELSE want
        w    == Configure([win EXCEPT !.explicit = @ \/ (can /\ xs # {})],
                          [loc |-> loc, size |-> size])
    IN  /\ backend = "x11" /\ Room
        /\ Becomes(IF can THEN UpdateFloatingPointerBasis(UpdatePosition(w, loc), loc) ELSE w)

\* A ConfigureNotify is read; a floating window out of its tile is corrected,
\* unless a drag is going on.
ConfigureNotify ==
    LET seen == Head(win.notices)
        w    == [win EXCEPT !.notices = Tail(@)]
        inside == ClampPosition(win.view, seen.size, seen.loc)
        wrong == /\ Movable(win) /\ ~Dragged(win)
                 /\ win.view.len > 0 /\ inside # seen.loc
        loc  == IF wrong THEN inside ELSE seen.loc
        kept == IF wrong THEN Configure(w, [win.native EXCEPT !.loc = inside]) ELSE w
    IN  /\ backend = "x11" /\ win.notices # <<>>
        /\ Becomes(UpdateGeometry(UpdateFloatingPointerBasis(UpdatePosition(kept, loc), loc),
                                win.native.size, TRUE))

\* A Wayland client commits a buffer, in the size it was asked for or not.
ToplevelCommit(s) ==
    backend = "wayland" /\ s # win.size /\ Becomes(UpdateGeometry(win, s, TRUE))

\* A buffer of an X11 client beyond the geometry kept is the window's size
\* until the ConfigureNotify comes: X11 has no configure to acknowledge.
X11Commit(s) ==
    backend = "x11" /\ s > win.size /\ Room /\ Becomes(UpdateGeometry(win, s, TRUE))

\* It acknowledges a configure: maximized never while it floats.
AckConfigure(maximized) ==
    /\ backend = "wayland" /\ maximized # win.maximized
    /\ Becomes(UpdateClientMaximized(win, maximized /\ ~IsFloating(win)))

\* An X11 client asks to be maximized or not: while it floats, never.
MaximizeRequest == backend = "x11" /\ IsFloating(win) /\ Room /\ Becomes(UpdateClientMaximized(win, FALSE))

NewPopup(anchor) ==
    LET rel == Unconstrained(anchor, win.size)
    IN  /\ backend = "wayland" /\ ~win.popup.open /\ win.size # 0
        /\ Becomes([win EXCEPT !.popup = [open |-> TRUE, anchor |-> anchor, rel |-> rel, at |-> PopupTilePosition(win, rel)]])

RepositionRequest(anchor) ==
    LET rel == Unconstrained(anchor, win.size)
        w   == [win EXCEPT !.popup.anchor = anchor, !.popup.rel = rel]
    IN  /\ win.popup.open
        /\ Becomes(ClampPopupToTile(MovePopup(w, PopupTilePosition(win, rel))))

PopupCommit  == win.popup.open /\ Becomes(ClampPopupToTile(win))
PopupRemoved == win.popup.open /\ Becomes([win EXCEPT !.popup = NoPopup])

Shell ==
    \/ \E mode \in {"Floating", "Tiled"} \ {win.mode} : UpdateDisplayMode(mode)
    \/ \E v \in Views \ {win.view} : UpdateViewport(v)
    \/ /\ backend = "wayland"     \* only its popups read them
       /\ \E v \in Views : UpdateRenderOrigin(v.loc) \/ UpdateTileOrigin(v.loc)
    \/ \E s \in Sizes : ShellSizesTile(s) \/ \E v \in Views : ShellSetsRect(v, s)
    \/ backend = "x11" /\ (PointerLeaves \/ \E v \in Views : PointerEnters(v.loc))

User ==
    \/ \E to \in Points : Motion(to)
    \/ Release

Client ==
    \/ StartFloatingMove \/ \E edge \in Edges : StartFloatingResize(edge)
    \/ \E x \in Points : ConfigureRequest({x}, {})
    \/ \E s \in Sizes : ConfigureRequest({}, {s})
    \/ \E s \in Sizes : ToplevelCommit(s) \/ X11Commit(s)
    \/ \E b \in BOOLEAN : AckConfigure(b)
    \/ MaximizeRequest
    \/ \E a \in Anchors : NewPopup(a) \/ RepositionRequest(a)
    \/ PopupCommit \/ PopupRemoved

Next == Shell \/ User \/ Client \/ ConfigureNotify

Spec == Init /\ [][Next]_vars

----------------------------------------------------------------------------

(* The model and the native window of a floating X11 client agree once the  *)
(* X server's events have all been read: "keeping the native window and the *)
(* model in lockstep is what closes the pointer loop" (floating_move.rs).   *)
(* Only where a resize has overruled the client's or the shell's own        *)
(* placement, which the native window had already taken, may they differ.   *)
Lockstep ==
    (backend = "x11" /\ IsFloating(win) /\ win.notices = <<>> /\ ~win.overruled)
        => win.native.loc = win.position

(* Whatever moves a focused floating window but a resize or the shell's own *)
(* rectangle moves the pointer's basis with it, in the same step: a basis   *)
(* left behind would feed the client's own movement back into it            *)
(* (xwayland.rs, configure_request; floating_move.rs).                      *)
BasisFollows ==
    [][ (/\ IsFloating(win) /\ win'.position # win.position /\ ~Resizing(win)
         /\ Nowhere \notin {win.basis, win'.basis}
         /\ ~\E v \in Views, s \in Sizes : ShellSetsRect(v, s))
        => win'.basis = win'.position ]_vars

(* A floating Wayland window that moves inside its tile takes its popup     *)
(* along, by just as much: dragged, centred, clamped or placed by the       *)
(* shell.  A slide moves tile and window together, and leaves the popup,    *)
(* placed in the tile, alone (meta_popup.rs,                                *)
(* translate_wayland_popups_for_root; floating_move.rs,                     *)
(* translate_floating_window).                                              *)
PopupFollows ==
    [][ (/\ backend = "wayland" /\ win.popup.open /\ win'.popup.open
         /\ IsFloating(win) /\ IsFloating(win') /\ win.size = win'.size
         /\ Nowhere \notin {win.position, win'.position} /\ win'.position # win.position)
        => LET slide == IF win.view = NoView THEN 0 ELSE win'.view.loc - win.view.loc
           IN  win'.popup.at - win.popup.at = win'.position - win.position - slide ]_vars

(* What hangs on a window moves when it moves, in the same step: the basis  *)
(* of the pointer over it, and the popup it has open.                      *)
MovesTakeAlong == BasisFollows /\ PopupFollows

=============================================================================
