------------------------------ MODULE Capture ------------------------------
(***************************************************************************)
(* The screenshot selection of src/embedder/capture/mod.rs: Print freezes  *)
(* one output, the pointer drags a rectangle over the frozen picture, and  *)
(* its release hands the pixels to a thread that writes the file and tells *)
(* the loop to publish it on the clipboard. Whatever changes the outputs   *)
(* or locks the session ends the selection.                                *)
(*                                                                         *)
(* A picture is the layout it was taken of; of the rectangle only counts   *)
(* whether it is empty. Where the pointer is, the model does not tell.     *)
(***************************************************************************)
EXTENDS Naturals, Sequences

CONSTANTS
    Outputs,
    MaxLayouts, \* changes of the layout (bound)
    MaxShots,   \* screenshots handed to a thread (bound)
    None        \* no selection under way, no recording

ASSUME CaptureBounds == {MaxLayouts, MaxShots} \subseteq Nat

VARIABLES
    layout,    \* what each output shows: a geometry and scale; 0, unplugged
    changes,   \* of the layout: output_layout_revision
    session,   \* CaptureState::session
    shots,     \* how far each screenshot handed to a thread has come
    delivered, \* the channel on which the threads report
    clipboard  \* the screenshot last published, 0 when none was

desktopVars == <<layout, changes>>
shotVars    == <<shots, delivered, clipboard>>
captureVars == <<desktopVars, session, shotVars>>

----------------------------------------------------------------------------

Layouts   == 1 .. MaxLayouts + 1
Connected == {o \in Outputs : layout[o] # 0}
Shots     == 1 .. MaxShots

\* selected: the drag has begun, and spans an area.
Sessions == [output : Outputs, seen : Layouts, selected : BOOLEAN, record : BOOLEAN]

CaptureInit ==
    /\ layout = [o \in Outputs |-> 1] /\ changes = 0
    /\ session = None
    /\ shots = [s \in Shots |-> "untaken"] /\ delivered = <<>>
    /\ clipboard = 0

----------------------------------------------------------------------------
(* Beginning and ending a selection *)

\* begin_capture_session, out of the hotkey: which output the pointer is on, a place
\* does not tell. A snapshot that cannot be taken begins nothing.
BeginCapture(o, record) ==
    /\ session = None
    /\ o \in Connected
    /\ session' = [output |-> o, seen |-> layout[o], selected |-> FALSE,
                   record |-> record]
    /\ UNCHANGED <<desktopVars, shotVars>>

\* Escape, the press or the release of another button than the left one, the lock
CancelCapture ==
    /\ session # None
    /\ session' = None
    /\ UNCHANGED <<desktopVars, shotVars>>

Relayout(o, gone) ==
    /\ changes < MaxLayouts
    /\ changes' = changes + 1
    /\ layout' = [layout EXCEPT ![o] = IF gone THEN 0 ELSE changes' + 1]
    /\ UNCHANGED shotVars

\* Mutant: a change of the layout leaves the selection to its user.
LayoutChangesUnderneath(o, gone) ==
    /\ Relayout(o, gone)
    /\ UNCHANGED session

\* output_layout_changed: an output is plugged, unplugged, moved or scaled, and the
\* frozen picture no longer describes it.
LayoutChanges(o, gone) ==
    /\ Relayout(o, gone)
    /\ session' = None

----------------------------------------------------------------------------
(* The drag: the events of the pointer reach nothing but the selection *)

\* capture_pointer_press with the left button, which begins the drag or begins it anew,
\* and capture_pointer_motion_delta and _to
Drag(selected) ==
    /\ session # None
    /\ session' = [session EXCEPT !.selected = selected]
    /\ UNCHANGED <<desktopVars, shotVars>>

\* The left button is released on an empty selection, or on pixels that cannot be
\* composed or have no directory to go to.
ReleaseCapture ==
    /\ session # None
    /\ session' = None
    /\ UNCHANGED <<desktopVars, shotVars>>

\* finish_capture of a screenshot: deliver_screenshot spawns the thread.
ReleaseScreenshot(s) ==
    /\ session # None /\ session.selected /\ ~session.record
    /\ shots[s] = "untaken"
    /\ \A earlier \in 1 .. s - 1 : shots[earlier] # "untaken"
    /\ session' = None
    /\ shots' = [shots EXCEPT ![s] = "encoding"]
    /\ UNCHANGED <<desktopVars, delivered, clipboard>>

----------------------------------------------------------------------------
(* The threads that write, the clipboard *)

\* encode_and_write_png, and the report of its outcome
EncodeScreenshot(s, ok) ==
    /\ shots[s] = "encoding"
    /\ shots' = [shots EXCEPT ![s] = IF ok THEN "written" ELSE "failed"]
    /\ delivered' = Append(delivered, s)
    /\ UNCHANGED <<desktopVars, session, clipboard>>

\* complete_screenshot_delivery: published on X11 and on Wayland, in the order in which
\* the threads have come to an end.
CompleteScreenshot ==
    /\ delivered # <<>>
    /\ delivered' = Tail(delivered)
    /\ clipboard' = IF shots[Head(delivered)] = "written" THEN Head(delivered)
                    ELSE clipboard
    /\ UNCHANGED <<desktopVars, session, shots>>
=============================================================================
