------------------------------- MODULE Frames -------------------------------
(***************************************************************************)
(* When the DRM backend composites, and when Flutter gets its vsync: the   *)
(* on-demand renders of a GPU's outputs, the page flips they queue, the    *)
(* batons the pacing output's vblank or a fallback timer delivers, and     *)
(* what a screen blank, a VT switch and a hotplug do to all of it          *)
(* (backend/drm_backend.rs, flutter_engine/{view,compositor}.rs).          *)
(*                                                                         *)
(* One GPU: acquire_primary_gpu adds no other.  Refresh rates are          *)
(* abstracted to which output is the fastest, any connected one whenever   *)
(* it is determined again; time to whether the frame interval of a         *)
(* software renderer has passed: the vsync timer, which waits for a        *)
(* refresh without a vblank, may be due whenever it runs.  Pixels are      *)
(* abstracted to whether an output shows what there is to show.  Rendering *)
(* and queueing succeed on an active device, and the engine adds a view    *)
(* before its output can leave.                                            *)
(***************************************************************************)
EXTENDS Naturals, FiniteSets

CONSTANTS Outputs,  \* connectors, each with its CRTC
          Watched,  \* the one the progress properties speak of, any
          NoOutput      \* pacing_crtc is None

ASSUME FramesAssumption == Watched \in Outputs /\ NoOutput \notin Outputs

VARIABLES
    session,      \* idle.session_active: the seat session is ours
    active,       \* drm_device.is_active()
    blank,        \* idle.is_blank()
    software,     \* GpuData.software_rendering
    connected,    \* GpuData.surfaces, and the outputs of the space
    pacing,       \* pacing_crtc, with one GPU also its highest_hz_crtc
    rendered,     \* the output's view is added and has a last_rendered
    framePending, \* SurfaceData.frame_pending
    flips,        \* Smithay's frames: 1 in flight, 2 with one queued behind
    late,         \* flips the kernel may still report after a clear
    lit,          \* the CRTC is enabled
    stale,        \* what there is to show is not in the last frame queued
    early,        \* last_composite is less than the frame interval ago
    throttled,    \* the node is in software_throttled_nodes
    asked,        \* an idle callback will render the node
    baton         \* batons holds one of Flutter's

seat == <<session, active, blank, software>>
outputs == <<connected, pacing, rendered>>
drawn == <<framePending, flips, lit, stale, early, throttled>>
vars == <<seat, outputs, drawn, late, asked, baton>>

TypeOK ==
    /\ {session, active, blank, software, throttled, asked, baton}
         \subseteq BOOLEAN
    /\ connected \subseteq Outputs /\ pacing \in connected \cup {NoOutput}
    /\ flips \in [Outputs -> 0 .. 2]
    /\ {rendered, framePending, late, lit, stale, early} \subseteq [Outputs -> BOOLEAN]

Some(S) == [o \in Outputs |-> o \in S]
Having(f) == {o \in Outputs : f[o]}

----------------------------------------------------------------------------
(* Rendering *)

\* The outputs render_surface does not leave alone, before the software cap.
Renderable(pending) ==
    IF ~ blank' /\ active' THEN {o \in connected' : ~ pending[o]} ELSE {}

\* What the software cap holds back.
Capped(R) == {o \in R : software /\ early[o]}

\* Mutant: a composite the cap skips is forgotten.
ThrottleForgotten(R) == throttled' = (throttled /\ R = {})

\* render_surface of each in an order that is the hash map's: a skipped
\* composite enters the node, one that is not removes it.
Throttle(R) ==
    throttled' \in
        IF ~ software \/ R = {} THEN {throttled}
        ELSE (IF Capped(R) # {} THEN {TRUE} ELSE {})
             \cup (IF R \ Capped(R) # {} THEN {FALSE} ELSE {})

\* render(node, None), on surfaces whose flips so far are f and whose pending
\* frames are p.  Before Flutter has rendered, an initial frame of one color
\* is queued, that no output waits for and that shows nothing of what there is
\* to show.  A frame without damage is not queued.
Render(p, f) ==
    LET R       == Renderable(p)
        D       == R \ Capped(R)
        initial == {o \in D : ~ rendered[o]}
        queued  == {o \in D \ initial : stale[o]}
        next    == initial \cup queued
    IN /\ Throttle(R)
       /\ framePending' = [o \in Outputs |-> p[o] \/ o \in queued]
       /\ flips' = [o \in Outputs |->
                       IF o \in next /\ f[o] < 2 THEN f[o] + 1 ELSE f[o]]
       /\ lit' = [o \in Outputs |-> lit[o] \/ o \in next]
       /\ stale' = [o \in Outputs |-> (stale[o] \/ o \in initial) /\ o \notin queued]
       /\ early' = [o \in Outputs |-> early[o] \/ (software /\ o \in queued)]

\* Mutant: the flag of a flip that is dropped stays.
ClearedKeepingPending ==
    /\ framePending' = framePending
    /\ flips' = [o \in Outputs |-> 0]
    /\ late' = [o \in Outputs |-> late[o] \/ flips[o] > 0]
    /\ lit' = [o \in Outputs |-> lit[o] /\ o \notin connected]
    /\ stale' = [o \in Outputs |-> o \in connected]
    /\ UNCHANGED <<early, throttled>>

\* compositor.clear() of every surface: its flips are dropped and its planes
\* disabled, and the next frame is drawn whole.
Cleared ==
    /\ framePending' = Some({})
    /\ flips' = [o \in Outputs |-> 0]
    /\ late' = [o \in Outputs |-> late[o] \/ flips[o] > 0]
    /\ lit' = [o \in Outputs |-> lit[o] /\ o \notin connected]
    /\ stale' = [o \in Outputs |-> o \in connected]
    /\ UNCHANGED <<early, throttled>>

\* deliver_vsync_tick: Flutter's baton and the clients' frame callbacks.
DeliverTick == baton' = (baton /\ pacing = NoOutput)

\* The idle callback idle_request_render inserts.
IdleRender ==
    /\ asked
    /\ asked' = FALSE
    /\ UNCHANGED <<seat, outputs, late, baton>>
    /\ Render(framePending, flips)

\* on_vblank, of a flip that completed or of one a clear dropped meanwhile.
Acknowledge(o) ==
    LET f == [flips EXCEPT ![o] = IF @ = 0 \/ o \notin connected THEN @ ELSE @ - 1]
        p == [framePending EXCEPT ![o] = @ /\ o \notin connected]
    IN /\ UNCHANGED <<seat, outputs, asked>>
       /\ IF pacing = o
          THEN /\ DeliverTick
               /\ Render(p, f)
          ELSE /\ framePending' = p
               /\ flips' = f
               /\ UNCHANGED <<lit, stale, early, throttled, baton>>

Vblank(o) == flips[o] > 0 /\ late' = late /\ Acknowledge(o)

LateVblank(o) == late[o] /\ late' = [late EXCEPT ![o] = FALSE] /\ Acknowledge(o)

----------------------------------------------------------------------------
(* What asks for a frame: clients, the pointer, Flutter *)

\* A commit, a cursor or a game surface damages an output: request_render.
Damage(o) ==
    /\ stale' = [stale EXCEPT ![o] = TRUE]
    /\ asked' = TRUE
    /\ UNCHANGED <<seat, outputs, framePending, flips, lit, early, throttled,
                   late, baton>>

\* Flutter presents a view's frame, which becomes its last_rendered.
Present(o) ==
    /\ o \in connected
    /\ rendered' = [rendered EXCEPT ![o] = TRUE]
    /\ stale' = [stale EXCEPT ![o] = TRUE]
    /\ asked' = TRUE
    /\ UNCHANGED <<seat, connected, pacing, framePending, flips, lit,
                   early, throttled, late, baton>>

\* vsync_callback, and the loop's push.
AwaitVsync ==
    /\ ~ baton
    /\ baton' = TRUE
    /\ UNCHANGED <<seat, outputs, drawn, late, asked>>

----------------------------------------------------------------------------
(* The timers *)

\* Mutant: the vblanks are taken to be enough.
TimerSilent ==
    /\ baton /\ pacing # NoOutput /\ ~ blank /\ active /\ flips[pacing] > 0
    /\ DeliverTick
    /\ UNCHANGED <<seat, outputs, drawn, late, asked>>

\* on_vsync_timer, when it is due.
VsyncTimer ==
    /\ baton /\ pacing # NoOutput /\ ~ blank /\ active
    /\ DeliverTick
    /\ UNCHANGED <<seat, outputs, drawn, late, asked>>

IntervalPasses(o) ==
    /\ early[o]
    /\ early' = [early EXCEPT ![o] = FALSE]
    /\ UNCHANGED <<seat, outputs, framePending, flips, lit, stale, throttled,
                   late, asked, baton>>

\* on_software_throttle_timer; the node drained may be throttled again.
ThrottleTimer ==
    /\ software /\ throttled
    /\ UNCHANGED <<seat, outputs, late, asked, baton>>
    /\ LET R == Renderable(framePending)
       IN IF R = {} THEN throttled' = FALSE
                         /\ UNCHANGED <<framePending, flips, lit, stale, early>>
          ELSE Render(framePending, flips)

----------------------------------------------------------------------------
(* The screensaver, and the seat session *)

\* blank_fired and idle_apply_blank.
Blank ==
    /\ session /\ ~ blank
    /\ blank' = TRUE
    /\ Cleared
    /\ UNCHANGED <<session, active, software, outputs, asked, baton>>

\* on_activity: idle_request_render.
Wake ==
    /\ session /\ blank
    /\ blank' = FALSE
    /\ asked' = TRUE
    /\ UNCHANGED <<session, active, software, outputs, drawn, late, baton>>

\* SessionEvent::PauseSession, and on_session_paused.
PauseSession ==
    /\ session
    /\ session' = FALSE /\ active' = FALSE /\ blank' = FALSE
    /\ Cleared
    /\ UNCHANGED <<software, outputs, asked, baton>>

\* Mutant: the switch back leaves it to the clients to ask for a frame.
ActivateAskingNothing(granted) ==
    /\ ~ session
    /\ session' = TRUE /\ blank' = FALSE
    /\ active' = granted
    /\ framePending' = IF granted THEN Some({}) ELSE framePending
    /\ UNCHANGED <<software, outputs, flips, lit, stale, early, throttled,
                   late, baton, asked>>

\* SessionEvent::ActivateSession; the device may not become master again.
ActivateSession(granted) ==
    /\ ~ session
    /\ session' = TRUE /\ blank' = FALSE
    /\ active' = granted
    /\ framePending' = IF granted THEN Some({}) ELSE framePending
    /\ asked' = (asked \/ granted)
    /\ UNCHANGED <<software, outputs, flips, lit, stale, early, throttled,
                   late, baton>>

----------------------------------------------------------------------------
(* Hotplug and modes *)

\* determine_highest_hz_crtc
Determined == pacing' \in IF connected' = {} THEN {NoOutput} ELSE connected'

\* connector_connected and schedule_initial_render.  The initial frame of a
\* device that is not active fails; its retry names the render node, of which
\* gpus knows nothing, and ends there.
Connect(o) ==
    /\ o \notin connected
    /\ connected' = connected \cup {o}
    /\ Determined
    /\ framePending' = [framePending EXCEPT ![o] = FALSE]
    /\ flips' = [flips EXCEPT ![o] = IF active THEN 1 ELSE 0]
    /\ lit' = [lit EXCEPT ![o] = active]
    /\ stale' = [stale EXCEPT ![o] = TRUE]
    /\ early' = [early EXCEPT ![o] = FALSE]
    /\ UNCHANGED <<seat, rendered, throttled, late, asked, baton>>

\* connector_disconnected
Disconnect(o) ==
    /\ o \in connected
    /\ connected' = connected \ {o}
    /\ rendered' = [rendered EXCEPT ![o] = FALSE]
    /\ Determined
    /\ framePending' = [framePending EXCEPT ![o] = FALSE]
    /\ flips' = [flips EXCEPT ![o] = 0]
    /\ late' = [late EXCEPT ![o] = @ \/ flips[o] > 0]
    /\ lit' = [lit EXCEPT ![o] = FALSE]
    /\ stale' = [stale EXCEPT ![o] = FALSE]
    /\ early' = [early EXCEPT ![o] = FALSE]
    /\ UNCHANGED <<seat, throttled, asked, baton>>

\* A mode of the settings: the fastest output may be another, and a software
\* view of another size drops its last frame.
SetMode(o) ==
    /\ o \in connected
    /\ UNCHANGED connected
    /\ Determined
    /\ \E resized \in BOOLEAN :
          rendered' = [rendered EXCEPT ![o] = @ /\ ~ (software /\ resized)]
    /\ UNCHANGED <<seat, drawn, late, asked, baton>>

----------------------------------------------------------------------------

\* The start of run_drm_backend; every connector is found by device_changed.
Init ==
    /\ session = TRUE /\ active = TRUE /\ blank = FALSE
    /\ software \in BOOLEAN
    /\ connected = {} /\ pacing = NoOutput
    /\ rendered = Some({})
    /\ framePending = Some({}) /\ flips = [o \in Outputs |-> 0]
    /\ late = Some({}) /\ lit = Some({}) /\ stale = Some({}) /\ early = Some({})
    /\ throttled = FALSE /\ asked = FALSE
    /\ baton = FALSE

Loop ==
    \/ IdleRender \/ VsyncTimer \/ ThrottleTimer
    \/ \E o \in Outputs : Vblank(o) \/ LateVblank(o)

Asking ==
    \/ \E o \in connected : Damage(o)
    \/ \E o \in Outputs : Present(o)
    \/ AwaitVsync

Time == \E o \in Outputs : IntervalPasses(o)

Seat ==
    \/ Blank \/ Wake \/ PauseSession
    \/ \E granted \in BOOLEAN : ActivateSession(granted)

Hotplug ==
    \E o \in Outputs : Connect(o) \/ Disconnect(o) \/ SetMode(o)

Next == Loop \/ Asking \/ Time \/ Seat \/ Hotplug

\* The loop runs its idle callbacks and timers, time passes, and a flip that
\* was submitted completes; nobody has to damage, blank, switch or plug.
Fairness ==
    /\ WF_vars(IdleRender)
    /\ WF_vars(VsyncTimer)
    /\ WF_vars(ThrottleTimer)
    /\ \A o \in Outputs : /\ WF_vars(IntervalPasses(o))
                          /\ WF_vars(Vblank(o))

Spec == Init /\ [][Next]_vars /\ Fairness

----------------------------------------------------------------------------

(* An output never waits for a vblank that is not to come: a frame held    *)
(* back for a flip has that flip in flight, whatever the screensaver, a VT *)
(* switch or a hotplug dropped (drm_backend.rs:579).                       *)
NoFlipAwaitedInVain == \A o \in Outputs : framePending[o] => flips[o] > 0

Showing == active /\ ~ blank

(* What there is to show reaches the output that paces its GPU; with a     *)
(* software renderer, if it is the only one.                               *)
DamageShown ==
    (stale[Watched] /\ Showing /\ pacing = Watched /\ rendered[Watched] /\ asked)
    ~> (\/ ~ stale[Watched] \/ ~ Showing
        \/ pacing # Watched \/ ~ rendered[Watched]
        \/ software /\ connected # {Watched})

(* After a wake, a plug or a switch back every output lights up again,     *)
(* whatever dropped its frames; a software renderer's cap may forget one   *)
(* of several (drm_backend.rs:190).                                        *)
LitAgain ==
    (Watched \in connected /\ Showing /\ ~ software)
    ~> (lit[Watched] \/ ~ Showing \/ Watched \notin connected)

(* Flutter's baton is answered while an output is up, also when nothing    *)
(* flips (drm_backend.rs:1779).                                            *)
BatonAnswered == baton ~> (~ baton \/ ~ Showing \/ pacing = NoOutput)

(* Nobody waits for a frame for ever: neither what there is to show, nor an *)
(* output that is dark, nor Flutter.                                       *)
FramesGoOn == DamageShown /\ LitAgain /\ BatonAnswered

=============================================================================
