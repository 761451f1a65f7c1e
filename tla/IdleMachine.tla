---------------------------- MODULE IdleMachine ----------------------------
(***************************************************************************)
(* The screensaver and automatic power machine of src/embedder/idle: its   *)
(* stages, its four timers, what inhibits it, and every handler of the     *)
(* compositor loop that touches it.                                        *)
(*                                                                         *)
(* The D-Bus thread, libseat, the clients and the user are an environment  *)
(* that may act at any time; IdleService puts the real D-Bus thread in the *)
(* place of the first.  Time is abstracted to the order in which timers    *)
(* fire: an armed timer may fire at any moment.                            *)
(***************************************************************************)
EXTENDS Naturals, Sequences

CONSTANTS
    Surfaces,     \* client surfaces that may carry an idle inhibitor
    CanBlank,     \* Backend::CAN_BLANK
    PowerWorker,  \* a power worker runs (Backend::RUNS_PORTAL_BACKEND)
    Configurations, \* the settings a user applies, members of Settings
    Captures,     \* the user captures and records the screen
    MaxRequests,  \* power requests left unanswered at a time (bound)
    Off           \* Option::None of a timer token

Timers == {"dim", "blank", "fade", "power"}

\* Which timeouts are not zero; "power" includes an action other than Disabled.
Settings == [dim : BOOLEAN, blank : BOOLEAN, fade : BOOLEAN, power : BOOLEAN]

ASSUME BackendAssumption == {CanBlank, PowerWorker, Captures} \subseteq BOOLEAN
ASSUME ConfigurationsAssumption == Configurations \subseteq Settings
ASSUME RequestsAssumption == MaxRequests \in Nat
ASSUME OffAssumption == Off \notin {"fresh", "stale"}

VARIABLES
    \* the machine, and what it tells the backlight (brightness.set_idle)
    stage, dimAlpha, panel, timers, powerTriggered,
    \* what inhibits it, and what ext-idle-notify was last told about that
    dbusInhibited, inhibiting, alive, capture, recording, notifierInhibited,
    \* the seat session, a suspend under way, the settings, the power worker
    sessionActive, sleeping, settings, requests

machineVars == <<stage, dimAlpha, panel, timers, powerTriggered>>
inhibitVars == <<dbusInhibited, inhibiting, alive, capture, recording>>
worldVars   == <<sessionActive, sleeping, settings, requests>>
idleVars    == <<machineVars, inhibitVars, notifierInhibited, worldVars>>

----------------------------------------------------------------------------
(* Values *)

Stages == {"Active", "Fading", "Dimmed", "Blank"}

\* What a token is worth is history: "fresh" if its timer was armed at the last
\* activity or later, "stale" if there has been activity since.
Tokens == {Off, "fresh", "stale"}

IdleInit ==
    /\ settings \in Configurations
    /\ stage = "Active" /\ dimAlpha = "none" /\ panel = "user"
    /\ timers = [t \in Timers |-> IF t # "fade" /\ settings[t] /\ (t = "power" => PowerWorker)
                                  THEN "fresh" ELSE Off]
    /\ powerTriggered = FALSE
    /\ dbusInhibited = FALSE /\ inhibiting = {} /\ alive = Surfaces
    /\ capture = FALSE /\ recording = FALSE /\ notifierInhibited = FALSE
    /\ sessionActive = TRUE /\ sleeping = FALSE /\ requests = 0

----------------------------------------------------------------------------
(* The operations the handlers share *)

\* is_inhibited
Inhibited == dbusInhibited \/ inhibiting # {} \/ capture \/ recording

\* Mutant: the power timer is left running.
AllOffButPower == [timers EXCEPT !["dim"] = Off, !["blank"] = Off, !["fade"] = Off]

\* cancel_all
AllOff == [t \in Timers |-> Off]

\* arm_activity_timers, in the session and with the settings of the next state
Armed ==
    [t \in Timers |-> IF /\ sessionActive'
                         /\ t # "fade"
                         /\ settings'[t]
                         /\ t = "power" => PowerWorker
                      THEN "fresh" ELSE Off]

\* The screen is lit and the stage machine starts again: cancel_all has been
\* called, or the timers are armed anew.
Lit == /\ stage' = "Active"
       /\ dimAlpha' = "none"
       /\ panel' = "user"

Aged == [t \in Timers |-> IF timers[t] = Off THEN Off ELSE "stale"]

\* Mutant: the timers run on if the screen was lit.
ActivityWakes ==
    IF ~sessionActive' THEN UNCHANGED machineVars
    ELSE /\ IF stage = "Active" THEN UNCHANGED <<stage, dimAlpha, panel>> ELSE Lit
         /\ timers' = IF ~Inhibited' /\ stage # "Active" THEN Armed ELSE Aged
         /\ powerTriggered' = (powerTriggered /\ Inhibited')

\* Mutant: activity re-arms whatever inhibits.
ActivityArms ==
    IF ~sessionActive' THEN UNCHANGED machineVars
    ELSE /\ Lit
         /\ timers' = Armed
         /\ powerTriggered' = FALSE

\* on_activity
Activity ==
    IF ~sessionActive' THEN UNCHANGED machineVars
    ELSE /\ IF stage = "Active" THEN UNCHANGED <<stage, dimAlpha, panel>> ELSE Lit
         /\ timers' = IF ~Inhibited' THEN Armed ELSE IF stage # "Active" THEN AllOff ELSE Aged
         /\ powerTriggered' = (powerTriggered /\ Inhibited')

\* Mutant: the countdown is not started again when the last inhibitor goes.
RefreshStops ==
    /\ notifierInhibited' = Inhibited'
    /\ IF Inhibited' THEN Lit /\ timers' = AllOff ELSE UNCHANGED <<stage, dimAlpha, panel, timers>>
    /\ UNCHANGED powerTriggered

\* refresh_idle_inhibit, past its clean-up of `inhibiting`
Refresh ==
    /\ notifierInhibited' = Inhibited'
    /\ CASE ~Inhibited' /\ stage # "Active" -> UNCHANGED machineVars
         [] ~Inhibited' /\ stage = "Active" ->
                /\ timers' = Armed
                /\ powerTriggered' = FALSE
                /\ UNCHANGED <<stage, dimAlpha, panel>>
         [] Inhibited' ->
                /\ IF stage = "Active" THEN UNCHANGED <<stage, dimAlpha, panel>> ELSE Lit
                /\ timers' = AllOff
                /\ UNCHANGED powerTriggered

----------------------------------------------------------------------------
(* Input, the seat session and suspend *)

\* Every input event calls on_activity first; a paused session receives none.
Input ==
    /\ sessionActive
    /\ UNCHANGED <<worldVars, inhibitVars, notifierInhibited>>
    /\ Activity

\* on_session_paused
SessionPaused ==
    /\ sessionActive
    /\ sessionActive' = FALSE
    /\ timers' = AllOff
    /\ Lit
    /\ UNCHANGED <<powerTriggered, inhibitVars, notifierInhibited, sleeping, settings, requests>>

\* on_session_activated
SessionActivated ==
    /\ ~sessionActive
    /\ sessionActive' = TRUE
    /\ UNCHANGED <<inhibitVars, notifierInhibited, sleeping, settings, requests>>
    /\ Activity

\* on_prepare_for_sleep(true): the panel is lit, the stage is left for the resume.
PrepareForSleep ==
    /\ ~sleeping
    /\ sleeping' = TRUE
    /\ timers' = AllOff
    /\ panel' = "user"
    /\ UNCHANGED <<stage, dimAlpha, powerTriggered, inhibitVars, notifierInhibited,
                   sessionActive, settings, requests>>

\* Mutant: the resume is not taken for activity.
ResumeUnnoticed ==
    /\ sleeping
    /\ sleeping' = FALSE
    /\ UNCHANGED <<machineVars, inhibitVars, notifierInhibited, sessionActive, settings, requests>>

\* on_prepare_for_sleep(false)
Resume ==
    /\ sleeping
    /\ sleeping' = FALSE
    /\ UNCHANGED <<inhibitVars, notifierInhibited, sessionActive, settings, requests>>
    /\ Activity

----------------------------------------------------------------------------
(* Inhibitors *)

\* The surfaces refresh_idle_inhibit keeps
Living(surfaces) == surfaces \cap alive'

\* IdleDbusEvent::Inhibited
DbusInhibits(inhibited) ==
    /\ dbusInhibited' = inhibited
    /\ UNCHANGED <<alive, capture, recording, worldVars>>
    /\ inhibiting' = Living(inhibiting)
    /\ Refresh

\* IdleDbusEvent::SimulateActivity
DbusSimulates ==
    /\ UNCHANGED <<inhibitVars, notifierInhibited, worldVars>>
    /\ Activity

\* inhibit
SurfaceInhibits(s) ==
    /\ s \in alive
    /\ UNCHANGED <<dbusInhibited, alive, capture, recording, worldVars>>
    /\ inhibiting' = Living(inhibiting \cup {s})
    /\ Refresh

\* uninhibit
SurfaceUninhibits(s) ==
    /\ s \in inhibiting
    /\ UNCHANGED <<dbusInhibited, alive, capture, recording, worldVars>>
    /\ inhibiting' = Living(inhibiting \ {s})
    /\ Refresh

\* A client dies with its surface: nothing is called.
SurfaceDies(s) ==
    /\ s \in alive
    /\ alive' = alive \ {s}
    /\ UNCHANGED <<machineVars, dbusInhibited, inhibiting, capture, recording,
                   notifierInhibited, worldVars>>

CaptureStep ==
    /\ UNCHANGED <<dbusInhibited, alive, worldVars>>
    /\ inhibiting' = Living(inhibiting)
    /\ Refresh

\* begin_capture_session, on a key press that was taken for activity before.
CaptureBegins ==
    /\ Captures
    /\ sessionActive
    /\ ~capture /\ ~recording
    /\ capture' = TRUE
    /\ UNCHANGED recording
    /\ CaptureStep

\* end_capture_session: cancelled by a key, a button, a lock or a lost output
CaptureEnds ==
    /\ capture
    /\ capture' = FALSE
    /\ UNCHANGED recording
    /\ CaptureStep

\* finish_capture with an area to record: start_area_recording
CaptureRecords ==
    /\ capture
    /\ capture' = FALSE
    /\ recording' = TRUE
    /\ CaptureStep

Forgets == UNCHANGED <<machineVars, dbusInhibited, inhibiting, alive, notifierInhibited, worldVars>>

\* finish_capture otherwise: a screenshot, an empty selection, a recording that
\* does not start.  The session is taken, and nothing is recomputed.
CaptureFinishes ==
    /\ capture
    /\ capture' = FALSE
    /\ UNCHANGED recording
    /\ Forgets

\* stop_recording: the user, or a change of the outputs
RecordingStops ==
    /\ recording
    /\ recording' = FALSE
    /\ UNCHANGED capture
    /\ CaptureStep

\* handle_recording_event of a worker that failed while it was recording
RecordingFails ==
    /\ recording
    /\ recording' = FALSE
    /\ UNCHANGED capture
    /\ Forgets

\* apply_idle_settings
SettingsApplied ==
    /\ settings' \in Configurations
    /\ UNCHANGED <<inhibitVars, notifierInhibited, sessionActive, sleeping, requests>>
    /\ UNCHANGED <<stage, dimAlpha, panel>>
    /\ timers' = IF stage # "Active" THEN timers ELSE IF Inhibited THEN AllOff ELSE Armed
    /\ powerTriggered' = (powerTriggered /\ (stage # "Active" \/ Inhibited))

----------------------------------------------------------------------------
(* Timers *)

Fires(t) ==
    /\ timers[t] # Off
    /\ UNCHANGED <<inhibitVars, notifierInhibited, sessionActive, sleeping, settings>>

\* idle_dim_fired: the first tick of the fade is the last if it takes no time.
DimFires ==
    /\ Fires("dim")
    /\ stage' = IF settings.fade THEN "Fading" ELSE "Dimmed"
    /\ dimAlpha' = IF settings.fade THEN "partial" ELSE "full"
    /\ panel' = IF settings.fade THEN "fading" ELSE "dark"
    /\ timers' = [timers EXCEPT !["dim"] = Off,
                                !["fade"] = IF settings.fade THEN timers["dim"] ELSE Off]
    /\ UNCHANGED <<powerTriggered, requests>>

\* fade_tick, the one that reaches the end; the ticks before it only move on.
FadeFires ==
    /\ Fires("fade")
    /\ stage' = "Dimmed"
    /\ dimAlpha' = "full"
    /\ panel' = "dark"
    /\ timers' = [timers EXCEPT !["fade"] = Off]
    /\ UNCHANGED <<powerTriggered, requests>>

\* blank_fired: cancel_visual_timers leaves the power timer alone.
BlankFires ==
    /\ Fires("blank")
    /\ stage # "Blank"
    /\ stage' = IF CanBlank THEN "Blank" ELSE "Dimmed"
    /\ dimAlpha' = "full"
    /\ panel' = "off"
    /\ timers' = [timers EXCEPT !["dim"] = Off, !["blank"] = Off, !["fade"] = Off]
    /\ UNCHANGED <<powerTriggered, requests>>

\* automatic_power_fired
PowerFires ==
    /\ Fires("power")
    /\ timers' = [timers EXCEPT !["power"] = Off]
    /\ IF ~sessionActive \/ powerTriggered \/ Inhibited
       THEN UNCHANGED <<powerTriggered, requests>>
       ELSE /\ requests < MaxRequests
            /\ powerTriggered' = TRUE
            /\ requests' = requests + 1
    /\ UNCHANGED <<stage, dimAlpha, panel>>

\* spawn_power_worker: a request is taken off its queue and sent to logind.
PowerWorkerAsks ==
    /\ requests > 0
    /\ requests' = requests - 1
    /\ UNCHANGED <<machineVars, inhibitVars, notifierInhibited, sessionActive, sleeping, settings>>

----------------------------------------------------------------------------
(* The specification *)

Outside ==
    \/ Input \/ SessionPaused \/ SessionActivated \/ SettingsApplied
    \/ \E s \in Surfaces : SurfaceInhibits(s) \/ SurfaceUninhibits(s) \/ SurfaceDies(s)
    \/ CaptureBegins \/ CaptureEnds \/ CaptureRecords \/ CaptureFinishes
    \/ RecordingStops \/ RecordingFails
    \/ PowerWorkerAsks

TimerFires == DimFires \/ FadeFires \/ BlankFires \/ PowerFires

IdleNext ==
    \/ Outside \/ TimerFires \/ PrepareForSleep \/ Resume \/ DbusSimulates
    \/ \E inhibited \in BOOLEAN : DbusInhibits(inhibited)

IdleSpec == IdleInit /\ [][IdleNext]_idleVars

----------------------------------------------------------------------------
(* Properties *)

\* The variables keep to the types of IdleState.
IdleTypes ==
    /\ stage \in Stages
    /\ dimAlpha \in {"none", "partial", "full"}
    /\ panel \in {"user", "fading", "dark", "off"}
    /\ timers \in [Timers -> Tokens]
    /\ {powerTriggered, dbusInhibited, capture, recording, notifierInhibited,
        sessionActive, sleeping} \subseteq BOOLEAN
    /\ inhibiting \subseteq Surfaces /\ alive \subseteq Surfaces
    /\ settings \in Configurations
    /\ requests \in 0 .. MaxRequests

\* While anything inhibits the screensaver the screen is awake and no timer of an
\* earlier countdown is left to fire, in whatever order inhibitors, settings,
\* sessions and suspends came and went.
InhibitedStaysAwake == Inhibited => stage = "Active" /\ \A t \in Timers : timers[t] = Off

\* While the user is on another terminal, whose input never reaches this
\* compositor, nothing counts down and the screen is not left dark.
PausedStaysQuiet ==
    ~sessionActive => /\ \A t \in Timers : timers[t] = Off
                      /\ stage = "Active" /\ panel = "user"

\* Every timer that runs has the whole timeout since the last activity to go: no
\* handler takes note of activity without arming all of them anew.
WholeCountdown == \A t \in Timers : timers[t] # "stale"

\* The stage, the overlay, the panel and the timers tell the same story: an active
\* stage is fully lit, and a fade has its timer until a suspend takes it, so that
\* no wake path leaves a dimmed screen behind.
StageShows ==
    /\ stage = "Active" => dimAlpha = "none" /\ panel = "user"
    /\ stage = "Fading" => sleeping \/ timers["fade"] # Off
    /\ stage = "Blank" => timers["dim"] = Off /\ timers["blank"] = Off /\ timers["fade"] = Off
    /\ timers["fade"] # Off => stage = "Fading"

\* A session that is active, awake and not inhibited counts down to all the user
\* configured, as long as the loop has recomputed what inhibits it since it last
\* changed.
CountdownRuns ==
    sessionActive /\ ~sleeping /\ stage = "Active" /\ ~Inhibited /\ ~notifierInhibited =>
        /\ settings.dim \/ settings.blank => timers["dim"] # Off \/ timers["blank"] # Off
        /\ settings.power /\ PowerWorker => timers["power"] # Off \/ powerTriggered

\* What holds the screen, an inhibitor or another terminal, keeps it lit and
\* nothing counting down.
HeldStaysAwake == InhibitedStaysAwake /\ PausedStaysQuiet

\* The countdown starts whenever it should, and always whole.
CountdownSound == WholeCountdown /\ CountdownRuns

\* logind is asked to suspend only out of an active session that nothing inhibits,
\* at the end of a whole countdown, and once per countdown.
PowerOnlyWhenIdle ==
    [][ requests' > requests =>
          sessionActive /\ ~Inhibited /\ ~powerTriggered /\ timers["power"] = "fresh" ]_idleVars

=============================================================================
