---------------------------- MODULE DesktopProofs ---------------------------
(***************************************************************************)
(* Proofs about IdleMachine, for every value of its constants; then that   *)
(* the D-Bus service implements the environment the machine leaves open,   *)
(* so that what is proved of the machine holds of the machine behind its   *)
(* real threads; and that the loop's view of the cookies is right once all *)
(* is settled.  Then proofs about Placement, for every layout: the native  *)
(* X11 window and the model in lockstep, and what hangs on a window moving *)
(* with it.                                                                *)
(***************************************************************************)
EXTENDS IdleService, Placement, SequenceTheorems, TLAPS

----------------------------------------------------------------------------
(* The idle machine: the timers an operation leaves behind *)

\* cancel_all leaves no timer.
LEMMA AllOffFacts ==
    /\ AllOff \in [Timers -> Tokens]
    /\ \A t \in Timers : AllOff[t] = Off
BY DEF AllOff, Tokens

\* arm_activity_timers arms what the settings ask for, the fade never, and in a
\* paused session nothing.
LEMMA ArmedFacts ==
    ASSUME sessionActive' \in BOOLEAN
    PROVE  /\ Armed \in [Timers -> Tokens]
           /\ \A t \in Timers : Armed[t] # "stale"
           /\ Armed["fade"] = Off
           /\ ~sessionActive' => \A t \in Timers : Armed[t] = Off
           /\ sessionActive' /\ settings'.dim => Armed["dim"] # Off
           /\ sessionActive' /\ settings'.blank => Armed["blank"] # Off
           /\ sessionActive' /\ settings'.power /\ PowerWorker => Armed["power"] # Off
BY OffAssumption DEF Armed, Timers, Tokens

\* Activity that arms nothing leaves no timer that was not running before.
LEMMA AgedFacts ==
    ASSUME \A t \in Timers : timers[t] = Off
    PROVE  /\ Aged \in [Timers -> Tokens]
           /\ \A t \in Timers : Aged[t] = Off
BY DEF Aged, Tokens

----------------------------------------------------------------------------
(* The inductive invariant *)

\* Whatever inhibits was told to the notifier: only the end of an inhibition may
\* go unnoticed, never its beginning.
NotifierKnows == Inhibited => notifierInhibited

IdleIInv ==
    /\ IdleTypes
    /\ InhibitedStaysAwake /\ PausedStaysQuiet
    /\ WholeCountdown /\ StageShows
    /\ CountdownRuns /\ NotifierKnows

\* The types of what a handler may change beside the machine
WorldTypes ==
    /\ {dbusInhibited, capture, recording, notifierInhibited, sessionActive, sleeping}
           \subseteq BOOLEAN
    /\ inhibiting \subseteq Surfaces /\ alive \subseteq Surfaces
    /\ settings \in Configurations
    /\ requests \in 0 .. MaxRequests

MachineTypes ==
    /\ stage \in Stages
    /\ dimAlpha \in {"none", "partial", "full"}
    /\ panel \in {"user", "fading", "dark", "off"}
    /\ timers \in [Timers -> Tokens]
    /\ powerTriggered \in BOOLEAN

\* The types of IdleState are those of the machine and of the world around it.
LEMMA TypesSplit == IdleTypes <=> MachineTypes /\ WorldTypes
BY DEF IdleTypes, MachineTypes, WorldTypes

\* The same in the next state.
LEMMA TypesJoin == ASSUME MachineTypes', WorldTypes' PROVE IdleTypes'
BY DEF IdleTypes, MachineTypes, WorldTypes

\* IdleState::new, and the timers armed at the start.
LEMMA InitIdle == IdleInit => IdleIInv
<1> SUFFICES ASSUME IdleInit PROVE IdleIInv
  OBVIOUS
<1> USE DEF IdleInit
<1>1. /\ timers \in [Timers -> Tokens]
      /\ \A t \in Timers : timers[t] # "stale"
      /\ timers["fade"] = Off
      /\ settings.dim => timers["dim"] # Off
      /\ settings.blank => timers["blank"] # Off
      /\ settings.power /\ PowerWorker => timers["power"] # Off
  BY OffAssumption DEF Timers, Tokens
<1>2. MachineTypes
  BY <1>1 DEF MachineTypes, Stages
<1>3. WorldTypes
  <2>1. 0 \in 0 .. MaxRequests
    BY RequestsAssumption
  <2>2. {dbusInhibited, capture, recording, notifierInhibited, sessionActive, sleeping}
            \subseteq BOOLEAN
    OBVIOUS
  <2>3. QED
    BY <2>1, <2>2 DEF WorldTypes
<1>4. ~Inhibited
  BY DEF Inhibited
<1>5. WholeCountdown /\ StageShows /\ CountdownRuns
  BY <1>1, OffAssumption DEF WholeCountdown, StageShows, CountdownRuns
<1>6. InhibitedStaysAwake /\ PausedStaysQuiet /\ NotifierKnows
  BY <1>4 DEF InhibitedStaysAwake, PausedStaysQuiet, NotifierKnows
<1>7. QED
  BY <1>2, <1>3, <1>5, <1>6, TypesSplit DEF IdleIInv

----------------------------------------------------------------------------
(* The shapes of steps *)

\* A step that leaves the machine's stage and timers where the invariant allows any
\* world: awake with no timer, or awake with all of them armed.
LEMMA AwakeKeeps ==
    ASSUME IdleIInv, WorldTypes', NotifierKnows',
           stage' = "Active", dimAlpha' = "none", panel' = "user",
           powerTriggered' \in BOOLEAN,
           \/ timers' = Armed /\ ~Inhibited'
           \/ /\ timers' = AllOff \/ \A t \in Timers : timers'[t] = Off
              /\ timers' \in [Timers -> Tokens]
              /\ Inhibited' \/ notifierInhibited' \/ ~sessionActive' \/ sleeping'
    PROVE  IdleIInv'
<1>1. /\ timers' \in [Timers -> Tokens]
      /\ \A t \in Timers : timers'[t] # "stale"
      /\ timers'["fade"] = Off
      /\ Inhibited' \/ ~sessionActive' => \A t \in Timers : timers'[t] = Off
  BY ArmedFacts, AllOffFacts, OffAssumption DEF WorldTypes, Timers
<1>2. MachineTypes'
  BY <1>1 DEF MachineTypes, Stages
<1>3. InhibitedStaysAwake' /\ PausedStaysQuiet' /\ WholeCountdown' /\ StageShows'
  BY <1>1 DEF InhibitedStaysAwake, PausedStaysQuiet, WholeCountdown, StageShows
<1>4. CountdownRuns'
  BY ArmedFacts DEF CountdownRuns, WorldTypes
<1>5. QED
  BY <1>2, <1>3, <1>4, TypesJoin DEF IdleIInv

\* A step that leaves the machine alone, and inhibits nothing anew.
LEMMA MachineKept ==
    ASSUME IdleIInv, WorldTypes', NotifierKnows', UNCHANGED machineVars,
           UNCHANGED <<sessionActive, settings>>,
           Inhibited' => Inhibited,
           notifierInhibited' = notifierInhibited \/ stage # "Active",
           sleeping' = sleeping \/ (stage = "Active" /\ ~sessionActive)
    PROVE  IdleIInv'
<1> USE DEF machineVars
<1>1. MachineTypes'
  BY TypesSplit DEF IdleIInv, MachineTypes
<1>2. InhibitedStaysAwake' /\ PausedStaysQuiet' /\ WholeCountdown'
  BY DEF IdleIInv, InhibitedStaysAwake, PausedStaysQuiet, WholeCountdown
<1>3. StageShows'
  BY DEF IdleIInv, StageShows
<1>4. CountdownRuns'
  BY DEF IdleIInv, CountdownRuns, NotifierKnows
<1>5. QED
  BY <1>1, <1>2, <1>3, <1>4, TypesJoin DEF IdleIInv

\* on_activity, whoever calls it.
LEMMA ActivityKeeps ==
    ASSUME IdleIInv, Activity, WorldTypes',
           UNCHANGED <<inhibitVars, notifierInhibited, settings>>,
           sessionActive' = sessionActive \/ sessionActive'
    PROVE  IdleIInv'
<1> USE DEF IdleIInv
<1>1. /\ Inhibited' = Inhibited
      /\ NotifierKnows'
  BY DEF inhibitVars, Inhibited, NotifierKnows
<1>2. CASE ~sessionActive'
  <2>1. UNCHANGED machineVars /\ sessionActive' = sessionActive
    BY <1>2, TypesSplit DEF Activity, WorldTypes
  <2>2. stage = "Active"
    BY <1>2, <2>1 DEF PausedStaysQuiet
  <2>3. QED
    BY <1>1, <1>2, <2>1, <2>2, MachineKept
<1>3. CASE sessionActive'
  <2>1. /\ stage' = "Active" /\ dimAlpha' = "none" /\ panel' = "user"
        /\ powerTriggered' = (powerTriggered /\ Inhibited')
        /\ timers' = IF ~Inhibited' THEN Armed
                     ELSE IF stage # "Active" THEN AllOff ELSE Aged
    BY <1>3 DEF Activity, Lit, StageShows
  <2>2. powerTriggered' \in BOOLEAN
    BY <2>1, TypesSplit DEF MachineTypes
  <2>3. CASE ~Inhibited'
    <3>1. timers' = Armed
      BY <2>1, <2>3
    <3>2. stage' = "Active" /\ dimAlpha' = "none" /\ panel' = "user"
      BY <2>1
    <3>3. QED
      BY <1>1, <2>2, <2>3, <3>1, <3>2, AwakeKeeps
  <2>4. CASE Inhibited'
    <3>1. stage = "Active" /\ \A t \in Timers : timers[t] = Off
      BY <1>1, <2>4 DEF InhibitedStaysAwake
    <3>2. timers' = Aged
      BY <2>1, <2>4, <3>1
    <3>3. QED
      BY <1>1, <2>1, <2>2, <2>4, <3>1, <3>2, AgedFacts, AwakeKeeps
  <2>5. QED
    BY <2>3, <2>4
<1>4. QED
  BY <1>2, <1>3

\* refresh_idle_inhibit, whatever has changed among the inhibitors.
LEMMA RefreshKeeps ==
    ASSUME IdleIInv, Refresh, WorldTypes', UNCHANGED <<sessionActive, sleeping, settings>>
    PROVE  IdleIInv'
<1> USE DEF IdleIInv
<1>1. NotifierKnows'
  BY DEF Refresh, NotifierKnows
<1>2. CASE ~Inhibited' /\ stage # "Active"
  <2>1. UNCHANGED machineVars
    BY <1>2 DEF Refresh
  <2>2. QED
    BY <1>1, <1>2, <2>1, MachineKept
<1>3. CASE ~Inhibited' /\ stage = "Active"
  <2>1. /\ timers' = Armed /\ powerTriggered' = FALSE
        /\ stage' = "Active" /\ dimAlpha' = "none" /\ panel' = "user"
    BY <1>3 DEF Refresh, StageShows
  <2>2. QED
    BY <1>1, <1>3, <2>1, AwakeKeeps
<1>4. CASE Inhibited'
  <2>1. /\ timers' = AllOff /\ powerTriggered' = powerTriggered
        /\ stage' = "Active" /\ dimAlpha' = "none" /\ panel' = "user"
    BY <1>4 DEF Refresh, StageShows, Lit
  <2>2. powerTriggered' \in BOOLEAN
    BY <2>1, TypesSplit DEF MachineTypes
  <2>3. QED
    BY <1>1, <1>4, <2>1, <2>2, AllOffFacts, AwakeKeeps
<1>5. QED
  BY <1>2, <1>3, <1>4

----------------------------------------------------------------------------
(* The handlers, one case for each *)

\* Input, and another terminal left or entered.
LEMMA SessionKeeps ==
    ASSUME IdleIInv, Input \/ SessionPaused \/ SessionActivated
    PROVE  IdleIInv'
<1> USE DEF IdleIInv
<1>1. WorldTypes
  BY TypesSplit
<1>2. CASE Input
  <2>1. WorldTypes'
    BY <1>1, <1>2 DEF Input, worldVars, inhibitVars, WorldTypes
  <2>2. QED
    BY <1>2, <2>1, ActivityKeeps DEF Input, worldVars
<1>3. CASE SessionPaused
  <2>1. WorldTypes'
    BY <1>1, <1>3 DEF SessionPaused, inhibitVars, WorldTypes
  <2>2. /\ NotifierKnows' /\ powerTriggered' \in BOOLEAN
        /\ ~sessionActive' /\ timers' = AllOff
        /\ stage' = "Active" /\ dimAlpha' = "none" /\ panel' = "user"
    BY <1>3, TypesSplit
       DEF SessionPaused, Lit, inhibitVars, NotifierKnows, Inhibited, MachineTypes
  <2>3. QED
    BY <2>1, <2>2, AllOffFacts, AwakeKeeps
<1>4. CASE SessionActivated
  <2>1. WorldTypes'
    BY <1>1, <1>4 DEF SessionActivated, inhibitVars, WorldTypes
  <2>2. QED
    BY <1>4, <2>1, ActivityKeeps DEF SessionActivated
<1>5. QED
  BY <1>2, <1>3, <1>4

\* A suspend that is prepared, the machine that resumes, and SimulateActivity.
LEMMA SleepKeeps ==
    ASSUME IdleIInv, PrepareForSleep \/ Resume \/ DbusSimulates
    PROVE  IdleIInv'
<1> USE DEF IdleIInv
<1>1. WorldTypes
  BY TypesSplit
<1>2. CASE PrepareForSleep
  <2>1. WorldTypes'
    BY <1>1, <1>2 DEF PrepareForSleep, inhibitVars, WorldTypes
  <2>2. /\ timers' \in [Timers -> Tokens]
        /\ \A t \in Timers : timers'[t] = Off
    BY <1>2, AllOffFacts DEF PrepareForSleep
  <2>3. MachineTypes'
    BY <1>2, <2>2, TypesSplit DEF PrepareForSleep, MachineTypes
  <2>4. InhibitedStaysAwake' /\ PausedStaysQuiet' /\ WholeCountdown' /\ NotifierKnows'
    BY <1>2, <2>2, OffAssumption
       DEF PrepareForSleep, inhibitVars, Inhibited, InhibitedStaysAwake, PausedStaysQuiet,
           WholeCountdown, NotifierKnows
  <2>5. StageShows' /\ CountdownRuns'
    BY <1>2, <2>2 DEF PrepareForSleep, StageShows, CountdownRuns, Timers
  <2>6. QED
    BY <2>1, <2>3, <2>4, <2>5, TypesJoin
<1>3. CASE Resume
  <2>1. WorldTypes'
    BY <1>1, <1>3 DEF Resume, inhibitVars, WorldTypes
  <2>2. QED
    BY <1>3, <2>1, ActivityKeeps DEF Resume
<1>4. CASE DbusSimulates
  <2>1. WorldTypes'
    BY <1>1, <1>4 DEF DbusSimulates, worldVars, inhibitVars, WorldTypes
  <2>2. QED
    BY <1>4, <2>1, ActivityKeeps DEF DbusSimulates, worldVars
<1>5. QED
  BY <1>2, <1>3, <1>4

\* What an inhibitor, or a capture, that comes or goes changes beside the machine.
LEMMA InhibitorsKeep ==
    ASSUME IdleIInv,
           \/ \E inhibited \in BOOLEAN : DbusInhibits(inhibited)
           \/ \E s \in Surfaces : SurfaceInhibits(s) \/ SurfaceUninhibits(s)
           \/ CaptureBegins \/ CaptureEnds \/ CaptureRecords \/ RecordingStops
    PROVE  IdleIInv'
<1> USE DEF IdleIInv
<1>1. WorldTypes
  BY TypesSplit
<1>2. /\ Refresh /\ UNCHANGED <<alive, worldVars>>
      /\ {dbusInhibited', capture', recording'} \subseteq BOOLEAN
      /\ inhibiting' \subseteq Surfaces
  BY <1>1 DEF DbusInhibits, SurfaceInhibits, SurfaceUninhibits, CaptureBegins, CaptureEnds,
              CaptureRecords, RecordingStops, CaptureStep, Living, WorldTypes
<1>3. notifierInhibited' \in BOOLEAN
  <2>1. Inhibited' \in BOOLEAN
    BY DEF Inhibited
  <2>2. QED
    BY <1>2, <2>1 DEF Refresh
<1>4. WorldTypes'
  BY <1>1, <1>2, <1>3 DEF worldVars, WorldTypes
<1>5. QED
  BY <1>2, <1>4, RefreshKeeps DEF worldVars

\* An inhibitor that goes without a word
LEMMA SilentKeeps ==
    ASSUME IdleIInv,
           \/ \E s \in Surfaces : SurfaceDies(s)
           \/ CaptureFinishes \/ RecordingFails \/ PowerWorkerAsks
    PROVE  IdleIInv'
<1> USE DEF IdleIInv
<1>1. WorldTypes
  BY TypesSplit
<1>2. /\ UNCHANGED <<machineVars, notifierInhibited, sessionActive, sleeping, settings,
                     dbusInhibited, inhibiting>>
      /\ capture' \in {capture, FALSE} /\ recording' \in {recording, FALSE}
      /\ alive' \subseteq alive
      /\ requests' = requests \/ (requests > 0 /\ requests' = requests - 1)
  BY DEF SurfaceDies, CaptureFinishes, RecordingFails, PowerWorkerAsks, Forgets, inhibitVars,
         worldVars
<1>3. requests' \in 0 .. MaxRequests
  BY <1>1, <1>2, RequestsAssumption DEF WorldTypes
<1>4. WorldTypes'
  BY <1>1, <1>2, <1>3 DEF WorldTypes
<1>5. Inhibited' => Inhibited
  BY <1>1, <1>2 DEF Inhibited, WorldTypes
<1>6. NotifierKnows'
  BY <1>2, <1>5 DEF NotifierKnows
<1>7. QED
  BY <1>2, <1>4, <1>5, <1>6, MachineKept

\* apply_idle_settings, with the stage what it is.
LEMMA SettingsKeep ==
    ASSUME IdleIInv, SettingsApplied
    PROVE  IdleIInv'
<1> USE DEF IdleIInv
<1>1. WorldTypes /\ MachineTypes
  BY TypesSplit
<1>2. WorldTypes'
  BY <1>1 DEF SettingsApplied, inhibitVars, WorldTypes
<1>3. /\ Inhibited' = Inhibited /\ NotifierKnows'
      /\ UNCHANGED <<notifierInhibited, sessionActive, sleeping, stage, dimAlpha, panel>>
  BY DEF SettingsApplied, inhibitVars, Inhibited, NotifierKnows
<1>4. powerTriggered' \in BOOLEAN
  BY <1>1 DEF SettingsApplied, MachineTypes
<1>5. CASE stage # "Active"
  <2>1. timers' = timers
    BY <1>5 DEF SettingsApplied
  <2>2. MachineTypes'
    BY <1>1, <1>3, <1>4, <2>1 DEF MachineTypes
  <2>3. /\ InhibitedStaysAwake' /\ PausedStaysQuiet' /\ WholeCountdown' /\ StageShows'
        /\ CountdownRuns'
    BY <1>3, <1>5, <2>1
       DEF InhibitedStaysAwake, PausedStaysQuiet, WholeCountdown, StageShows, CountdownRuns
  <2>4. QED
    BY <1>2, <1>3, <2>2, <2>3, TypesJoin
<1>6. CASE stage = "Active"
  <2>1. stage' = "Active" /\ dimAlpha' = "none" /\ panel' = "user"
    BY <1>3, <1>6 DEF StageShows
  <2>2. CASE Inhibited
    <3>1. timers' = AllOff
      BY <1>6, <2>2 DEF SettingsApplied
    <3>2. QED
      BY <1>2, <1>3, <1>4, <2>1, <2>2, <3>1, AllOffFacts, AwakeKeeps
  <2>3. CASE ~Inhibited
    <3>1. timers' = Armed
      BY <1>6, <2>3 DEF SettingsApplied
    <3>2. QED
      BY <1>2, <1>3, <1>4, <2>1, <2>3, <3>1, AwakeKeeps
  <2>4. QED
    BY <2>2, <2>3
<1>7. QED
  BY <1>5, <1>6

----------------------------------------------------------------------------
(* The timers *)

\* A timer that fires finds an active session that nothing inhibits, and a whole
\* countdown behind it.
LEMMA FiresFacts ==
    ASSUME IdleIInv, NEW t \in Timers, Fires(t)
    PROVE  /\ ~Inhibited /\ ~Inhibited'
           /\ sessionActive /\ sessionActive'
           /\ timers[t] = "fresh"
           /\ timers \in [Timers -> Tokens]
           /\ \A u \in Timers : timers[u] # "stale"
           /\ settings' = settings /\ sleeping' = sleeping
           /\ notifierInhibited' = notifierInhibited
<1> USE DEF IdleIInv
<1>1. WorldTypes /\ MachineTypes
  BY TypesSplit
<1>2. timers[t] # Off /\ Inhibited' = Inhibited /\ sessionActive' = sessionActive
  BY DEF Fires, inhibitVars, Inhibited
<1>3. ~Inhibited /\ sessionActive
  BY <1>2 DEF InhibitedStaysAwake, PausedStaysQuiet
<1>4. timers[t] = "fresh"
  BY <1>1, <1>2 DEF MachineTypes, WholeCountdown, Tokens
<1>5. QED
  BY <1>1, <1>2, <1>3, <1>4 DEF MachineTypes, WholeCountdown, Fires

\* The stage moves on: the screen is dimmed, dimming or off.
LEMMA DarkKeeps ==
    ASSUME IdleIInv, NEW t \in Timers, Fires(t), powerTriggered' \in BOOLEAN,
           requests' \in 0 .. MaxRequests, MachineTypes',
           \A u \in Timers : timers'[u] # "stale",
           stage' # "Active", StageShows'
    PROVE  IdleIInv'
<1> USE DEF IdleIInv
<1>1. ~Inhibited' /\ sessionActive'
  BY FiresFacts
<1>2. WorldTypes'
  BY TypesSplit DEF Fires, inhibitVars, WorldTypes
<1>3. /\ InhibitedStaysAwake' /\ PausedStaysQuiet' /\ WholeCountdown' /\ CountdownRuns'
      /\ NotifierKnows'
  BY <1>1 DEF InhibitedStaysAwake, PausedStaysQuiet, WholeCountdown, CountdownRuns,
              NotifierKnows
<1>4. QED
  BY <1>2, <1>3, TypesJoin

\* The four timer callbacks.
LEMMA TimersKeep ==
    ASSUME IdleIInv, TimerFires
    PROVE  IdleIInv'
<1> USE DEF IdleIInv
<1>1. WorldTypes /\ MachineTypes
  BY TypesSplit
<1>2. Off # "fresh" /\ Off # "stale" /\ {"dim", "blank", "fade", "power"} \subseteq Timers
  BY OffAssumption DEF Timers
<1>3. CASE DimFires
  <2>1. Fires("dim") /\ "dim" \in Timers
    BY <1>2, <1>3 DEF DimFires
  <2>2. timers["dim"] = "fresh" /\ timers \in [Timers -> Tokens]
        /\ \A u \in Timers : timers[u] # "stale"
    BY <2>1, FiresFacts
  <2>3. /\ timers' \in [Timers -> Tokens]
        /\ \A u \in Timers : timers'[u] # "stale"
        /\ timers'["fade"] = IF settings.fade THEN "fresh" ELSE Off
    BY <1>2, <1>3, <2>2 DEF DimFires, Tokens
  <2>4. MachineTypes'
    BY <1>1, <1>3, <2>3 DEF DimFires, MachineTypes, Stages
  <2>5. StageShows' /\ stage' # "Active"
    BY <1>2, <1>3, <2>3 DEF DimFires, StageShows
  <2>6. QED
    BY <1>1, <1>3, <2>1, <2>3, <2>4, <2>5, DarkKeeps DEF DimFires, MachineTypes, WorldTypes
<1>4. CASE FadeFires
  <2>1. Fires("fade") /\ "fade" \in Timers
    BY <1>2, <1>4 DEF FadeFires
  <2>2. timers \in [Timers -> Tokens] /\ \A u \in Timers : timers[u] # "stale"
    BY <2>1, FiresFacts
  <2>3. /\ timers' \in [Timers -> Tokens]
        /\ \A u \in Timers : timers'[u] # "stale"
        /\ timers'["fade"] = Off
    BY <1>2, <1>4, <2>2 DEF FadeFires, Tokens
  <2>4. MachineTypes'
    BY <1>1, <1>4, <2>3 DEF FadeFires, MachineTypes, Stages
  <2>5. StageShows' /\ stage' # "Active"
    BY <1>4, <2>3 DEF FadeFires, StageShows
  <2>6. QED
    BY <1>1, <1>4, <2>1, <2>3, <2>4, <2>5, DarkKeeps DEF FadeFires, MachineTypes, WorldTypes
<1>5. CASE BlankFires
  <2>1. Fires("blank") /\ "blank" \in Timers
    BY <1>2, <1>5 DEF BlankFires
  <2>2. timers \in [Timers -> Tokens] /\ \A u \in Timers : timers[u] # "stale"
    BY <2>1, FiresFacts
  <2>3. /\ timers' \in [Timers -> Tokens]
        /\ \A u \in Timers : timers'[u] # "stale"
        /\ timers'["dim"] = Off /\ timers'["blank"] = Off /\ timers'["fade"] = Off
    BY <1>2, <1>5, <2>2 DEF BlankFires, Tokens
  <2>4. MachineTypes'
    BY <1>1, <1>5, <2>3 DEF BlankFires, MachineTypes, Stages
  <2>5. StageShows' /\ stage' # "Active"
    BY <1>5, <2>3 DEF BlankFires, StageShows
  <2>6. QED
    BY <1>1, <1>5, <2>1, <2>3, <2>4, <2>5, DarkKeeps DEF BlankFires, MachineTypes, WorldTypes
<1>6. CASE PowerFires
  <2>1. Fires("power") /\ "power" \in Timers
    BY <1>2, <1>6 DEF PowerFires
  <2>2. /\ ~Inhibited /\ ~Inhibited' /\ sessionActive /\ sessionActive'
        /\ timers \in [Timers -> Tokens] /\ \A u \in Timers : timers[u] # "stale"
        /\ settings' = settings /\ sleeping' = sleeping
        /\ notifierInhibited' = notifierInhibited
    BY <2>1, FiresFacts
  <2>3. /\ timers' = [timers EXCEPT !["power"] = Off]
        /\ UNCHANGED <<stage, dimAlpha, panel>>
        /\ powerTriggered'
        /\ requests' \in 0 .. MaxRequests /\ powerTriggered' \in BOOLEAN
    <3>1. CASE powerTriggered
      BY <1>1, <1>6, <2>2, <3>1 DEF PowerFires, WorldTypes, MachineTypes
    <3>2. CASE ~powerTriggered
      <4>1. requests < MaxRequests /\ powerTriggered' = TRUE /\ requests' = requests + 1
        BY <1>6, <2>2, <3>2 DEF PowerFires
      <4>2. requests \in 0 .. MaxRequests
        BY <1>1 DEF WorldTypes
      <4>3. requests' \in 0 .. MaxRequests
        BY <4>1, <4>2, RequestsAssumption
      <4>4. timers' = [timers EXCEPT !["power"] = Off] /\ UNCHANGED <<stage, dimAlpha, panel>>
        BY <1>6 DEF PowerFires
      <4>5. QED
        BY <4>1, <4>3, <4>4
    <3>3. QED
      BY <3>1, <3>2
  <2>4. /\ timers' \in [Timers -> Tokens]
        /\ \A u \in Timers : timers'[u] # "stale"
        /\ timers'["power"] = Off
        /\ \A u \in Timers : u # "power" => timers'[u] = timers[u]
    BY <1>2, <2>2, <2>3 DEF Tokens
  <2>5. MachineTypes'
    BY <1>1, <2>3, <2>4 DEF MachineTypes
  <2>6. WorldTypes'
    BY <1>1, <2>1, <2>3 DEF Fires, inhibitVars, WorldTypes
  <2>7. timers'["dim"] = timers["dim"] /\ timers'["blank"] = timers["blank"]
        /\ timers'["fade"] = timers["fade"]
    BY <1>2, <2>4
  <2>8. StageShows' /\ CountdownRuns'
    BY <2>2, <2>3, <2>7 DEF StageShows, CountdownRuns
  <2>9. InhibitedStaysAwake' /\ PausedStaysQuiet' /\ WholeCountdown' /\ NotifierKnows'
    BY <2>2, <2>4 DEF InhibitedStaysAwake, PausedStaysQuiet, WholeCountdown, NotifierKnows
  <2>10. QED
    BY <2>5, <2>6, <2>8, <2>9, TypesJoin
<1>7. QED
  BY <1>3, <1>4, <1>5, <1>6 DEF TimerFires

----------------------------------------------------------------------------
(* The theorems *)

\* Every step keeps the inductive invariant.
LEMMA NextIdle == IdleIInv /\ [IdleNext]_idleVars => IdleIInv'
<1> SUFFICES ASSUME IdleIInv, [IdleNext]_idleVars
             PROVE  IdleIInv'
  OBVIOUS
<1>1. CASE Outside
  BY <1>1, SessionKeeps, InhibitorsKeep, SilentKeeps, SettingsKeep DEF Outside
<1>2. CASE TimerFires
  BY <1>2, TimersKeep
<1>3. CASE PrepareForSleep \/ Resume \/ DbusSimulates
  BY <1>3, SleepKeeps
<1>4. CASE \E inhibited \in BOOLEAN : DbusInhibits(inhibited)
  BY <1>4, InhibitorsKeep
<1>5. CASE UNCHANGED idleVars
  <2>1. WorldTypes'
    BY <1>5, TypesSplit DEF IdleIInv, idleVars, inhibitVars, worldVars, WorldTypes
  <2>2. Inhibited' = Inhibited /\ NotifierKnows'
    BY <1>5 DEF IdleIInv, idleVars, inhibitVars, Inhibited, NotifierKnows
  <2>3. QED
    BY <1>5, <2>1, <2>2, MachineKept DEF idleVars, worldVars
<1>6. QED
  BY <1>1, <1>2, <1>3, <1>4, <1>5 DEF IdleNext

\* The inductive invariant of the idle machine holds whatever input, inhibitors,
\* captures, settings, terminals, suspends and timers do.
THEOREM IdleInvariance == IdleSpec => []IdleIInv
<1>1. IdleInit => IdleIInv
  BY InitIdle
<1>2. IdleIInv /\ [IdleNext]_idleVars => IdleIInv'
  BY NextIdle
<1>3. QED
  BY <1>1, <1>2, PTL DEF IdleSpec

\* The fields of IdleState keep to their types, and the power worker's queue to its
\* bound.
THEOREM IdleTypeCorrect == IdleSpec => []IdleTypes
<1>1. IdleIInv => IdleTypes
  BY DEF IdleIInv
<1>2. QED
  BY <1>1, IdleInvariance, PTL

\* refresh_idle_inhibit and its callers: nothing inhibited is ever dark or counting
\* down.
THEOREM StaysAwake == IdleSpec => []InhibitedStaysAwake
<1>1. IdleIInv => InhibitedStaysAwake
  BY DEF IdleIInv
<1>2. QED
  BY <1>1, IdleInvariance, PTL

\* on_session_paused: nothing counts down on another terminal.
THEOREM StaysQuiet == IdleSpec => []PausedStaysQuiet
<1>1. IdleIInv => PausedStaysQuiet
  BY DEF IdleIInv
<1>2. QED
  BY <1>1, IdleInvariance, PTL

\* arm_activity_timers: no timer runs on over an activity.
THEOREM CountdownsWhole == IdleSpec => []WholeCountdown
<1>1. IdleIInv => WholeCountdown
  BY DEF IdleIInv
<1>2. QED
  BY <1>1, IdleInvariance, PTL

\* The stage, the overlay, the backlight and the timers agree.
THEOREM StagesShow == IdleSpec => []StageShows
<1>1. IdleIInv => StageShows
  BY DEF IdleIInv
<1>2. QED
  BY <1>1, IdleInvariance, PTL

\* An active session that nothing inhibits counts down to what the user configured.
THEOREM CountsDown == IdleSpec => []CountdownRuns
<1>1. IdleIInv => CountdownRuns
  BY DEF IdleIInv
<1>2. QED
  BY <1>1, IdleInvariance, PTL

\* Whatever holds the screen keeps it lit and nothing counting down.
THEOREM HeldAwake == IdleSpec => []HeldStaysAwake
<1>1. IdleIInv => HeldStaysAwake
  BY DEF IdleIInv, HeldStaysAwake
<1>2. QED
  BY <1>1, IdleInvariance, PTL

\* The countdown starts whenever it should, and always whole.
THEOREM CountsSound == IdleSpec => []CountdownSound
<1>1. IdleIInv => CountdownSound
  BY DEF IdleIInv, CountdownSound
<1>2. QED
  BY <1>1, IdleInvariance, PTL

\* automatic_power_fired is the only handler that asks logind for anything.
LEMMA OnlyPowerAsks ==
    ASSUME IdleIInv, [IdleNext]_idleVars, requests' > requests
    PROVE  PowerFires
<1>1. requests \in Nat
  BY RequestsAssumption DEF IdleIInv, IdleTypes
<1>2. ~(requests' = requests) /\ ~(requests' = requests - 1)
  BY <1>1
<1>3. ~UNCHANGED worldVars /\ ~UNCHANGED idleVars
  BY <1>2 DEF worldVars, idleVars
<1>4. ~(DimFires \/ FadeFires \/ BlankFires)
  BY <1>2 DEF DimFires, FadeFires, BlankFires
<1>5. ~(Input \/ SessionPaused \/ SessionActivated \/ SettingsApplied \/ PowerWorkerAsks)
  BY <1>2, <1>3 DEF Input, SessionPaused, SessionActivated, SettingsApplied, PowerWorkerAsks
<1>6. ~(\E s \in Surfaces : SurfaceInhibits(s) \/ SurfaceUninhibits(s) \/ SurfaceDies(s))
  BY <1>3 DEF SurfaceInhibits, SurfaceUninhibits, SurfaceDies
<1>7. ~(CaptureBegins \/ CaptureEnds \/ CaptureRecords \/ CaptureFinishes \/ RecordingStops
          \/ RecordingFails)
  BY <1>3 DEF CaptureBegins, CaptureEnds, CaptureRecords, CaptureFinishes, RecordingStops,
              RecordingFails, CaptureStep, Forgets
<1>8. ~(PrepareForSleep \/ Resume \/ DbusSimulates)
  BY <1>2, <1>3 DEF PrepareForSleep, Resume, DbusSimulates
<1>9. ~(\E inhibited \in BOOLEAN : DbusInhibits(inhibited))
  BY <1>3 DEF DbusInhibits
<1>10. QED
  BY <1>3, <1>4, <1>5, <1>6, <1>7, <1>8, <1>9 DEF IdleNext, Outside, TimerFires

\* automatic_power_fired: the machine is put to sleep only out of an active session
\* that nothing inhibits, at the end of a whole countdown, once per countdown.
THEOREM PowersOnlyWhenIdle == IdleSpec => PowerOnlyWhenIdle
<1>1. ASSUME IdleIInv, [IdleNext]_idleVars, requests' > requests
      PROVE  sessionActive /\ ~Inhibited /\ ~powerTriggered /\ timers["power"] = "fresh"
  <2>1. PowerFires /\ requests \in Nat
    BY <1>1, OnlyPowerAsks, RequestsAssumption DEF IdleIInv, IdleTypes
  <2>2. Fires("power") /\ "power" \in Timers
    BY <2>1 DEF PowerFires, Timers
  <2>3. timers["power"] = "fresh"
    BY <1>1, <2>2, FiresFacts
  <2>4. ~(~sessionActive \/ powerTriggered \/ Inhibited)
    BY <1>1, <2>1 DEF PowerFires
  <2>5. QED
    BY <2>3, <2>4
<1>2. IdleIInv /\ [IdleNext]_idleVars =>
          [ requests' > requests =>
              sessionActive /\ ~Inhibited /\ ~powerTriggered /\ timers["power"] = "fresh" ]_idleVars
  BY <1>1
<1>3. QED
  BY <1>2, IdleInvariance, PTL DEF IdleSpec, PowerOnlyWhenIdle

-----------------------------------------------------------------------------
(***************************************************************************)
(* The machine behind its D-Bus threads.                                   *)
(***************************************************************************)

(* What the threads send is what the loop can read *)

ServiceTypes ==
    /\ events \in Seq(IdleDbusEvent)
    /\ served \in BOOLEAN \cup {Idle} /\ watched \in BOOLEAN \cup {Idle}
    /\ logindSleeps \in BOOLEAN

\* An event sent is an IdleDbusEvent, at the end of the channel.
LEMMA SendTypes ==
    ASSUME ServiceTypes, NEW event \in IdleDbusEvent, Send(event)
    PROVE  /\ events' \in Seq(IdleDbusEvent)
           /\ Len(events') = Len(events) + 1
           /\ \A i \in 1 .. Len(events) : events'[i] = events[i]
           /\ events'[Len(events) + 1] = event
BY DEF ServiceTypes, Send

\* Reading takes the first event and moves up the others.
LEMMA ReadTypes ==
    ASSUME ServiceTypes, events # <<>>, events' = Tail(events)
    PROVE  /\ Head(events) = events[1] /\ Head(events) \in IdleDbusEvent
           /\ Len(events) \in Nat \ {0}
           /\ events' \in Seq(IdleDbusEvent)
           /\ Len(events') = Len(events) - 1
           /\ \A i \in 1 .. Len(events') : events'[i] = events[i + 1]
BY DEF ServiceTypes

\* The three events there are.
LEMMA EventKinds ==
    /\ \A value \in BOOLEAN : /\ [is |-> "Inhibited", value |-> value] \in IdleDbusEvent
                              /\ [is |-> "PreparingForSleep", value |-> value] \in IdleDbusEvent
    /\ [is |-> "SimulateActivity"] \in IdleDbusEvent
    /\ \A event \in IdleDbusEvent : event.is = "Inhibited" => event.value \in BOOLEAN
BY DEF IdleDbusEvent

\* Nothing has been sent at the start.
LEMMA InitTypes == ServiceInit => ServiceTypes
<1>1. <<>> \in Seq(IdleDbusEvent)
  BY EmptySeq
<1>2. QED
  BY <1>1, Zenon DEF ServiceInit, ServiceTypes

\* The threads, each with what it sends.
LEMMA ServiceTypesKept == ServiceTypes /\ [ServiceNext]_serviceVars => ServiceTypes'
<1> SUFFICES ASSUME ServiceTypes, [ServiceNext]_serviceVars PROVE ServiceTypes'
  OBVIOUS
<1>1. CASE Bus
  BY <1>1 DEF Bus, ClientCalls, ClientLeaves, threadVars, ServiceTypes
<1>2. CASE Inhibit \/ UnInhibit
  BY <1>2 DEF Inhibit, UnInhibit, Serves, ServiceTypes
<1>3. CASE SimulateUserActivity
  BY <1>3, SendTypes, EventKinds DEF SimulateUserActivity, Serves, ServiceTypes
<1>4. CASE ServedSends
  BY <1>4, SendTypes, EventKinds DEF ServedSends, SendInhibited, ServiceTypes
<1>5. CASE WatcherDrops
  BY <1>5 DEF WatcherDrops, ServiceTypes
<1>6. CASE WatcherSends
  BY <1>6, SendTypes, EventKinds DEF WatcherSends, SendInhibited, ServiceTypes
<1>7. CASE SleepWatcherForwards
  BY <1>7, SendTypes, EventKinds DEF SleepWatcherForwards, threadVars, ServiceTypes
<1>8. CASE LoopReadsDbus
  BY <1>8, ReadTypes DEF LoopReadsDbus, threadVars, ServiceTypes
<1>9. CASE (Outside \/ TimerFires) /\ UNCHANGED <<busVars, threadVars, events, logindSleeps>>
  BY <1>9 DEF threadVars, ServiceTypes
<1>10. CASE UNCHANGED serviceVars
  BY <1>10 DEF serviceVars, threadVars, ServiceTypes
<1>11. QED
  BY <1>1, <1>2, <1>3, <1>4, <1>5, <1>6, <1>7, <1>8, <1>9, <1>10 DEF ServiceNext, DbusThreads

----------------------------------------------------------------------------
(* The refinement *)

\* A thread of D-Bus, and the bus, leave the machine alone.
LEMMA ThreadsApart ==
    ASSUME Bus \/ DbusThreads
    PROVE  UNCHANGED idleVars
BY DEF Bus, ClientCalls, ClientLeaves, DbusThreads, Inhibit, UnInhibit, SimulateUserActivity,
       Serves, ServedSends, WatcherDrops, WatcherSends, SleepWatcherForwards

\* Every event the loop reads is a step the environment of IdleMachine may take.
LEMMA ReadsAreIdleSteps ==
    ASSUME ServiceTypes, LoopReadsDbus
    PROVE  IdleNext
<1>1. Head(events) \in IdleDbusEvent
  BY ReadTypes DEF LoopReadsDbus
<1>2. Head(events).is = "Inhibited" => Head(events).value \in BOOLEAN
  BY <1>1, EventKinds
<1>3. \/ Head(events).is = "Inhibited" /\ DbusInhibits(Head(events).value)
      \/ DbusSimulates \/ PrepareForSleep \/ Resume
  BY DEF LoopReadsDbus
<1>4. QED
  BY <1>2, <1>3 DEF IdleNext

\* So no step of the service is more than the machine alone may do.
LEMMA ServiceSteps == ServiceTypes /\ [ServiceNext]_serviceVars => [IdleNext]_idleVars
<1> SUFFICES ASSUME ServiceTypes, [ServiceNext]_serviceVars PROVE [IdleNext]_idleVars
  OBVIOUS
<1>1. CASE Bus \/ DbusThreads
  BY <1>1, ThreadsApart
<1>2. CASE LoopReadsDbus
  BY <1>2, ReadsAreIdleSteps
<1>3. CASE Outside \/ TimerFires
  BY <1>3 DEF IdleNext
<1>4. CASE UNCHANGED serviceVars
  BY <1>4 DEF serviceVars
<1>5. QED
  BY <1>1, <1>2, <1>3, <1>4 DEF ServiceNext

\* The machine behind the D-Bus threads is the machine in its environment: the threads
\* of idle/dbus.rs can do nothing to it that IdleSpec does not allow.
THEOREM ServiceImplementsMachine == ServiceSpec => IdleSpec
<1>1. ServiceInit => IdleInit /\ ServiceTypes
  BY InitTypes DEF ServiceInit
<1>2. ServiceTypes /\ [ServiceNext]_serviceVars => ServiceTypes' /\ [IdleNext]_idleVars
  BY ServiceTypesKept, ServiceSteps
<1>3. QED
  BY <1>1, <1>2, PTL DEF ServiceSpec, IdleSpec

\* What holds the screen awake does so behind the real threads.
THEOREM ServiceHeldAwake == ServiceSpec => []HeldStaysAwake
BY ServiceImplementsMachine, HeldAwake, PTL

\* The countdown is sound behind the real threads.
THEOREM ServiceCountsSound == ServiceSpec => []CountdownSound
BY ServiceImplementsMachine, CountsSound, PTL

\* logind is asked for power only when idle, behind the real threads.
THEOREM ServicePowersOnlyWhenIdle == ServiceSpec => PowerOnlyWhenIdle
BY ServiceImplementsMachine, PowersOnlyWhenIdle, PTL

----------------------------------------------------------------------------
(* The cookies and the loop *)

\* What the loop takes for the inhibition once it has read all that was sent: the last
\* Inhibited on the channel, or what it has read already.
Tells(value) ==
    \/ /\ dbusInhibited = value
       /\ \A i \in 1 .. Len(events) : events[i].is # "Inhibited"
    \/ \E i \in 1 .. Len(events) :
          /\ events[i].is = "Inhibited" /\ events[i].value = value
          /\ \A j \in 1 .. Len(events) : j > i => events[j].is # "Inhibited"

\* As long as everybody is on the bus only one thread speaks of the cookies, and what it
\* has computed under the mutex, sent or not, is what they are.
CookiesTold ==
    /\ connected \subseteq Clients
    /\ connected = Clients =>
           /\ departures = <<>> /\ watched = Idle
           /\ IF served = Idle THEN Tells(owners # {}) ELSE served = (owners # {})

\* A send that says nothing of the inhibition, and a send that does.
LEMMA SendTells ==
    ASSUME ServiceTypes, NEW event \in IdleDbusEvent, Send(event),
           dbusInhibited' = dbusInhibited
    PROVE  /\ event.is # "Inhibited" => \A value \in BOOLEAN : Tells(value) => Tells(value)'
           /\ event.is = "Inhibited" => Tells(event.value)'
<1>1. /\ Len(events) \in Nat /\ Len(events') = Len(events) + 1
      /\ \A i \in 1 .. Len(events) : events'[i] = events[i]
      /\ events'[Len(events) + 1] = event
  BY SendTypes DEF ServiceTypes
<1>2. ASSUME event.is # "Inhibited", NEW value \in BOOLEAN, Tells(value) PROVE Tells(value)'
  BY <1>1, <1>2 DEF Tells
<1>3. ASSUME event.is = "Inhibited" PROVE Tells(event.value)'
  BY <1>1, <1>3 DEF Tells
<1>4. QED
  BY <1>2, <1>3

\* The loop takes over what it reads.
LEMMA ReadTells ==
    ASSUME ServiceTypes, LoopReadsDbus, NEW value \in BOOLEAN, Tells(value)
    PROVE  Tells(value)'
<1>1. /\ Head(events) = events[1] /\ Len(events) \in Nat \ {0}
      /\ Len(events') = Len(events) - 1
      /\ \A i \in 1 .. Len(events') : events'[i] = events[i + 1]
  BY ReadTypes DEF LoopReadsDbus
<1>2. CASE events[1].is = "Inhibited"
  <2>1. dbusInhibited' = events[1].value
    BY <1>1, <1>2 DEF LoopReadsDbus, DbusInhibits
  <2>2. CASE \E i \in 2 .. Len(events) : events[i].is = "Inhibited"
    <3>1. PICK i \in 1 .. Len(events) :
              /\ events[i].is = "Inhibited" /\ events[i].value = value
              /\ \A j \in 1 .. Len(events) : j > i => events[j].is # "Inhibited"
      BY <1>1, <2>2 DEF Tells
    <3>2. i \in 2 .. Len(events)
      BY <1>1, <2>2, <3>1
    <3>3. i - 1 \in 1 .. Len(events') /\ events'[i - 1] = events[i]
      BY <1>1, <3>2
    <3>4. \A j \in 1 .. Len(events') : j > i - 1 => events'[j].is # "Inhibited"
      BY <1>1, <3>1, <3>2
    <3>5. QED
      BY <3>1, <3>3, <3>4 DEF Tells
  <2>3. CASE \A i \in 2 .. Len(events) : events[i].is # "Inhibited"
    <3>1. events[1].value = value
      BY <1>1, <1>2, <2>3 DEF Tells
    <3>2. \A i \in 1 .. Len(events') : events'[i].is # "Inhibited"
      BY <1>1, <2>3
    <3>3. QED
      BY <2>1, <3>1, <3>2 DEF Tells
  <2>4. QED
    BY <2>2, <2>3
<1>3. CASE events[1].is # "Inhibited"
  <2>1. dbusInhibited' = dbusInhibited
    BY <1>1, <1>3 DEF LoopReadsDbus, DbusSimulates, PrepareForSleep, Resume, inhibitVars
  <2>2. CASE /\ dbusInhibited = value
             /\ \A i \in 1 .. Len(events) : events[i].is # "Inhibited"
    BY <1>1, <2>1, <2>2 DEF Tells
  <2>3. ASSUME NEW i \in 1 .. Len(events),
               events[i].is = "Inhibited", events[i].value = value,
               \A j \in 1 .. Len(events) : j > i => events[j].is # "Inhibited"
        PROVE  Tells(value)'
    <3>1. i \in 2 .. Len(events)
      BY <1>1, <1>3, <2>3
    <3>2. i - 1 \in 1 .. Len(events') /\ events'[i - 1] = events[i]
      BY <1>1, <3>1
    <3>3. \A j \in 1 .. Len(events') : j > i - 1 => events'[j].is # "Inhibited"
      BY <1>1, <2>3, <3>1
    <3>4. QED
      BY <2>3, <3>2, <3>3 DEF Tells
  <2>4. QED
    BY <2>2, <2>3 DEF Tells
<1>4. QED
  BY <1>2, <1>3

\* What the user, the seat and the timers do says nothing of D-Bus.
LEMMA OutsideApart == ASSUME Outside \/ TimerFires PROVE dbusInhibited' = dbusInhibited
BY DEF Outside, TimerFires, Input, SessionPaused, SessionActivated, SettingsApplied,
       SurfaceInhibits, SurfaceUninhibits, SurfaceDies, CaptureBegins, CaptureEnds,
       CaptureRecords, CaptureFinishes, CaptureStep, Forgets, RecordingStops, RecordingFails,
       PowerWorkerAsks, DimFires, FadeFires, BlankFires, PowerFires, Fires, inhibitVars

\* Nobody has a cookie at the start, and nothing was sent.
LEMMA ToldInit == ServiceInit => CookiesTold
<1> SUFFICES ASSUME ServiceInit PROVE CookiesTold
  OBVIOUS
<1>1. Len(events) = 0 /\ dbusInhibited = FALSE /\ owners = {}
  BY DEF ServiceInit, IdleInit
<1>2. (owners # {}) = FALSE /\ \A i \in 1 .. Len(events) : FALSE
  BY <1>1
<1>3. dbusInhibited = (owners # {})
  BY <1>1, <1>2, Zenon
<1>4. Tells(owners # {})
  BY <1>2, <1>3 DEF Tells
<1>5. QED
  BY <1>4 DEF ServiceInit, CookiesTold

\* Nothing the invariant speaks of changes.
LEMMA ToldKept ==
    ASSUME CookiesTold, UNCHANGED <<connected, departures, watched, served, owners>>,
           UNCHANGED <<events, dbusInhibited>>
    PROVE  CookiesTold'
BY DEF CookiesTold, Tells

\* What the loop will have been told stays right: whoever changes the owners sends, or is
\* yet to send, what it computed.
LEMMA ToldNext ==
    ASSUME ServiceTypes, CookiesTold, [ServiceNext]_serviceVars
    PROVE  CookiesTold'
<1> USE IdleAssumption
<1>1. ASSUME NEW call \in Calls, ClientCalls(call) PROVE CookiesTold'
  BY <1>1, ToldKept DEF ClientCalls, threadVars, idleVars, inhibitVars
<1>2. ASSUME NEW c \in Clients, ClientLeaves(c) PROVE CookiesTold'
  BY <1>2 DEF ClientLeaves, CookiesTold
<1>3. CASE Inhibit \/ UnInhibit
  BY <1>3 DEF Inhibit, UnInhibit, Serves, CookiesTold
<1>4. CASE SimulateUserActivity
  BY <1>4, SendTells, EventKinds
     DEF SimulateUserActivity, Serves, CookiesTold, idleVars, inhibitVars
<1>5. CASE ServedSends
  <2>1. PICK value \in BOOLEAN : value = served
    BY <1>5 DEF ServedSends, ServiceTypes
  <2>2. Send([is |-> "Inhibited", value |-> value]) /\ dbusInhibited' = dbusInhibited
    BY <1>5, <2>1 DEF ServedSends, SendInhibited, idleVars, inhibitVars
  <2>3. Tells(value)'
    BY <2>2, SendTells, EventKinds
  <2>4. connected = Clients => value = (owners # {})
    BY <1>5, <2>1 DEF ServedSends, CookiesTold
  <2>5. QED
    BY <1>5, <2>3, <2>4 DEF ServedSends, busVars, CookiesTold
<1>6. CASE WatcherDrops \/ WatcherSends
  BY <1>6 DEF WatcherDrops, WatcherSends, busVars, CookiesTold
<1>7. CASE SleepWatcherForwards
  BY <1>7, SendTells, EventKinds
     DEF SleepWatcherForwards, busVars, threadVars, CookiesTold, idleVars, inhibitVars, ServiceTypes
<1>8. CASE LoopReadsDbus
  BY <1>8, ReadTells DEF LoopReadsDbus, busVars, threadVars, CookiesTold
<1>9. CASE (Outside \/ TimerFires) /\ UNCHANGED <<busVars, threadVars, events, logindSleeps>>
  BY <1>9, OutsideApart, ToldKept DEF busVars, threadVars
<1>10. CASE UNCHANGED serviceVars
  BY <1>10, ToldKept DEF serviceVars, busVars, threadVars, idleVars, inhibitVars
<1>11. QED
  BY <1>1, <1>2, <1>3, <1>4, <1>5, <1>6, <1>7, <1>8, <1>9, <1>10
     DEF ServiceNext, Bus, DbusThreads

\* Inhibit and UnInhibit send what they computed after letting go of the mutex; as long
\* as no client leaves, and a second thread speaks, the loop still ends at the truth.
THEOREM LoopFollows == ServiceSpec => []LoopFollowsCookies
<1>1. ServiceInit => ServiceTypes /\ CookiesTold
  BY InitTypes, ToldInit
<1>2. ServiceTypes /\ CookiesTold /\ [ServiceNext]_serviceVars => ServiceTypes' /\ CookiesTold'
  BY ServiceTypesKept, ToldNext
<1>3. CookiesTold => LoopFollowsCookies
  BY DEF CookiesTold, LoopFollowsCookies, Settled, Tells
<1>4. QED
  BY <1>1, <1>2, <1>3, PTL DEF ServiceSpec

----------------------------------------------------------------------------
(* Placement: the inductive invariant *)

\* The last of the events on their way tells of where the native window is.
Told(w) == w.notices # <<>> => w.notices[Len(w.notices)] = w.native

\* The window of an X11 client is where the model has it, or there is something to read.
Agree(w) ==
    /\ Told(w)
    /\ w.notices = <<>> /\ ~w.overruled => w.native.loc = w.position

PlaceInv == TypeOK /\ (backend = "x11" => Agree(win))

----------------------------------------------------------------------------
(* What a patch of the placement leaves, and what it takes along *)

Like(w, u) == /\ u.mode = w.mode /\ u.size = w.size
              /\ u.view = w.view /\ u.resize = w.resize

\* The basis of the pointer has gone with the window, unless none was kept.
BasisCarried(w, u) ==
    \/ Resizing(w) \/ w.basis = Nowhere
    \/ u.basis = w.basis /\ u.position = w.position
    \/ u.basis = u.position /\ u.position \in Int

\* So has the popup, in its place in the tile.
PopupCarried(w, u) ==
    /\ u.popup.open = w.popup.open
    /\ \/ u.position = w.position /\ (Resizing(w) \/ u.popup.at = w.popup.at)
       \/ /\ ~Resizing(w) /\ u.position \in Int
          /\ backend = "wayland" /\ w.popup.open /\ w.position # Nowhere =>
                u.popup.at = w.popup.at + (u.position - w.position)

Patched(w, u) ==
    /\ u \in Wins /\ Like(w, u)
    /\ backend = "x11" /\ Agree(w) => Agree(u)
    /\ BasisCarried(w, u)
    /\ PopupCarried(w, u)

LEMMA Fields ==
    ASSUME NEW w \in Wins
    PROVE  /\ w.mode \in {"None", "Floating", "Tiled"}
           /\ w.maximized \in BOOLEAN /\ w.explicit \in BOOLEAN /\ w.overruled \in BOOLEAN
           /\ w.position \in Places /\ w.rendered \in Places /\ w.tile \in Places
           /\ w.basis \in Places /\ w.size \in Nat /\ w.view \in Views \cup {NoView}
           /\ w.native \in Rects /\ w.notices \in Seq(Rects)
           /\ w.move \in Moves /\ w.resize \in Resizes /\ w.popup \in Popups
BY DEF Wins

LEMMA Known == ASSUME NEW p \in Places, p # Nowhere PROVE p \in Int
BY DEF Places

LEMMA PatchedSelf == ASSUME NEW w \in Wins PROVE Patched(w, w)
BY DEF Patched, Like, BasisCarried, PopupCarried

\* One patch after the other is a patch.
LEMMA PatchedOn ==
    ASSUME NEW w \in Wins, NEW u \in Wins, NEW x \in Wins, Patched(w, u), Patched(u, x)
    PROVE  Patched(w, x)
<1>1. Like(w, x) /\ (Resizing(u) <=> Resizing(w))
  BY DEF Patched, Like, Resizing
<1>2. backend = "x11" /\ Agree(w) => Agree(x)
  BY DEF Patched
<1>3. BasisCarried(w, x)
  BY <1>1, PlacementAssumption DEF Patched, BasisCarried
<1>4. PopupCarried(w, x)
  <2>1. w.popup.at \in Int /\ u.popup.at \in Int /\ x.popup.at \in Int
    BY Fields DEF Popups
  <2>2. w.position # Nowhere => w.position \in Int
    BY Fields, Known
  <2>3. PopupCarried(w, u) /\ PopupCarried(u, x)
    BY DEF Patched
  <2>4. CASE u.position = w.position /\ (Resizing(w) \/ u.popup.at = w.popup.at)
    BY <1>1, <2>3, <2>4 DEF PopupCarried
  <2>5. CASE x.position = u.position /\ (Resizing(u) \/ x.popup.at = u.popup.at)
    BY <1>1, <2>3, <2>5 DEF PopupCarried
  <2>6. CASE /\ ~Resizing(w) /\ u.position \in Int /\ x.position \in Int
             /\ backend = "wayland" /\ w.popup.open /\ w.position # Nowhere =>
                   u.popup.at = w.popup.at + (u.position - w.position)
             /\ backend = "wayland" /\ u.popup.open /\ u.position # Nowhere =>
                   x.popup.at = u.popup.at + (x.position - u.position)
    <3>1. x.popup.open = w.popup.open /\ u.popup.open = w.popup.open
      BY <2>3 DEF PopupCarried
    <3>2. u.position # Nowhere
      BY <2>6, PlacementAssumption
    <3>3. ASSUME backend = "wayland", w.popup.open, w.position # Nowhere
          PROVE  x.popup.at = w.popup.at + (x.position - w.position)
      BY <2>1, <2>2, <2>6, <3>1, <3>2, <3>3
    <3>4. QED
      BY <2>6, <3>1, <3>3 DEF PopupCarried
  <2>7. QED
    BY <1>1, <2>3, <2>4, <2>5, <2>6 DEF PopupCarried
<1>5. QED
  BY <1>1, <1>2, <1>3, <1>4 DEF Patched

----------------------------------------------------------------------------
(* The arithmetic of the gateway *)

LEMMA RoundTyped == ASSUME NEW n \in Int PROVE RoundHalf(n) \in Int
BY DEF RoundHalf

LEMMA WithinTyped ==
    ASSUME NEW lo \in Int, NEW hi \in Int, NEW p \in Int PROVE Within(lo, hi, p) \in Int
BY DEF Within, Greater

LEMMA ViewTyped ==
    ASSUME NEW v \in Views \cup {NoView}
    PROVE  v.len \in Nat /\ (v # NoView => v.loc \in Int) /\ (v.len > 0 => v # NoView)
<1>1. CASE v = NoView
  BY <1>1 DEF NoView
<1>2. CASE v \in Views
  BY <1>2, PlacementAssumption DEF NoView
<1>3. QED
  BY <1>1, <1>2

LEMMA ClampTyped ==
    ASSUME NEW v \in Views \cup {NoView}, v # NoView, NEW size \in Nat, NEW p \in Int
    PROVE  /\ ClampPosition(v, size, p) \in Int
           /\ ClampPositionForMove(v, size, p) \in Int
           /\ CenteredPlacement(v, size) \in Int
<1>1. v.loc \in Int /\ v.len \in Nat
  BY ViewTyped
<1>2. ClampPosition(v, size, p) \in Int
  <2>1. v.loc + v.len - size \in Int
    BY <1>1
  <2>2. QED
    BY <1>1, <2>1, WithinTyped DEF ClampPosition
<1>3. CenteredPlacement(v, size) \in Int
  BY <1>1, RoundTyped DEF CenteredPlacement
<1>4. Within(2 * v.loc - size, 2 * (v.loc + v.len) - size, 2 * p) \in Int
  <2>1. 2 * v.loc - size \in Int /\ 2 * (v.loc + v.len) - size \in Int /\ 2 * p \in Int
    BY <1>1
  <2>2. QED
    BY <2>1, WithinTyped
<1>5. QED
  BY <1>2, <1>3, <1>4, RoundTyped DEF ClampPositionForMove

LEMMA SizeTyped == ASSUME NEW w \in Wins PROVE FloatingSize(w) \in Nat
BY Fields DEF FloatingSize, Rects

----------------------------------------------------------------------------
(* The patches, one field at a time *)

LEMMA PopupTyped ==
    ASSUME NEW w \in Wins, NEW q \in Popups
    PROVE  LET u == [w EXCEPT !.popup = q]
           IN  /\ u \in Wins /\ Like(w, u) /\ u.popup = q
               /\ u.position = w.position /\ u.basis = w.basis /\ u.rendered = w.rendered
               /\ u.tile = w.tile /\ (Agree(w) <=> Agree(u))
BY DEF Wins, Like, Agree, Told

LEMMA AtTyped ==
    ASSUME NEW q \in Popups, NEW n \in Int
    PROVE  /\ [q EXCEPT !.at = n] \in Popups
           /\ [q EXCEPT !.at = n].at = n
           /\ [q EXCEPT !.at = n].open = q.open
BY DEF Popups

LEMMA TranslateTyped ==
    ASSUME NEW w \in Wins, NEW d \in Int
    PROVE  LET u == TranslatePopup(w, d)
           IN  /\ u \in Wins /\ Like(w, u)
               /\ u.position = w.position /\ u.basis = w.basis /\ (Agree(w) <=> Agree(u))
               /\ u.popup.open = w.popup.open
               /\ w.popup.open => u.popup.at = w.popup.at + d
<1> DEFINE q == [w.popup EXCEPT !.at = @ + d]
<1>1. q \in Popups /\ q.at = w.popup.at + d /\ q.open = w.popup.open
  <2>1. w.popup \in Popups /\ w.popup.at \in Int
    BY Fields DEF Popups
  <2>2. QED
    BY <2>1, AtTyped
<1>2. TranslatePopup(w, d) = IF w.popup.open THEN [w EXCEPT !.popup = q] ELSE w
  BY DEF TranslatePopup
<1>3. QED
  <2> HIDE DEF q
  <2>1. CASE w.popup.open
    <3>1. TranslatePopup(w, d) = [w EXCEPT !.popup = q]
      BY <1>2, <2>1
    <3>2. QED
      BY <1>1, <3>1, PopupTyped
  <2>2. CASE ~w.popup.open
    BY <1>2, <2>2 DEF Like
  <2>3. QED
    BY <2>1, <2>2

\* Whatever it is configured to, the X server tells of it.
LEMMA ConfigureTyped ==
    ASSUME NEW w \in Wins, NEW rect \in Rects
    PROVE  LET u == Configure(w, rect)
           IN  /\ u \in Wins /\ Like(w, u)
               /\ u.position = w.position /\ u.basis = w.basis /\ u.popup = w.popup
               /\ u.overruled = w.overruled
               /\ backend = "x11" => /\ u.native = rect
                                     /\ Told(w) => Told(u)
                                     /\ u.notices = <<>> => w.notices = <<>> /\ rect = w.native
               /\ backend # "x11" => u = w
<1>1. /\ Append(w.notices, rect) \in Seq(Rects) /\ Append(w.notices, rect) # <<>>
      /\ Append(w.notices, rect)[Len(Append(w.notices, rect))] = rect
  BY Fields
<1>2. CASE backend # "x11"
  BY <1>2 DEF Configure, Like
<1>3. CASE backend = "x11" /\ rect = w.native
  <2>1. Configure(w, rect) = [w EXCEPT !.native = rect, !.notices = w.notices]
    BY <1>3 DEF Configure
  <2>2. QED
    BY <1>3, <2>1 DEF Wins, Like, Told
<1>4. CASE backend = "x11" /\ rect # w.native
  <2>1. Configure(w, rect) = [w EXCEPT !.native = rect, !.notices = Append(w.notices, rect)]
    BY <1>4 DEF Configure
  <2>2. QED
    BY <1>1, <1>4, <2>1 DEF Wins, Like, Told
<1>5. QED
  BY <1>2, <1>3, <1>4

\* What is configured and not given to the model leaves the two in agreement.
LEMMA ConfigureAgrees ==
    ASSUME NEW w \in Wins, NEW rect \in Rects, backend = "x11", Agree(w)
    PROVE  Agree(Configure(w, rect))
BY ConfigureTyped DEF Agree

LEMMA UpdatePositionTyped ==
    ASSUME NEW w \in Wins, NEW p \in Int
    PROVE  LET u == UpdatePosition(w, p)
           IN  /\ u \in Wins /\ Like(w, u)
               /\ u.basis = w.basis /\ u.popup = w.popup
               /\ u.native = w.native /\ u.notices = w.notices
               /\ u.position = (IF Resizing(w) THEN w.position ELSE p)
               /\ backend = "x11" /\ ~u.overruled => u.position = p
<1> DEFINE lost == backend = "x11" /\ p # w.position
           kept == [w EXCEPT !.overruled = lost]
           put  == [w EXCEPT !.position = p, !.overruled = FALSE]
<1>1. UpdatePosition(w, p) = IF Resizing(w) THEN kept ELSE put
  BY Zenon DEF UpdatePosition
<1>2. put \in Wins /\ Like(w, put) /\ put.basis = w.basis /\ put.popup = w.popup
      /\ put.native = w.native /\ put.notices = w.notices /\ put.position = p
  BY DEF Wins, Like, Places
<1>3. lost \in BOOLEAN
  OBVIOUS
<1>4. kept \in Wins /\ Like(w, kept) /\ kept.basis = w.basis /\ kept.popup = w.popup
      /\ kept.native = w.native /\ kept.notices = w.notices /\ kept.position = w.position
      /\ kept.overruled = lost
  <2> HIDE DEF lost
  <2> QED
    BY <1>3 DEF Wins, Like
<1>5. ASSUME backend = "x11", ~kept.overruled PROVE w.position = p
  BY <1>4, <1>5, Zenon
<1>6. QED
  <2> HIDE DEF kept, put
  <2>1. CASE Resizing(w)
    BY <1>1, <1>4, <1>5, <2>1
  <2>2. CASE ~Resizing(w)
    BY <1>1, <1>2, <2>2
  <2>3. QED
    BY <2>1, <2>2

\* The model takes on where the native window is, or is overruled by a resize.
LEMMA PlacedAgrees ==
    ASSUME NEW w \in Wins, NEW p \in Int, backend = "x11", Told(w), w.native.loc = p
    PROVE  Agree(UpdatePosition(w, p))
BY UpdatePositionTyped DEF Agree, Told

LEMMA BasisTyped ==
    ASSUME NEW w \in Wins, NEW p \in Int
    PROVE  LET u == UpdateFloatingPointerBasis(w, p)
           IN  /\ u \in Wins /\ Like(w, u)
               /\ u.position = w.position /\ u.popup = w.popup
               /\ u.native = w.native /\ u.notices = w.notices /\ u.overruled = w.overruled
               /\ (Agree(w) <=> Agree(u))
               /\ u.basis = (IF IsFloating(w) /\ w.basis # Nowhere THEN p ELSE w.basis)
BY DEF UpdateFloatingPointerBasis, Wins, Like, Places, Agree, Told

LEMMA FocusedTyped ==
    ASSUME NEW w \in Wins, NEW p \in Int
    PROVE  LET u == Focused([w EXCEPT !.explicit = TRUE], p)
           IN  /\ u \in Wins /\ Like(w, u)
               /\ u.position = w.position /\ u.popup = w.popup
               /\ u.native = w.native /\ u.notices = w.notices /\ u.overruled = w.overruled
               /\ u.basis = w.basis \/ u.basis = p
BY DEF Focused, Wins, Like, Places

----------------------------------------------------------------------------
(* The patches of the placement *)

\* apply_floating_position: the native window, the basis and the model in one step.
LEMMA ApplyPlaces ==
    ASSUME NEW w \in Wins, IsFloating(w), NEW p \in Int,
           NEW byMove \in BOOLEAN, NEW follow \in BOOLEAN
    PROVE  LET u == ApplyFloatingPosition(w, p, byMove, follow)
           IN  /\ u \in Wins /\ Like(w, u)
               /\ backend = "x11" /\ Told(w) => Agree(u)
               /\ u.position = (IF Resizing(w) THEN w.position ELSE p)
               /\ BasisCarried(w, u)
               /\ follow => PopupCarried(w, u)
               /\ ~follow => u.popup = w.popup
<1> DEFINE f == IF byMove THEN Focused([w EXCEPT !.explicit = TRUE], p) ELSE w
           rect == [f.native EXCEPT !.loc = p]
           c == Configure(f, [w.native EXCEPT !.loc = p])
           b == UpdateFloatingPointerBasis(c, p)
           placed == UpdatePosition(b, p)
           u == ApplyFloatingPosition(w, p, byMove, follow)
<1>1. /\ f \in Wins /\ Like(w, f) /\ f.position = w.position /\ f.popup = w.popup
      /\ f.native = w.native /\ f.notices = w.notices
      /\ f.basis = w.basis \/ f.basis = p
  BY FocusedTyped DEF Like
<1>2. [w.native EXCEPT !.loc = p] \in Rects /\ [w.native EXCEPT !.loc = p].loc = p
  BY Fields DEF Rects
<1>3. /\ c \in Wins /\ Like(f, c) /\ c.position = f.position /\ c.popup = f.popup
      /\ c.basis = f.basis
      /\ backend = "x11" => c.native.loc = p /\ (Told(f) => Told(c))
  <2> HIDE DEF f
  <2> QED
    BY <1>1, <1>2, ConfigureTyped
<1>4. /\ b \in Wins /\ Like(c, b) /\ b.position = c.position /\ b.popup = c.popup
      /\ b.native = c.native /\ b.notices = c.notices
      /\ b.basis = (IF IsFloating(c) /\ c.basis # Nowhere THEN p ELSE c.basis)
  <2> HIDE DEF c
  <2> QED
    BY <1>3, BasisTyped
<1>5. /\ placed \in Wins /\ Like(b, placed) /\ placed.basis = b.basis
      /\ placed.popup = b.popup
      /\ placed.position = (IF Resizing(b) THEN b.position ELSE p)
      /\ backend = "x11" /\ Told(b) /\ b.native.loc = p => Agree(placed)
  <2> HIDE DEF b
  <2> QED
    BY <1>4, UpdatePositionTyped, PlacedAgrees
<1>6. u = IF follow /\ w.position # Nowhere /\ backend = "wayland"
          THEN TranslatePopup(placed, p - w.position) ELSE placed
  BY Zenon DEF ApplyFloatingPosition
<1> HIDE DEF f, c, b, placed, u
<1>7. /\ Like(w, placed) /\ placed.popup = w.popup
      /\ backend = "x11" /\ Told(w) => Agree(placed)
      /\ placed.position = (IF Resizing(w) THEN w.position ELSE p)
  <2>1. Like(w, placed) /\ placed.popup = w.popup /\ (Resizing(b) <=> Resizing(w))
        /\ b.position = w.position
    BY <1>1, <1>3, <1>4, <1>5 DEF Like, Resizing
  <2>2. backend = "x11" /\ Told(w) => Told(b) /\ b.native.loc = p
    BY <1>1, <1>3, <1>4 DEF Told
  <2>3. QED
    BY <1>5, <2>1, <2>2
<1>8. BasisCarried(w, placed)
  <2>1. IsFloating(c) /\ (w.basis # Nowhere => c.basis # Nowhere)
    BY <1>1, <1>3, PlacementAssumption DEF IsFloating, Like
  <2>2. w.basis # Nowhere => placed.basis = p
    BY <1>4, <1>5, <2>1
  <2>3. QED
    BY <1>7, <2>2 DEF BasisCarried
<1>9. CASE follow /\ w.position # Nowhere /\ backend = "wayland"
  <2>1. w.position \in Int /\ p - w.position \in Int
    BY <1>9, Fields, Known
  <2>2. /\ u \in Wins /\ Like(placed, u) /\ u.position = placed.position
        /\ u.basis = placed.basis /\ u.popup.open = placed.popup.open
        /\ (Agree(placed) <=> Agree(u))
        /\ placed.popup.open => u.popup.at = placed.popup.at + (p - w.position)
    BY <1>5, <1>6, <1>9, <2>1, TranslateTyped
  <2>3. Like(w, u) /\ BasisCarried(w, u)
    BY <1>7, <1>8, <2>2 DEF Like, BasisCarried
  <2>4. PopupCarried(w, u)
    BY <1>7, <2>1, <2>2 DEF PopupCarried
  <2>5. QED
    BY <1>7, <1>9, <2>2, <2>3, <2>4 DEF u
<1>10. CASE ~(follow /\ w.position # Nowhere /\ backend = "wayland")
  <2>1. u = placed
    BY <1>6, <1>10
  <2>2. follow => PopupCarried(w, placed)
    BY <1>7, <1>10 DEF PopupCarried
  <2>3. QED
    BY <1>5, <1>7, <1>8, <1>10, <2>1, <2>2 DEF u
<1>11. QED
  BY <1>9, <1>10

LEMMA ApplyPatches ==
    ASSUME NEW w \in Wins, IsFloating(w), NEW p \in Int, NEW byMove \in BOOLEAN
    PROVE  Patched(w, ApplyFloatingPosition(w, p, byMove, TRUE))
BY ApplyPlaces DEF Patched, Agree

LEMMA CenterPatches ==
    ASSUME NEW w \in Wins PROVE Patched(w, CenterFloatingWindow(w))
<1> DEFINE p == ClampPosition(w.view, FloatingSize(w), CenteredPlacement(w.view, FloatingSize(w)))
<1>1. CASE CenterFloatingWindow(w) = w
  BY <1>1, PatchedSelf
<1>2. CASE /\ Movable(w) /\ w.view # NoView
           /\ CenterFloatingWindow(w) = ApplyFloatingPosition(w, p, FALSE, TRUE)
  <2>1. w.view \in Views \cup {NoView} /\ w.view # NoView /\ FloatingSize(w) \in Nat
    BY <1>2, Fields, SizeTyped
  <2>2. CenteredPlacement(w.view, FloatingSize(w)) \in Int
    <3>1. 0 \in Int
      OBVIOUS
    <3>2. QED
      BY <2>1, <3>1, ClampTyped
  <2>3. p \in Int
    BY <2>1, <2>2, ClampTyped
  <2>4. QED
    <3> HIDE DEF p
    <3> QED
      BY <1>2, <2>3, ApplyPatches DEF Movable
<1>3. QED
  BY <1>1, <1>2 DEF CenterFloatingWindow

LEMMA ClampPatches ==
    ASSUME NEW w \in Wins PROVE Patched(w, ClampFloatingWindow(w))
<1> DEFINE p == ClampPosition(w.view, FloatingSize(w), w.position)
<1>1. CASE ClampFloatingWindow(w) = w
  BY <1>1, PatchedSelf
<1>2. CASE /\ Movable(w) /\ w.position # Nowhere /\ w.view.len # 0
           /\ ClampFloatingWindow(w) = ApplyFloatingPosition(w, p, FALSE, TRUE)
  <2>1. w.view # NoView /\ w.position \in Int
    BY <1>2, Fields, Known DEF NoView
  <2>2. p \in Int
    BY <2>1, Fields, SizeTyped, ClampTyped
  <2>3. QED
    <3> HIDE DEF p
    <3> QED
      BY <1>2, <2>2, ApplyPatches DEF Movable
<1>3. QED
  BY <1>1, <1>2 DEF ClampFloatingWindow

LEMMA RecentredPatches ==
    ASSUME NEW w \in Wins PROVE Patched(w, ClampFloatingWindow(CenterFloatingWindow(w)))
<1>1. Patched(w, CenterFloatingWindow(w))
  BY CenterPatches
<1>2. CenterFloatingWindow(w) \in Wins
  BY <1>1 DEF Patched
<1>3. Patched(CenterFloatingWindow(w), ClampFloatingWindow(CenterFloatingWindow(w)))
  BY <1>2, ClampPatches
<1>4. QED
  BY <1>1, <1>2, <1>3, PatchedOn DEF Patched

LEMMA MaximizedPatches ==
    ASSUME NEW w \in Wins, NEW value \in BOOLEAN
    PROVE  Patched(w, UpdateClientMaximized(w, value))
<1> DEFINE m == [w EXCEPT !.maximized = value]
<1>1. Patched(w, m)
  BY DEF Wins, Patched, Like, Agree, Told, BasisCarried, PopupCarried
<1>2. m \in Wins
  BY <1>1 DEF Patched
<1>3. Patched(m, ClampFloatingWindow(CenterFloatingWindow(m)))
  <2> HIDE DEF m
  <2> QED
    BY <1>2, RecentredPatches
<1>4. Patched(w, ClampFloatingWindow(CenterFloatingWindow(m)))
  <2> HIDE DEF m
  <2> QED
    BY <1>1, <1>2, <1>3, PatchedOn DEF Patched
<1>5. UpdateClientMaximized(w, value) \in {w, m, ClampFloatingWindow(CenterFloatingWindow(m))}
  BY DEF UpdateClientMaximized
<1>6. QED
  <2> HIDE DEF m
  <2> QED
    BY <1>1, <1>4, <1>5, PatchedSelf

----------------------------------------------------------------------------
(* The patches that size a window *)

\* What a change of size leaves: its popup is placed anew.
Resized(w, u) ==
    /\ u \in Wins /\ u.mode = w.mode /\ u.view = w.view /\ u.resize = w.resize
    /\ backend = "x11" /\ Agree(w) => Agree(u)
    /\ BasisCarried(w, u)
    /\ u = w \/ u.size # w.size

LEMMA OriginsTyped ==
    ASSUME NEW w \in Wins
    PROVE  BoxOrigin(w) \in Places /\ TileContentOrigin(w) \in Places
<1>1. w.view # NoView => w.view.loc \in Places
  BY Fields, ViewTyped DEF Places
<1>2. QED
  BY <1>1, Fields DEF BoxOrigin, TileContentOrigin

LEMMA PopupPlaceTyped ==
    ASSUME NEW w \in Wins, NEW rel \in Int PROVE PopupTilePosition(w, rel) \in Int
<1>1. CASE Nowhere \in {BoxOrigin(w), TileContentOrigin(w)}
  BY <1>1 DEF PopupTilePosition
<1>2. CASE Nowhere \notin {BoxOrigin(w), TileContentOrigin(w)}
  <2>1. BoxOrigin(w) \in Int /\ TileContentOrigin(w) \in Int
    BY <1>2, OriginsTyped, Known
  <2>2. QED
    BY <1>2, <2>1 DEF PopupTilePosition
<1>3. QED
  BY <1>1, <1>2

LEMMA UnconstrainedTyped ==
    ASSUME NEW anchor \in Int, NEW size \in Nat PROVE Unconstrained(anchor, size) \in Int
<1>1. size - PopupSize \in Int
  BY PlacementAssumption
<1>2. QED
  BY <1>1, WithinTyped DEF Unconstrained

\* A popup that is put elsewhere in its tile leaves the window alone.
OnlyPopup(w, u) ==
    /\ u \in Wins /\ Like(w, u) /\ u.position = w.position /\ u.basis = w.basis
    /\ u.popup.open = w.popup.open
    /\ Agree(w) <=> Agree(u)

LEMMA OnlyPopupOn ==
    ASSUME NEW w, NEW u, NEW x, OnlyPopup(w, u), OnlyPopup(u, x) PROVE OnlyPopup(w, x)
BY DEF OnlyPopup, Like

LEMMA RelTyped ==
    ASSUME NEW q \in Popups, NEW n \in Int
    PROVE  [q EXCEPT !.rel = n] \in Popups /\ [q EXCEPT !.rel = n].open = q.open
BY DEF Popups

LEMMA MovePopupTyped ==
    ASSUME NEW w \in Wins, NEW at \in Int PROVE OnlyPopup(w, MovePopup(w, at))
<1> DEFINE q == [w.popup EXCEPT !.at = at]
<1>1. q \in Popups /\ q.open = w.popup.open
  BY Fields, AtTyped
<1>2. MovePopup(w, at) = [w EXCEPT !.popup = q]
  BY DEF MovePopup
<1>3. QED
  <2> HIDE DEF q
  <2> QED
    BY <1>1, <1>2, PopupTyped DEF OnlyPopup

LEMMA ClampPopupTyped ==
    ASSUME NEW w \in Wins PROVE OnlyPopup(w, ClampPopupToTile(w))
<1> DEFINE room == (IF w.view # NoView THEN w.view.len ELSE w.size) - PopupSize
           at == Within(0, room, w.popup.at)
<1>1. room \in Int /\ w.popup.at \in Int
  BY Fields, ViewTyped, PlacementAssumption DEF Popups
<1>2. at \in Int
  <2> HIDE DEF room
  <2>1. 0 \in Int
    OBVIOUS
  <2>2. Within(0, room, w.popup.at) \in Int
    BY ONLY <1>1, <2>1, WithinTyped
  <2>3. QED
    BY <2>2
<1>3. ClampPopupToTile(w) = MovePopup(w, at)
  BY DEF ClampPopupToTile, MovePopup
<1>4. QED
  <2> HIDE DEF at
  <2> QED
    BY <1>2, <1>3, MovePopupTyped

LEMMA ReconstrainTyped ==
    ASSUME NEW w \in Wins PROVE OnlyPopup(w, Reconstrain(w))
<1> DEFINE rel == Unconstrained(w.popup.anchor, w.size)
           at == PopupTilePosition(w, rel)
           q == [w.popup EXCEPT !.rel = rel]
           r == [w EXCEPT !.popup = q]
<1>1. rel \in Int
  BY Fields, UnconstrainedTyped DEF Popups
<1>2. at \in Int
  <2> HIDE DEF rel
  <2> QED
    BY <1>1, PopupPlaceTyped
<1>3. q \in Popups /\ q.open = w.popup.open
  <2> HIDE DEF rel
  <2> QED
    BY <1>1, Fields, RelTyped
<1>4. OnlyPopup(w, r)
  <2> HIDE DEF q
  <2> QED
    BY <1>3, PopupTyped DEF OnlyPopup
<1>5. OnlyPopup(r, MovePopup(r, at))
  <2> HIDE DEF r, at
  <2> QED
    BY <1>2, <1>4, MovePopupTyped DEF OnlyPopup
<1>6. OnlyPopup(MovePopup(r, at), ClampPopupToTile(MovePopup(r, at)))
  <2> HIDE DEF r, at
  <2> QED
    BY <1>5, ClampPopupTyped DEF OnlyPopup
<1>7. OnlyPopup(w, ClampPopupToTile(MovePopup(r, at)))
  <2> HIDE DEF r, at
  <2> QED
    BY <1>4, <1>5, <1>6, OnlyPopupOn
<1>8. Reconstrain(w) \in {w, r, ClampPopupToTile(MovePopup(r, at))}
  BY DEF Reconstrain
<1>9. OnlyPopup(w, w)
  BY DEF OnlyPopup, Like
<1>10. QED
  <2> HIDE DEF r, at
  <2> QED
    BY <1>4, <1>7, <1>8, <1>9

LEMMA GeometryResizes ==
    ASSUME NEW w \in Wins, NEW size \in Nat, NEW propagate \in BOOLEAN
    PROVE  Resized(w, UpdateGeometry(w, size, propagate))
<1> DEFINE asked == [w EXCEPT !.size = size]
           loc   == IF ~IsFloating(w) THEN Root
                    ELSE IF w.position # Nowhere THEN w.position ELSE w.native.loc
           rect  == [loc |-> loc, size |-> size]
           told  == IF propagate THEN asked ELSE Configure(asked, rect)
           fit   == Reconstrain(told)
           last  == IF fit.view # NoView THEN CenterFloatingWindow(fit) ELSE fit
<1>1. UpdateGeometry(w, size, propagate) = IF Resizing(w) \/ w.size = size THEN w ELSE last
  BY Zenon DEF UpdateGeometry
<1>2. Resized(w, w)
  BY DEF Resized, BasisCarried
<1>3. /\ asked \in Wins /\ asked.mode = w.mode /\ asked.view = w.view
      /\ asked.resize = w.resize /\ asked.position = w.position /\ asked.basis = w.basis
      /\ asked.size = size /\ (Agree(w) => Agree(asked))
  BY DEF Wins, Agree, Told
<1>4. rect \in Rects
  <2>1. loc \in Int
    BY Fields, Known, PlacementAssumption DEF Rects
  <2>2. QED
    <3> HIDE DEF loc
    <3> QED
      BY <2>1 DEF Rects
<1>5. /\ told \in Wins /\ Like(asked, told)
      /\ told.position = asked.position /\ told.basis = asked.basis
      /\ backend = "x11" /\ Agree(asked) => Agree(told)
  <2> HIDE DEF asked, rect
  <2> QED
    BY <1>3, <1>4, ConfigureTyped, ConfigureAgrees DEF Like
<1>6. OnlyPopup(told, fit)
  <2> HIDE DEF told
  <2> QED
    BY <1>5, ReconstrainTyped
<1>7. Patched(fit, last)
  <2> HIDE DEF fit
  <2> QED
    BY <1>6, CenterPatches, PatchedSelf DEF OnlyPopup
<1>8. ASSUME ~Resizing(w), w.size # size PROVE Resized(w, last)
  <2> HIDE DEF asked, told, fit, last
  <2>1. /\ last \in Wins /\ last.mode = w.mode /\ last.view = w.view
        /\ last.resize = w.resize /\ last.size = size
    BY <1>3, <1>5, <1>6, <1>7 DEF OnlyPopup, Patched, Like
  <2>2. backend = "x11" /\ Agree(w) => Agree(last)
    BY <1>3, <1>5, <1>6, <1>7 DEF OnlyPopup, Patched
  <2>3. BasisCarried(w, last)
    BY <1>3, <1>5, <1>6, <1>7 DEF OnlyPopup, Patched, BasisCarried, Like, Resizing
  <2>4. QED
    BY <1>8, <2>1, <2>2, <2>3 DEF Resized
<1>9. QED
  <2> HIDE DEF last
  <2> QED
    BY <1>1, <1>2, <1>8

\* set_window_rect: a rectangle of the shell's, or of a resize
LEMMA RectPlaces ==
    ASSUME NEW w \in Wins, IsFloating(w), NEW rect \in Rects
    PROVE  LET u == SetWindowRect(w, rect)
           IN  /\ u \in Wins /\ u.view = w.view
               /\ backend = "x11" /\ Told(w) => Agree(u)
               /\ u.position = rect.loc /\ u.size = rect.size
               /\ u.size = w.size /\ backend = "wayland" /\ w.popup.open /\ w.position # Nowhere
                     => u.popup.at = w.popup.at + (rect.loc - w.position)
<1> DEFINE d == IF w.position # Nowhere /\ backend = "wayland" THEN rect.loc - w.position ELSE 0
           placed == [w EXCEPT !.explicit = TRUE, !.position = rect.loc, !.size = rect.size,
                               !.overruled = FALSE]
           slid   == TranslatePopup(placed, d)
           moved  == Configure(slid, rect)
<1>1. SetWindowRect(w, rect) = IF w.size # rect.size THEN Reconstrain(moved) ELSE moved
  BY Zenon DEF SetWindowRect
<1>2. rect.loc \in Int /\ rect.size \in Nat
  BY DEF Rects
<1>3. d \in Int
  BY <1>2, Fields, Known
<1>4. /\ placed \in Wins /\ placed.view = w.view /\ placed.position = rect.loc
      /\ placed.size = rect.size /\ placed.popup = w.popup
      /\ placed.native = w.native /\ placed.notices = w.notices
  BY <1>2 DEF Wins, Places
<1>5. /\ slid \in Wins /\ Like(placed, slid) /\ slid.position = placed.position
      /\ placed.popup.open => slid.popup.at = placed.popup.at + d
      /\ slid.native = placed.native /\ slid.notices = placed.notices
  <2>1. TranslatePopup(placed, d).native = placed.native
        /\ TranslatePopup(placed, d).notices = placed.notices
    <3> HIDE DEF placed, d
    <3> QED
      BY <1>3, <1>4 DEF TranslatePopup, Wins
  <2>2. QED
    <3> HIDE DEF placed, d
    <3> QED
      BY <1>3, <1>4, <2>1, TranslateTyped
<1>6. /\ moved \in Wins /\ Like(slid, moved) /\ moved.position = slid.position
      /\ moved.popup = slid.popup
      /\ backend = "x11" => moved.native = rect /\ (Told(slid) => Told(moved))
  <2> HIDE DEF slid
  <2> QED
    BY <1>5, ConfigureTyped
<1>7. backend = "x11" /\ Told(w) => Agree(moved)
  <2> HIDE DEF placed, slid, moved
  <2> QED
    BY <1>4, <1>5, <1>6 DEF Agree, Told
<1>8. OnlyPopup(moved, Reconstrain(moved))
  <2> HIDE DEF moved
  <2> QED
    BY <1>6, ReconstrainTyped
<1>9. CASE w.size # rect.size
  <2> HIDE DEF placed, slid, moved
  <2> QED
    BY <1>1, <1>4, <1>5, <1>6, <1>7, <1>8, <1>9 DEF OnlyPopup, Like
<1>10. CASE w.size = rect.size
  <2>1. backend = "wayland" /\ w.position # Nowhere => d = rect.loc - w.position
    OBVIOUS
  <2> HIDE DEF d, placed, slid, moved
  <2>2. QED
    BY <1>1, <1>4, <1>5, <1>6, <1>7, <1>10, <2>1 DEF Like
<1>11. QED
  BY <1>9, <1>10

----------------------------------------------------------------------------
(* The steps *)

\* BasisFollows and PopupFollows, of a window w that becomes u.
BasisStep(w, u) ==
    /\ IsFloating(w) /\ u.position # w.position /\ ~Resizing(w)
    /\ Nowhere \notin {w.basis, u.basis}
    => u.basis = u.position

PopupStep(w, u) ==
    /\ backend = "wayland" /\ w.popup.open /\ u.popup.open
    /\ IsFloating(w) /\ IsFloating(u) /\ w.size = u.size
    /\ Nowhere \notin {w.position, u.position} /\ u.position # w.position
    => LET slide == IF w.view = NoView THEN 0 ELSE u.view.loc - w.view.loc
       IN  u.popup.at - w.popup.at = u.position - w.position - slide

Step(w, u) ==
    /\ u \in Wins
    /\ backend = "x11" /\ Agree(w) => Agree(u)
    /\ BasisStep(w, u)
    /\ PopupStep(w, u)

\* As far as the steps can tell, w has the placement of v.
Stands(v, w) ==
    /\ w \in Wins /\ w.size = v.size /\ w.view = v.view /\ w.position = v.position
    /\ w.basis = v.basis /\ w.popup = v.popup /\ w.resize = v.resize
    /\ Agree(v) => Agree(w)

LEMMA StandsSelf == ASSUME NEW w \in Wins PROVE Stands(w, w)
BY DEF Stands

\* A step that leaves the placement where it is.
LEMMA StillSteps ==
    ASSUME NEW w \in Wins, NEW u \in Wins, u.position = w.position, Agree(w) => Agree(u)
    PROVE  Step(w, u)
BY DEF Step, BasisStep, PopupStep

\* A step that patches it.
LEMMA PatchedSteps ==
    ASSUME NEW v \in Wins, NEW w, NEW u, Stands(v, w), Patched(w, u)
    PROVE  Step(v, u)
<1>1. BasisStep(v, u)
  BY DEF Stands, Patched, BasisCarried, BasisStep, Resizing
<1>2. PopupStep(v, u)
  <2> SUFFICES ASSUME backend = "wayland", v.popup.open, Nowhere \notin {v.position, u.position},
                      u.position # v.position
               PROVE  LET slide == IF v.view = NoView THEN 0 ELSE u.view.loc - v.view.loc
                      IN  u.popup.at - v.popup.at = u.position - v.position - slide
    BY DEF PopupStep
  <2>1. u.view = v.view /\ u \in Wins /\ u.popup.at = v.popup.at + (u.position - v.position)
    BY DEF Stands, Patched, PopupCarried, Like
  <2>2. (IF v.view = NoView THEN 0 ELSE u.view.loc - v.view.loc) = 0
    BY <2>1, Fields, ViewTyped
  <2>3. v.position \in Int /\ u.position \in Int /\ v.popup.at \in Int
    BY <2>1, Fields, Known DEF Popups
  <2>4. QED
    BY <2>1, <2>2, <2>3
<1>3. QED
  BY <1>1, <1>2 DEF Step, Stands, Patched

LEMMA ResizedSteps ==
    ASSUME NEW v \in Wins, NEW w, NEW u, Stands(v, w), Resized(w, u)
    PROVE  Step(v, u)
<1>1. CASE u = w
  BY <1>1, StillSteps DEF Stands
<1>2. CASE u.size # w.size
  <2>1. BasisStep(v, u)
    BY DEF Stands, Resized, BasisCarried, BasisStep, Resizing
  <2>2. PopupStep(v, u)
    BY <1>2 DEF PopupStep, Stands
  <2>3. QED
    BY <2>1, <2>2 DEF Step, Stands, Resized
<1>3. QED
  BY <1>1, <1>2 DEF Resized

LEMMA OnlyPopupSteps ==
    ASSUME NEW w \in Wins, NEW u, OnlyPopup(w, u) PROVE Step(w, u)
BY StillSteps DEF OnlyPopup

----------------------------------------------------------------------------
(* The shell *)

LEMMA DisplayModeSteps ==
    ASSUME TypeOK, NEW mode \in {"Floating", "Tiled"}, UpdateDisplayMode(mode)
    PROVE  Step(win, win')
<1> DEFINE w == [win EXCEPT !.mode = mode]
<1>1. win \in Wins /\ Stands(win, w)
  BY DEF TypeOK, Stands, Wins, Agree, Told
<1>2. win' \in {w, UpdateClientMaximized(w, FALSE)}
  BY DEF UpdateDisplayMode, Becomes
<1>3. Patched(w, w) /\ Patched(w, UpdateClientMaximized(w, FALSE))
  <2> HIDE DEF w
  <2> QED
    BY <1>1, PatchedSelf, MaximizedPatches DEF Stands
<1>4. QED
  <2> HIDE DEF w
  <2> QED
    BY <1>1, <1>2, <1>3, PatchedSteps

\* The tile slides: the window goes along, and its popups, placed in it, stay.
LEMMA ViewportSteps ==
    ASSUME TypeOK, NEW v \in Views, UpdateViewport(v)
    PROVE  Step(win, win')
<1> DEFINE w == [win EXCEPT !.view = v]
           d == IF win.view = NoView THEN 0 ELSE v.loc - win.view.loc
           t == TranslateFloatingWindow(w, d)
<1>1. /\ win \in Wins /\ w \in Wins /\ w.mode = win.mode /\ w.size = win.size /\ w.view = v
      /\ w.resize = win.resize /\ w.position = win.position /\ w.basis = win.basis
      /\ w.popup = win.popup /\ w.maximized = win.maximized /\ (Agree(win) => Agree(w))
  BY DEF TypeOK, Wins, Agree, Told
<1>2. v.loc \in Int /\ d \in Int
  BY <1>1, Fields, ViewTyped, PlacementAssumption DEF NoView
<1>3. /\ win' = IF ~Movable(w) THEN t
                ELSE IF w.explicit THEN ClampFloatingWindow(t) ELSE CenterFloatingWindow(t)
      /\ t = IF d = 0 \/ ~Movable(w) \/ w.position = Nowhere THEN w
             ELSE ApplyFloatingPosition(w, w.position + d, FALSE, FALSE)
  BY Zenon DEF UpdateViewport, Becomes, TranslateFloatingWindow
<1>4. d = (IF win.view = NoView THEN 0 ELSE w.view.loc - win.view.loc)
  BY <1>1
<1>5. IsFloating(win) => IsFloating(w)
  BY <1>1, PlacementAssumption DEF IsFloating, NoView
<1> HIDE DEF w, d, t
<1>6. /\ t \in Wins /\ Like(w, t)
      /\ backend = "x11" /\ Agree(w) => Agree(t)
      /\ BasisCarried(w, t) /\ t.popup = w.popup
      /\ t.position = IF Resizing(w) \/ d = 0 \/ ~Movable(w) \/ w.position = Nowhere
                      THEN w.position ELSE w.position + d
  <2>1. CASE d = 0 \/ ~Movable(w) \/ w.position = Nowhere
    BY <1>1, <1>3, <2>1 DEF Like, BasisCarried
  <2>2. CASE ~(d = 0 \/ ~Movable(w) \/ w.position = Nowhere)
    <3>1. w.position + d \in Int /\ IsFloating(w)
      BY <1>1, <1>2, <2>2, Fields, Known DEF Movable
    <3>2. t = ApplyFloatingPosition(w, w.position + d, FALSE, FALSE)
      BY <1>3, <2>2
    <3>3. QED
      BY <1>1, <2>2, <3>1, <3>2, ApplyPlaces DEF Agree
  <2>3. QED
    BY <2>1, <2>2
<1>7. Patched(t, win')
  BY <1>3, <1>6, PatchedSelf, ClampPatches, CenterPatches
<1>8. BasisStep(win, win')
  <2> SUFFICES ASSUME IsFloating(win), win'.position # win.position, ~Resizing(win),
                      Nowhere \notin {win.basis, win'.basis}
               PROVE  win'.basis = win'.position
    BY DEF BasisStep
  <2>1. ~Resizing(w) /\ ~Resizing(t)
    BY <1>1, <1>6 DEF Like, Resizing
  <2>2. CASE t.basis = Nowhere
    BY <1>1, <1>6, <2>1, <2>2, PlacementAssumption DEF BasisCarried
  <2>3. CASE t.basis # Nowhere
    BY <1>1, <1>6, <1>7, <2>1, <2>3 DEF BasisCarried, Patched
  <2>4. QED
    BY <2>2, <2>3
<1>9. PopupStep(win, win')
  <2> SUFFICES ASSUME backend = "wayland", win.popup.open, IsFloating(win),
                      Nowhere \notin {win.position, win'.position},
                      win'.position # win.position
               PROVE  win'.popup.at - win.popup.at = win'.position - win.position - d
    <3>1. win'.view = w.view
      BY <1>6, <1>7 DEF Patched, Like
    <3>2. QED
      BY <1>4, <3>1 DEF PopupStep
  <2>1. win.position \in Int /\ win.popup.at \in Int /\ win' \in Wins
    BY <1>1, <1>7, Fields, Known DEF Popups, Patched
  <2>2. (Resizing(t) <=> Resizing(w)) /\ t.popup = win.popup /\ PopupCarried(t, win')
    BY <1>1, <1>6, <1>7 DEF Like, Resizing, Patched
  <2>3. ~Resizing(w)
    BY <1>1, <1>6, <2>2 DEF PopupCarried
  <2>4. Movable(w) \/ win' = w
    BY <1>3
  <2>5. t.position = win.position + d
    BY <1>1, <1>2, <1>6, <2>1, <2>3, <2>4
  <2>6. t.position \in Int /\ t.position # Nowhere /\ win'.position \in Int
    BY <1>2, <2>1, <2>5, Fields, Known, PlacementAssumption
  <2>7. CASE win'.position = t.position /\ win'.popup.at = t.popup.at
    BY <1>2, <2>1, <2>2, <2>5, <2>7
  <2>8. CASE win'.popup.at = t.popup.at + (win'.position - t.position)
    BY <1>2, <2>1, <2>2, <2>5, <2>6, <2>8
  <2>9. QED
    BY <2>2, <2>3, <2>6, <2>7, <2>8 DEF PopupCarried
<1>10. QED
  BY <1>1, <1>6, <1>7, <1>8, <1>9 DEF Step, Patched

LEMMA RenormalizeTyped == ASSUME NEW w \in Wins PROVE OnlyPopup(w, Renormalize(w))
<1>1. w.popup.rel \in Int
  BY Fields DEF Popups
<1>2. PopupTilePosition(w, w.popup.rel) \in Int
  BY <1>1, PopupPlaceTyped
<1>3. OnlyPopup(w, MovePopup(w, PopupTilePosition(w, w.popup.rel)))
  BY <1>2, MovePopupTyped
<1>4. OnlyPopup(w, w)
  BY DEF OnlyPopup, Like
<1>5. QED
  BY <1>3, <1>4 DEF Renormalize

LEMMA OriginsSteps ==
    ASSUME TypeOK, NEW o \in Int, UpdateRenderOrigin(o) \/ UpdateTileOrigin(o)
    PROVE  Step(win, win')
<1>1. win \in Wins
  BY DEF TypeOK
<1>2. ASSUME NEW w \in Wins, w.position = win.position, Agree(win) => Agree(w),
             win' = Renormalize(w)
      PROVE  Step(win, win')
  <2>1. OnlyPopup(w, win')
    BY <1>2, RenormalizeTyped
  <2>2. QED
    BY <1>1, <1>2, <2>1, StillSteps DEF OnlyPopup
<1>3. CASE UpdateRenderOrigin(o)
  <2> DEFINE w == [win EXCEPT !.rendered = o]
  <2>1. w \in Wins /\ w.position = win.position /\ (Agree(win) => Agree(w))
    BY <1>1 DEF Wins, Places, Agree, Told
  <2>2. win' = Renormalize(w)
    BY <1>3 DEF UpdateRenderOrigin, Becomes
  <2>3. QED
    <3> HIDE DEF w
    <3> QED
      BY <1>2, <2>1, <2>2
<1>4. CASE UpdateTileOrigin(o)
  <2> DEFINE w == [win EXCEPT !.tile = o]
             previous == TileContentOrigin(win)
             rebased == IF win.tile = Nowhere /\ previous # Nowhere
                        THEN TranslatePopup(w, previous - o) ELSE w
  <2>1. w \in Wins /\ w.position = win.position /\ (Agree(win) => Agree(w))
    BY <1>1 DEF Wins, Places, Agree, Told
  <2>2. win' = Renormalize(rebased)
    BY <1>4 DEF UpdateTileOrigin, Becomes
  <2>3. previous # Nowhere => previous - o \in Int
    <3>1. previous # Nowhere => previous \in Int
      BY <1>1, OriginsTyped, Known
    <3>2. QED
      BY <3>1
  <2>4. rebased \in Wins /\ rebased.position = w.position /\ (Agree(w) => Agree(rebased))
    <3> HIDE DEF w, previous
    <3> QED
      BY <2>1, <2>3, TranslateTyped
  <2>5. QED
    <3> HIDE DEF w, rebased
    <3> QED
      BY <1>2, <2>1, <2>2, <2>4
<1>5. QED
  BY <1>3, <1>4

\* A rectangle takes the popup along; of the basis, only a resize is meant to leave it.
LEMMA RectSteps ==
    ASSUME NEW w \in Wins, IsFloating(w), NEW rect \in Rects, NEW u, u = SetWindowRect(w, rect)
    PROVE  /\ u \in Wins
           /\ backend = "x11" /\ Agree(w) => Agree(u)
           /\ PopupStep(w, u)
<1>1. /\ u \in Wins /\ u.view = w.view
      /\ backend = "x11" /\ Told(w) => Agree(u)
      /\ u.position = rect.loc /\ u.size = rect.size
      /\ u.size = w.size /\ backend = "wayland" /\ w.popup.open /\ w.position # Nowhere
            => u.popup.at = w.popup.at + (rect.loc - w.position)
  BY RectPlaces
<1>2. PopupStep(w, u)
  <2> SUFFICES ASSUME backend = "wayland", w.popup.open, w.size = u.size,
                      Nowhere \notin {w.position, u.position}
               PROVE  LET slide == IF w.view = NoView THEN 0 ELSE u.view.loc - w.view.loc
                      IN  u.popup.at - w.popup.at = u.position - w.position - slide
    BY DEF PopupStep
  <2>1. (IF w.view = NoView THEN 0 ELSE u.view.loc - w.view.loc) = 0
    BY <1>1, Fields, ViewTyped
  <2>2. w.position \in Int /\ w.popup.at \in Int /\ rect.loc \in Int
    BY Fields, Known DEF Popups, Rects
  <2>3. QED
    BY <1>1, <2>1, <2>2
<1>3. QED
  BY <1>1, <1>2 DEF Agree

LEMMA ShellSteps ==
    ASSUME TypeOK, Shell
    PROVE  /\ win' \in Wins
           /\ backend = "x11" /\ Agree(win) => Agree(win')
           /\ PopupStep(win, win')
           /\ BasisStep(win, win') \/ \E v \in Views, s \in Sizes : ShellSetsRect(v, s)
<1>1. win \in Wins
  BY DEF TypeOK
<1>2. ASSUME NEW mode \in {"Floating", "Tiled"}, UpdateDisplayMode(mode) PROVE Step(win, win')
  BY <1>2, DisplayModeSteps
<1>3. ASSUME NEW v \in Views, UpdateViewport(v) PROVE Step(win, win')
  BY <1>3, ViewportSteps
<1>4. ASSUME NEW v \in Views, UpdateRenderOrigin(v.loc) \/ UpdateTileOrigin(v.loc)
      PROVE  Step(win, win')
  <2>1. v.loc \in Int
    BY PlacementAssumption
  <2>2. QED
    BY <1>4, <2>1, OriginsSteps
<1>5. ASSUME NEW s \in Sizes, ShellSizesTile(s) PROVE Step(win, win')
  <2>1. Resized(win, win')
    BY <1>1, <1>5, GeometryResizes, PlacementAssumption DEF ShellSizesTile, Becomes
  <2>2. QED
    BY <1>1, <2>1, ResizedSteps, StandsSelf
<1>6. ASSUME NEW v \in Views, NEW s \in Sizes, ShellSetsRect(v, s)
      PROVE  /\ win' \in Wins
             /\ backend = "x11" /\ Agree(win) => Agree(win')
             /\ PopupStep(win, win')
  <2> DEFINE rect == [loc |-> v.loc, size |-> s]
  <2>1. rect \in Rects
    BY PlacementAssumption DEF Rects
  <2>2. win' = SetWindowRect(win, rect) /\ IsFloating(win)
    BY <1>6 DEF ShellSetsRect, Becomes
  <2>3. QED
    <3> HIDE DEF rect
    <3> QED
      BY <1>1, <2>1, <2>2, RectSteps
<1>7. ASSUME NEW o \in Places, win' = [win EXCEPT !.basis = o] PROVE Step(win, win')
  <2>1. win' \in Wins /\ win'.position = win.position /\ (Agree(win) => Agree(win'))
    BY <1>1, <1>7 DEF Wins, Agree, Told
  <2>2. QED
    BY <1>1, <2>1, StillSteps
<1>8. ASSUME PointerLeaves PROVE Step(win, win')
  <2>1. Nowhere \in Places
    BY DEF Places
  <2>2. win' = [win EXCEPT !.basis = Nowhere]
    BY <1>8 DEF PointerLeaves, Becomes
  <2>3. QED
    BY <1>7, <2>1, <2>2, Zenon
<1>9. ASSUME NEW v \in Views, PointerEnters(v.loc) PROVE Step(win, win')
  <2>1. (IF IsFloating(win) /\ win.position # Nowhere THEN win.position ELSE v.loc) \in Places
    BY <1>1, Fields, PlacementAssumption DEF Places
  <2>2. QED
    BY <1>7, <1>9, <2>1 DEF PointerEnters, Becomes
<1>10. Step(win, win') => /\ win' \in Wins
                          /\ backend = "x11" /\ Agree(win) => Agree(win')
                          /\ PopupStep(win, win') /\ BasisStep(win, win')
  BY DEF Step
<1>11. \/ \E mode \in {"Floating", "Tiled"} : UpdateDisplayMode(mode)
       \/ \E v \in Views : \/ UpdateViewport(v) \/ UpdateRenderOrigin(v.loc)
                          \/ UpdateTileOrigin(v.loc) \/ PointerEnters(v.loc)
       \/ \E s \in Sizes : ShellSizesTile(s)
       \/ PointerLeaves
       \/ \E v \in Views, s \in Sizes : ShellSetsRect(v, s)
  BY Zenon DEF Shell
<1>12. CASE \E v \in Views, s \in Sizes : ShellSetsRect(v, s)
  BY <1>6, <1>12
<1>13. CASE Step(win, win')
  BY <1>10, <1>13
<1>14. QED
  BY <1>2, <1>3, <1>4, <1>5, <1>8, <1>9, <1>11, <1>12, <1>13, Zenon

----------------------------------------------------------------------------
(* The user *)

LEMMA ResizedRectTyped ==
    ASSUME NEW edge, NEW from \in Rects, NEW delta \in Int
    PROVE  ResizeRect(edge, from, delta) \in Rects
<1>1. from.loc \in Int /\ from.size \in Nat
  BY DEF Rects
<1> DEFINE left == edge = "left"
           size == IF left THEN from.size - delta ELSE from.size + delta
           near == IF left THEN from.loc + from.size - 1 ELSE from.loc
           far  == IF left THEN from.loc + delta ELSE from.loc
<1>2. size \in Int /\ near \in Int /\ far \in Int
  BY <1>1
<1>3. ResizeRect(edge, from, delta) = IF size < 1 THEN [loc |-> near, size |-> 1]
                                      ELSE [loc |-> far, size |-> size]
  BY DEF ResizeRect
<1>4. QED
  <2> HIDE DEF size, near, far
  <2> QED
    BY <1>2, <1>3 DEF Rects

LEMMA GesturesTyped ==
    ASSUME NEW w \in Wins, NEW m \in Moves, NEW r \in Resizes
    PROVE  /\ Step(w, [w EXCEPT !.move = m])
           /\ Step(w, [w EXCEPT !.resize = r])
           /\ Step(w, [w EXCEPT !.resize = r, !.move = m])
<1>1. ASSUME NEW u \in Wins, u.position = w.position, Agree(w) => Agree(u) PROVE Step(w, u)
  BY <1>1, StillSteps
<1>2. LET u == [w EXCEPT !.move = m]
      IN  u \in Wins /\ u.position = w.position /\ (Agree(w) => Agree(u))
  BY DEF Wins, Agree, Told
<1>3. LET u == [w EXCEPT !.resize = r]
      IN  u \in Wins /\ u.position = w.position /\ (Agree(w) => Agree(u))
  BY DEF Wins, Agree, Told
<1>4. LET u == [w EXCEPT !.resize = r, !.move = m]
      IN  u \in Wins /\ u.position = w.position /\ (Agree(w) => Agree(u))
  BY DEF Wins, Agree, Told
<1>5. QED
  BY <1>1, <1>2, <1>3, <1>4, Zenon

LEMMA EndsTyped == NoMove \in Moves /\ NoResize \in Resizes
BY DEF NoMove, NoResize, Moves, Resizes, Rects

LEMMA EndSteps ==
    ASSUME NEW w \in Wins
    PROVE  Step(w, EndMove(w)) /\ Step(w, EndResize(w)) /\ Step(w, EndMove(EndResize(w)))
<1>1. /\ EndMove(w) = [w EXCEPT !.move = NoMove] /\ EndResize(w) = [w EXCEPT !.resize = NoResize]
      /\ EndMove(EndResize(w)) = [w EXCEPT !.resize = NoResize, !.move = NoMove]
  BY DEF EndMove, EndResize
<1>2. QED
  <2>1. /\ Step(w, [w EXCEPT !.move = NoMove]) /\ Step(w, [w EXCEPT !.resize = NoResize])
        /\ Step(w, [w EXCEPT !.resize = NoResize, !.move = NoMove])
    BY EndsTyped, GesturesTyped
  <2>2. QED
    BY <1>1, <2>1

LEMMA UserSteps == ASSUME TypeOK, User PROVE Step(win, win')
<1>1. win \in Wins
  BY DEF TypeOK
<1>2. CASE Release
  BY <1>1, <1>2, EndSteps DEF Release, Becomes
<1>3. ASSUME NEW to \in Points, Motion(to) PROVE Step(win, win')
  <2>1. to \in Int
    BY PlacementAssumption
  <2>2. CASE win' = win
    BY <1>1, <2>2, StillSteps
  <2>3. CASE win' = UpdateFloatingMove(win, to)
    <3> DEFINE p == to - win.move.grab
               clamped == IF win.view.len = 0 \/ FloatingSize(win) = 0 THEN p
                          ELSE ClampPositionForMove(win.view, FloatingSize(win), p)
    <3>1. p \in Int
      BY <1>1, <2>1, Fields DEF Moves
    <3>2. clamped \in Int
      <4>1. CASE win.view.len = 0 \/ FloatingSize(win) = 0
        BY <3>1, <4>1
      <4>2. CASE ~(win.view.len = 0 \/ FloatingSize(win) = 0)
        <5>1. win.view # NoView
          BY <4>2 DEF NoView
        <5>2. ClampPositionForMove(win.view, FloatingSize(win), p) \in Int
          <6> HIDE DEF p
          <6> QED
            BY <1>1, <3>1, <5>1, Fields, SizeTyped, ClampTyped
        <5>3. QED
          BY <4>2, <5>2
      <4>3. QED
        BY <4>1, <4>2
    <3>3. win' = IF IsFloating(win) THEN ApplyFloatingPosition(win, clamped, TRUE, TRUE)
                 ELSE EndMove(win)
      BY <2>3 DEF UpdateFloatingMove
    <3> HIDE DEF clamped
    <3>4. CASE IsFloating(win)
      <4>1. Patched(win, win')
        BY <1>1, <3>2, <3>3, <3>4, ApplyPatches
      <4>2. QED
        BY <1>1, <4>1, PatchedSteps, StandsSelf
    <3>5. CASE ~IsFloating(win)
      BY <1>1, <3>3, <3>5, EndSteps
    <3>6. QED
      BY <3>4, <3>5
  <2>4. CASE Resizing(win) /\ win' = UpdateFloatingResize(win, to)
    <3> DEFINE rect == ResizeRect(win.resize.edge, win.resize.from, to - win.resize.grab)
    <3>1. rect \in Rects
      <4>1. win.resize.from \in Rects /\ to - win.resize.grab \in Int
        BY <1>1, <2>1, Fields DEF Resizes
      <4>2. QED
        BY <4>1, ResizedRectTyped
    <3>2. win' = IF IsFloating(win) THEN SetWindowRect(win, rect) ELSE EndResize(win)
      BY <2>4 DEF UpdateFloatingResize
    <3> HIDE DEF rect
    <3>3. CASE IsFloating(win)
      <4>1. BasisStep(win, win')
        BY <2>4 DEF BasisStep
      <4>2. QED
        BY <1>1, <3>1, <3>2, <3>3, <4>1, RectSteps DEF Step
    <3>4. CASE ~IsFloating(win)
      BY <1>1, <3>2, <3>4, EndSteps
    <3>5. QED
      BY <3>3, <3>4
  <2>5. QED
    BY <1>3, <2>2, <2>3, <2>4 DEF Motion, Dragged
<1>4. QED
  BY <1>2, <1>3 DEF User

----------------------------------------------------------------------------
(* The client and the X server *)

LEMMA RequestSteps ==
    ASSUME TypeOK, NEW xs \in SUBSET Int, NEW sizes \in SUBSET Nat, ConfigureRequest(xs, sizes)
    PROVE  Step(win, win')
<1> DEFINE can  == IsFloating(win)
           size == IF sizes = {} THEN win.native.size ELSE CHOOSE s \in sizes : TRUE
           want == IF xs = {} THEN win.native.loc ELSE CHOOSE x \in xs : TRUE
           loc  == IF ~can THEN Root
                   ELSE IF win.view.len > 0 THEN ClampPosition(win.view, size, want) ELSE want
           asked == [win EXCEPT !.explicit = @ \/ (can /\ xs # {})]
           rect == [loc |-> loc, size |-> size]
           w    == Configure(asked, rect)
<1>1. win \in Wins /\ backend = "x11"
  BY DEF TypeOK, ConfigureRequest
<1>2. size \in Nat /\ want \in Int
  BY <1>1, Fields DEF Rects
<1>3. loc \in Int
  <2>1. CASE can /\ win.view.len > 0
    <3>1. win.view # NoView /\ win.view \in Views \cup {NoView}
      BY <1>1, <2>1, Fields DEF NoView
    <3>2. ClampPosition(win.view, size, want) \in Int
      <4> HIDE DEF size, want
      <4> QED
        BY <1>2, <3>1, ClampTyped
    <3>3. QED
      BY <2>1, <3>2
  <2>2. CASE ~(can /\ win.view.len > 0)
    BY <1>2, <2>2, PlacementAssumption
  <2>3. QED
    BY <2>1, <2>2
<1>4. /\ asked \in Wins /\ asked.mode = win.mode /\ asked.view = win.view
      /\ asked.size = win.size /\ asked.resize = win.resize
      /\ asked.position = win.position /\ asked.basis = win.basis
      /\ (Agree(win) => Agree(asked))
  <2>1. \A b \in BOOLEAN :
            LET u == [win EXCEPT !.explicit = b]
            IN  /\ u \in Wins /\ u.mode = win.mode /\ u.view = win.view
                /\ u.size = win.size /\ u.resize = win.resize
                /\ u.position = win.position /\ u.basis = win.basis
                /\ (Agree(win) => Agree(u))
    BY <1>1 DEF Wins, Agree, Told
  <2>2. (win.explicit \/ (can /\ xs # {})) \in BOOLEAN
    OBVIOUS
  <2>3. QED
    BY <2>1, <2>2, Zenon
<1>5. rect \in Rects /\ rect.loc = loc
  <2> HIDE DEF loc, size
  <2> QED
    BY <1>2, <1>3 DEF Rects
<1> HIDE DEF size, want, loc, asked, rect
<1>6. /\ w \in Wins /\ Like(asked, w) /\ w.position = asked.position
      /\ w.basis = asked.basis /\ w.native.loc = loc
      /\ Agree(asked) => Agree(w)
  BY <1>1, <1>4, <1>5, ConfigureTyped, ConfigureAgrees
<1>7. win' = IF can THEN UpdateFloatingPointerBasis(UpdatePosition(w, loc), loc) ELSE w
  BY Zenon DEF ConfigureRequest, Becomes, w, asked, rect, loc, size, want
<1> HIDE DEF w
<1>8. CASE can
  <2> DEFINE u == UpdatePosition(w, loc)
  <2>1. u \in Wins /\ Like(w, u) /\ u.basis = w.basis
        /\ u.position = (IF Resizing(w) THEN w.position ELSE loc)
    BY <1>3, <1>6, UpdatePositionTyped
  <2>2. Agree(win) => Agree(u)
    BY <1>1, <1>3, <1>4, <1>6, PlacedAgrees DEF Agree
  <2>3. win' = UpdateFloatingPointerBasis(u, loc)
    BY <1>7, <1>8
  <2> HIDE DEF u
  <2>4. /\ win' \in Wins /\ win'.position = u.position
        /\ (Agree(u) <=> Agree(win'))
        /\ win'.basis = (IF IsFloating(u) /\ u.basis # Nowhere THEN loc ELSE u.basis)
    BY <1>3, <2>1, <2>3, BasisTyped
  <2>5. IsFloating(u) /\ (Resizing(w) <=> Resizing(win))
    BY <1>4, <1>6, <1>8, <2>1 DEF IsFloating, Like, Resizing
  <2>6. BasisStep(win, win')
    BY <1>4, <1>6, <2>1, <2>4, <2>5 DEF BasisStep
  <2>7. PopupStep(win, win')
    BY <1>1 DEF PopupStep
  <2>8. QED
    BY <2>2, <2>4, <2>6, <2>7 DEF Step
<1>9. CASE ~can
  BY <1>1, <1>4, <1>6, <1>7, <1>9, StillSteps
<1>10. QED
  BY <1>8, <1>9

LEMMA TailTyped ==
    ASSUME NEW S, NEW q \in Seq(S), q # <<>>
    PROVE  /\ Tail(q) \in Seq(S) /\ Head(q) \in S
           /\ Tail(q) # <<>> => Tail(q)[Len(Tail(q))] = q[Len(q)]
           /\ Tail(q) = <<>> => Head(q) = q[Len(q)]
<1>1. Len(q) \in Nat /\ Len(q) > 0 /\ Tail(q) \in Seq(S) /\ Head(q) \in S
      /\ Head(q) = q[1] /\ Len(Tail(q)) = Len(q) - 1
  BY HeadTailProperties
<1>2. \A i \in 1 .. Len(q) - 1 : Tail(q)[i] = q[i + 1]
  BY HeadTailProperties
<1>3. ASSUME Tail(q) # <<>> PROVE Tail(q)[Len(Tail(q))] = q[Len(q)]
  <2>1. Len(Tail(q)) # 0
    BY <1>1, <1>3, EmptySeq
  <2>2. Len(q) - 1 \in 1 .. Len(q) - 1
    BY <1>1, <2>1
  <2>3. QED
    BY <1>1, <1>2, <2>2
<1>4. ASSUME Tail(q) = <<>> PROVE Head(q) = q[Len(q)]
  <2>1. Len(<<>>) = 0
    OBVIOUS
  <2>2. Len(Tail(q)) = 0
    BY <1>4, <2>1, Zenon
  <2>3. Len(q) = 1
    <3>1. Len(q) - 1 = 0
      BY <1>1, <2>2, Zenon
    <3>2. Len(q) \in Nat
      OBVIOUS
    <3>3. QED
      BY ONLY <3>1, <3>2
  <2>4. QED
    BY <1>1, <2>3
<1>5. QED
  BY <1>1, <1>3, <1>4

\* configure_notify: what is read last is where the native window is, or it is put right
\* once more.
LEMMA NotifySteps == ASSUME TypeOK, ConfigureNotify, Agree(win) PROVE Step(win, win')
<1> DEFINE seen == Head(win.notices)
           w == [win EXCEPT !.notices = Tail(@)]
           inside == ClampPosition(win.view, seen.size, seen.loc)
           wrong == /\ Movable(win) /\ ~Dragged(win)
                    /\ win.view.len > 0 /\ inside # seen.loc
           loc == IF wrong THEN inside ELSE seen.loc
           rect == [win.native EXCEPT !.loc = inside]
           kept == IF wrong THEN Configure(w, rect) ELSE w
           placed == UpdatePosition(kept, loc)
           b == UpdateFloatingPointerBasis(placed, loc)
<1>1. win \in Wins /\ backend = "x11" /\ win.notices # <<>>
  BY DEF TypeOK, ConfigureNotify
<1>2. /\ Tail(win.notices) \in Seq(Rects) /\ seen \in Rects
      /\ Tail(win.notices) # <<>> =>
            Tail(win.notices)[Len(Tail(win.notices))] = win.notices[Len(win.notices)]
      /\ Tail(win.notices) = <<>> => seen = win.notices[Len(win.notices)]
  BY <1>1, Fields, TailTyped
<1>3. seen.loc \in Int /\ seen.size \in Nat
  BY <1>2 DEF Rects
<1>4. /\ w \in Wins /\ w.notices = Tail(win.notices) /\ w.native = win.native
      /\ w.mode = win.mode /\ w.view = win.view /\ w.size = win.size /\ w.resize = win.resize
      /\ w.position = win.position /\ w.basis = win.basis
  <2> HIDE DEF seen
  <2> QED
    BY <1>1, <1>2 DEF Wins
<1>5. Told(w) /\ (w.notices = <<>> => w.native = seen)
  BY <1>1, <1>2, <1>4 DEF Agree, Told
<1> HIDE DEF w, seen
<1>6. wrong => inside \in Int
  <2>1. wrong => win.view # NoView
    BY DEF NoView
  <2>2. QED
    BY <1>1, <1>3, <2>1, Fields, ClampTyped
<1>7. loc \in Int
  <2> HIDE DEF inside
  <2> QED
    BY <1>3, <1>6
<1>8. inside \in Int => rect \in Rects /\ rect.loc = inside
  <2> HIDE DEF inside
  <2> QED
    BY <1>1, Fields DEF Rects
<1> HIDE DEF inside, rect
<1>9. /\ kept \in Wins /\ Like(w, kept) /\ kept.position = w.position /\ kept.basis = w.basis
      /\ Told(kept) /\ (kept.notices = <<>> => kept.native.loc = loc)
  <2>1. CASE wrong
    <3>1. kept = Configure(w, rect) /\ loc = inside /\ rect \in Rects /\ rect.loc = inside
      BY <1>6, <1>8, <2>1
    <3>2. QED
      BY <1>1, <1>4, <1>5, <3>1, ConfigureTyped
  <2>2. CASE ~wrong
    <3>1. kept = w /\ loc = seen.loc
      BY <2>2
    <3>2. QED
      BY <1>4, <1>5, <3>1 DEF Like
  <2>3. QED
    BY <2>1, <2>2
<1>10. win' = UpdateGeometry(b, win.native.size, TRUE)
  BY Zenon DEF ConfigureNotify, Becomes, b, placed, kept, rect, loc, wrong, inside, w, seen
<1> HIDE DEF loc, kept
<1>11. /\ placed \in Wins /\ Like(kept, placed) /\ placed.basis = kept.basis
       /\ placed.native = kept.native /\ placed.notices = kept.notices
       /\ placed.position = (IF Resizing(kept) THEN kept.position ELSE loc)
       /\ ~placed.overruled => placed.position = loc
  BY <1>1, <1>7, <1>9, UpdatePositionTyped
<1>12. Agree(placed)
  BY <1>9, <1>11 DEF Agree, Told
<1> HIDE DEF placed
<1>13. /\ b \in Wins /\ Like(placed, b) /\ b.position = placed.position /\ Agree(b)
       /\ b.basis = (IF IsFloating(placed) /\ placed.basis # Nowhere THEN loc ELSE placed.basis)
  BY <1>7, <1>11, <1>12, BasisTyped
<1> HIDE DEF b
<1>14. Resized(b, win')
  <2>1. win.native.size \in Nat
    BY <1>1, Fields DEF Rects
  <2>2. QED
    BY <1>10, <1>13, <2>1, GeometryResizes
<1>15. BasisStep(win, win')
  <2> SUFFICES ASSUME IsFloating(win), ~Resizing(win), win.basis # Nowhere
               PROVE  win'.basis = win'.position
    BY DEF BasisStep
  <2>1. IsFloating(placed) /\ ~Resizing(kept) /\ ~Resizing(b)
    BY <1>4, <1>9, <1>11, <1>13 DEF Like, IsFloating, Resizing
  <2>2. b.basis = loc /\ b.position = loc /\ b.basis # Nowhere
    BY <1>4, <1>7, <1>9, <1>11, <1>13, <2>1, PlacementAssumption
  <2>3. QED
    BY <1>14, <2>1, <2>2 DEF Resized, BasisCarried
<1>16. QED
  BY <1>1, <1>13, <1>14, <1>15 DEF Step, PopupStep, Resized

LEMMA DragSteps ==
    ASSUME TypeOK, StartFloatingMove \/ \E edge \in Edges : StartFloatingResize(edge)
    PROVE  Step(win, win')
<1>1. /\ win \in Wins /\ pointer \in Int
      /\ win.position # Nowhere => win.position \in Int /\ pointer - win.position \in Int
  BY Fields, Known, PlacementAssumption DEF TypeOK
<1>2. CASE StartFloatingMove
  <2> DEFINE m == [on |-> TRUE, grab |-> pointer - win.position]
  <2>1. m \in Moves /\ win' = [win EXCEPT !.move = m]
    BY <1>1, <1>2 DEF StartFloatingMove, Becomes, Moves
  <2>2. QED
    <3> HIDE DEF m
    <3> QED
      BY <1>1, <2>1, EndsTyped, GesturesTyped
<1>3. ASSUME NEW edge \in Edges, StartFloatingResize(edge) PROVE Step(win, win')
  <2> DEFINE r == [edge |-> edge, grab |-> pointer,
                   from |-> [loc |-> win.position, size |-> FloatingSize(win)]]
  <2>1. r \in Resizes
    BY <1>1, <1>3, SizeTyped DEF StartFloatingResize, Resizes, Rects
  <2>2. win' = [win EXCEPT !.resize = r]
    BY <1>3 DEF StartFloatingResize, Becomes
  <2>3. QED
    <3> HIDE DEF r
    <3> QED
      BY <1>1, <2>1, <2>2, EndsTyped, GesturesTyped
<1>4. QED
  BY <1>2, <1>3

LEMMA PopupSteps ==
    ASSUME TypeOK, \/ \E a \in Anchors : NewPopup(a) \/ RepositionRequest(a)
                   \/ PopupCommit \/ PopupRemoved
    PROVE  Step(win, win')
<1>1. win \in Wins
  BY DEF TypeOK
<1>2. ASSUME NEW q \in Popups, win' = [win EXCEPT !.popup = q] PROVE Step(win, win')
  BY <1>1, <1>2, PopupTyped, StillSteps
<1>3. ASSUME NEW a \in Anchors PROVE Unconstrained(a, win.size) \in Int
  BY <1>1, Fields, UnconstrainedTyped, PlacementAssumption
<1>4. ASSUME NEW a \in Anchors, NewPopup(a) PROVE Step(win, win')
  <2> DEFINE rel == Unconstrained(a, win.size)
             q == [open |-> TRUE, anchor |-> a, rel |-> rel, at |-> PopupTilePosition(win, rel)]
  <2>1. rel \in Int /\ PopupTilePosition(win, rel) \in Int
    BY <1>1, <1>3, PopupPlaceTyped
  <2>2. q \in Popups
    <3> HIDE DEF rel
    <3> QED
      BY <2>1, PlacementAssumption DEF Popups
  <2>3. win' = [win EXCEPT !.popup = q]
    BY <1>4 DEF NewPopup, Becomes
  <2>4. QED
    <3> HIDE DEF q
    <3> QED
      BY <1>2, <2>2, <2>3
<1>5. ASSUME NEW a \in Anchors, RepositionRequest(a) PROVE Step(win, win')
  <2> DEFINE rel == Unconstrained(a, win.size)
             q == [win.popup EXCEPT !.anchor = a, !.rel = rel]
             w == [win EXCEPT !.popup = q]
             m == MovePopup(w, PopupTilePosition(win, rel))
  <2>1. rel \in Int /\ PopupTilePosition(win, rel) \in Int
    BY <1>1, <1>3, PopupPlaceTyped
  <2>2. q \in Popups
    <3> HIDE DEF rel
    <3> QED
      BY <1>1, <2>1, Fields, PlacementAssumption DEF Popups
  <2>3. w \in Wins /\ w.position = win.position /\ (Agree(win) => Agree(w))
    <3> HIDE DEF q
    <3> QED
      BY <1>1, <2>2, PopupTyped
  <2>4. OnlyPopup(w, m)
    <3> HIDE DEF w, rel
    <3> QED
      BY <2>1, <2>3, MovePopupTyped
  <2>5. OnlyPopup(m, ClampPopupToTile(m))
    <3> HIDE DEF m, w
    <3> QED
      BY <2>4, ClampPopupTyped DEF OnlyPopup
  <2>6. win' = ClampPopupToTile(m)
    BY <1>5 DEF RepositionRequest, Becomes, MovePopup
  <2>7. QED
    <3> HIDE DEF m, w
    <3> QED
      BY <1>1, <2>3, <2>4, <2>5, <2>6, StillSteps DEF OnlyPopup
<1>6. CASE PopupCommit
  BY <1>1, <1>6, ClampPopupTyped, OnlyPopupSteps DEF PopupCommit, Becomes
<1>7. CASE PopupRemoved
  <2>1. NoPopup \in Popups
    BY DEF NoPopup, Popups
  <2>2. win' = [win EXCEPT !.popup = NoPopup]
    BY <1>7 DEF PopupRemoved, Becomes
  <2>3. QED
    BY <1>2, <2>1, <2>2
<1>8. QED
  BY <1>4, <1>5, <1>6, <1>7

LEMMA ClientSteps ==
    ASSUME TypeOK, Client, backend = "x11" => Agree(win) PROVE Step(win, win')
<1>1. win \in Wins
  BY DEF TypeOK
<1>2. ASSUME NEW x \in Points, ConfigureRequest({x}, {}) PROVE Step(win, win')
  <2>1. {x} \in SUBSET Int /\ {} \in SUBSET Nat
    BY PlacementAssumption
  <2>2. QED
    BY <1>2, <2>1, RequestSteps
<1>3. ASSUME NEW s \in Sizes, ConfigureRequest({}, {s}) PROVE Step(win, win')
  <2>1. {} \in SUBSET Int /\ {s} \in SUBSET Nat
    BY PlacementAssumption
  <2>2. QED
    BY <1>3, <2>1, RequestSteps
<1>4. ASSUME NEW s \in Sizes, ToplevelCommit(s) \/ X11Commit(s) PROVE Step(win, win')
  <2>1. Resized(win, win')
    BY <1>1, <1>4, GeometryResizes, PlacementAssumption DEF ToplevelCommit, X11Commit, Becomes
  <2>2. QED
    BY <1>1, <2>1, ResizedSteps, StandsSelf
<1>5. ASSUME NEW b \in BOOLEAN, win' = UpdateClientMaximized(win, b) PROVE Step(win, win')
  <2>1. Patched(win, win')
    BY <1>1, <1>5, MaximizedPatches
  <2>2. QED
    BY <1>1, <2>1, PatchedSteps, StandsSelf
<1>6. ASSUME NEW b \in BOOLEAN, AckConfigure(b) PROVE Step(win, win')
  <2>1. (b /\ ~IsFloating(win)) \in BOOLEAN
    OBVIOUS
  <2>2. win' = UpdateClientMaximized(win, b /\ ~IsFloating(win))
    BY <1>6 DEF AckConfigure, Becomes
  <2>3. QED
    BY <1>5, <2>1, <2>2, Zenon
<1>7. ASSUME MaximizeRequest PROVE Step(win, win')
  BY <1>5, <1>7 DEF MaximizeRequest, Becomes
<1>8. \/ StartFloatingMove \/ \E edge \in Edges : StartFloatingResize(edge)
      \/ \E x \in Points : ConfigureRequest({x}, {})
      \/ \E s \in Sizes : ConfigureRequest({}, {s}) \/ ToplevelCommit(s) \/ X11Commit(s)
      \/ \E b \in BOOLEAN : AckConfigure(b)
      \/ MaximizeRequest
      \/ \E a \in Anchors : NewPopup(a) \/ RepositionRequest(a)
      \/ PopupCommit \/ PopupRemoved
  BY Zenon DEF Client
<1>9. QED
  BY <1>2, <1>3, <1>4, <1>6, <1>7, <1>8, DragSteps, PopupSteps, Zenon

----------------------------------------------------------------------------
(* The theorems *)

LEMMA InitPlaces == Init => PlaceInv
<1> SUFFICES ASSUME Init PROVE PlaceInv
  OBVIOUS
<1>1. PICK s \in Sizes :
          win = [mode |-> "None", maximized |-> FALSE, explicit |-> FALSE,
                 position |-> IF backend = "x11" THEN Root ELSE Nowhere,
                 size |-> IF backend = "x11" THEN s ELSE 0, view |-> NoView,
                 rendered |-> Nowhere, tile |-> Nowhere, basis |-> Nowhere,
                 native |-> [loc |-> Root, size |-> IF backend = "x11" THEN s ELSE 0],
                 notices |-> <<>>, move |-> NoMove, resize |-> NoResize, popup |-> NoPopup,
                 overruled |-> FALSE]
  BY DEF Init
<1>2. /\ (IF backend = "x11" THEN Root ELSE Nowhere) \in Places /\ Nowhere \in Places
      /\ (IF backend = "x11" THEN s ELSE 0) \in Nat
      /\ [loc |-> Root, size |-> IF backend = "x11" THEN s ELSE 0] \in Rects
  BY PlacementAssumption DEF Places, Rects
<1>3. <<>> \in Seq(Rects) /\ NoPopup \in Popups
  BY DEF NoPopup, Popups
<1>4. win \in Wins
  BY <1>1, <1>2, <1>3, EndsTyped DEF Wins
<1>5. backend = "x11" => Agree(win)
  BY <1>1 DEF Agree, Told
<1>6. QED
  BY <1>4, <1>5 DEF PlaceInv, TypeOK, Init

\* What every step does to the window
LEMMA NextSteps ==
    ASSUME PlaceInv, Next
    PROVE  /\ PlaceInv'
           /\ PopupStep(win, win')
           /\ BasisStep(win, win') \/ \E v \in Views, s \in Sizes : ShellSetsRect(v, s)
<1>1. /\ win' \in Wins
      /\ backend = "x11" /\ Agree(win) => Agree(win')
      /\ PopupStep(win, win')
      /\ BasisStep(win, win') \/ \E v \in Views, s \in Sizes : ShellSetsRect(v, s)
  <2>1. CASE Shell
    BY <2>1, ShellSteps DEF PlaceInv
  <2>2. CASE User
    BY <2>2, UserSteps DEF PlaceInv, Step
  <2>3. CASE Client
    BY <2>3, ClientSteps DEF PlaceInv, Step
  <2>4. CASE ConfigureNotify
    <3>1. backend = "x11"
      BY <2>4 DEF ConfigureNotify
    <3>2. QED
      BY <2>4, <3>1, NotifySteps DEF PlaceInv, Step
  <2>5. QED
    BY <2>1, <2>2, <2>3, <2>4 DEF Next
<1>2. backend' = backend /\ pointer' \in Points
  <2>1. ASSUME NEW u, Becomes(u) PROVE backend' = backend /\ pointer' = pointer
    BY <2>1 DEF Becomes
  <2>2. CASE Shell
    BY <2>1, <2>2
       DEF Shell, UpdateDisplayMode, UpdateViewport, UpdateRenderOrigin, UpdateTileOrigin,
           ShellSizesTile, ShellSetsRect, PointerEnters, PointerLeaves, PlaceInv, TypeOK
  <2>3. CASE User
    BY <2>1, <2>3 DEF User, Motion, Release, PlaceInv, TypeOK
  <2>4. CASE Client
    BY <2>1, <2>4
       DEF Client, StartFloatingMove, StartFloatingResize, ConfigureRequest, ToplevelCommit,
           X11Commit, AckConfigure, MaximizeRequest, NewPopup, RepositionRequest, PopupCommit,
           PopupRemoved, PlaceInv, TypeOK
  <2>5. CASE ConfigureNotify
    BY <2>1, <2>5 DEF ConfigureNotify, PlaceInv, TypeOK
  <2>6. QED
    BY <2>2, <2>3, <2>4, <2>5 DEF Next
<1>3. (backend = "x11" => Agree(win))'
  BY <1>1, <1>2 DEF PlaceInv, Agree, Told
<1>4. QED
  BY <1>1, <1>2, <1>3 DEF PlaceInv, TypeOK

LEMMA Placed == Spec => []PlaceInv
<1>1. PlaceInv /\ [Next]_vars => PlaceInv'
  <2> SUFFICES ASSUME PlaceInv, [Next]_vars PROVE PlaceInv'
    OBVIOUS
  <2>1. CASE UNCHANGED vars
    BY <2>1 DEF vars, PlaceInv, TypeOK, Agree, Told
  <2>2. QED
    BY <2>1, NextSteps
<1>2. QED
  BY <1>1, InitPlaces, PTL DEF Spec

\* The window, its gestures and its popup are always well formed: whatever the shell, the
\* client and the X server send, no size goes below zero and no origin is made up.
THEOREM PlacementTyped == Spec => []TypeOK
<1>1. PlaceInv => TypeOK
  BY DEF PlaceInv
<1>2. QED
  BY <1>1, Placed, PTL

\* Wherever the client, the shell or a drag puts an X11 window, and however late the
\* server's events are read, the model and the native window agree once all are read.
THEOREM StaysInLockstep == Spec => []Lockstep
<1>1. PlaceInv => Lockstep
  BY DEF PlaceInv, Lockstep, Agree
<1>2. QED
  BY <1>1, Placed, PTL

\* In no layout, and in no order of patches, does a window move without the basis of the
\* pointer over it, or without the popup it has open.
THEOREM TakesAlong == Spec => MovesTakeAlong
<1>1. PlaceInv /\ [Next]_vars =>
          [(/\ IsFloating(win) /\ win'.position # win.position /\ ~Resizing(win)
            /\ Nowhere \notin {win.basis, win'.basis}
            /\ ~\E v \in Views, s \in Sizes : ShellSetsRect(v, s))
           => win'.basis = win'.position]_vars
  BY NextSteps DEF BasisStep
<1>2. PlaceInv /\ [Next]_vars =>
          [(/\ backend = "wayland" /\ win.popup.open /\ win'.popup.open
            /\ IsFloating(win) /\ IsFloating(win') /\ win.size = win'.size
            /\ Nowhere \notin {win.position, win'.position} /\ win'.position # win.position)
           => LET slide == IF win.view = NoView THEN 0 ELSE win'.view.loc - win.view.loc
              IN  win'.popup.at - win.popup.at = win'.position - win.position - slide]_vars
  BY NextSteps DEF PopupStep
<1>3. QED
  BY <1>1, <1>2, Placed, PTL DEF Spec, MovesTakeAlong, BasisFollows, PopupFollows

=============================================================================
