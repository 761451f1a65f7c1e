# A verification of veshell's compositor

TLA+ models of the Rust compositor of veshell (`src/embedder`) and of the parts of its Flutter
shell (`src/shell/lib`) that hold protocol state, the TLC runs that check them on small
instances, and TLAPS proofs of what matters most for every value of the constants.

In this file a path without a prefix is relative to `src/src/embedder` of the repository.

1. [The system](#1-the-system)
2. [What is modelled, and where](#2-what-is-modelled-and-where)
3. [The session lock](#3-the-session-lock)
4. [Idle and automatic power](#4-idle-and-automatic-power)
5. [The portal and its screen casts](#5-the-portal-and-its-screen-casts)
6. [Captures and recordings](#6-captures-and-recordings)
7. [Keys, windows, frames, notifications](#7-keys-windows-frames-notifications)
8. [Runs, bounds and fairness](#8-runs-bounds-and-fairness)
9. [Where the code and its own words part](#9-where-the-code-and-its-own-words-part)
10. [Proofs](#10-proofs)
11. [Not modelled](#11-not-modelled)
12. [What is left](#12-what-is-left)

## 1. The system

veshell is a Wayland compositor whose desktop is a Flutter application. One process holds:

- the **compositor loop** (calloop, single-threaded). It owns `State`: Wayland and X11 windows,
  input, outputs, the lock, the idle machine, captures, the portal ledger. Every handler runs to
  its end; between two handlers anything may happen;
- the **Flutter engine**, whose shell runs on threads of its own and talks to the loop over a
  platform channel, FIFO in each direction. A reload restarts it with nothing;
- **helper threads**: PAM transactions, the logind thread, the ScreenSaver, portal and notification
  D-Bus executors, the PipeWire producer, recording and encoding workers. They share (almost)
  nothing with the loop but channels.

So the hard behaviour is the same everywhere: an answer that comes back later than the state it was
asked for, a timer that outlives its reason, a flag that says something about a thread that has
gone on, a shell that was reloaded in between.

| Component | State it keeps | Operations | Talks to | What makes it correct |
|---|---|---|---|---|
| Session lock (`lock/`) | `LockState`: locked, generation, PAM handles, prompts, release timer | lock, unlock, respond, shown, replay, PAM messages, logind events | shell, PAM threads, logind thread | only the right result unlocks; no prompt without a worker; suspends are let through; the shell shows the truth |
| Idle (`idle/`) | stage, four timers, inhibitors | activity, inhibit, settings, VT switch, suspend, timers | every input path, D-Bus threads, backlight, logind | never dark or suspended while inhibited or away; a whole countdown; always counts down otherwise |
| Brightness (`brightness/`) | user level, idle level | set, set_idle, wake | sysfs | the user's level comes back |
| Capture (`capture/mod.rs`) | selection session, recording session, snapshots | begin, drag, finish, cancel, record, stop | input, renderer, encoder threads | the session is ended by lock and lost outputs; no frozen pointer |
| Recording worker (`capture/recording.rs`) | frame queue of depth 8, stall counter | frame, stop, end of stream | GStreamer | completed or failed, exactly once |
| PipeWire producer (`capture/pipewire.rs`) | streams, buffers | start, stop, frame | the graph | a node belongs to a session that is open |
| Portal (`portal/`) | ledger of sessions, requests, screenshots, choosers, restore grants | create, select, start, close, consent, owner change | D-Bus, shell, PipeWire, encoder | every reply answered once; no stream without consent; nothing survives its frontend |
| Notifications (`notification/`, shell `notification/`) | reply links by token, calls queued until the shell is ready | Notify, Close, shell replies, ready | D-Bus, shell | every caller answered, ids unique, signals to their sender |
| Keyboard (`keyboard/`) | withheld Super keys, forwarded game keys, repeat | key down and up, shell verdict, repeat | clients, shell | every press a client saw is released, in order |
| Input and focus (`input_handling.rs`, `focus.rs`) | pointer position, focus, grabs | motion, button, gesture, focus | clients, shell | locked: nothing reaches clients |
| Meta windows (`meta_window_state/`, shell `meta_window/`) | one record per window on both sides | create, patch, remove, move, resize | XDG, X11, shell | both sides agree once the channel is drained |
| XDG, Xwayland, foreign toplevels (`wayland/`) | surfaces and their roles | commits, configures, requests | clients | acked configures, roles, parents |
| Settings (`settings/`) | JSON document and defaults | load, watch, patch | files | last good settings |
| Shell: windows and matching (`shell/lib/window`) | windows waiting for an application, match scores | launch, match, close | meta windows | a window is matched once, to the best candidate |
| Shell: workspaces, screens, tile grab | assignment and selection per screen | move, monitor added or removed | monitors | no window is lost with its monitor |
| Backends, rendering, cursor, UI | device and picture state | | kernel, GL | pictures: outside of this project |

The state each of these keeps, the hazards at its lines and its status are in `PROJECT.json`
(`components`, `hazards`).

## 2. What is modelled, and where

| Module | Models | Composes |
|---|---|---|
| `SessionLock` | `lock/mod.rs`, `lock/pam.rs`, the grabs and the focus `lock` takes from clients | |
| `LockScreen` | the shell's lock screen and both directions of the platform channel | `SessionLock` |
| `LockSleep` | `lock/dbus.rs`, the delay inhibitor, logind | `SessionLock` |
| `IdleMachine` | `idle/mod.rs`, its callers in `state.rs` and `capture/mod.rs` | |
| `IdleService` | `idle/dbus.rs`: the served object, the watcher of departed clients, the sleep watcher, the event channel | `IdleMachine` |
| `PortalCast` | the screen cast half of `portal/service.rs`, the life of its streams, the shell's picker and indicators | |
| `CastLifecycle` | what a client is promised of a session's life: the abstract specification `PortalCast` implements | |
| `PortalPrompts` | screenshots, colours and file choosers: `portal/mod.rs`, `portal/service.rs`, the shell's prompt and chooser | |
| `FrameDelivery` | the pictures of a cast: `portal/service.rs` and `capture/pipewire.rs` | |
| `Capture`, `Recording` | the selection, the screenshot and the area recording of `capture/mod.rs`; the worker of `capture/recording.rs` | `Recording` extends `Capture` |
| `Keyboard` | `keyboard/mod.rs` | |
| `Placement` | `meta_window_state/floating_move.rs`, `meta_window.rs`, `meta_popup.rs`, the configures of `wayland/` | |
| `Windows` | the registry of `meta_window_state/`, the handlers of `wayland/` that fill it, the shell's copy | |
| `Frames` | `backend/drm_backend.rs`, `flutter_engine/{view,compositor}.rs` | |
| `Notifications` | `notification/`, the shell's `notification/provider` | |
| `*Proofs` | the theorems of section 10 | the module they are named after; `LockProofs` is about `SessionLock`, `LockSleep` and `LockScreen`; `DesktopProofs` about `IdleMachine`, `IdleService` and `Placement`; `SeatProofs` about `Frames`, `FrameDelivery` and `Keyboard` |
| `MC*` | definitions the `.cfg` files need: budgets, plans, symmetry | |

`PROJECT.json` maps every definition that models code to the lines it stands for.

A composing module does not restate its component: it conjoins the component's actions with what
each handler sends and receives. `SessionLock` and `IdleMachine` alone have an environment that may
ask for anything at any time; `LockSleep`, `LockScreen` and `IdleService` replace a part of it with the
real one, and section 10 proves that they implement the component: what holds with the free environment
holds of the composition.

Conventions: a variable has the name of the field it models, in camel case. `None` is
`Option::None`. A value marked *history* is not in the code: it is written and never read by the
actions' guards, and lets a property say "of this lock", "since the last activity". A definition
marked *mutant* is a bug somebody could make in the one it is named after; it is used by nothing, and
each property is known to fail when its mutant is put in that place.

## 3. The session lock

### State and actions

`locked`, `generation`, `password`, `passwordPrompted`, `pendingPrompt`, `queuedResponse`,
`fingerprint*`, `shown`, `sleepPending`, `savedFocus` are the fields of `LockState`;
`sleepRelease` says whether `sleep_release_token` holds a timer. `workers` is a table of the PAM
threads: which stack, which generation, and where the thread stands in its conversation (running,
blocked on an answer, refused because its responder was dropped, done). `authEvents` is the channel
from all of them to the loop. `locks` counts the locks (history).

| Action | Code |
|---|---|
| `LockSession`, `LockRequested` | `lock` 186-222, from the hotkey and logind |
| `UnlockSession`, `UnlockRequested` | `unlock` 225-270 |
| `RespondToPrompt`, `RespondLater` | the two paths of `respond` 326-344 |
| `LockScreenShown` | `on_shown` 347-356 |
| `ReplayToShell` | `replay_to_shell` 586-598 |
| `PrepareShown`, `PrepareDraws` | the two arms of `PrepareForSleep` 417-430 |
| `Resumed` | `on_resume` 440-454 |
| `SleepReleaseFires` | the timer of `release_sleep_after` |
| `Password*`, `Fingerprint*`, `DropStaleMessage` | one action per arm of `on_auth_message` 456-542 |
| `WorkerAsks` ... `WorkerFinishes` | the conversation in `pam.rs` and the closure of `spawn` |
| `ActivateWindow` ... `EndGrab` | `activate_window`, `focus`, and what begins a grab |

A handler is one action, with every call it makes: `PasswordFails` clears the prompt, resets the
failures, starts the fingerprint stack and restarts the password stack. The operator
`StartTransactions` is shared by the five handlers that start PAM.

The payload of a PAM message and the typed answer are not modelled; whether one was asked for,
given, or queued is. `SpawnMayFail` lets the OS refuse a thread, which `pam::spawn` only logs: the
handle is then `Dead`.

### LockScreen

`toShell` and `fromShell` are the FIFO queues of the platform channel; `Tell` and `TellState` put in
what each handler sends at the point it sends it, and `Replay` what a reloaded shell is told. The
shell is the provider (`lock_screen.dart`: `_onEvent`, `reduceAuthUpdate`, `submit`, `lock`) and the
overlay's `reported` flag, which decides when `lock_screen_shown` is sent.

### LockSleep

The logind thread handles one item of its merged streams at a time; the inhibitor it holds, the
commands the loop gave it and the signals of logind are separate queues, as in `dbus.rs`. A suspend
freezes all threads. `LogindImpatient` (logind gives up after `InhibitDelayMaxSec`) and
`LogindMayRefuse` (a call fails) are FALSE in `lock_sleep`: with them the inhibitor protects nothing by
design, and the questions asked here are about what the compositor does while it does.

## 4. Idle and automatic power

`stage`, `dimAlpha`, `powerTriggered`, `dbusInhibited`, `inhibiting` are fields of `IdleState`;
`timers` has a token or `Off` for each of the four timers; `panel` is what the backlight was last
told; `capture` and `recording` say whether `capture_state` has a session of the kind;
`notifierInhibited` is the last argument of `set_is_inhibited`. Time is abstracted: an armed timer
may fire at any moment, so every order of firings is explored, which includes the real ones. The
price is that nothing can be said about durations; the gain is that nothing rests on them. The worth
of a token, `fresh` or `stale`, is history: activity that does not arm a timer anew ages it.

| Action | Code |
|---|---|
| `Activity` (in `Input`, `SessionActivated`, `Resume`, `DbusSimulates`) | `on_activity` 268-288 |
| `Refresh` (in the inhibitor and capture actions) | `refresh_idle_inhibit` 302-325 |
| `SessionPaused`, `PrepareForSleep` | 235-241, 257-264 |
| `SettingsApplied` | `apply_idle_settings` |
| `DimFires`, `FadeFires`, `BlankFires`, `PowerFires` | the four timer callbacks |
| `SurfaceInhibits`, `SurfaceUninhibits`, `SurfaceDies` | `state.rs` 1268-1278, and a client that dies silently |
| `CaptureBegins` ... `RecordingFails` | the places of `capture/mod.rs` that set or take a session, each with or without the refresh it makes |

`IdleService` adds the bus: calls and departures are delivered by two different threads, each of
which computes `!owners.is_empty()` under the mutex and sends it after letting go. That gap is two
actions (`Inhibit` or `UnInhibit`, then `ServedSends`; `WatcherDrops`, then `WatcherSends`).

## 5. The portal and its screen casts

### Sessions and consents: `PortalCast`

#### State

| Variables of `PortalCast` | Code |
|---|---|
| `frontend`, `sessions`, `requests`, `restores`, `tokens` | `PortalLedger` 126-148; a session record holds its `SessionState`, the constraints and, while it starts, the reply link of its `Start`; a request holds its session, whether it was closed, and its open consent |
| `streams`, `indicators` | `active_streams`, and the shell's set of sessions shown as shared |
| `nodes`, `events` | the streams of the PipeWire `Producer` and the channel its events go through |
| `live` | the outputs and windows that can be shared |
| `exported` | the Session and Request objects the bridge serves |
| `picker`, `answers` | the shell's one picker, and what it has sent and the loop not read yet |
| `awaiting` | history: the `Start` calls not answered |

`owner` in a stream record is history too: the frontend that was there when the stream began.

#### Actions

| Action | Code (`portal/service.rs`) |
|---|---|
| `CreateSession`, `SelectSources` | the arms of `apply_portal_call` 2728-2792 |
| `StartPrompts`, `StartRestored`, `StartRestoredFails`, `StartOffersNothing`, `StartCancelled` | the ends of `Start` 2793-2991, with the `UiEvent` each performs at once |
| `RequestCloses`, `SessionCloses` | `RequestClose` 3047-3064 |
| `FrontendOwnerChanged` | 324-412, and the capture side of the sessions it closed |
| `ApprovalGrants`, `ApprovalRefused`, `CancelApplies`, `AnswerIgnored` | `handle_consent_decision`, `resolve_consent`, `begin_shared_stream` |
| `Stops`, `StreamFatal`, `WindowVanishes`, `FrameFails` | the callers of `close_shared_session` |
| `NodeReady`, `CoreFatal` | `handle_producer_event` 2018-2145 |
| `NodeBinds`, `StreamErrors`, `CoreFails` | the listeners in `capture/pipewire.rs` |
| `ShellApproves`, `ShellCancels`, `ShellStops` | the providers in `shell/lib/capture/provider` |

What the handlers share is an operator of its own, named as in the code where it has a name:
`CloseShared` is `close_shared_session`, `StopCapture` is `stop_capture_side`, `Grant` and
`GrantFails` are the two ends of `begin_shared_stream`, `Minted` is `mint_restore_token`.

#### What is assumed

- A handle names no two calls that wait at the same time; xdg-desktop-portal makes them unique. It may
  come back afterwards, and so may the path of a session.
- The loop's messages reach the shell at once; the shell's answers reach the loop later and in order.
  A picker is replaced by the next one. A restart of the shell is not modelled.
- A restore grant is known by the consent it was minted for. A client may present a grant before the
  code has told it of it: more than the code allows, so what holds holds there too.
- Which grant goes when there are too many is left open (`HashMap` order). Cursor modes, labels,
  sizes and the wording of errors are data no property tells apart.

#### The abstract specification

`CastLifecycle` has a phase per session and the set of sessions that are streamed. Its steps are what
a client may see: create, configure, ask, grant, publish, close, and the silence of a core that is
gone. `FollowsLifecycle` says that every step of `PortalCast` is one of these or none, under the
mapping of a missing ledger entry to `Closed`. So a late `NodeReady`, a decision for an earlier
picker, or a failure half-way in a handler cannot start what was not granted or revive what is closed.

The hard questions of the portal are those about two records at a time: the reply link that moves
from a request to its session (`AnsweredOnce`), the stream and the session it needs and the decision
that arrives when the same path has been asked anew (`OnlyApprovedShared`), the stream and its node,
the session, its object and the indicator that lets the user stop it (`NothingLeftBehind`).

### Dialogs without a session: `PortalPrompts`

`Screenshot`, `PickColor` and the file chooser each open one dialog. The frontend's calls and the
changes of its bus name reach the loop through one channel from two threads (`calls`, `watch`); the
ledger keeps the reply (`shots`, `choosers`), the desktop's pixels are frozen in a stash
(`stash`, `pending_pixels`), the dialog opens in the shell (`toShell`, `prompt`, `chooser`), the
Request object goes up on a third thread (`bridge`, `served`), the decision comes back through the
platform channel (`fromShell`), a worker encodes the picture (`working`) and its outcome returns
through a fourth channel (`outcomes`). `HandlePortalCall` is `apply_portal_call` with the pixels it
freezes and the requests it evicts; `PromptApproved`, `PromptDenied`, `StaleDecision`,
`ChooserDecision` are the decision handlers; `PortalCaptureOutcome` publishes. The frontend itself
(`live`, `made`, `answers`) is external: it reuses a handle once it thinks the call over.

`AnsweredWithItsOwn`: every call gets one answer, and it is the result of its own request, whoever had
the handle before. `NothingOutlivesItsRequest`: the dialog, the frozen pixels and the object on the
bus go with the request, along the FIFO channels. `ApprovedIsAnswered`: what the user approved is answered.

Assumed: zbus delivers one client's calls in order; malformed selections and request paths are
refused before they reach the loop and are never sent; the call starts once the backend runs.

### Pictures: `FrameDelivery`

A cast (`casts`, `heartbeats`) copies what is on screen at every present, pointer move and heartbeat into
a buffer of its PipeWire stream (`streams`: phase, format rounds, slots with PipeWire, slots with the
consumer, slots `pending` a fence). `Finish` is `queue_deferred_frame` and the fence's source,
`Deliver*` the three places a frame begins, `PipeWire` the callbacks of the library: formats, buffers
added and removed, states, errors. A picture is its source, whether it has the pointer, and whether
it is the newest. Two casts of a handle one after the other, and two at a time, cover what a stale
timer or fence can meet.

`crossed` is history: something of an earlier stream reached a later one of the same handle, or
the loop refused a fence. The code permits both (section 9), and past them `WholeFrames` and
`FramesAsApproved` claim nothing. Not in the model: the consumer's identity, damage regions,
the contents of the parameter pods.

## 6. Captures and recordings

`Capture` is a selection: `PrintKey` freezes an output (`session`), drags go on until the button is
released (`ReleaseCapture`), a thread encodes (`shots`) and reports (`delivered`), the loop publishes on
the clipboard. Whatever changes the layout or locks the session cancels it. `Recording` adds the
recorded area: the loop pushes copies of the output into a bounded queue and drops what does not
fit (`DeliverFrame`), the worker (`worker`, `commands`, `drops`) feeds its encoder, and a `Stop` that
finds the queue full is sent by a detached thread (`stopping`, `SendStop`). Each worker claims a file
name (`claim`, `files`) and reports once (`results`, `reports`). A frame is the layout it shows; a
recording of an earlier generation may still finalize while the next one runs.

`NothingUnseen`: what is recorded is the picture the user agreed to, and no worker records on that the
desktop does not show. `FilesKept`: names are not shared, a finished file stays, a failure leaves no
empty one. `RecordingEnds`: a stop ends the worker, whatever the encoder does.

Left out: how pixels are composed, the clipboard's X11 bridge, where the pointer is.

## 7. Keys, windows, frames, notifications

### Keyboard

A key of the hardware (`down`) is a hotkey, a game's, Flutter's or nobody's; Flutter's verdict
(`verdicts`) comes back later, in order, and only then the focused client may be told (`told`). A Super key
and what follows it are withheld (`pending`, `consumed`, `forwarded`: `SuperKeyForwarding`) until the
shortcut is known. `KeyEvent` is `handle_keyboard_event` with its filter, `Verdict` the callback. The lock,
a capture, a recording, a text field of the shell and the gaming mode change who gets a key while
others are still down. `swallowed` is history: the keys of which a selection or Ctrl+Escape swallowed a release,
until the client is told of one that no press under way follows. The order in which withheld modifiers are
replayed is that of a `HashMap`, any. `NothingSticks` (each press told is followed by its release), `ChordWhole` (a
modifier goes out before the key it modifies), `LockedTellsNothing`. Keys stand for their kinds;
repeats and lock modes feed Flutter alone and are left out, and so is smithay's own list of the held keys
a client gets when the focus enters it.

### Placement

One floating window, on one axis, in whole logical pixels: the model the shell draws from
(`position`, `size`, `rendered`, `tile`), the native X11 rectangle with its late `ConfigureNotify`
events (`notices`), the pointer's basis over it (an X11 window's alone) and one open popup. A step is one
event of the loop with every patch it makes: move, resize, slide, clamp, centre, a client's own configure or commit
(`X11Commit`: a buffer larger than the geometry kept), the shell's viewport, tile origin and rendered origin one patch at a time. `Lockstep`: model and native window
agree once the X server has been heard. `MovesTakeAlong`: basis and popup move with the window in
the same step. Left out: the second axis, several outputs, client-side margins, X11 popups, sizes of
zero. A move and a resize may both be on (`win.move`, `win.resize`): a client may ask for both in one
press. `overruled` marks a placement a resize has discarded (section 9).

### Windows

The registry on one side of the platform channel (`windows`, `windowOf`, `popups`, `popupOf`, `gaming`), the
shell's copy on the other (`known`, `mirror`, `shown`, `arriving`: creations that await a desktop entry,
`route`: the zoom of a game). Clients end roles, surfaces and popups in any order, X11's too.
`TeardownWhole`: the reverse maps, the popups and the takeover never outlive the window, and each end
is told once and after that of its popups. `ShellConverges`: with the channels drained the shell has the
embedder's windows. `missed` marks a window a patch of which came during the await (section 9).

### Frames

When the DRM backend composites: an on-demand render is asked for by damage (`asked`), queues a page
flip (`framePending`, `flips`) and answers Flutter's vsync `baton` at the pacing output's vblank or by a
fallback timer. Blank, VT switch, suspend and hotplug drop flips whose vblank may come `late`. `NoFlipAwaitedInVain`:
an output never waits for a vblank that is not to come. `FramesGoOn`: damage is shown, an output that
was dark lights up again, the baton is answered, each with the exceptions of section 9 named in the
formula. One GPU; refresh rates are abstracted to which output is the fastest; rendering succeeds.

### Notifications

Calls go from the D-Bus object through the loop (`calls`, `queued_outgoing` until the shell is ready, the
reply link in `pending_notify`) to the shell, which owns the entries (`notificationMap`), pushes popups to
channels by the route of the moment (`popupChannels`, `cards`), and synthesizes notices for windows that
demand attention (`attention`). What a Dart function does before an `await` is one step, what follows another
(`tasks`, `naming`). An activation mints a token that is a focus grant (`tokens`, `granted`). `BooksAgree`, `TokenToItsOwner`,
`NothingStale`, `NotifyAnswered`. Left out: the shell's own system notifications, the persisted history,
hints, the desktop entry as an activation's last resort.

## 8. Runs, bounds and fairness

Twelve runs, each with a question of its own; all must finish with no error.

| Run | Properties |
|---|---|
| `portal_cast` | `AnsweredOnce`, `NothingLeftBehind`, `OnlyApprovedShared`, `FollowsLifecycle` |
| `area_recording` | `NothingUnseen`, `FilesKept`, `RecordingEnds` |
| `keyboard_routing` | `NothingSticks`, `ChordWhole`, `LockedTellsNothing` |
| `placement` | `Lockstep`, `MovesTakeAlong` |
| `windows` | `TeardownWhole`, `ShellConverges` |
| `frames` | `NoFlipAwaitedInVain`, `FramesGoOn` |
| `notifications` | `BooksAgree`, `TokenToItsOwner`, `NothingStale`, `NotifyAnswered` |
| `portal_prompts` | `AnsweredWithItsOwn`, `NothingOutlivesItsRequest`, `ApprovedIsAnswered` |
| `screen` | `ShellMirrors`, `AnswerSettled` |
| `idle` | `LoopFollowsCookies`, `HeldStaysAwake`, `CountdownSound`, `PowerOnlyWhenIdle`, `FadeEnds` |
| `lock_sleep` | `PromptReachesWorker`, `OneTransactionPerStack`, `NoClientInputWhileLocked`, `InhibitorRearmed`, `UnlockAuthorized`, `SleepSettles` |
| `frame_delivery` | `WholeFrames`, `FramesAsApproved`, `NoSilentCast`, `PictureCatchesUp` |

Bounds, and why they are enough for the question:

- `lock_sleep`: `MaxLocks = 2`, since a stale result needs one lock to be sent in and another to arrive in; two
  threads, a stale transaction and a live one; one window and the grab a locked session must not have;
  one lock, one unlock, one suspend from outside (`Budget`), besides those of the shell and of PAM. No reader is
  installed, so the fingerprint stack's part is what section 10 proves and `screen` exercises.
  `LogindImpatient` and `LogindMayRefuse` are FALSE: with them the inhibitor protects nothing by design.
- `screen`: one lock with a reader that talks, threads the OS may refuse, an unlock, a reload of the
  shell and one typed answer. When the budgets are spent the system may stop, so it does not check for deadlock.
- `idle`: a user who wants all timeouts and one who wants automatic power alone, with switches between
  them; one surface, one client with two cookies, one call and one event under way. The race of the two
  D-Bus threads about one owner needs no more.
- `portal_cast`: two paths of sessions, two handles, two frontends, a monitor and a window. Two of each is
  what a mix-up needs. `MaxTokens = 2` lets a session be asked for, closed, created and asked for again with the
  first decision still on its way; `RestoreLimit = 1` is passed by the second grant. `MaxUnderWay = 1` bounds the
  producer's events and the shell's answers not read to one each; the ledger may go through any number
  of calls in between, so an event is as stale as it can be.
- `portal_prompts`: nine plans, each the calls, closes and changes of owner a mix-up needs: a handle closed and
  used again, two prompts where the stash holds one, a screenshot and a chooser under one handle, a
  second generation of the frontend.
- `frame_delivery`: two slots, two changes of a size, two starts and faults together; with dmabufs one
  handle cast twice, in shared memory two at a time.
- `area_recording`: two outputs that change once, one screenshot, two recordings, a queue of one frame and a stall
  limit of two: full, stalled and drained are all reached.
- `keyboard_routing`: a Super, a Ctrl, an Escape and a Print key are one of each kind the code tells apart; two down
  and two verdicts under way overtake each other; section 10 has no bound.
- `placement`: two places of the pointer, two sizes, two views, one notice not read; a second drag
  begins where the first has the window.
- `windows`: a toplevel, an X11 surface and two popups (one may be the other's parent), three ids, two messages.
- `frames`: two outputs; a third would be another of the output that does not pace.
- `notifications`: seven budgets of calls, clicks, closes, moves and demands for two clients with a window each:
  at most two calls, which is a replacement and what it replaces. Ids are not bounded: the budgets bound them.

Symmetry is used in `screen` and `portal_cast`, where no liveness is checked (`FollowsLifecycle` and `OnlyApprovedShared` are
safety properties whose formulas are symmetric).

**Fairness.** What is fair is what the program itself owes: calloop dispatches the sources that are
ready, a timer fires, the shell's event loop reads its queue, threads run, a worker's waits are bounded,
a submitted flip completes, the GPU finishes, a linked consumer reads. Nothing outside is: the
user need not type, a client need not answer, logind need not suspend, nothing need be damaged. A
suspended machine is woken. All fairness is weak but that of the thread that
forwards suspends to the loop (`SleepWatcherForwards`): its channel is bounded, and room in it that
comes and goes must be enough. `PortalCast`, `Keyboard`, `Placement` and `Windows` state
safety only: what comes next there is up to a user, a client or PipeWire.

## 9. Where the code and its own words part

Each of these was found as a counterexample of TLC to what a line of the repository says, or met
while reading; none is excused by the models, which do what the code does. The properties of the
runs state what holds besides them.

The lock and idle:

- `unlock` sets `fingerprint_running` to false while the fingerprint thread is still in PAM, and only
  its result is made stale (`lock/mod.rs` 240, against 296). Locking again starts a second transaction on
  the same reader, which usually makes one of them fail and costs an attempt.
- `lock_screen_shown` has no generation (350, against 72): the one of the lock before can arrive after an
  unlock and a new lock, and a suspend then goes ahead although nothing was drawn yet.
- Unlocking between `PrepareForSleep` and the draw grace cancels the timer that would have released
  the inhibitor, and nothing else does (243, against `lock_screen.md` 29): the suspend waits for
  `InhibitDelayMaxSec`. `SleepSettles` excepts it.
- A client's `move` request is honoured while the session is locked (`wayland/xdg.rs` 266). `lock` ends
  such a grab but keeps no new one out, which is why `NoClientInputWhileLocked` speaks of the guarded grabs.
- `Inhibited(false)`, computed when one client left, can be sent after the `Inhibited(true)` of another
  client's cookie (`idle/dbus.rs` 238, against `idle/mod.rs` 290): the screensaver starts although the
  cookie is out. `LoopFollowsCookies` states what holds as long as nobody leaves.
- The capture finished with a picture, and the recording that fails, take their session without
  `refresh_idle_inhibit` (`capture/mod.rs` 241): ext-idle-notify clients stay inhibited, and no
  countdown runs until the next input. `CountdownSound` excepts it.

The portal:

- The user approves a source that went away meanwhile: `close_shared_session` drops the session's
  requests with the reply link of the `Start` that waits (`portal/service.rs` 2465, against 1051).
- After a failure of the PipeWire core the ledger keeps its sessions (`capture/pipewire.rs` 616 says
  they are torn down), and a `Start` that was waiting for its node goes on waiting.
- A cancelled picker closes its session but leaves the request of its `SelectSources` in the ledger
  and on the bus (301 says a session that closes must not). `RequestClose` of a `Start` that waits in the
  picker answers it, but its session stays `Choosing` (3059). A `Start` restored without a picker
  removes its Request object first and serves it after (429).
- A denied screenshot prompt never takes its Request object off the bus, and its frozen pixels stay
  until the next portal call. `NothingOutlivesItsRequest` excepts both (`denied`).
- Handles are unique per table only: after a `Close` the bus refused, a screenshot and a chooser may
  share one (`doubled`), and closing it unexports the object the other still needs.
- The frontend's name is read before its changes are subscribed to (`portal/mod.rs` 1003-1020), and a new
  frontend's first call may overtake the change of owner and be refused.
- The shell has one prompt and one chooser. A newer one replaces the one shown, whose call then waits
  until the frontend closes it (`screenshot_prompt.dart` says never dropped); opening a prompt over a chooser
  retargets both.
- Frame delivery, past `crossed`: fence ids start anew with a stream, so a stale fence may release a
  new stream's buffer; a "replaced" session keeps its heartbeat timer (`portal/service.rs` 1470), which
  doubles the rate, and one of another kind delivers the wrong source or closes the cast. `pending` survives
  `remove_buffer`, so PipeWire may be handed a buffer that is gone (`capture/pipewire.rs` 1344, "queued
  back exactly once"). A refused fence queues an unfinished frame (382, 1614); a frame found finished may
  overtake an earlier one, which the heartbeat heals; an unknown fd loses the dequeued buffer. A monitor cast is
  not closed when its monitor is unplugged.

Captures:

- The even size of a selection one pixel wide is 0, so that its queue always counts as full
  (`capture/recording.rs` 329). A failure to assemble after the name was claimed leaves an empty file;
  after such a failure a recording begun in the same millisecond may overwrite a partial one.
- Two screenshots that are encoded at the same time reach the clipboard in the order they finish.

Keys:

- Ctrl+Escape swallows the release of Escape (`keyboard/mod.rs` 553, against 345), and a selection begun in a
  game those of the keys it holds, which stay in `game_mode_forwarded_keys` (505, against `state.rs` 117).
  `swallowed` excepts both. A button pressed before a capture has its release swallowed as well.
- A Ctrl consumed by a shortcut before Super is not replayed with it (97-137); `ChordWhole` excepts it. A
  verdict that returns after an unlock goes to the client (573-613). `swap_alt_and_win` is decided anew at each event.

Windows and placement:

- Patches of a window whose creation still awaits its desktop entry are dropped by the shell
  (`missed`). A game that ends during the 300 ms of its zoom leaves its route on the screen
  (`meta_window.rs` 440, against 430 and `gaming_mode.md` 43).
- An X11 `wl_surface` that ends before its unmap leaves an entry of `x11_surface_per_wl_surface`.
  `parent` and `activated_by` go on naming removed windows; `new_popup` expects a parent that is still there.
- While a window is resized the position and geometry its client or the shell asks for are dropped,
  though the native window took them (`overruled`). A move asked for during the resize is such a case
  throughout: it moves the native window and the popups, and the model stays (`floating_move.rs` 141, 205). A
  tile geometry pushed then is corrected once only. An X11 `ConfigureNotify` of a drag may arrive after its end (`wayland/xwayland.rs` 828, against 824).
- The viewport translates an open popup even when its parent's patch was ignored; the first viewport
  after a popup opened is not renormalized, and renormalizing undoes a clamp. `SetWindowRect` neither clamps nor
  updates the pointer's basis. A `start_move` may arrive after the release it belongs to.

Frames:

- A render asked for while the node's slower output waits for its flip is forgotten (`drm_backend.rs`
  1682, against 1865), and so is one the software cap skips for one of several outputs (1953). `DamageShown` speaks of
  the pacing output for that reason. An output plugged in while blank is powered by its first frame (1449,
  against 207). Errors of rendering and queueing are not retried.
- The answer to `add_view` unwraps an output that may have been unplugged (`flutter_engine/view.rs` 312-322).

Notifications:

- Nothing drops `pending_notify` when the shell reloads, though `notification/state.rs` 29 says so, and
  `shell_ready` is never reset.
- The D-Bus reply and the signals are sent by different threads, so `NotificationClosed` may precede the
  reply of its `Notify`, and `ActionInvoked` may follow `NotificationClosed`; a double click sends it twice.
- A replacement that arrives while an activation is awaited is closed with the old entry and gets the old
  entry's action. Two demands during the await of the application's name stack two notices ("a repeated
  demand must not stack", `notification.md`).

## 10. Proofs

TLAPS checks them for every value of the constants that satisfies the named assumptions of the
modules; TLC evaluates these assumptions in every run. Each argument finds an inductive invariant,
because none of the properties is inductive as it stands.

### The lock

`LockProofs` proves, for any number of threads, windows, attempts and
locks, and with every flag either way:

| Theorem | Property |
|---|---|
| `Invariance` | `Spec => []IInv` |
| `TypeCorrect` | `TypeOK` |
| `OnePerStack` | `OneTransactionPerStack` |
| `WithinBudget` | `FingerprintBudget` |
| `NoClientInput` | `NoClientInputWhileLocked` |
| `OnlyAuthorizedUnlock` | `UnlockAuthorized` |
| `MissingReaderStays` | `MissingReaderRemembered` |
| `PromptHasWorker` | `PromptReachesWorker` |

**Assumptions.** The constants' own: the attempts are a positive number, the flags are Booleans, the
names `None` and `Dead` are no threads, windows or worker records, the grabs are known ones. They
are the named `ASSUME`s of `SessionLock`, and TLC evaluates them in every run.

**The argument.** None of the properties is inductive. `UnlockAuthorized` compares the message at the
head of a queue with the present lock, so the invariant must speak of every message in the queue
and of every thread that may still send one:

- `Tagged`: a thread, and a message, of the present generation was started in the present lock. It
  is kept because `lock` and `unlock` both move to a generation no thread has.
- `Reported`: a result in the channel is the last word of a thread that is `done`, and the only
  result of that thread. It is kept because a thread is free again only once its result was read;
  without it a new transaction could be taken for one that ended.
- `Handle`: the password handle held is that of a transaction of this lock, and there is no other
  one. It is what `password == None` in `respond` and `on_resume` relies on.
- `Readers`: of this lock there is one fingerprint transaction at most, and `fingerprintRunning` says
  so. (Only of this lock: section 9.)
- `Budgeted`: a reader that runs is one of the attempts left, on a machine not known to have none.

`IInv` is their conjunction with the types. The lemmas follow the code: `Started` says what
`StartTransactions` leaves behind, `TagsKept` and `ReportedKept` what any step must satisfy to keep
the tags and the results, `StartKeeps`, `QuietKeeps`, `ReadKeeps`, `UnlockKeeps`, `LockKeeps` treat
the shapes of steps, and one case per action of `Next` puts them together in `NextIInv`.

`PromptReachesWorker` needs more: an unread prompt is that of a thread that waits (`UnreadWaits`), a
thread has one unread prompt at most (`UnreadOnce`), what the loop holds pending waits
(`PendingWaits`), and a thread that was given an answer was asked (`AnsweredAsks`).
`LockProofs` proves their conjunction `Asked` inductive on top of `IInv`.

### The lock with logind

`LockProofs`, on top of that:

| Theorem | What it says |
|---|---|
| `SleepImplementsLock` | `SleepSpec => Spec`: the lock behind the logind thread is the lock in its free environment |
| `SleepPromptHasWorker`, `SleepOnePerStack`, `SleepNoClientInput`, `SleepOnlyAuthorizedUnlock` | hence its properties, those of the run `lock_sleep` |
| `InhibitorComesBack` | `InhibitorRearmed`, if logind waits for the inhibitor (`~LogindImpatient`) and grants a new one (`~LogindMayRefuse`) |

**The argument** of `InhibitorComesBack`. The compositor's release of one suspend must never spend
the inhibitor of the next. `SuspendInv` says where that release is: announced to the loop, waited
for by the loop's timer, commanded to the thread, or done, and only one of these (`OneRelease`). Once a
new inhibitor is held nothing of the last suspend is under way (`NothingUnderWay`). `One` and `No` count
the occurrences in the queues; the steps of the loop split by what they do to the timer
(`Disarming`, `ReleaseCommanded`), the rest keeps it (`QuietKeepsRelease`).

### The lock with its shell

`LockProofs` again, for any number of threads, locks, reloads and messages under way in either direction:

| Theorem | What it says |
|---|---|
| `ScreenImplementsLock` | `ScreenSpec => Spec`: the lock behind the platform channel is the lock in its free environment |
| `ScreenMirrors` | `ShellMirrors` |
| `ScreenAnswerSettled` | `AnswerSettled` |

**The argument.** Both properties speak of empty queues; the invariant (`ScreenInv`) says what each queue
will make of the shell. The last announcement under way, or the shell if there is none, has the lock
state (`LockTold`); the last message that touches the reader's line has it right (`NoticeTold`); a field
that takes no input has an answer under way, a message that frees it, or a transaction that has not asked
(`CheckingSettles`). The first two are suspended while a reloaded shell has yet to be told (`Reloaded`),
and the replay restores them. `Telling` is what a list of messages must be for this to hold after any
handler, `AnswersKeep` that it suffices, and one case per handler shows that it sends such a list. On the
lock's side `UnderWay` adds what `Asked` lacks: an answer is queued only while a transaction runs that has
asked nothing, a thread that is done has its result in the channel, and the prompt of one that waits is
shown or in the channel. An idle system with a blocked field contradicts these.

### The idle machine

`DesktopProofs` proves of `IdleMachine`, for any set of surfaces, any settings, either backend and any number of power
requests under way:

| Theorem | Property |
|---|---|
| `IdleInvariance` | `IdleSpec => []IdleIInv` |
| `IdleTypeCorrect` | `IdleTypes` |
| `StaysAwake` | `InhibitedStaysAwake` |
| `StaysQuiet` | `PausedStaysQuiet` |
| `CountdownsWhole` | `WholeCountdown` |
| `StagesShow` | `StageShows` |
| `CountsDown` | `CountdownRuns` |
| `HeldAwake`, from `StaysAwake` and `StaysQuiet` | `HeldStaysAwake` |
| `CountsSound`, from `CountsDown` and `CountdownsWhole` | `CountdownSound` |
| `PowersOnlyWhenIdle` | `PowerOnlyWhenIdle` |

**Assumptions.** The flags of the backend are Booleans, the configurations are settings, the bound
on requests is a number, and `Off` is not the worth of a token.

**The argument.** The properties lean on each other. That a timer which fires finds an active
session that nothing inhibits follows from `InhibitedStaysAwake` and `PausedStaysQuiet` (else no
timer would be armed); that the stage it moves to keeps both follows from that (`FiresFacts`,
`DarkKeeps`). `CountdownRuns` needs one more conjunct, `NotifierKnows`: only the *end* of an
inhibition may go unnoticed, never its beginning. With it, the step that notices the end runs
`refresh_idle_inhibit` on an active stage and arms the timers. `IdleIInv` is the conjunction of
these and the types. The lemmas are about the operations the handlers share (`ActivityKeeps`,
`RefreshKeeps`, `AwakeKeeps`), and each group of handlers then uses the one it calls.

### The idle service

`DesktopProofs` again, for any number of clients, calls and settings:

| Theorem | What it says |
|---|---|
| `ServiceImplementsMachine` | `ServiceSpec => IdleSpec`: the two D-Bus threads do nothing to the machine that its free environment may not |
| `ServiceHeldAwake`, `ServiceCountsSound`, `ServicePowersOnlyWhenIdle` | hence its properties, those of the run `idle` |
| `LoopFollows` | `LoopFollowsCookies`, by `CookiesTold`: what the loop knows after all that is on the channel and about to be sent is what the cookies say, until a client leaves |

### Frames

`SeatProofs`, for any number of outputs: `FlipsAwaited` is `NoFlipAwaitedInVain`, inductive with
the types of the three variables it reads. The lemmas are about what the handlers share: `Render` gives
what waits its flip, `Cleared` drops both together.

### The casts

`PortalCastProofs` proves what the run `portal_cast` checks, for any number
of sessions, handles, frontends, sources, tokens and messages under way:

| Theorem | Property |
|---|---|
| `CastTypeCorrect` | `CastTypes` |
| `ImplementsLifecycle` | `FollowsLifecycle`: `CastSpec` implements `CastLifecycle` |
| `SharesOnlyApproved` | `OnlyApprovedShared` |
| `LeavesNothingBehind` | `NothingLeftBehind` |
| `RepliesOnce` | `AnsweredOnce` |

**Assumptions.** Demands are well formed, the bounds are positive numbers, `None` is neither a
number nor one of the values and records it stands beside, and sessions and handles, monitors and
windows, are different things.

**The argument.** `CastInv` is the types, that who has a session open is there, `SharedAsApproved`,
and `ConsentInv`: a call that a decision shown or under way would settle (`Waits`) is in a session that
chooses, waits there alone, and under a token already minted, so that no later call gets the same. The
last is what makes a decision harmless that arrives after its session was closed and asked anew:
`NobodyNew` says that no step but a `Start` with a picker makes anybody wait. The steps have five shapes
(`QuietKeeps`, `CloseKeeps`, `MoveKeeps`, `GrantKeeps`, `UnaskedKeeps`), and one lemma per group of
handlers says which shape each has. `StepKeeps` proves at once that the invariant is kept, that the step
is one of `CastLifecycle` or none, and that nothing is shared while the user is asked.
`NothingLeftBehind` is inductive on top of that (`TidyKept`). `AnsweredOnce` is not: `LinkInv` speaks of each
link, and adds that the call whose link a session holds is in the ledger no more, else a second
`Start` could give it a second holder.

### The recording

`RecordingProofs`, for any number of outputs, layouts, recordings and queue entries:

| Theorem | Property |
|---|---|
| `NothingIsUnseen` | `NothingUnseen`: `OnePicture` and `NoOrphanWorker` |
| `KeepsFiles` | `FilesKept` |

**The argument.** `RecordingInv` speaks of what is queued, not of what is read: `Frozen` says that a
worker's queue holds nothing but its own layout and Stop, `Shown` that a worker which takes frames is
the one the desktop shows or has its Stop queued, waiting for room or already read (`stopping`). A
layout that changes ends the selection and stops the recording in the same step; that is what keeps
`Frozen`. `Claims` makes claims and claimed files one to one. That a worker which builds finds a free name is
a count: the names used are no more than the workers past building (`Cardinality(Used) <=
Cardinality(Past)`), and there is a name for each. The assumptions are those of `Capture` and
`Recording`: the bounds are numbers, and `None` is no session and no recording.

### Placement

`DesktopProofs` again, for any set of views and sizes:

| Theorem | Property |
|---|---|
| `PlacementTyped` | `TypeOK` of `Placement` |
| `StaysInLockstep` | `Lockstep` |
| `TakesAlong` | `MovesTakeAlong` |

**The argument.** `Lockstep` says something only when no event is under way; the invariant (`Agree`) adds
that the last event under way tells of where the native window is (`Told`), so that reading it brings the
model there. `MovesTakeAlong` is about one step, but a step of the code patches the window several
times over (a configure, the commit's offset, the pointer's move, the snap). `Patched` is what each of
these may do: it carries the basis and the popup, and keeps `Agree`. `PatchedOn` composes two of them, and
each handler is a chain of patches.

### Windows

`WindowsProofs`, for any number of surfaces, ids and messages under way in either direction:

| Theorem | Property |
|---|---|
| `TearsDownWhole` | `TeardownWhole`: `RegistryAgrees` and `TeardownTold` |
| `Converges` | `ShellConverges` |

**The argument.** Both speak of a queue whose meaning depends on the shell's own state when it reads.
`WindowsInv` gives each message its place: nothing is said of a window before its creation or after its
removal (`WindowOrder`); a popup is shown once, ended once, and ended before its window is
(`PopupOrder`). `Books` then is the ledger: the embedder has exactly the windows and popups which the shell
has, or will have heard of when it comes to the end of the queue, and whose end it has not and will not.
With an empty queue this is convergence. `MappedTold` says the last word under way on a window is the
true one, `Takeover` that a game's takeover is asked for, had or given up, in one place only. `Led` and
`Spent` make teardown find what it must: a surface in a table lives and has its role, and no id is given
out twice. A teardown tells of several ends at once: `Torn` says what it leaves in the tables, `Tolled`
what it appends, whatever the order in which the popups are taken. One lemma per action keeps the
embedder's half, `ReadKeeps` and the `*Read` lemmas the shell's.

### Notifications

`NotificationsProofs`, for any number of clients, windows, notifications and messages under way:

| Theorem | Property |
|---|---|
| `BooksBalance` | `BooksAgree` |
| `TokensReachOwners` | `TokenToItsOwner` |
| `StaleNever` | `NothingStale` |

**The argument.** The loop learns of a notification when the shell answers its call, forgets it when the
shell reports it closed, and hands out its tokens in between, while the shell replaces and closes on: what
the loop will know depends on the order of the requests under way. `Owned` and `Unowned` say what the loop
will know of an id after the first *n* requests: the last of them that touches the id decides, or the
loop's table if none does. `Balanced` then is: after all of them the live notifications, and no other, have
a sender, the one whose window the entry names. `TokensOwned` says the same of each token at its own place in
the queue, which makes the request of a token harmless that a replacement or a closing follows. `ToldOnce`
and `Accounted` are the ledger of the signals: each id told of is live, or told closed once, or will be.
These five, over the queue and the tables as arguments, are `BooksOf`; a lemma for each kind of request the
shell sends (`AsksLoop`, `TellsResult`, `TellsClosed`, `NewId`) and one for what the loop does with the first
(`LoopHandles`) keep them. The sender of a result is looked up by the token of its call: `Tickets` says a
call has one token, wherever it is, and is answered once. `Calls` keeps the shell's own notices apart from
what a client may name in `replaces_id`. The assumptions are those of `Notifications`.

### Keys

`SeatProofs` again, for any of the keys, any number of them down and any number of verdicts under way:

| Theorem | Property |
|---|---|
| `KeyboardInvariant` | `KeyboardSpec => []KeyboardInv` |
| `StuckNever` | `NothingSticks` |
| `ChordsWhole` | `ChordWhole` |
| `LockedQuiet` | `LockedTellsNothing` |

**The argument.** `NothingSticks` says something only when no key is down and no verdict is under way, long after
the steps that could break it. `ToldInv` says of every key the client was told of, and whose release was not
swallowed, that a release of it goes out: one in the queue of verdicts, or the one that is due once the key is up
(`StillDue`). A release goes out for one of three reasons (`Freed`): the key was forwarded and is no modifier, so
that any release of it goes out (`Sure`); or nothing of it is withheld, so that the first one does (`Clean`); or
another release comes before it with no press between, which leaves nothing withheld. `FlutterHolds` is
what makes that inductive: the last event of a key under way is what Flutter was told of it (`SentTold`), a key
withheld has a release to come (`Covered`), and between two presses of a modifier there is a release (`Spaced`). The
lemmas treat what all handlers share: events appended to the queue (`FlutterAppended`, `FreedJoined`), one
taken off it (`FlutterJudged`, `FreedRest`), and the events told (`TellsIs`). Then there is one lemma per
branch of `resolve`, and one per other disjunct of `KeyboardNext`. `ChordsWhole` and `LockedQuiet` follow in one step: only a verdict tells a client of
a key that is no game's (`TellingIs`).

The attempt found the earlier history variable wrong: a key whose release was swallowed counted as told clean
after the first release from Flutter, though with three verdicts under way an older press may still follow. The
run with two never meets it.

**Assumptions.** `KeyboardBounds`: the keys are of the kinds the code tells apart, the bounds are positive numbers.

### Pictures

`SeatProofs`, for any finite sets of handles and slots, any number of presents, casts and failures:

| Theorem | Property |
|---|---|
| `DeliveryTypesHold` | `DeliveryTypes` |
| `FramesWhole` | `WholeFrames` |
| `FramesApproved` | `FramesAsApproved` |
| `SilentCastNever` | `NoSilentCast` |

**The argument.** A buffer is handed over by the fence that waits for it, found by its id: `FencesApart` says that the
fences of one stream have different ids, `HoldsFenced` that a buffer held back has its fence registered,
`BuffersPlaced` that a buffer that has memory is in one place of three: with PipeWire, queued or held back.
`QueuedDrawn` then is that what the consumer may read is drawn. `ShowsOwn` is `FramesAsApproved` for every
buffer, not only the one that is read. They are `Whole` and `ShowsOwn` of one stream and the fences, so that a lemma
treats each callback as a function of its stream, and one more (`SameFences`) says that the other
streams lose nothing. `FreshId` is the one count: the least number no fence has is at most their number.

**Assumptions.** `DeliveryFinite`: handles and slots are finite sets. `StreamsAssumption`: `None` is no cast and no stream.

### Dialogs without a session

`PortalPromptsProofs`, for any finite set of handles, any number of calls, frontends and messages under way:

| Theorem | Property |
|---|---|
| `PromptTypesHold` | `PromptTypes` |
| `PromptsAnswered` | `AnsweredWithItsOwn` |
| `FollowInvariant` | `PromptSpec => []FollowInv` |
| `RequestsOutlived` | `NothingOutlivesItsRequest`: `DialogsAndObjectsFollow` and `PixelsFollowRequests` |

**The argument.** `Account` gives each call its place: it is on the loop's channel once, or held by one entry of the
ledger, or answered once, and no two of these. `EntriesInv` ties an entry to what the user is asked: its token was
minted for its call (`askedBy`), which no other entry holds, and a picture that is being encoded is one the user approved. A
decision or an outcome that arrives late finds an entry with its token or none, hence the
right call or none; `ResultsInv` is then `ResultOfOwnRequest`. A close, an evicted prompt and a
frontend that vanished each end a set of entries at once: `EndsExactly` says which calls are answered by it, and
`ApartAfter` that the rest keep their places.

`NothingOutlivesItsRequest` speaks of what is on screen and on the bus once all messages have arrived; `FollowInv`
says it of the messages. `Truthful`: each dialog shown, or told of and not yet shown, is that of a live
request, or a dismissal of it comes after it on the same channel; and a dialog the user has decided on is neither shown
nor told of again, which is why the loop need not dismiss it. `ServedAfter` is what the bus will have once the
bridge has done all it was told, the last message of each handle deciding; that set is the live requests, but for
the denied and the doubled. An eviction tells of all requests at once, in any order (`UnexportsDone`,
`DismissalsDone`). Of the pixels the proof is a count: a frozen desktop takes a place after the reconciliation, so that at
most one is over, the least goes (`StashedFew`), and every one that stays has its request. What a consent takes is
its own, since two entries with one token would be of one call (`PromptApprovedPixels`).

**Assumptions.** `PromptFinite`: the handles in use are finitely many.

### Only model-checked

All liveness (`SleepSettles`, `FadeEnds`, `RecordingEnds`, `FramesGoOn`, `NotifyAnswered`, `ApprovedIsAnswered`, `PictureCatchesUp`): the prover has
no rule for `ENABLED` or fairness. No module declares a RECURSIVE operator. The one induction is that a set of naturals has a
least element (`LeastNat`, from well-foundedness).

## 11. Not modelled

- *Screen brightness devices, cursor themes, settings files, the state file of the harness*: files and
  sysfs; what the other parts ask of them is in `IdleMachine` (`panel`, `SettingsApplied`).
- *Rendering*: GL, damage regions, explicit sync with clients' buffers, the nested (winit) backend. One
  thread of device calls; its order with the rest is in `Frames` and `FrameDelivery`.
- *Wayland protocols smithay implements* (`state.rs` delegates): seats, selections, data devices, outputs. What
  the delegates call in veshell is in the module of the component.
- *Hit testing and the scene*: geometry of many surfaces, drawn by Flutter.
- *Foreign toplevels and the parents of dialogs*: tables with one writer, looked up once.
- *The shell's workspaces, tile grab and matching*: state of widgets with one writer. The embedder sees of
  it only the placements and configures `Placement` has, from an environment that may send any.
- *Xwayland's* start, selections and override-redirect windows, which no other component reads.
- *The Flutter engine's* FFI, task runner and textures.
- *The rest of the shell's widgets, the probe, build scripts, vendored helpers.*

Inside the modelled components, what each leaves out is in its section and in the note of the component in
`PROJECT.json`.

## 12. What is left

- An abstract lock (open or locked, opened only by an authorisation given since) that `SessionLock`
  implements.
- Matching (`shell/lib/window/provider/matching_engine.dart`) as a pure algorithm against a reference
  definition over bounded inputs.
- Two axes and several outputs in `Placement`; the parents of dialogs in `Windows`.
- Workspaces on monitors that come and go.
