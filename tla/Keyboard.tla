------------------------------ MODULE Keyboard ------------------------------
(***************************************************************************)
(* Who gets a key: src/embedder/keyboard/mod.rs, with what the lock, a     *)
(* capture and the gaming mode do to it. The compositor takes its hotkeys; *)
(* a game gets the rest at once; otherwise Flutter gets it first, and only *)
(* what Flutter leaves goes to the focused client, when Flutter's verdict  *)
(* comes back, a Super key and what follows it withheld until then.        *)
(*                                                                         *)
(* Keys stand for their kinds. Repeats and lock modes feed Flutter alone   *)
(* and are left out, as are the hotkeys that end in another terminal.      *)
(***************************************************************************)
EXTENDS Naturals, Sequences, SequencesExt, FiniteSets

CONSTANTS
    Keys,       \* of {"Super", "Ctrl", "A", "B", "Print", "Escape"}
    MaxDown,    \* keys down at a time (bound)
    MaxVerdicts \* key events with Flutter at a time (bound)

ASSUME KeyboardBounds == /\ Keys \subseteq {"Super", "Ctrl", "A", "B", "Print", "Escape"}
                         /\ MaxDown \in Nat \ {0}
                         /\ MaxVerdicts \in Nat \ {0}

VARIABLES
    \* the hardware, and what the seat takes it for: KeyboardHandle::pressed_keys
    down, held,
    \* what Flutter was told is held, and the events it has not judged yet
    sent, verdicts,
    \* SuperKeyForwarding
    pending, consumed, forwarded,
    \* the gaming mode, and the keys its client was handed
    gaming, gameKeys,
    \* what takes keys away: the lock, a capture, a recording, a shell's text field
    locked, capturing, recording, typing,
    \* the client: whether one has the focus, and the presses it was told since; the keys
    \* of which a hotkey or a capture swallowed a release, until the client is told of one
    \* that no press under way follows (history)
    focused, told, swallowed

forwardingVars == <<pending, consumed, forwarded>>
gameVars       == <<gaming, gameKeys>>
modeVars       == <<locked, capturing, recording, typing>>
clientVars     == <<focused, told, swallowed>>
keyboardVars   == <<down, held, sent, verdicts, forwardingVars, gameVars, modeVars, clientVars>>

----------------------------------------------------------------------------

Modifiers == Keys \cap {"Super", "Ctrl"}

Event(k, press) == [key |-> k, press |-> press]
Events == [key : Keys, press : BOOLEAN]

KeyboardInit ==
    /\ down = {} /\ held = {} /\ sent = {} /\ verdicts = <<>>
    /\ pending = <<>> /\ consumed = {} /\ forwarded = {}
    /\ gaming = FALSE /\ gameKeys = {}
    /\ locked = FALSE /\ capturing = FALSE /\ recording = FALSE /\ typing = FALSE
    /\ focused = TRUE /\ told = {} /\ swallowed = {}

GamingInput == gaming /\ ~locked

----------------------------------------------------------------------------
(* SuperKeyForwarding *)

\* A set of keys after some events: the last one of a key adds or removes it.
After(set, events) ==
    LET Settles(k, i) == events[i].key = k /\ \A j \in DOMAIN events : j > i => events[j].key # k
    IN  {k \in Keys : \/ k \in set /\ \A i \in DOMAIN events : events[i].key # k
                      \/ \E i \in DOMAIN events : events[i].press /\ Settles(k, i)}

\* The presses consumed, those that were withheld among them
Consuming == After(consumed, pending)

ConsumePending ==
    /\ consumed' = Consuming
    /\ pending' = <<>>

Clear == pending' = <<>> /\ consumed' = {} /\ forwarded' = {}

\* The focused client is told some events.
Tell(events) ==
    /\ IF focused
       THEN /\ told' = After(told, events)
            /\ swallowed' = {k \in swallowed : Event(k, FALSE) \in Range(events)
                                                 => Event(k, TRUE) \in Range(verdicts')}
       ELSE UNCHANGED <<told, swallowed>>
    /\ UNCHANGED focused

\* track_forwarded of each of them, and input_forward
Forward(events) ==
    /\ forwarded' = After(forwarded, events)
    /\ Tell(events)

\* resolve, on the release of a press that is still withheld: the verdict settles all
\* that is.
ResolveWithheld(e, handled) ==
    /\ ~e.press
    /\ Event(e.key, TRUE) \in Range(pending)
    /\ pending' = <<>>
    /\ UNCHANGED consumed
    /\ IF handled THEN UNCHANGED <<forwarded, clientVars>>
                  ELSE Forward(Append(pending, e))

\* Mutant: a release is withheld although its press went out.
ReleaseWithheldToo(e, handled) ==
    /\ ~e.press
    /\ Event(e.key, TRUE) \notin Range(pending)
    /\ pending' = <<>>
    /\ consumed' = Consuming \ {e.key}
    /\ IF handled THEN UNCHANGED <<forwarded, clientVars>>
                  ELSE Forward(<<e>>)

\* resolve, on any other release: it follows its press, and that of a modifier corrects
\* the client in any case.
ResolveRelease(e, handled) ==
    LET withheld == Consuming
    IN  /\ ~e.press
        /\ Event(e.key, TRUE) \notin Range(pending)
        /\ pending' = <<>>
        /\ consumed' = withheld \ {e.key}
        /\ IF e.key \in forwarded \/ e.key \notin withheld \/ e.key \in Modifiers
           THEN Forward(<<e>>)
           ELSE UNCHANGED <<forwarded, clientVars>>

\* resolve, on a press that Flutter has used
ResolveHandled(e, handled) ==
    /\ e.press /\ handled
    /\ consumed' = Consuming \cup {e.key}
    /\ pending' = <<>>
    /\ UNCHANGED <<forwarded, clientVars>>

Withheld(k) == k \in Modifiers /\ k \in held

\* Mutant: a key goes out without the modifiers that were withheld before it.
ResolveBare(e, handled) ==
    /\ e.press /\ ~handled /\ pending = <<>> /\ e.key # "Super"
    /\ Forward(<<e>>)
    /\ UNCHANGED <<pending, consumed>>

\* resolve, on a press that is the client's, nothing withheld: the modifiers still held
\* that an earlier shortcut has used go before it.
ResolvePress(e, handled) ==
    LET replayed == IF e.key \in Modifiers THEN {} ELSE {k \in consumed : Withheld(k)}
    IN  /\ e.press /\ ~handled /\ pending = <<>> /\ e.key # "Super"
        /\ consumed' = consumed \ replayed
        /\ Forward(Append(SetToSeq({Event(k, TRUE) : k \in replayed}), e))
        /\ UNCHANGED pending

\* resolve, on a Super key, which is withheld, and on a press after it: a modifier is
\* withheld too, any other key takes all of them along.
ResolveSuper(e, handled) ==
    /\ e.press /\ ~handled
    /\ pending # <<>> \/ e.key = "Super"
    /\ UNCHANGED consumed
    /\ IF e.key \in Modifiers
       THEN /\ pending' = Append(pending, e)
            /\ UNCHANGED <<forwarded, clientVars>>
       ELSE /\ pending' = <<>>
            /\ Forward(Append(pending, e))

----------------------------------------------------------------------------
(* Flutter's verdict on the oldest event *)

\* Mutant: the verdict is acted on while the session is locked.
KeptFromClientsUnlocked == typing

KeptFromClients == locked \/ typing

\* post_flutter_handle_key_event
Verdict(handled) ==
    LET e == Head(verdicts)
    IN  /\ verdicts # <<>>
        /\ verdicts' = Tail(verdicts)
        /\ IF KeptFromClients
           THEN Clear /\ UNCHANGED clientVars
           ELSE \/ ResolveWithheld(e, handled) \/ ResolveRelease(e, handled)
                \/ ResolveHandled(e, handled)
                \/ ResolvePress(e, handled)    \/ ResolveSuper(e, handled)
        /\ UNCHANGED <<down, held, sent, gameVars, modeVars>>

\* send_key_event
SendToFlutter(events) == verdicts' = verdicts \o events

\* release_flutter_keys
ReleaseFlutterKeys ==
    /\ SendToFlutter(SetToSeq({Event(k, FALSE) : k \in sent}))
    /\ sent' = {}

----------------------------------------------------------------------------
(* The hardware *)

\* A key goes down or comes up, and the seat takes note of it.
Hardware(e) ==
    /\ e.press = (e.key \notin down)
    /\ Len(verdicts) < MaxVerdicts
    /\ down' = After(down, <<e>>)
    /\ Cardinality(down') <= MaxDown

Swallows(e) ==
    /\ swallowed' = IF e.press THEN swallowed ELSE swallowed \cup {e.key}
    /\ ConsumePending
    /\ UNCHANGED <<forwarded, focused>>

\* The key of a hotkey while the session is locked: Print does nothing.
LockedHotkey(e) ==
    /\ locked /\ e.key = "Print"
    /\ held' = After(held, <<e>>)
    /\ Swallows(e)
    /\ UNCHANGED <<sent, verdicts, gameVars, modeVars, told>>

\* A key during a selection: the release of what Flutter holds goes to Flutter, Escape
\* ends the selection.
CaptureKey(e) ==
    LET released == ~e.press /\ e.key \in sent
    IN  /\ capturing
        /\ held' = After(held, <<e>>)
        /\ IF released
           THEN /\ SendToFlutter(<<e>>) /\ sent' = sent \ {e.key}
                /\ ConsumePending /\ UNCHANGED <<forwarded, focused, swallowed>>
           ELSE Swallows(e) /\ UNCHANGED <<sent, verdicts>>
        /\ capturing' = ~(e.key = "Escape" /\ e.press)
        /\ UNCHANGED <<gameVars, locked, recording, typing, told>>

Plain == ~locked /\ ~capturing /\ ~recording

\* Print begins a selection, unless there is no picture to be had.
PrintHotkey(e) ==
    /\ Plain /\ e.key = "Print" /\ e.press
    /\ held' = After(held, <<e>>)
    /\ capturing' \in BOOLEAN
    /\ Swallows(e)
    /\ UNCHANGED <<sent, verdicts, gameVars, locked, recording, typing, told>>

LeavesGame(e) == Plain /\ e.key = "Escape" /\ "Ctrl" \in held

\* Ctrl+Escape, its release as well: in the gaming mode, which it ends, the client gets
\* back all it was handed, and the seat takes those keys for released.
LeaveGameHotkey(e) ==
    LET back  == IF gaming THEN gameKeys ELSE {}
        heard == IF focused THEN back ELSE {}
    IN  /\ LeavesGame(e)
        /\ held' = After(held, <<e>>) \ back
        /\ gaming' = FALSE
        /\ gameKeys' = gameKeys \ back
        /\ told' = told \ heard
        /\ swallowed' = (IF e.press THEN swallowed ELSE swallowed \cup {e.key}) \ heard
        /\ ConsumePending
        /\ UNCHANGED <<forwarded, focused, sent, verdicts, modeVars>>

Hotkey(e) ==
    \/ capturing
    \/ locked /\ e.key = "Print"
    \/ Plain /\ e.key = "Print" /\ e.press
    \/ LeavesGame(e)

\* While a recording runs Print only ends it, and is a key like any other.
EndsRecording(e) == recording /\ e.key = "Print" /\ e.press /\ ~locked

\* The gaming mode: the client is told at once.
GameKey(e) ==
    /\ ~Hotkey(e)
    /\ GamingInput
    /\ held' = After(held, <<e>>)
    /\ gameKeys' = After(gameKeys, <<e>>)
    /\ recording' = (recording /\ ~EndsRecording(e))
    /\ UNCHANGED <<sent, verdicts, forwardingVars, gaming, locked, capturing, typing>>
    /\ Tell(<<e>>)

\* All others: Flutter is told, and judges.
FlutterKey(e) ==
    /\ ~Hotkey(e)
    /\ ~GamingInput
    /\ held' = After(held, <<e>>)
    /\ sent' = After(sent, <<e>>)
    /\ SendToFlutter(<<e>>)
    /\ recording' = (recording /\ ~EndsRecording(e))
    /\ UNCHANGED <<forwardingVars, gameVars, locked, capturing, typing, clientVars>>

\* handle_keyboard_event
KeyEvent(e) ==
    /\ Hardware(e)
    /\ \/ LockedHotkey(e) \/ CaptureKey(e) \/ PrintHotkey(e) \/ LeaveGameHotkey(e)
       \/ GameKey(e) \/ FlutterKey(e)

----------------------------------------------------------------------------
(* What happens between the keys *)

\* A selection ends by the pointer, in a recording perhaps.
CaptureEnds ==
    /\ capturing
    /\ capturing' = FALSE
    /\ recording' \in BOOLEAN
    /\ UNCHANGED <<down, held, sent, verdicts, forwardingVars, gameVars, locked, typing,
                   clientVars>>

\* The focus goes to another window, or to none; a client forgets what it was told.
FocusMoves(some) ==
    /\ ~locked
    /\ gaming => some
    /\ focused' = some
    /\ told' = {}
    /\ UNCHANGED <<down, held, sent, verdicts, forwardingVars, gameVars, modeVars, swallowed>>

\* A text field of the shell takes Flutter's focus, and so the window's, or gives it up.
TextField ==
    /\ typing' = ~typing
    /\ typing' => ~gaming
    /\ focused' = (focused /\ ~typing')
    /\ told' = (IF typing' THEN {} ELSE told)
    /\ UNCHANGED <<down, held, sent, verdicts, forwardingVars, gameVars, locked, capturing,
                   recording, swallowed>>

\* UpdateGameModeActivated: the game's window gets the focus, Flutter its releases.
GameBegins ==
    /\ ~gaming /\ ~typing /\ ~locked
    /\ gaming' = TRUE
    /\ ReleaseFlutterKeys
    /\ \/ UNCHANGED clientVars
       \/ focused' = TRUE /\ told' = {}
    /\ focused'
    /\ UNCHANGED <<down, held, forwardingVars, gameKeys, modeVars, swallowed>>

\* The shell ends the gaming mode, or the game's window closes: the keys are forgotten.
GameEnds ==
    /\ gaming
    /\ gaming' = FALSE
    /\ gameKeys' = {}
    /\ UNCHANGED <<down, held, sent, verdicts, forwardingVars, modeVars, clientVars>>

\* lock, as far as keys go: the client is released, told and left.
Lock ==
    /\ ~locked
    /\ locked' = TRUE
    /\ capturing' = FALSE
    /\ held' = held \ gameKeys
    /\ gameKeys' = {}
    /\ Clear
    /\ told' = {}
    /\ UNCHANGED <<down, sent, verdicts, gaming, recording, typing, focused, swallowed>>

\* unlock: the focus is given back; a game takes the keys from here on.
Unlock ==
    /\ locked
    /\ locked' = FALSE
    /\ IF gaming THEN ReleaseFlutterKeys ELSE UNCHANGED <<sent, verdicts>>
    /\ UNCHANGED <<down, held, forwardingVars, gameVars, capturing, recording, typing,
                   clientVars>>

----------------------------------------------------------------------------

KeyboardNext ==
    \/ \E e \in Events : KeyEvent(e)
    \/ \E handled \in BOOLEAN : Verdict(handled)
    \/ \E some \in BOOLEAN : FocusMoves(some)
    \/ CaptureEnds \/ TextField \/ GameBegins \/ GameEnds \/ Lock \/ Unlock

KeyboardSpec == KeyboardInit /\ [][KeyboardNext]_keyboardVars

----------------------------------------------------------------------------
(* Properties *)

\* Once no key is down and Flutter has judged them all, the focused client was told of
\* every press also the release, withheld or replayed, whatever began and ended meanwhile;
\* but for the releases that a selection or Ctrl+Escape swallowed.
NothingSticks == down = {} /\ verdicts = <<>> => told \subseteq swallowed

\* A client that is told a key is told before it every modifier that is held and was withheld
\* from it, but for those a shortcut used before the Super key that now goes out with it:
\* nothing stays withheld behind a key that went out.
ChordWhole ==
    [][ \A k \in Keys \ Modifiers :
          k \in told' \ told /\ k \notin gameKeys' =>
              /\ pending' = <<>>
              /\ \A m \in Modifiers \cap held :
                    m \in consumed' => Event("Super", TRUE) \in Range(pending) ]_keyboardVars

\* While the session is locked no client is told of any key.
LockedTellsNothing == [][ locked => told' = told ]_keyboardVars

=============================================================================
