-------------------------- MODULE RecordingProofs --------------------------
(***************************************************************************)
(* Proofs about Recording, for any number of outputs, layouts, recordings  *)
(* and queue entries: what is recorded is what was frozen, no worker       *)
(* records on unseen, and no two recordings meet in a file.                *)
(***************************************************************************)
EXTENDS Recording, FiniteSetTheorems, SequenceTheorems, TLAPS

----------------------------------------------------------------------------
(* The inductive invariant *)

LoopTypes ==
    /\ layout \in [Outputs -> Nat] /\ changes \in Nat
    /\ session # None =>
          session \in [output : Outputs, seen : Nat, selected : BOOLEAN, record : BOOLEAN]
    /\ recording # None => recording \in [gen : Generations, output : Outputs, seen : Nat \ {Stop}]
    /\ results \in Seq(Generations)

WorkerTypes ==
    /\ worker \in [Generations -> {"none", "building", "running", "draining", "ended"}]
    /\ area \in [Generations -> Nat]
    /\ commands \in [Generations -> Seq(Nat)]
    /\ stopping \in [Generations -> BOOLEAN]
    /\ reports \in [Generations -> Nat]
    /\ claim \in [Generations -> Nat]
    /\ files \in [Names -> {"absent", "claimed", "left", "saved"}]

\* What is in a queue
Entries(q) == {q[i] : i \in DOMAIN q}

\* The picture: that of the selection, of the recording, and of what it has queued.
Frozen ==
    /\ session # None => session.seen # Stop /\ layout[session.output] = session.seen
    /\ \A g \in Generations : Entries(commands[g]) \subseteq {Stop, area[g]}
    /\ recording # None /\ Takes(recording.gen) => area[recording.gen] = recording.seen

\* A worker that takes frames is the one shown, or has its end before it.
Shown ==
    /\ recording # None => session = None
    /\ \A g \in Generations :
          Takes(g) => \/ recording # None /\ recording.gen = g
                      \/ stopping[g]
                      \/ Stop \in Entries(commands[g])
    /\ \A g \in Entries(results) : worker[g] = "ended"

Used == {n \in Names : files[n] # "absent"}
Past == {g \in Generations : worker[g] \notin {"none", "building"}}

\* Claims and claimed files are one to one, and a worker that builds finds a name.
Claims ==
    /\ \A g \in Generations : reports[g] = (IF worker[g] = "ended" THEN 1 ELSE 0)
    /\ \A g \in Generations : Records(g) => claim[g] \in Names /\ files[claim[g]] = "claimed"
    /\ \A g, h \in Generations : Records(g) /\ Records(h) /\ g # h => claim[g] # claim[h]
    /\ \A n \in Names :
          files[n] = "claimed" => \E g \in Generations : Records(g) /\ claim[g] = n
    /\ Cardinality(Used) <= Cardinality(Past)

LoopInv == LoopTypes /\ WorkerTypes /\ Frozen /\ Shown
RecordingInv == LoopInv /\ Claims

----------------------------------------------------------------------------
(* Queues *)

LEMMA Appended ==
    ASSUME NEW S, NEW q \in Seq(S), NEW x \in S
    PROVE  Append(q, x) \in Seq(S) /\ Entries(Append(q, x)) = Entries(q) \cup {x}
<1>1. /\ Append(q, x) \in Seq(S) /\ Len(Append(q, x)) = Len(q) + 1
      /\ \A i \in 1 .. Len(q) : Append(q, x)[i] = q[i]
      /\ Append(q, x)[Len(q) + 1] = x
  BY AppendProperties
<1>2. Len(q) \in Nat /\ DOMAIN q = 1 .. Len(q) /\ DOMAIN Append(q, x) = 1 .. Len(q) + 1
  BY <1>1
<1>3. \A i \in DOMAIN Append(q, x) : i \in DOMAIN q \/ i = Len(q) + 1
  BY <1>2
<1>4. Entries(Append(q, x)) \subseteq Entries(q) \cup {x}
  BY <1>1, <1>2, <1>3 DEF Entries
<1>5. \A i \in DOMAIN q : i \in DOMAIN Append(q, x) /\ Append(q, x)[i] = q[i]
  BY <1>1, <1>2
<1>6. Len(q) + 1 \in DOMAIN Append(q, x)
  BY <1>2
<1>7. Entries(q) \cup {x} \subseteq Entries(Append(q, x))
  BY <1>1, <1>5, <1>6 DEF Entries
<1>8. QED
  BY <1>1, <1>4, <1>7

LEMMA Taken ==
    ASSUME NEW S, NEW q \in Seq(S), q # <<>>
    PROVE  /\ Tail(q) \in Seq(S) /\ Head(q) \in S /\ Head(q) \in Entries(q)
           /\ Entries(Tail(q)) \subseteq Entries(q)
           /\ Entries(q) \subseteq Entries(Tail(q)) \cup {Head(q)}
<1>1. /\ Head(q) \in S /\ Tail(q) \in Seq(S) /\ Len(Tail(q)) = Len(q) - 1
      /\ \A i \in 1 .. Len(Tail(q)) : Tail(q)[i] = q[i + 1]
  BY HeadTailProperties
<1>2. Head(q) = q[1]
  OBVIOUS
<1>3. Len(q) \in Nat /\ Len(q) > 0
  BY EmptySeq
<1>4. DOMAIN q = 1 .. Len(q)
  OBVIOUS
<1>5. DOMAIN Tail(q) = 1 .. Len(q) - 1
  BY <1>1, LenProperties
<1>6. \A i \in DOMAIN Tail(q) : i + 1 \in DOMAIN q /\ Tail(q)[i] = q[i + 1]
  BY <1>1, <1>3, <1>4, <1>5
<1>7. \A i \in DOMAIN q : i = 1 \/ (i - 1 \in DOMAIN Tail(q) /\ Tail(q)[i - 1] = q[i])
  <2>1. ASSUME NEW i \in DOMAIN q, i # 1 PROVE i - 1 \in DOMAIN Tail(q) /\ i - 1 + 1 = i
    BY <1>3, <1>4, <1>5, <2>1
  <2>2. QED
    BY <1>6, <2>1
<1>8. 1 \in DOMAIN q
  BY <1>3, <1>4
<1>9. Entries(Tail(q)) \subseteq Entries(q)
  BY <1>6 DEF Entries
<1>10. Entries(q) \subseteq Entries(Tail(q)) \cup {Head(q)}
  BY <1>2, <1>7 DEF Entries
<1>11. QED
  BY <1>1, <1>2, <1>8, <1>9, <1>10 DEF Entries

LEMMA NoEntries == Entries(<<>>) = {} /\ \A x : Entries(<<x>>) = {x}
BY DEF Entries

----------------------------------------------------------------------------
(* The loop *)

\* A selection that begins, moves or ends, and whatever is left to a screenshot.
LEMMA SelectionKeeps ==
    ASSUME LoopInv, UNCHANGED <<recording, results, workerVars>>,
           layout' \in [Outputs -> Nat], changes' \in Nat,
           session' # None =>
              /\ session' \in [output : Outputs, seen : Nat, selected : BOOLEAN, record : BOOLEAN]
              /\ session'.seen # Stop /\ layout'[session'.output] = session'.seen
              /\ recording = None
    PROVE  LoopInv'
<1>1. LoopTypes' /\ WorkerTypes'
  BY DEF LoopInv, LoopTypes, WorkerTypes, workerVars, Generations, Names
<1>2. Frozen'
  BY DEF LoopInv, Frozen, workerVars, Generations, Takes, Entries, Stop
<1>3. Shown'
  BY DEF LoopInv, Shown, workerVars, Generations, Takes, Entries, Stop
<1>4. QED
  BY <1>1, <1>2, <1>3 DEF LoopInv

LEMMA CaptureKeeps ==
    ASSUME LoopInv, CaptureNext, UNCHANGED <<recording, results, workerVars>> PROVE LoopInv'
<1>1. /\ layout \in [Outputs -> Nat] /\ changes \in Nat
      /\ session # None =>
            /\ session \in [output : Outputs, seen : Nat, selected : BOOLEAN, record : BOOLEAN]
            /\ session.seen # Stop /\ layout[session.output] = session.seen
            /\ recording = None
  BY DEF LoopInv, LoopTypes, Frozen, Shown
<1>2. CASE CancelCapture \/ ReleaseCapture \/ \E s \in Shots : ReleaseScreenshot(s)
  BY <1>1, <1>2, SelectionKeeps DEF CancelCapture, ReleaseCapture, ReleaseScreenshot, desktopVars
<1>3. CASE CompleteScreenshot \/ \E s \in Shots, ok \in BOOLEAN : EncodeScreenshot(s, ok)
  <2>1. UNCHANGED <<layout, changes, session>>
    BY <1>3 DEF CompleteScreenshot, EncodeScreenshot, desktopVars
  <2>2. QED
    BY <1>1, <2>1, SelectionKeeps
<1>4. ASSUME NEW selected \in BOOLEAN, Drag(selected) PROVE LoopInv'
  <2>1. /\ session # None /\ session' = [session EXCEPT !.selected = selected]
        /\ UNCHANGED <<layout, changes>>
    BY <1>4 DEF Drag, desktopVars
  <2>2. /\ session' \in [output : Outputs, seen : Nat, selected : BOOLEAN, record : BOOLEAN]
        /\ session'.seen = session.seen /\ session'.output = session.output
    BY <1>1, <2>1
  <2>3. QED
    BY <1>1, <2>1, <2>2, SelectionKeeps
<1>5. ASSUME NEW o \in Outputs, NEW gone \in BOOLEAN, LayoutChanges(o, gone) PROVE LoopInv'
  <2>1. changes' = changes + 1 /\ session' = None
        /\ layout' = [layout EXCEPT ![o] = IF gone THEN 0 ELSE changes' + 1]
    BY <1>5 DEF LayoutChanges, Relayout
  <2>2. layout' \in [Outputs -> Nat] /\ changes' \in Nat
    BY <1>1, <2>1
  <2>3. QED
    BY <2>1, <2>2, SelectionKeeps
<1>6. QED
  BY <1>2, <1>3, <1>4, <1>5 DEF CaptureNext

LEMMA BeginKeeps ==
    ASSUME LoopInv, recording = None, NEW o \in Outputs, NEW record \in BOOLEAN,
           BeginCapture(o, record), UNCHANGED <<recording, results, workerVars>>
    PROVE  LoopInv'
<1>1. /\ session' = [output |-> o, seen |-> layout[o], selected |-> FALSE, record |-> record]
      /\ UNCHANGED <<layout, changes>> /\ layout[o] # 0
  BY DEF BeginCapture, desktopVars, Connected
<1>2. layout \in [Outputs -> Nat] /\ changes \in Nat
  BY DEF LoopInv, LoopTypes
<1>3. /\ session' \in [output : Outputs, seen : Nat, selected : BOOLEAN, record : BOOLEAN]
      /\ session'.seen # Stop /\ layout'[session'.output] = session'.seen
  BY <1>1, <1>2 DEF Stop
<1>4. QED
  BY <1>1, <1>2, <1>3, SelectionKeeps

\* The frozen picture is the first frame of the worker.
LEMMA StartKeeps ==
    ASSUME LoopInv, NEW g \in Generations, StartRecording(g) PROVE LoopInv'
<1>1. /\ session # None /\ recording = None
      /\ session \in [output : Outputs, seen : Nat, selected : BOOLEAN, record : BOOLEAN]
      /\ session.seen # Stop
  BY DEF LoopInv, LoopTypes, Frozen, Shown, StartRecording
<1>2. /\ worker[g] = "none" /\ session' = None
      /\ recording' = [gen |-> g, output |-> session.output, seen |-> session.seen]
      /\ worker' = [worker EXCEPT ![g] = "building"]
      /\ area' = [area EXCEPT ![g] = session.seen]
      /\ commands' = [commands EXCEPT ![g] = <<session.seen>>]
      /\ UNCHANGED <<layout, changes, results, stopping, reports, claim, files>>
  BY DEF StartRecording, LoopStep, desktopVars
<1>3. /\ worker \in [Generations -> {"none", "building", "running", "draining", "ended"}]
      /\ area \in [Generations -> Nat] /\ commands \in [Generations -> Seq(Nat)]
  BY DEF LoopInv, WorkerTypes
<1>4. LoopTypes' /\ WorkerTypes'
  <2>1. <<session.seen>> \in Seq(Nat)
    BY <1>1
  <2>2. LoopTypes'
    BY <1>1, <1>2 DEF LoopInv, LoopTypes, Generations
  <2>3. WorkerTypes'
    BY <1>1, <1>2, <1>3, <2>1 DEF LoopInv, WorkerTypes, Generations, Names
  <2>4. QED
    BY <2>2, <2>3
<1>5. Frozen'
  <2>1. Entries(commands'[g]) = {area'[g]} /\ area'[g] = session.seen
    BY <1>2, <1>3, NoEntries
  <2>2. ASSUME NEW h \in Generations, h # g
        PROVE  Entries(commands'[h]) \subseteq {Stop, area'[h]}
    BY <1>2, <1>3, <2>2 DEF LoopInv, Frozen
  <2>3. QED
    BY <1>2, <2>1, <2>2 DEF Frozen, Takes, Generations, Entries, Stop
<1>6. Shown'
  <2>1. ASSUME NEW h \in Generations, Takes(h)', h # g
        PROVE  stopping'[h] \/ Stop \in Entries(commands'[h])
    <3>1. Takes(h) /\ commands'[h] = commands[h]
      BY <1>2, <1>3, <2>1 DEF Takes
    <3>2. QED
      BY <1>1, <1>2, <2>1, <3>1 DEF LoopInv, Shown
  <2>2. \A h \in Entries(results') : worker'[h] = "ended"
    BY <1>2, <1>3 DEF LoopInv, Shown
  <2>3. recording' # None /\ recording'.gen = g
    BY <1>1, <1>2, RecordingBounds DEF Generations
  <2>4. QED
    BY <1>2, <2>1, <2>2, <2>3 DEF Shown, Generations, Takes, Entries, Stop
<1>7. QED
  BY <1>4, <1>5, <1>6 DEF LoopInv


\* The worker is gone before its first frame: the loop shows no recording.
LEMMA StartFailsKeeps ==
    ASSUME LoopInv, NEW g \in Generations, StartRecordingFails(g),
           files' \in [Names -> {"absent", "claimed", "left", "saved"}]
    PROVE  LoopInv'
<1>1. /\ worker[g] = "none" /\ session' = None
      /\ worker' = [worker EXCEPT ![g] = "ended"]
      /\ reports' = [reports EXCEPT ![g] = @ + 1]
      /\ results' = Append(results, g)
      /\ UNCHANGED <<layout, changes, recording, area, commands, stopping, claim>>
  BY DEF StartRecordingFails, desktopVars
<1>2. /\ worker \in [Generations -> {"none", "building", "running", "draining", "ended"}]
      /\ reports \in [Generations -> Nat] /\ results \in Seq(Generations)
  BY DEF LoopInv, LoopTypes, WorkerTypes
<1>3. results' \in Seq(Generations) /\ Entries(results') = Entries(results) \cup {g}
  BY <1>1, <1>2, Appended
<1>4. LoopTypes'
  BY <1>1, <1>3 DEF LoopInv, LoopTypes, Generations
<1>5. WorkerTypes'
  BY <1>1, <1>2 DEF LoopInv, WorkerTypes, Generations, Names
<1>6. \A h \in Generations : Takes(h)' => h # g /\ Takes(h)
  BY <1>1, <1>2 DEF Takes
<1>7. Frozen'
  <2>1. recording # None => recording.gen \in Generations
    BY DEF LoopInv, LoopTypes
  <2>2. (recording # None /\ Takes(recording.gen) => area[recording.gen] = recording.seen)'
    BY <1>1, <1>2, <2>1 DEF LoopInv, Frozen, Takes
  <2>3. \A h \in Generations : Entries(commands'[h]) \subseteq {Stop, area'[h]}
    BY <1>1 DEF LoopInv, Frozen
  <2>4. QED
    BY <1>1, <2>2, <2>3 DEF Frozen, Generations, Takes, Entries, Stop
<1>8. Shown'
  <2>1. \A h \in Entries(results') : worker'[h] = "ended"
    BY <1>1, <1>2, <1>3 DEF LoopInv, Shown
  <2>2. QED
    BY <1>1, <1>6, <2>1 DEF LoopInv, Shown, Generations, Takes, Entries, Stop
<1>9. QED
  BY <1>4, <1>5, <1>7, <1>8 DEF LoopInv

\* What changes only the queue of a worker: the entries it has afterwards are of the
\* picture the worker records, and its end is still before it.
LEMMA QueueKeeps ==
    ASSUME LoopInv, NEW g \in Generations, NEW q \in Seq(Nat),
           commands' = [commands EXCEPT ![g] = q],
           UNCHANGED <<layout, changes, session, results, worker, area, reports, claim, files>>,
           recording' \in {recording, None},
           \E b \in BOOLEAN : stopping' = [stopping EXCEPT ![g] = b],
           Entries(q) \subseteq {Stop, area[g]},
           Takes(g) => \/ recording' # None /\ recording'.gen = g
                       \/ stopping'[g] \/ Stop \in Entries(q),
           recording' = recording \/ (recording # None /\ recording.gen = g)
    PROVE  LoopInv'
<1>1. commands \in [Generations -> Seq(Nat)] /\ stopping \in [Generations -> BOOLEAN]
  BY DEF LoopInv, WorkerTypes
<1>2. LoopTypes'
  BY DEF LoopInv, LoopTypes, Generations
<1>3. WorkerTypes'
  <2>1. commands' \in [Generations -> Seq(Nat)] /\ stopping' \in [Generations -> BOOLEAN]
    BY <1>1
  <2>2. QED
    BY <2>1 DEF LoopInv, WorkerTypes, Generations, Names
<1>4. commands'[g] = q
  BY <1>1
<1>5. \A h \in Generations : h # g => commands'[h] = commands[h] /\ stopping'[h] = stopping[h]
  BY <1>1
<1>6. Frozen'
  <2>1. \A h \in Generations : Entries(commands'[h]) \subseteq {Stop, area'[h]}
    BY <1>4, <1>5 DEF LoopInv, Frozen
  <2>2. (recording # None /\ Takes(recording.gen) => area[recording.gen] = recording.seen)'
    BY DEF LoopInv, Frozen, Takes
  <2>3. session' # None => session'.seen # Stop /\ layout'[session'.output] = session'.seen
    BY DEF LoopInv, Frozen
  <2>4. QED
    BY <2>1, <2>2, <2>3 DEF Frozen, Generations, Takes, Entries, Stop
<1>7. Shown'
  <2>1. ASSUME NEW h \in Generations, Takes(h)'
        PROVE  \/ recording' # None /\ recording'.gen = h
               \/ stopping'[h]
               \/ Stop \in Entries(commands'[h])
    <3>1. Takes(h)
      BY <2>1 DEF Takes
    <3>2. CASE h = g
      BY <1>4, <3>1, <3>2
    <3>3. CASE h # g
      BY <1>5, <3>1, <3>3 DEF LoopInv, Shown
    <3>4. QED
      BY <3>2, <3>3
  <2>2. /\ recording' # None => session' = None
        /\ \A h \in Entries(results') : worker'[h] = "ended"
    BY DEF LoopInv, Shown
  <2>3. QED
    BY <2>1, <2>2 DEF Shown, Generations, Takes, Entries, Stop
<1>8. QED
  BY <1>2, <1>3, <1>6, <1>7 DEF LoopInv

LEMMA QueueOf ==
    ASSUME LoopInv, NEW g \in Generations
    PROVE  /\ commands[g] \in Seq(Nat) /\ Entries(commands[g]) \subseteq {Stop, area[g]}
           /\ commands = [commands EXCEPT ![g] = commands[g]]
           /\ stopping = [stopping EXCEPT ![g] = stopping[g]]
           /\ stopping[g] \in BOOLEAN /\ area[g] \in Nat
BY DEF LoopInv, WorkerTypes, Frozen

\* A recording that is let go of has its Stop queued, or a thread that waits to send it.
LEMMA StopKeeps == ASSUME LoopInv, recording # None, StopRecording PROVE LoopInv'
<1> DEFINE g == recording.gen
<1>1. g \in Generations
  BY DEF LoopInv, LoopTypes
<1>2. /\ recording' = None
      /\ UNCHANGED <<layout, changes, session, results, worker, area, reports, claim, files>>
  BY DEF StopRecording, LoopStep, desktopVars
<1>3. HandleStop(g)
  BY DEF StopRecording
<1>4. /\ commands[g] \in Seq(Nat) /\ Entries(commands[g]) \subseteq {Stop, area[g]}
      /\ commands = [commands EXCEPT ![g] = commands[g]]
      /\ stopping = [stopping EXCEPT ![g] = stopping[g]]
      /\ stopping[g] \in BOOLEAN
  BY <1>1, QueueOf
<1> HIDE DEF g
<1>5. CASE ~Takes(g)
  BY <1>1, <1>2, <1>3, <1>4, <1>5, QueueKeeps DEF HandleStop, g
<1>6. CASE Takes(g) /\ Len(commands[g]) < QueueDepth
  <2>1. commands' = [commands EXCEPT ![g] = Append(commands[g], Stop)] /\ stopping' = stopping
    BY <1>3, <1>6 DEF HandleStop
  <2>2. /\ Append(commands[g], Stop) \in Seq(Nat)
        /\ Entries(Append(commands[g], Stop)) = Entries(commands[g]) \cup {Stop}
    BY <1>4, Appended DEF Stop
  <2>3. QED
    BY <1>1, <1>2, <1>4, <2>1, <2>2, QueueKeeps DEF g
<1>7. CASE Takes(g) /\ ~(Len(commands[g]) < QueueDepth)
  <2>1. stopping' = [stopping EXCEPT ![g] = TRUE] /\ commands' = commands
    BY <1>3, <1>7 DEF HandleStop
  <2>2. stopping'[g]
    BY <1>1, <2>1 DEF LoopInv, WorkerTypes
  <2>3. QED
    BY <1>1, <1>2, <1>4, <2>1, <2>2, QueueKeeps DEF g
<1>8. QED
  BY <1>5, <1>6, <1>7

LEMMA PrintKeeps ==
    ASSUME LoopInv, NEW o \in Outputs, NEW record \in BOOLEAN, PrintKey(o, record)
    PROVE  LoopInv'
BY StopKeeps, BeginKeeps DEF PrintKey

\* A copy that is pushed is of the layout the recording was begun on.
LEMMA DeliverKeeps == ASSUME LoopInv, NEW g \in Generations, DeliverFrame(g) PROVE LoopInv'
<1>1. CASE StopRecording
  BY <1>1, StopKeeps DEF DeliverFrame
<1>2. CASE ~StopRecording
  <2>1. /\ recording # None /\ recording.gen = g
        /\ layout[recording.output] = recording.seen
        /\ commands' = IF Takes(g) /\ Len(commands[g]) < QueueDepth
                       THEN [commands EXCEPT ![g] = Append(@, layout[recording.output])]
                       ELSE commands
        /\ UNCHANGED <<layout, changes, session, recording, results, worker, area, stopping,
                       reports, claim, files>>
    BY <1>2 DEF DeliverFrame, LoopStep, desktopVars
  <2>2. /\ commands[g] \in Seq(Nat) /\ Entries(commands[g]) \subseteq {Stop, area[g]}
        /\ commands = [commands EXCEPT ![g] = commands[g]]
        /\ stopping = [stopping EXCEPT ![g] = stopping[g]]
        /\ stopping[g] \in BOOLEAN
    BY QueueOf
  <2>3. CASE Takes(g) /\ Len(commands[g]) < QueueDepth
    <3>1. recording.seen \in Nat /\ recording.seen = area[g]
      BY <2>1, <2>3 DEF LoopInv, LoopTypes, Frozen
    <3>2. commands' = [commands EXCEPT ![g] = Append(commands[g], recording.seen)]
      BY <2>1, <2>3
    <3>3. /\ Append(commands[g], recording.seen) \in Seq(Nat)
          /\ Entries(Append(commands[g], recording.seen))
                = Entries(commands[g]) \cup {recording.seen}
      BY <2>2, <3>1, Appended
    <3>4. QED
      BY <2>1, <2>2, <3>1, <3>2, <3>3, QueueKeeps
  <2>4. CASE ~(Takes(g) /\ Len(commands[g]) < QueueDepth)
    BY <2>1, <2>2, <2>4, QueueKeeps
  <2>5. QED
    BY <2>3, <2>4
<1>3. QED
  BY <1>1, <1>2

\* Who has reported has ended: the desktop forgets no worker that records.
LEMMA ResultKeeps == ASSUME LoopInv, HandleResult PROVE LoopInv'
<1>1. /\ results # <<>> /\ results' = Tail(results)
      /\ recording' \in {recording, None}
      /\ recording' # recording => recording # None /\ recording.gen = Head(results)
      /\ UNCHANGED <<layout, changes, session, worker, area, commands, stopping, reports,
                     claim, files>>
  BY DEF HandleResult, OwnResult, captureVars, desktopVars, workerVars
<1>2. results \in Seq(Generations)
  BY DEF LoopInv, LoopTypes
<1>3. /\ results' \in Seq(Generations) /\ Head(results) \in Entries(results)
      /\ Entries(results') \subseteq Entries(results)
  BY <1>1, <1>2, Taken
<1>4. LoopTypes'
  BY <1>1, <1>3 DEF LoopInv, LoopTypes, Generations
<1>5. WorkerTypes'
  BY <1>1 DEF LoopInv, WorkerTypes, Generations, Names
<1>6. Frozen'
  <2>1. (recording # None /\ Takes(recording.gen) => area[recording.gen] = recording.seen)'
    BY <1>1 DEF LoopInv, Frozen, Takes
  <2>2. /\ session' # None => session'.seen # Stop /\ layout'[session'.output] = session'.seen
        /\ \A h \in Generations : Entries(commands'[h]) \subseteq {Stop, area'[h]}
    BY <1>1 DEF LoopInv, Frozen
  <2>3. QED
    BY <2>1, <2>2 DEF Frozen, Generations, Takes, Entries, Stop
<1>7. Shown'
  <2>1. worker[Head(results)] = "ended"
    BY <1>3 DEF LoopInv, Shown
  <2>2. \A h \in Generations : Takes(h) => h # Head(results)
    BY <2>1 DEF Takes
  <2>3. QED
    BY <1>1, <1>3, <2>2 DEF LoopInv, Shown, Generations, Takes, Entries, Stop
<1>8. QED
  BY <1>4, <1>5, <1>6, <1>7 DEF LoopInv

----------------------------------------------------------------------------
(* A worker *)

LEMMA ReportKeeps ==
    ASSUME LoopInv, NEW g \in Generations, Report(g), worker[g] # "none",
           UNCHANGED <<layout, changes, session, recording, stopping>>,
           files' \in [Names -> {"absent", "claimed", "left", "saved"}]
    PROVE  LoopInv'
<1>1. /\ worker' = [worker EXCEPT ![g] = "ended"]
      /\ commands' = [commands EXCEPT ![g] = <<>>]
      /\ area' = [area EXCEPT ![g] = 0]
      /\ claim' = [claim EXCEPT ![g] = 0]
      /\ reports' = [reports EXCEPT ![g] = @ + 1]
      /\ results' = Append(results, g)
  BY DEF Report
<1>2. /\ worker \in [Generations -> {"none", "building", "running", "draining", "ended"}]
      /\ area \in [Generations -> Nat] /\ claim \in [Generations -> Nat]
      /\ commands \in [Generations -> Seq(Nat)]
      /\ reports \in [Generations -> Nat] /\ results \in Seq(Generations)
  BY DEF LoopInv, LoopTypes, WorkerTypes
<1>3. results' \in Seq(Generations) /\ Entries(results') = Entries(results) \cup {g}
  BY <1>1, <1>2, Appended
<1>4. LoopTypes'
  BY <1>1, <1>3 DEF LoopInv, LoopTypes, Generations
<1>5. WorkerTypes'
  BY <1>1, <1>2 DEF LoopInv, WorkerTypes, Generations, Names
<1>6. \A h \in Generations : Takes(h)' => h # g /\ Takes(h)
  BY <1>1, <1>2 DEF Takes
<1>7. \A h \in Generations : h # g => commands'[h] = commands[h] /\ area'[h] = area[h]
  BY <1>1, <1>2
<1>8. Frozen'
  <2>1. recording # None => recording.gen \in Generations
    BY DEF LoopInv, LoopTypes
  <2>2. (recording # None /\ Takes(recording.gen) => area[recording.gen] = recording.seen)'
    BY <1>1, <1>2, <2>1 DEF LoopInv, Frozen, Takes
  <2>3. Entries(commands'[g]) = {}
    BY <1>1, <1>2, NoEntries
  <2>4. \A h \in Generations : Entries(commands'[h]) \subseteq {Stop, area'[h]}
    BY <1>7, <2>3 DEF LoopInv, Frozen
  <2>5. session' # None => session'.seen # Stop /\ layout'[session'.output] = session'.seen
    BY DEF LoopInv, Frozen
  <2>6. QED
    BY <2>2, <2>4, <2>5 DEF Frozen, Generations, Takes, Entries, Stop
<1>9. Shown'
  <2>1. \A h \in Entries(results') : worker'[h] = "ended"
    BY <1>1, <1>2, <1>3 DEF LoopInv, Shown
  <2>2. QED
    BY <1>6, <1>7, <2>1 DEF LoopInv, Shown, Generations, Takes, Entries, Stop
<1>10. QED
  BY <1>4, <1>5, <1>8, <1>9 DEF LoopInv

\* A step of a worker that goes on with the same queue, or none.
LEMMA StepKeeps ==
    ASSUME LoopInv, NEW g \in Generations,
           NEW w \in {"running", "draining"}, worker' = [worker EXCEPT ![g] = w],
           NEW c \in Nat, claim' = [claim EXCEPT ![g] = c],
           \/ w = "running" /\ worker[g] = "building" /\ commands' = commands
           \/ w = "draining" /\ worker[g] = "running" /\ commands' = [commands EXCEPT ![g] = <<>>],
           UNCHANGED <<layout, changes, session, recording, results, area, stopping, reports>>,
           files' \in [Names -> {"absent", "claimed", "left", "saved"}]
    PROVE  LoopInv'
<1>1. /\ worker \in [Generations -> {"none", "building", "running", "draining", "ended"}]
      /\ claim \in [Generations -> Nat] /\ commands \in [Generations -> Seq(Nat)]
  BY DEF LoopInv, WorkerTypes
<1>2. LoopTypes'
  BY DEF LoopInv, LoopTypes, Generations
<1>3. WorkerTypes'
  <2>1. <<>> \in Seq(Nat)
    OBVIOUS
  <2>2. [commands EXCEPT ![g] = <<>>] \in [Generations -> Seq(Nat)]
    BY <1>1, <2>1
  <2>3. commands' \in [Generations -> Seq(Nat)]
    BY <1>1, <2>2
  <2>4. QED
    BY <1>1, <2>3 DEF LoopInv, WorkerTypes, Generations, Names
<1>4. \A h \in Generations : Takes(h)' => Takes(h) /\ commands'[h] = commands[h]
  BY <1>1 DEF Takes
<1>5. Frozen'
  <2>1. recording # None => recording.gen \in Generations
    BY DEF LoopInv, LoopTypes
  <2>2. (recording # None /\ Takes(recording.gen) => area[recording.gen] = recording.seen)'
    BY <1>1, <2>1 DEF LoopInv, Frozen, Takes
  <2>3. \A h \in Generations : commands'[h] = commands[h] \/ commands'[h] = <<>>
    BY <1>1
  <2>4. \A h \in Generations : Entries(commands'[h]) \subseteq {Stop, area'[h]}
    BY <2>3, NoEntries DEF LoopInv, Frozen
  <2>5. session' # None => session'.seen # Stop /\ layout'[session'.output] = session'.seen
    BY DEF LoopInv, Frozen
  <2>6. QED
    BY <2>2, <2>4, <2>5 DEF Frozen, Generations, Takes, Entries, Stop
<1>6. Shown'
  <2>1. \A h \in Entries(results) : h # g /\ worker'[h] = "ended"
    <3>1. \A h \in Entries(results) : h \in Generations
      BY DEF LoopInv, LoopTypes, Entries
    <3>2. QED
      BY <1>1, <3>1 DEF LoopInv, Shown
  <2>2. QED
    BY <1>4, <2>1 DEF LoopInv, Shown, Generations, Takes, Entries, Stop
<1>7. QED
  BY <1>2, <1>3, <1>5, <1>6 DEF LoopInv

\* A frame is taken out of the queue, the Stop behind it is not.
LEMMA TakeKeeps ==
    ASSUME LoopInv, NEW g \in Generations, WorkerPushes(g) \/ WorkerDrops(g) PROVE LoopInv'
<1>1. /\ commands[g] # <<>> /\ Head(commands[g]) # Stop
      /\ commands' = [commands EXCEPT ![g] = Tail(commands[g])]
      /\ UNCHANGED <<layout, changes, session, recording, results, worker, area, stopping,
                     reports, claim, files>>
  BY DEF WorkerPushes, WorkerDrops, TakesFrame, WorkerStep, captureVars, desktopVars
<1>2. /\ commands[g] \in Seq(Nat) /\ Entries(commands[g]) \subseteq {Stop, area[g]}
      /\ stopping = [stopping EXCEPT ![g] = stopping[g]]
      /\ stopping[g] \in BOOLEAN
  BY QueueOf
<1>3. /\ Tail(commands[g]) \in Seq(Nat)
      /\ Entries(Tail(commands[g])) \subseteq Entries(commands[g])
      /\ Entries(commands[g]) \subseteq Entries(Tail(commands[g])) \cup {Head(commands[g])}
  BY <1>1, <1>2, Taken
<1>4. Takes(g) => \/ recording # None /\ recording.gen = g
                  \/ stopping[g]
                  \/ Stop \in Entries(Tail(commands[g]))
  BY <1>1, <1>3 DEF LoopInv, Shown
<1>5. QED
  BY <1>1, <1>2, <1>3, <1>4, QueueKeeps

LEMMA SendStopKeeps == ASSUME LoopInv, NEW g \in Generations, SendStop(g) PROVE LoopInv'
<1>1. /\ stopping' = [stopping EXCEPT ![g] = FALSE]
      /\ \/ ~Takes(g) /\ UNCHANGED commands
         \/ Takes(g) /\ commands' = [commands EXCEPT ![g] = Append(commands[g], Stop)]
      /\ UNCHANGED <<layout, changes, session, recording, results, worker, area, reports,
                     claim, files>>
  BY DEF SendStop, captureVars, desktopVars
<1>2. /\ commands[g] \in Seq(Nat) /\ Entries(commands[g]) \subseteq {Stop, area[g]}
      /\ commands = [commands EXCEPT ![g] = commands[g]]
  BY QueueOf
<1>3. CASE ~Takes(g)
  BY <1>1, <1>2, <1>3, QueueKeeps
<1>4. CASE Takes(g)
  <2>1. /\ Append(commands[g], Stop) \in Seq(Nat)
        /\ Entries(Append(commands[g], Stop)) = Entries(commands[g]) \cup {Stop}
    BY <1>2, Appended DEF Stop
  <2>2. QED
    BY <1>1, <1>2, <1>4, <2>1, QueueKeeps
<1>5. QED
  BY <1>3, <1>4

LEMMA WorksKeeps ==
    ASSUME LoopInv, NEW g \in Generations, Works(g),
           files' \in [Names -> {"absent", "claimed", "left", "saved"}],
           worker[g] = "building" => ClaimFree \in Names
    PROVE  LoopInv'
<1>1. claim[g] \in Nat /\ claim = [claim EXCEPT ![g] = claim[g]]
  BY DEF LoopInv, WorkerTypes
<1>2. CASE WorkerBuilds(g)
  <2>1. ClaimFree \in Nat
    BY <1>2 DEF WorkerBuilds, Names
  <2>2. QED
    BY <1>2, <2>1, StepKeeps DEF WorkerBuilds, WorkerStep, captureVars, desktopVars
<1>3. CASE WorkerStops(g)
  BY <1>1, <1>3, StepKeeps DEF WorkerStops, WorkerStep, captureVars, desktopVars
<1>4. CASE WorkerPushes(g) \/ WorkerDrops(g)
  BY <1>4, TakeKeeps
<1>5. CASE WorkerFailsToBuild(g) \/ WorkerFails(g) \/ WorkerFinishes(g) \/ WorkerFailsToFinish(g)
  BY <1>5, ReportKeeps
     DEF WorkerFailsToBuild, WorkerFails, WorkerFinishes, WorkerFailsToFinish, Fail,
         TakesFrame, WorkerStep, captureVars, desktopVars
<1>6. QED
  BY <1>2, <1>3, <1>4, <1>5 DEF Works

----------------------------------------------------------------------------
(* The files *)

LEMMA FiniteRecordings ==
    /\ IsFiniteSet(Names) /\ Cardinality(Names) = MaxRecordings
    /\ IsFiniteSet(Generations) /\ Cardinality(Generations) = MaxRecordings
    /\ Names = Generations
<1>1. MaxRecordings \in Nat /\ MaxRecordings \in Int /\ 1 \in Int
  BY RecordingBounds
<1>2. /\ IsFiniteSet(1 .. MaxRecordings)
      /\ Cardinality(1 .. MaxRecordings)
            = IF 1 > MaxRecordings THEN 0 ELSE MaxRecordings - 1 + 1
  BY <1>1, FS_Interval
<1>3. QED
  BY <1>1, <1>2 DEF Names, Generations

\* A worker that has not claimed a name finds one: no more names are used than workers
\* are past claiming theirs.
LEMMA NameFree ==
    ASSUME Cardinality(Used) <= Cardinality(Past), NEW g \in Generations, g \notin Past
    PROVE  ClaimFree \in Names /\ files[ClaimFree] = "absent"
<1>1. Past \subseteq Generations \ {g} /\ Used \subseteq Names
  BY DEF Past, Used
<1>2. IsFiniteSet(Generations \ {g}) /\ Cardinality(Generations \ {g}) = MaxRecordings - 1
  BY FiniteRecordings, FS_RemoveElement
<1>3. Cardinality(Past) <= MaxRecordings - 1 /\ Cardinality(Past) \in Nat
  BY <1>1, <1>2, FS_Subset, FS_CardinalityType
<1>4. IsFiniteSet(Used) /\ Cardinality(Used) \in Nat
  BY <1>1, FiniteRecordings, FS_Subset, FS_CardinalityType
<1>5. Used # Names
  BY <1>3, <1>4, FiniteRecordings, RecordingBounds
<1>6. \E n \in Names : files[n] = "absent"
  BY <1>1, <1>5 DEF Used
<1>7. QED
  BY <1>6 DEF ClaimFree

LEMMA OneMore ==
    ASSUME Cardinality(Used) <= Cardinality(Past), NEW g \in Generations, g \notin Past,
           NEW n, Used' \subseteq Used \cup {n}, Past' = Past \cup {g}
    PROVE  Cardinality(Used') <= Cardinality(Past')
<1>1. IsFiniteSet(Used) /\ IsFiniteSet(Past)
  <2>1. Used \subseteq Names /\ Past \subseteq Generations
    BY DEF Used, Past
  <2>2. QED
    BY <2>1, FiniteRecordings, FS_Subset
<1>2. Cardinality(Past') = Cardinality(Past) + 1
  BY <1>1, FS_AddElement
<1>3. /\ IsFiniteSet(Used \cup {n})
      /\ Cardinality(Used \cup {n}) <= Cardinality(Used) + 1
  <2>1. /\ IsFiniteSet(Used \cup {n})
        /\ Cardinality(Used \cup {n})
              = IF n \in Used THEN Cardinality(Used) ELSE Cardinality(Used) + 1
    BY <1>1, FS_AddElement
  <2>2. Cardinality(Used) \in Nat
    BY <1>1, FS_CardinalityType
  <2>3. QED
    BY <2>1, <2>2
<1>4. IsFiniteSet(Used') /\ Cardinality(Used') <= Cardinality(Used \cup {n})
  BY <1>3, FS_Subset
<1>5. /\ Cardinality(Used) \in Nat /\ Cardinality(Past) \in Nat
      /\ Cardinality(Used') \in Nat /\ Cardinality(Used \cup {n}) \in Nat
  BY <1>1, <1>3, <1>4, FS_CardinalityType
<1>6. QED
  BY <1>2, <1>3, <1>4, <1>5

LEMMA NoMore ==
    ASSUME Cardinality(Used) <= Cardinality(Past), Used' \subseteq Used, Past' = Past
    PROVE  Cardinality(Used') <= Cardinality(Past')
<1>1. IsFiniteSet(Used) /\ IsFiniteSet(Past)
  <2>1. Used \subseteq Names /\ Past \subseteq Generations
    BY DEF Used, Past
  <2>2. QED
    BY <2>1, FiniteRecordings, FS_Subset
<1>2. IsFiniteSet(Used') /\ Cardinality(Used') <= Cardinality(Used)
  BY <1>1, FS_Subset
<1>3. QED
  BY <1>1, <1>2, FS_CardinalityType

FileStates == {"absent", "claimed", "left", "saved"}

LEMMA ClaimsStay ==
    ASSUME Claims, UNCHANGED <<reports, claim, files>>,
           \A g \in Generations :
              /\ worker'[g] = "ended" <=> worker[g] = "ended"
              /\ worker'[g] \in {"running", "draining"} <=> worker[g] \in {"running", "draining"}
              /\ worker'[g] \in {"none", "building"} <=> worker[g] \in {"none", "building"}
    PROVE  Claims'
<1>1. Used' = Used /\ Past' = Past
  BY DEF Used, Past
<1>2. Cardinality(Used') <= Cardinality(Past')
  BY <1>1 DEF Claims
<1>3. \A g \in Generations : Records(g)' <=> Records(g)
  BY DEF Records
<1>4. QED
  BY <1>2, <1>3 DEF Claims, Generations, Names, Records

\* A name that is claimed was nobody's.
LEMMA ClaimsGrow ==
    ASSUME LoopInv, Claims, NEW g \in Generations, WorkerBuilds(g)
    PROVE  Claims' /\ files' \in [Names -> FileStates]
<1> DEFINE n == ClaimFree
<1>1. /\ worker[g] = "building"
      /\ worker' = [worker EXCEPT ![g] = "running"]
      /\ claim' = [claim EXCEPT ![g] = n]
      /\ files' = [files EXCEPT ![n] = "claimed"]
      /\ reports' = reports
  BY DEF WorkerBuilds
<1>2. /\ worker \in [Generations -> {"none", "building", "running", "draining", "ended"}]
      /\ claim \in [Generations -> Nat] /\ files \in [Names -> FileStates]
  BY DEF LoopInv, WorkerTypes, FileStates
<1>3. g \notin Past
  BY <1>1 DEF Past
<1>4. n \in Names /\ files[n] = "absent"
  BY <1>3, NameFree DEF Claims
<1> HIDE DEF n
<1>5. files' \in [Names -> FileStates]
  BY <1>1, <1>2 DEF FileStates
<1>6. \A h \in Generations : h # g => /\ Records(h)' <=> Records(h)
                                      /\ claim'[h] = claim[h] /\ worker'[h] = worker[h]
  BY <1>1, <1>2 DEF Records
<1>7. /\ Records(g)' /\ ~Records(g) /\ claim'[g] = n /\ worker'[g] = "running"
      /\ files'[n] = "claimed"
  BY <1>1, <1>2, <1>4 DEF Records
<1>8. \A m \in Names : m # n => files'[m] = files[m]
  BY <1>1, <1>2
<1>9. \A h \in Generations : Records(h) => claim[h] \in Names /\ claim[h] # n
  BY <1>4 DEF Claims
<1>10. Used' \subseteq Used \cup {n} /\ Past' = Past \cup {g}
  <2>1. Used' \subseteq Used \cup {n}
    BY <1>8 DEF Used
  <2>2. \A h \in Generations : h # g => (worker'[h] \notin {"none", "building"}
                                         <=> worker[h] \notin {"none", "building"})
    BY <1>6
  <2>3. QED
    BY <1>7, <2>1, <2>2 DEF Past
<1>11. Cardinality(Used') <= Cardinality(Past')
  BY <1>3, <1>10, OneMore DEF Claims
<1>12. \A h \in Generations : reports'[h] = (IF worker'[h] = "ended" THEN 1 ELSE 0)
  BY <1>1, <1>6, <1>7 DEF Claims
<1>13. \A h \in Generations : Records(h)' => claim'[h] \in Names /\ files'[claim'[h]] = "claimed"
  <2>1. ASSUME NEW h \in Generations, Records(h)', h # g
        PROVE  claim'[h] \in Names /\ files'[claim'[h]] = "claimed"
    BY <1>6, <1>8, <1>9, <2>1 DEF Claims
  <2>2. QED
    BY <1>4, <1>7, <2>1
<1>14. ASSUME NEW h \in Generations, NEW i \in Generations, Records(h)', Records(i)', h # i
       PROVE  claim'[h] # claim'[i]
  <2>1. CASE h # g /\ i # g
    BY <1>6, <1>14, <2>1 DEF Claims
  <2>2. CASE h = g
    BY <1>6, <1>7, <1>9, <1>14, <2>2
  <2>3. CASE i = g
    BY <1>6, <1>7, <1>9, <1>14, <2>3
  <2>4. QED
    BY <2>1, <2>2, <2>3
<1>15. ASSUME NEW m \in Names, files'[m] = "claimed"
       PROVE  \E h \in Generations : Records(h)' /\ claim'[h] = m
  <2>1. CASE m = n
    BY <1>7, <2>1
  <2>2. CASE m # n
    <3>1. PICK h \in Generations : Records(h) /\ claim[h] = m
      BY <1>8, <1>15, <2>2 DEF Claims
    <3>2. h # g
      BY <1>7, <3>1
    <3>3. QED
      BY <1>6, <3>1, <3>2
  <2>3. QED
    BY <2>1, <2>2
<1>16. QED
  BY <1>5, <1>11, <1>12, <1>13, <1>14, <1>15 DEF Claims, Generations, Names

\* A recording that fails before it has a name touches nobody's.
LEMMA ClaimsFail ==
    ASSUME LoopInv, Claims, NEW g \in Generations, worker[g] \in {"none", "building"},
           worker' = [worker EXCEPT ![g] = "ended"],
           reports' = [reports EXCEPT ![g] = @ + 1],
           claim' = claim \/ claim' = [claim EXCEPT ![g] = 0],
           files' \in {files, [files EXCEPT ![ClaimFree] = "left"]}
    PROVE  Claims' /\ files' \in [Names -> FileStates]
<1> DEFINE n == ClaimFree
<1>1. /\ worker \in [Generations -> {"none", "building", "running", "draining", "ended"}]
      /\ claim \in [Generations -> Nat] /\ files \in [Names -> FileStates]
      /\ reports \in [Generations -> Nat]
  BY DEF LoopInv, WorkerTypes, FileStates
<1>2. g \notin Past
  BY DEF Past
<1>3. n \in Names /\ files[n] = "absent"
  BY <1>2, NameFree DEF Claims
<1>4. files' = files \/ files' = [files EXCEPT ![n] = "left"]
  OBVIOUS
<1> HIDE DEF n
<1>5. files' \in [Names -> FileStates]
  BY <1>1, <1>4 DEF FileStates
<1>6. \A h \in Generations : h # g => /\ Records(h)' <=> Records(h)
                                      /\ claim'[h] = claim[h] /\ worker'[h] = worker[h]
                                      /\ reports'[h] = reports[h]
  BY <1>1 DEF Records
<1>7. ~Records(g)' /\ ~Records(g) /\ worker'[g] = "ended"
  BY <1>1 DEF Records
<1>8. /\ \A m \in Names : m # n => files'[m] = files[m]
      /\ files'[n] # "claimed"
  BY <1>1, <1>3, <1>4
<1>9. Used' \subseteq Used \cup {n} /\ Past' = Past \cup {g}
  <2>1. Used' \subseteq Used \cup {n}
    BY <1>8 DEF Used
  <2>2. \A h \in Generations : h # g => (worker'[h] \notin {"none", "building"}
                                         <=> worker[h] \notin {"none", "building"})
    BY <1>6
  <2>3. QED
    BY <1>7, <2>1, <2>2 DEF Past
<1>10. Cardinality(Used') <= Cardinality(Past')
  BY <1>2, <1>9, OneMore DEF Claims
<1>11. \A h \in Generations : reports'[h] = (IF worker'[h] = "ended" THEN 1 ELSE 0)
  <2>1. reports[g] = 0
    BY DEF Claims
  <2>2. reports'[g] = 1
    BY <1>1, <2>1
  <2>3. QED
    BY <1>6, <1>7, <2>2 DEF Claims
<1>12. ASSUME NEW h \in Generations, Records(h)'
       PROVE  claim'[h] \in Names /\ files'[claim'[h]] = "claimed"
  <2>1. h # g /\ Records(h) /\ claim'[h] = claim[h]
    BY <1>6, <1>7, <1>12
  <2>2. claim[h] \in Names /\ files[claim[h]] = "claimed" /\ claim[h] # n
    BY <1>3, <2>1 DEF Claims
  <2>3. QED
    BY <1>8, <2>1, <2>2
<1>13. \A h, i \in Generations : Records(h)' /\ Records(i)' /\ h # i => claim'[h] # claim'[i]
  BY <1>6, <1>7 DEF Claims
<1>14. ASSUME NEW m \in Names, files'[m] = "claimed"
       PROVE  \E h \in Generations : Records(h)' /\ claim'[h] = m
  <2>1. m # n /\ files[m] = "claimed"
    BY <1>8, <1>14
  <2>2. PICK h \in Generations : Records(h) /\ claim[h] = m
    BY <2>1 DEF Claims
  <2>3. h # g
    BY <1>7, <2>2
  <2>4. QED
    BY <1>6, <2>2, <2>3
<1>15. QED
  BY <1>5, <1>10, <1>11, <1>12, <1>13, <1>14 DEF Claims, Generations, Names

\* A recording that ends gives up its name, and no other does.
LEMMA ClaimsEnd ==
    ASSUME LoopInv, Claims, NEW g \in Generations, Records(g), Report(g),
           NEW f \in FileStates \ {"claimed"}, files' = [files EXCEPT ![claim[g]] = f]
    PROVE  Claims' /\ files' \in [Names -> FileStates]
<1> DEFINE n == claim[g]
<1>1. /\ worker \in [Generations -> {"none", "building", "running", "draining", "ended"}]
      /\ claim \in [Generations -> Nat] /\ files \in [Names -> FileStates]
      /\ reports \in [Generations -> Nat]
  BY DEF LoopInv, WorkerTypes, FileStates
<1>2. /\ worker' = [worker EXCEPT ![g] = "ended"]
      /\ reports' = [reports EXCEPT ![g] = @ + 1]
      /\ claim' = [claim EXCEPT ![g] = 0]
  BY DEF Report
<1>3. n \in Names /\ files[n] = "claimed"
  BY DEF Claims
<1>4. \A h \in Generations : Records(h) /\ h # g => claim[h] # n
  BY DEF Claims
<1>5. files' = [files EXCEPT ![n] = f]
  OBVIOUS
<1> HIDE DEF n
<1>6. files' \in [Names -> FileStates]
  BY <1>1, <1>5
<1>7. \A h \in Generations : h # g => /\ Records(h)' <=> Records(h)
                                      /\ claim'[h] = claim[h] /\ worker'[h] = worker[h]
                                      /\ reports'[h] = reports[h]
  BY <1>1, <1>2 DEF Records
<1>8. ~Records(g)' /\ worker'[g] = "ended" /\ worker[g] \in {"running", "draining"}
  BY <1>1, <1>2 DEF Records
<1>9. /\ \A m \in Names : m # n => files'[m] = files[m]
      /\ files'[n] # "claimed"
  BY <1>1, <1>3, <1>5
<1>10. Used' \subseteq Used /\ Past' = Past
  <2>1. Used' \subseteq Used
    BY <1>3, <1>9 DEF Used
  <2>2. \A h \in Generations : worker'[h] \notin {"none", "building"}
                               <=> worker[h] \notin {"none", "building"}
    BY <1>7, <1>8
  <2>3. QED
    BY <2>1, <2>2 DEF Past
<1>11. Cardinality(Used') <= Cardinality(Past')
  BY <1>10, NoMore DEF Claims
<1>12. \A h \in Generations : reports'[h] = (IF worker'[h] = "ended" THEN 1 ELSE 0)
  <2>1. reports[g] = 0
    BY <1>8 DEF Claims
  <2>2. reports'[g] = 1
    BY <1>1, <1>2, <2>1
  <2>3. QED
    BY <1>7, <1>8, <2>2 DEF Claims
<1>13. ASSUME NEW h \in Generations, Records(h)'
       PROVE  claim'[h] \in Names /\ files'[claim'[h]] = "claimed"
  <2>1. h # g /\ Records(h) /\ claim'[h] = claim[h]
    BY <1>7, <1>8, <1>13
  <2>2. claim[h] \in Names /\ files[claim[h]] = "claimed" /\ claim[h] # n
    BY <1>4, <2>1 DEF Claims
  <2>3. QED
    BY <1>9, <2>1, <2>2
<1>14. \A h, i \in Generations : Records(h)' /\ Records(i)' /\ h # i => claim'[h] # claim'[i]
  BY <1>7, <1>8 DEF Claims
<1>15. ASSUME NEW m \in Names, files'[m] = "claimed"
       PROVE  \E h \in Generations : Records(h)' /\ claim'[h] = m
  <2>1. m # n /\ files[m] = "claimed"
    BY <1>9, <1>15
  <2>2. PICK h \in Generations : Records(h) /\ claim[h] = m
    BY <2>1 DEF Claims
  <2>3. h # g
    BY <2>1, <2>2 DEF n
  <2>4. QED
    BY <1>7, <2>2, <2>3
<1>16. QED
  BY <1>6, <1>11, <1>12, <1>13, <1>14, <1>15 DEF Claims, Generations, Names

----------------------------------------------------------------------------
(* Every step *)

LEMMA WorksKeepsAll ==
    ASSUME RecordingInv, NEW g \in Generations, Works(g) PROVE RecordingInv'
<1>1. /\ LoopInv /\ Claims /\ files \in [Names -> FileStates]
      /\ worker \in [Generations -> {"none", "building", "running", "draining", "ended"}]
  BY DEF RecordingInv, LoopInv, WorkerTypes, FileStates
<1>2. worker[g] = "building" => ClaimFree \in Names
  BY NameFree DEF RecordingInv, Claims, Past
<1>3. Claims' /\ files' \in [Names -> FileStates]
  <2>1. CASE WorkerBuilds(g)
    BY <1>1, <2>1, ClaimsGrow
  <2>2. CASE WorkerFailsToBuild(g)
    BY <1>1, <2>2, ClaimsFail DEF WorkerFailsToBuild, Report
  <2>3. CASE WorkerPushes(g) \/ WorkerDrops(g)
    <3>1. UNCHANGED <<worker, reports, claim, files>>
      BY <2>3 DEF WorkerPushes, WorkerDrops
    <3>2. QED
      BY <1>1, <3>1, ClaimsStay
  <2>4. CASE WorkerStops(g)
    <3>1. /\ worker[g] = "running" /\ worker' = [worker EXCEPT ![g] = "draining"]
          /\ UNCHANGED <<reports, claim, files>>
      BY <2>4 DEF WorkerStops
    <3>2. \A h \in Generations : h # g => worker'[h] = worker[h]
      BY <1>1, <3>1
    <3>3. worker'[g] = "draining"
      BY <1>1, <3>1
    <3>4. QED
      BY <1>1, <3>1, <3>2, <3>3, ClaimsStay
  <2>5. CASE WorkerFails(g) \/ WorkerFailsToFinish(g)
    <3>1. /\ Records(g) /\ Report(g) /\ files' = WithoutPlaceholder(g)
      BY <2>5 DEF WorkerFails, WorkerFailsToFinish, TakesFrame, Fail, Records
    <3>2. files[claim[g]] = "claimed"
      BY <1>1, <3>1 DEF Claims
    <3>3. files' = [files EXCEPT ![claim[g]] = "absent"] /\ "absent" \in FileStates \ {"claimed"}
      BY <3>1, <3>2 DEF WithoutPlaceholder, FileStates
    <3>4. QED
      BY <1>1, <3>1, <3>3, ClaimsEnd
  <2>6. CASE WorkerFinishes(g)
    <3>1. Records(g) /\ Report(g) /\ files' = [files EXCEPT ![claim[g]] = "saved"]
      BY <2>6 DEF WorkerFinishes, Records
    <3>2. "saved" \in FileStates \ {"claimed"}
      BY DEF FileStates
    <3>3. QED
      BY <1>1, <3>1, <3>2, ClaimsEnd
  <2>7. QED
    BY <2>1, <2>2, <2>3, <2>4, <2>5, <2>6 DEF Works
<1>4. LoopInv'
  BY <1>1, <1>2, <1>3, WorksKeeps DEF FileStates
<1>5. QED
  BY <1>3, <1>4 DEF RecordingInv

LEMMA NextKeeps == ASSUME RecordingInv, RecordingNext PROVE RecordingInv'
<1>1. /\ LoopInv /\ Claims /\ files \in [Names -> FileStates]
      /\ worker \in [Generations -> {"none", "building", "running", "draining", "ended"}]
  BY DEF RecordingInv, LoopInv, WorkerTypes, FileStates
<1>2. ASSUME LoopInv', UNCHANGED <<worker, reports, claim, files>> PROVE RecordingInv'
  BY <1>1, <1>2, ClaimsStay DEF RecordingInv
<1>3. CASE CaptureNext /\ UNCHANGED <<recording, results, workerVars>>
  BY <1>1, <1>2, <1>3, CaptureKeeps DEF workerVars
<1>4. CASE HandleResult
  BY <1>1, <1>2, <1>4, ResultKeeps DEF HandleResult, workerVars
<1>5. ASSUME NEW o \in Outputs, NEW record \in BOOLEAN, PrintKey(o, record)
      PROVE  RecordingInv'
  <2>1. UNCHANGED <<worker, reports, claim, files>>
    BY <1>5 DEF PrintKey, StopRecording, BeginCapture, workerVars
  <2>2. QED
    BY <1>1, <1>2, <1>5, <2>1, PrintKeeps
<1>6. ASSUME NEW g \in Generations, DeliverFrame(g) PROVE RecordingInv'
  <2>1. UNCHANGED <<worker, reports, claim, files>>
    BY <1>6 DEF DeliverFrame, StopRecording
  <2>2. QED
    BY <1>1, <1>2, <1>6, <2>1, DeliverKeeps
<1>7. ASSUME NEW g \in Generations, StartRecording(g) PROVE RecordingInv'
  <2>1. /\ worker[g] = "none" /\ worker' = [worker EXCEPT ![g] = "building"]
        /\ UNCHANGED <<reports, claim, files>>
    BY <1>7 DEF StartRecording
  <2>2. \A h \in Generations : h # g => worker'[h] = worker[h]
    BY <1>1, <2>1
  <2>3. worker'[g] = "building"
    BY <1>1, <2>1
  <2>4. Claims'
    BY <1>1, <2>1, <2>2, <2>3, ClaimsStay
  <2>5. QED
    BY <1>1, <1>7, <2>4, StartKeeps DEF RecordingInv
<1>8. ASSUME NEW g \in Generations, StartRecordingFails(g) PROVE RecordingInv'
  <2>1. Claims' /\ files' \in [Names -> FileStates]
    BY <1>1, <1>8, ClaimsFail DEF StartRecordingFails
  <2>2. QED
    BY <1>1, <1>8, <2>1, StartFailsKeeps DEF RecordingInv, FileStates
<1>9. ASSUME NEW g \in Generations, SendStop(g) PROVE RecordingInv'
  <2>1. UNCHANGED <<worker, reports, claim, files>>
    BY <1>9 DEF SendStop
  <2>2. QED
    BY <1>1, <1>2, <1>9, <2>1, SendStopKeeps
<1>10. QED
  BY <1>3, <1>4, <1>5, <1>6, <1>7, <1>8, <1>9, WorksKeepsAll DEF RecordingNext, LoopNext

\* The inductive invariant holds from the start, after every step and every stutter.
LEMMA RecordingInvariant == RecordingSpec => []RecordingInv
<1>1. ASSUME RecordingInit PROVE RecordingInv
  <2>1. /\ layout = [o \in Outputs |-> 1] /\ changes = 0 /\ session = None
        /\ recording = None /\ results = <<>>
        /\ worker = [g \in Generations |-> "none"] /\ area = [g \in Generations |-> 0]
        /\ commands = [g \in Generations |-> <<>>]
        /\ stopping = [g \in Generations |-> FALSE]
        /\ reports = [g \in Generations |-> 0] /\ claim = [g \in Generations |-> 0]
        /\ files = [n \in Names |-> "absent"]
    BY <1>1 DEF RecordingInit, CaptureInit
  <2>2. <<>> \in Seq(Nat) /\ <<>> \in Seq(Generations)
    OBVIOUS
  <2>3. LoopTypes /\ WorkerTypes
    BY <2>1, <2>2 DEF LoopTypes, WorkerTypes
  <2>4. Frozen /\ Shown
    BY <2>1, NoEntries DEF Frozen, Shown, Takes
  <2>5. Used = {} /\ Past = {}
    BY <2>1 DEF Used, Past
  <2>6. Cardinality(Used) <= Cardinality(Past)
    BY <2>5, FS_EmptySet
  <2>7. Claims
    BY <2>1, <2>6 DEF Claims, Records
  <2>8. QED
    BY <2>3, <2>4, <2>7 DEF RecordingInv, LoopInv
<1>2. ASSUME RecordingInv, UNCHANGED recordingVars PROVE RecordingInv'
  <2>1. /\ UNCHANGED <<layout, changes, session, recording, results>>
        /\ UNCHANGED <<worker, area, commands, stopping, reports, claim, files>>
    BY <1>2 DEF recordingVars, captureVars, desktopVars, workerVars
  <2>2. Used' = Used /\ Past' = Past
    BY <2>1 DEF Used, Past
  <2>3. Claims'
    BY <1>2, <2>1, <2>2 DEF RecordingInv, Claims, Records, Names, Generations
  <2>4. LoopTypes' /\ WorkerTypes'
    BY <1>2, <2>1 DEF RecordingInv, LoopInv, LoopTypes, WorkerTypes, Names, Generations
  <2>5. Frozen' /\ Shown'
    BY <1>2, <2>1 DEF RecordingInv, LoopInv, Frozen, Shown, Takes, Entries, Generations, Stop
  <2>6. QED
    BY <2>3, <2>4, <2>5 DEF RecordingInv, LoopInv
<1>3. RecordingInv /\ [RecordingNext]_recordingVars => RecordingInv'
  BY <1>2, NextKeeps
<1>4. QED
  BY <1>1, <1>3, PTL DEF RecordingSpec

\* What is recorded or selected is the picture that was frozen, and no worker takes
\* frames that the desktop does not show to be recording, unless its end is on its way.
THEOREM NothingIsUnseen == RecordingSpec => []NothingUnseen
<1>1. RecordingInv => NothingUnseen
  <2> SUFFICES ASSUME RecordingInv PROVE NothingUnseen
    OBVIOUS
  <2>1. \A g \in Generations : commands[g] \in Seq(Nat)
                               /\ Entries(commands[g]) \subseteq {Stop, area[g]}
    BY QueueOf DEF RecordingInv
  <2>2. ASSUME NEW g \in Generations, NEW i \in 1 .. QueueDepth,
               i <= Len(commands[g]), commands[g][i] # Stop
        PROVE  commands[g][i] = area[g]
    <3>1. i \in DOMAIN commands[g]
      BY <2>1, <2>2, RecordingBounds
    <3>2. QED
      BY <2>1, <2>2, <3>1 DEF Entries
  <2>3. OnePicture
    BY <2>2 DEF RecordingInv, LoopInv, Frozen, OnePicture
  <2>4. NoOrphanWorker
    BY DEF RecordingInv, LoopInv, Shown, NoOrphanWorker, Entries
  <2>5. QED
    BY <2>3, <2>4 DEF NothingUnseen
<1>2. QED
  BY <1>1, RecordingInvariant, PTL

\* Claims and claimed files are one to one at any number of recordings, a free name is
\* always found, and each worker reports exactly once.
THEOREM KeepsFiles == RecordingSpec => []FilesKept
<1>1. RecordingInv => FilesKept
  BY DEF RecordingInv, Claims, FilesKept
<1>2. QED
  BY <1>1, RecordingInvariant, PTL
=============================================================================
