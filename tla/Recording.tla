----------------------------- MODULE Recording -----------------------------
(***************************************************************************)
(* The recording of an area: the loop side of src/embedder/capture/mod.rs, *)
(* which pushes copies of the output into a bounded queue and drops what   *)
(* does not fit, and the worker of src/embedder/capture/recording.rs, one  *)
(* thread per recording, which feeds an encoder, names and finalizes the   *)
(* file and reports once, on a channel the loop reads later.               *)
(*                                                                         *)
(* A frame is the layout it shows. The encoder is the environment: it may  *)
(* be saturated, fail, end by itself or never end after it was told to.    *)
(***************************************************************************)
EXTENDS Capture

CONSTANTS
    MaxRecordings, \* workers spawned (bound)
    QueueDepth,    \* FRAME_QUEUE_DEPTH
    StallLimit     \* STALL_DROP_LIMIT

ASSUME RecordingBounds ==
    /\ MaxRecordings \in Nat
    /\ {QueueDepth, StallLimit} \subseteq Nat \ {0}
    /\ None \notin [gen : 1 .. MaxRecordings, output : Outputs, seen : Nat]

VARIABLES
    \* the loop: CaptureState::recording_session, the reports it has not read
    recording, results,
    \* each worker: how far it is, what it records, its commands, whether a detached
    \* thread waits to send Stop, frames dropped in a row, reports sent (history)
    worker, area, commands, stopping, drops, reports,
    \* its file: the name it has claimed, and what is behind each name
    claim, files

workerVars    == <<worker, area, commands, stopping, drops, reports, claim, files>>
recordingVars == <<captureVars, recording, results, workerVars>>

----------------------------------------------------------------------------

Generations == 1 .. MaxRecordings
Names       == 1 .. MaxRecordings

\* Commands are Stop and the layouts of frames.
Stop == 0

\* The receiver of the commands lives until a Stop is taken or the worker ends.
Takes(g) == worker[g] \in {"building", "running"}

RecordingInit ==
    /\ CaptureInit
    /\ recording = None /\ results = <<>>
    /\ worker = [g \in Generations |-> "none"]
    /\ area = [g \in Generations |-> 0]
    /\ commands = [g \in Generations |-> <<>>]
    /\ stopping = [g \in Generations |-> FALSE]
    /\ drops = [g \in Generations |-> 0]
    /\ reports = [g \in Generations |-> 0]
    /\ claim = [g \in Generations |-> 0]
    /\ files = [n \in Names |-> "absent"]

\* Mutant: the name tried first is taken, whoever has it.
ClaimFirst == 1

\* recording_path: a name of its kind that nothing is behind, claimed with an empty
\* file. At worst all recordings begin in the same millisecond.
ClaimFree == CHOOSE n \in Names : files[n] = "absent"

----------------------------------------------------------------------------
(* The loop *)

LoopStep == UNCHANGED <<desktopVars, shotVars, results>>

\* finish_capture of a recording, start_area_recording: the worker is spawned and given
\* the frozen picture. Rounded down to even sides, the area may have no pixel left.
StartRecording(g) ==
    /\ session # None /\ session.selected /\ session.record
    /\ worker[g] = "none"
    /\ \A earlier \in 1 .. g - 1 : worker[earlier] # "none"
    /\ recording' = [gen |-> g, output |-> session.output, seen |-> session.seen]
    /\ worker' = [worker EXCEPT ![g] = "building"]
    /\ area' = [area EXCEPT ![g] = session.seen]
    /\ commands' = [commands EXCEPT ![g] = <<session.seen>>]
    /\ session' = None
    /\ LoopStep
    /\ UNCHANGED <<stopping, drops, reports, claim, files>>

\* The worker is gone before the first frame is pushed: nothing is recorded, and its
\* report is its own.
StartRecordingFails(g) ==
    /\ session # None /\ session.selected /\ session.record
    /\ worker[g] = "none"
    /\ \A earlier \in 1 .. g - 1 : worker[earlier] # "none"
    /\ worker' = [worker EXCEPT ![g] = "ended"]
    /\ reports' = [reports EXCEPT ![g] = @ + 1]
    /\ results' = Append(results, g)
    /\ files' \in {files, [files EXCEPT ![ClaimFree] = "left"]}
    /\ session' = None
    /\ UNCHANGED <<desktopVars, shotVars, recording, area, commands, stopping, drops, claim>>

\* Mutant: a full queue loses the Stop.
HandleStopLossy(g) ==
    /\ commands' = IF Takes(g) /\ Len(commands[g]) < QueueDepth
                   THEN [commands EXCEPT ![g] = Append(@, Stop)]
                   ELSE commands
    /\ UNCHANGED stopping

\* RecordingHandle::stop: tried at once, and by a detached thread when the queue is full.
HandleStop(g) ==
    IF ~Takes(g) THEN UNCHANGED <<commands, stopping>>
    ELSE IF Len(commands[g]) < QueueDepth
    THEN /\ commands' = [commands EXCEPT ![g] = Append(@, Stop)]
         /\ UNCHANGED stopping
    ELSE /\ stopping' = [stopping EXCEPT ![g] = TRUE]
         /\ UNCHANGED commands

\* stop_recording
StopRecording ==
    /\ recording' = None
    /\ HandleStop(recording.gen)
    /\ LoopStep
    /\ UNCHANGED <<session, worker, area, drops, reports, claim, files>>

\* handle_embedder_hotkeys: Print ends the recording that runs; otherwise it begins a
\* capture, with Shift that of a recording.
PrintKey(o, record) ==
    \/ /\ recording # None
       /\ StopRecording
    \/ /\ recording = None
       /\ BeginCapture(o, record)
       /\ UNCHANGED <<recording, results, workerVars>>

\* deliver_recording_frame, out of the heartbeat of generation g, a presented frame or a
\* motion of the pointer: a copy is pushed if it fits. When the output is not what it was,
\* or the copy cannot be composed, the recording ends.
DeliverFrame(g) ==
    /\ recording # None /\ recording.gen = g
    /\ \/ StopRecording
       \/ /\ layout[recording.output] = recording.seen
          /\ commands' = IF Takes(g) /\ Len(commands[g]) < QueueDepth
                         THEN [commands EXCEPT ![g] = Append(@, layout[recording.output])]
                         ELSE commands
          /\ LoopStep
          /\ UNCHANGED <<session, recording, worker, area, stopping, drops, reports,
                         claim, files>>

\* Mutant: a report is only written to the log.
ResultLogged == UNCHANGED recording

\* A report ends the recording it is about, if that still runs.
OwnResult ==
    recording' = IF recording # None /\ recording.gen = Head(results) THEN None ELSE recording

\* handle_recording_event
HandleResult ==
    /\ results # <<>>
    /\ results' = Tail(results)
    /\ OwnResult
    /\ UNCHANGED <<captureVars, workerVars>>

----------------------------------------------------------------------------
(* A worker *)

WorkerStep == UNCHANGED <<captureVars, recording, stopping>>

\* Its one report, and the end of its commands, the unsent ones included, and of all
\* that the thread knew
Report(g) ==
    /\ worker' = [worker EXCEPT ![g] = "ended"]
    /\ commands' = [commands EXCEPT ![g] = <<>>]
    /\ area' = [area EXCEPT ![g] = 0]
    /\ drops' = [drops EXCEPT ![g] = 0]
    /\ claim' = [claim EXCEPT ![g] = 0]
    /\ reports' = [reports EXCEPT ![g] = @ + 1]
    /\ results' = Append(results, g)

\* build_recording_pipeline succeeds.
WorkerBuilds(g) ==
    /\ worker[g] = "building"
    /\ worker' = [worker EXCEPT ![g] = "running"]
    /\ claim' = [claim EXCEPT ![g] = ClaimFree]
    /\ files' = [files EXCEPT ![ClaimFree] = "claimed"]
    /\ WorkerStep
    /\ UNCHANGED <<commands, results, area, drops, reports>>

\* It fails: before the name is claimed, after (which is taken back), or while it puts
\* the pipeline together, which leaves the empty file behind.
WorkerFailsToBuild(g) ==
    /\ worker[g] = "building"
    /\ files' \in {files, [files EXCEPT ![ClaimFree] = "left"]}
    /\ Report(g)
    /\ WorkerStep

\* remove_empty_placeholder
WithoutPlaceholder(g) ==
    IF files[claim[g]] = "claimed" THEN [files EXCEPT ![claim[g]] = "absent"] ELSE files

\* RunningPipeline::fail: the pipeline is stopped, the partial file stays.
Fail(g) ==
    /\ files' = WithoutPlaceholder(g)
    /\ Report(g)

TakesFrame(g) ==
    /\ worker[g] = "running"
    /\ commands[g] # <<>>
    /\ Head(commands[g]) # Stop
    /\ WorkerStep

\* A frame goes into the encoder.
WorkerPushes(g) ==
    /\ TakesFrame(g)
    /\ commands' = [commands EXCEPT ![g] = Tail(@)]
    /\ drops' = [drops EXCEPT ![g] = 0]
    /\ UNCHANGED <<worker, area, results, reports, claim, files>>

\* The queue of the encoder is full, and nothing is heard of it.
WorkerDrops(g) ==
    /\ TakesFrame(g)
    /\ drops[g] + 1 < StallLimit
    /\ commands' = [commands EXCEPT ![g] = Tail(@)]
    /\ drops' = [drops EXCEPT ![g] = @ + 1]
    /\ UNCHANGED <<worker, area, results, reports, claim, files>>

\* It is refused, the encoder has failed or ended, or has taken none for too long.
WorkerFails(g) ==
    /\ TakesFrame(g)
    /\ Fail(g)

\* Stop: the end of the stream is sent, and the commands are closed. They do not end in
\* another way: the handle is let go of only with a Stop (stop), or when the worker has
\* ended (handle_recording_event, or a first frame refused).
WorkerStops(g) ==
    /\ worker[g] = "running"
    /\ commands[g] # <<>> /\ Head(commands[g]) = Stop
    /\ worker' = [worker EXCEPT ![g] = "draining"]
    /\ commands' = [commands EXCEPT ![g] = <<>>]
    /\ WorkerStep
    /\ UNCHANGED <<results, area, drops, reports, claim, files>>

\* The end of the stream came: the partial file becomes the recording.
WorkerFinishes(g) ==
    /\ worker[g] = "draining"
    /\ files' = [files EXCEPT ![claim[g]] = "saved"]
    /\ Report(g)
    /\ WorkerStep

\* It did not come in time, an error came instead, or the file cannot be renamed.
WorkerFailsToFinish(g) ==
    /\ worker[g] = "draining"
    /\ Fail(g)
    /\ WorkerStep

\* The detached thread: blocks until there is room, or until nobody takes commands.
SendStop(g) ==
    /\ stopping[g]
    /\ \/ ~Takes(g) /\ UNCHANGED commands
       \/ /\ Takes(g) /\ Len(commands[g]) < QueueDepth
          /\ commands' = [commands EXCEPT ![g] = Append(@, Stop)]
    /\ stopping' = [stopping EXCEPT ![g] = FALSE]
    /\ UNCHANGED <<captureVars, recording, results, worker, area, drops, reports, claim,
                   files>>

----------------------------------------------------------------------------

CaptureNext ==
    \/ CancelCapture \/ ReleaseCapture \/ CompleteScreenshot
    \/ \E selected \in BOOLEAN : Drag(selected)
    \/ \E o \in Outputs, gone \in BOOLEAN : LayoutChanges(o, gone)
    \/ \E s \in Shots : ReleaseScreenshot(s) \/ \E ok \in BOOLEAN : EncodeScreenshot(s, ok)

LoopNext ==
    \/ HandleResult
    \/ \E o \in Outputs, record \in BOOLEAN : PrintKey(o, record)
    \/ \E g \in Generations : DeliverFrame(g) \/ StartRecording(g) \/ StartRecordingFails(g)

Works(g) ==
    \/ WorkerBuilds(g) \/ WorkerFailsToBuild(g)
    \/ WorkerPushes(g) \/ WorkerDrops(g) \/ WorkerFails(g)
    \/ WorkerStops(g) \/ WorkerFinishes(g) \/ WorkerFailsToFinish(g)

RecordingNext ==
    \/ CaptureNext /\ UNCHANGED <<recording, results, workerVars>>
    \/ LoopNext
    \/ \E g \in Generations : Works(g) \/ SendStop(g)

\* The workers and the detached threads run, their waits are bounded, and the loop reads
\* the channel. Nothing makes a user press or release, nor a frame be presented.
RecordingFairness ==
    /\ WF_recordingVars(HandleResult)
    /\ \A g \in Generations : WF_recordingVars(Works(g)) /\ WF_recordingVars(SendStop(g))

RecordingSpec     == RecordingInit /\ [][RecordingNext]_recordingVars
FairRecordingSpec == RecordingSpec /\ RecordingFairness

----------------------------------------------------------------------------
(* Properties *)

\* What is on the screen when the button is released is what was frozen when Print was
\* pressed: the layout of a selection, or of what a recording has queued, is that of the
\* output it was taken of, also when outputs come and go during the drag.
OnePicture ==
    /\ session # None => layout[session.output] = session.seen
    /\ \A g \in Generations, i \in 1 .. QueueDepth :
           i <= Len(commands[g]) /\ commands[g][i] # Stop => commands[g][i] = area[g]

\* No worker records on without the user's knowledge: it is the one of the recording the
\* desktop shows, or its Stop is queued, waits for room, or its commands are closed; and
\* no selection is made while a recording runs.
NoOrphanWorker ==
    /\ recording # None => session = None
    /\ \A g \in Generations :
          Takes(g) => \/ recording # None /\ recording.gen = g
                      \/ stopping[g]
                      \/ \E i \in DOMAIN commands[g] : commands[g][i] = Stop

\* The user's own view of a capture is the true one: it has the layout that was
\* frozen, and goes on only as long as the desktop says so.
NothingUnseen == OnePicture /\ NoOrphanWorker

Records(g) == worker[g] \in {"running", "draining"}

\* Each worker reports once, when it is done. A finished recording stays under the name
\* it was saved under, workers that record have names of their own, and a failed one
\* leaves no empty file under the name it had claimed.
FilesKept ==
    /\ \A g \in Generations : reports[g] = (IF worker[g] = "ended" THEN 1 ELSE 0)
    /\ \A g \in Generations : Records(g) => files[claim[g]] = "claimed"
    /\ \A g, h \in Generations : Records(g) /\ Records(h) /\ g # h => claim[g] # claim[h]
    /\ \A n \in Names :
          files[n] = "claimed" => \E g \in Generations : Records(g) /\ claim[g] = n

\* A recording the desktop no longer shows is saved or given up for good, even if its
\* queue was full when it was stopped and the encoder stalls; and the desktop shows none
\* whose worker is gone.
RecordingEnds ==
    \A g \in Generations :
        (worker[g] # "none" /\ (worker[g] = "ended" \/ recording = None \/ recording.gen # g))
            ~> (worker[g] = "ended" /\ (recording = None \/ recording.gen # g))
=============================================================================
