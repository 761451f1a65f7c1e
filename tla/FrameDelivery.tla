--------------------------- MODULE FrameDelivery ---------------------------
(***************************************************************************)
(* How the pictures of a screen cast reach its consumer: the loop side of  *)
(* src/embedder/portal/service.rs, which copies what is on screen at every *)
(* present, pointer move and heartbeat, and the PipeWire stream of         *)
(* src/embedder/capture/pipewire.rs, which negotiates a transport, owns    *)
(* the buffers and holds a buffer the GPU still draws back until a render  *)
(* fence on the loop says it is finished.                                  *)
(*                                                                         *)
(* PipeWire, the consumer and the GPU are the environment.  How a session  *)
(* is asked for, approved and reported is PortalCast's subject: here a     *)
(* cast just starts and is closed.                                         *)
(***************************************************************************)
EXTENDS Naturals, Sequences, FiniteSetsExt, SequencesExt

CONSTANTS
    Handles,     \* session handles
    Slots,       \* the buffers a stream and its consumer agree on
    MaxChanges,  \* presents and pointer moves (bound)
    MaxTurns,    \* casts started and things that go wrong, together (bound)
    None

ASSUME DeliveryBounds == {MaxChanges, MaxTurns} \subseteq Nat
ASSUME DeliveryFinite == IsFiniteSet(Handles) /\ IsFiniteSet(Slots)

VARIABLES
    gpuBuffers,      \* the backend allocates dmabufs: capture_dmabuf_setup
    sizes,           \* of the monitor and of the window that are cast
    plugged,         \* the monitor is there
    casts,           \* active_streams
    heartbeats,      \* the timers armed; two of one handle and kind count as one
    streams,         \* Producer::streams
    fences,          \* render fences registered on the loop
    failures,        \* ProducerEvent::Fatal on its way to the loop
    changes, starts, faults,  \* counted for the bounds above
    crossed          \* history: something left of an earlier stream, or of an earlier
                     \* set of buffers, reached this one, or the loop refused a fence

worldVars    == <<gpuBuffers, sizes, plugged>>
loopVars     == <<casts, heartbeats>>
streamVars   == <<streams, fences, failures>>
boundVars    == <<changes, starts, faults>>
deliveryVars == <<worldVars, loopVars, streamVars, boundVars, crossed>>

----------------------------------------------------------------------------

Kinds == {"monitor", "window"}

\* rested: the frame budget allows another frame (last_frame)
Casts == [kind : Kinds, embedded : BOOLEAN, size : Nat, rested : BOOLEAN]

\* A frame shows a monitor or a window, with the pointer or without; it is fresh until
\* what it shows changes, and drawn once the GPU has finished it.
Frames == [kind : Kinds, pointer : BOOLEAN, fresh : BOOLEAN, drawn : BOOLEAN]

\* What mark_dmabuf_corrupted_and_queue hands over: the consumer skips it.
Corrupted == [kind |-> "monitor", pointer |-> FALSE, fresh |-> FALSE, drawn |-> TRUE]

\* StreamEntry and StreamInner: idle are the buffers the consumer gave back, memory
\* those the producer allocated, pending those held back for a fence; pool and life tell
\* one set of buffers, and one stream of a handle, from the next (history).
Holds == [id : Nat, slot : Slots, pool : Nat]
Streams ==
    [state : {"connecting", "paused", "streaming", "failed"},
     offer : {"several", "one", "memory"}, format : {None, "dmabuf", "memory"},
     memory : SUBSET Slots, idle : Seq(Slots), queued : Seq(Slots),
     content : [Slots -> Frames], pending : SUBSET Holds,
     seen : Frames, pool : Nat, life : Nat]

ASSUME StreamsAssumption == None \notin Casts \cup Streams

FreshStream(offer) ==
    [state |-> "connecting", offer |-> offer, format |-> None,
     memory |-> {}, idle |-> <<>>, queued |-> <<>>,
     content |-> [b \in Slots |-> Corrupted], pending |-> {},
     seen |-> Corrupted, pool |-> 0, life |-> starts]

DeliveryInit ==
    /\ gpuBuffers \in BOOLEAN
    /\ sizes = [k \in Kinds |-> 1] /\ plugged = TRUE
    /\ casts = [h \in Handles |-> None] /\ heartbeats = {}
    /\ streams = [h \in Handles |-> None]
    /\ fences = {} /\ failures = <<>>
    /\ changes = 0 /\ starts = 0 /\ faults = 0
    /\ crossed = FALSE

\* Something goes wrong.
Fault == starts + faults < MaxTurns /\ faults' = faults + 1
NoFault == UNCHANGED faults

\* A failure reported twice closes once: the second report is left out.
Fatal(handles) ==
    failures' = failures \o SetToSeq({h \in handles : \A i \in DOMAIN failures : failures[i] # h})

----------------------------------------------------------------------------
(* A cast begins and ends *)

\* make_initial_video_params: dmabufs for monitors, with one modifier or with several
\* that are left open (DONT_FIXATE), and shared memory for every source.
Offers(kind) == IF kind = "monitor" /\ gpuBuffers THEN {"several", "one"} ELSE {"memory"}

\* begin_shared_stream, with start_stream, attach_listeners and the heartbeat; the
\* stream may fail to be made or to connect, its cast is entered all the same.
StartCast(h, kind, embedded) ==
    /\ casts[h] = None /\ streams[h] = None
    /\ starts + faults < MaxTurns /\ starts' = starts + 1
    /\ kind = "monitor" => plugged
    /\ casts' = [casts EXCEPT ![h] = [kind |-> kind, embedded |-> embedded,
                                      size |-> sizes[kind], rested |-> TRUE]]
    /\ heartbeats' = heartbeats \cup {[handle |-> h, kind |-> kind]}
    /\ \/ /\ \E offer \in Offers(kind) :
                 streams' = [streams EXCEPT ![h] = FreshStream(offer)]
          /\ NoFault /\ Fatal({})
       \/ Fault /\ Fatal({h}) /\ UNCHANGED streams
    /\ UNCHANGED <<worldVars, fences, changes, crossed>>

\* close_shared_session as far as delivery goes: stop_capture_side and stop_stream.
\* Timers and fences end by themselves.
Closed(handles) ==
    /\ casts' = [h \in Handles |-> IF h \in handles THEN None ELSE casts[h]]
    /\ streams' = [h \in Handles |-> IF h \in handles THEN None ELSE streams[h]]

\* The session, the user, the shell, or the window it shows is gone.
CloseCast(h) ==
    /\ casts[h] # None
    /\ Closed({h})
    /\ UNCHANGED <<worldVars, heartbeats, fences, failures, boundVars, crossed>>

\* handle_producer_event, Fatal
ReadFatal ==
    /\ failures # <<>>
    /\ failures' = Tail(failures)
    /\ IF casts[Head(failures)] = None THEN UNCHANGED <<casts, streams>>
                                       ELSE Closed({Head(failures)})
    /\ UNCHANGED <<worldVars, heartbeats, fences, boundVars, crossed>>

----------------------------------------------------------------------------
(* The stream: PipeWire's callbacks, on the loop *)

Stream(h, states) == streams[h] # None /\ streams[h].state \in states

Callback(h, stream) ==
    /\ streams' = [streams EXCEPT ![h] = stream]
    /\ UNCHANGED <<worldVars, loopVars, fences, changes, starts, crossed>>

\* state_changed, Paused: the node is published, before any format is agreed on.
Connects(h) ==
    /\ Stream(h, {"connecting"})
    /\ Callback(h, [streams[h] EXCEPT !.state = "paused"])
    /\ NoFault /\ Fatal({})

Failed(h) == [streams[h] EXCEPT !.state = "failed", !.memory = {}, !.idle = <<>>,
                                !.queued = <<>>, !.content = [b \in Slots |-> Corrupted]]

\* state_changed, Error and Unconnected
Breaks(h) ==
    /\ Stream(h, {"connecting", "paused", "streaming"})
    /\ Callback(h, Failed(h))
    /\ Fault /\ Fatal({h})

\* Mutant: an unusable format is only logged.
RefuseLogged(h) ==
    /\ Callback(h, IF streams[h].format = None THEN Failed(h) ELSE streams[h])
    /\ Fault /\ Fatal({})

\* `fatal`: an unusable format closes the session, unless one was agreed on before.
Refuse(h) ==
    /\ Callback(h, IF streams[h].format = None THEN Failed(h) ELSE streams[h])
    /\ Fault /\ Fatal(IF streams[h].format = None THEN {h} ELSE {})

Agree(h, format) ==
    /\ Callback(h, [streams[h] EXCEPT !.format = format])
    /\ NoFault /\ Fatal({})

Negotiating(h) == Stream(h, {"paused"}) /\ streams[h].memory = {}

\* param_changed: a format the consumer does not share with us, or a modifier nothing
\* can be allocated with
Unusable(h) == Negotiating(h) /\ Refuse(h)

\* Several modifiers are left to us (DONT_FIXATE): the first that allocates is offered
\* alone, and the stream waits to be told of it.
Fixate(h) ==
    /\ Negotiating(h)
    /\ streams[h].offer = "several"
    /\ Callback(h, [streams[h] EXCEPT !.offer = "one"])
    /\ NoFault /\ Fatal({})

AgreeDmabuf(h) == Negotiating(h) /\ streams[h].offer = "one" /\ Agree(h, "dmabuf")
AgreeMemory(h) == Negotiating(h) /\ Agree(h, "memory")

\* add_buffer, for every buffer of the pool: an allocation that fails leaves its buffer
\* without memory and ends the session.
AddBuffers(h) ==
    /\ Negotiating(h)
    /\ streams[h].format # None
    /\ \E without \in {{}} \cup {{b} : b \in Slots} :
          /\ Callback(h, [streams[h] EXCEPT !.state = "streaming", !.pool = @ + 1,
                                            !.memory = Slots \ without,
                                            !.idle = SetToSeq(Slots)])
          /\ IF without = {} THEN NoFault /\ Fatal({}) ELSE Fault /\ Fatal({h})

\* remove_buffer, for every buffer: the consumer goes, or agrees on something else.
\* What is held back for a fence stays in `pending`.
RemoveBuffers(h) ==
    /\ Stream(h, {"streaming"})
    /\ Callback(h, [streams[h] EXCEPT !.state = "paused", !.memory = {}, !.idle = <<>>,
                                      !.queued = <<>>,
                                      !.content = [b \in Slots |-> Corrupted]])
    /\ Fault /\ Fatal({})

\* The consumer reads the next frame and gives its buffer back.
Reads(h) ==
    /\ Stream(h, {"streaming"})
    /\ streams[h].queued # <<>>
    /\ LET b     == Head(streams[h].queued)
           frame == streams[h].content[b]
       IN Callback(h, [streams[h] EXCEPT !.queued = Tail(@), !.idle = Append(@, b),
                                         !.content[b] = Corrupted,
                                         !.seen = IF frame = Corrupted THEN @ ELSE frame])
    /\ UNCHANGED <<failures, faults>>

----------------------------------------------------------------------------
(* One frame *)

\* How a rendering goes: finished when it is looked at, still under way, under way while
\* the loop refuses its fence, or failed.  The GPU finishes in order.
Renderings == {"drawing", "refused", "failed"}
              \cup (IF \A f \in fences : f.signaled THEN {"drawn"} ELSE {})

\* Mutant: one capture serves every cast of the output.
ShowsPointerShared(h) == \E k \in Handles : casts[k] # None /\ casts[k].embedded

\* stream_embeds_cursor
ShowsPointer(h) == casts[h].embedded

\* take_output_snapshot, render_output_into_dmabuf and capture_window_pixels; only an
\* output's picture has the pointer.
Picture(h, kind, drawn) ==
    [kind |-> kind, pointer |-> kind = "monitor" /\ ShowsPointer(h), fresh |-> TRUE,
     drawn |-> drawn]

\* What is on screen changes, or the pointer alone.
Aged(frame, pointerOnly) ==
    IF pointerOnly /\ ~frame.pointer THEN frame ELSE [frame EXCEPT !.fresh = FALSE]
Outdated(s, pointerOnly) ==
    IF s = None THEN None
    ELSE [s EXCEPT !.content = [b \in Slots |-> Aged(@[b], pointerOnly)],
                   !.seen = Aged(@, pointerOnly)]

Queue(s, b) == [s EXCEPT !.queued = Append(@, b)]
Hold(s, id, b) == [s EXCEPT !.pending = @ \cup {[id |-> id, slot |-> b, pool |-> s.pool]}]

\* next_pending.  Within a stream no two buffers held back share an id; the next stream
\* of the handle counts from 0 again.
NextPending(h) ==
    Min((0 .. Cardinality(fences))
        \ {f.id : f \in {g \in fences : g.handle = h /\ g.life = streams[h].life}})

\* Mutant: the fence is not waited for.
FinishAtOnce(s, id, b, rendering) == Queue(s, b)

\* finish_dmabuf_frame, defer_screen_cast_queue
Finish(s, id, b, rendering) == IF rendering = "drawing" THEN Hold(s, id, b) ELSE Queue(s, b)

\* What a delivery comes to: the stream after it, the fence it waits for, whether the
\* producer reports a failure, whether the session is closed.
Result(s, awaited, fatal, closed) ==
    [stream |-> s, awaited |-> awaited, fatal |-> fatal, closed |-> closed]
Nothing(s) == Result(s, {}, FALSE, FALSE)

\* deliver_dmabuf_frame.  A buffer without memory is taken and not given back.
IntoDmabuf(h, s, rendering) ==
    LET b     == Head(s.idle)
        taken == [s EXCEPT !.idle = Tail(@)]
        frame == IF rendering = "failed" THEN Corrupted
                                         ELSE Picture(h, "monitor", rendering = "drawn")
        id    == NextPending(h)
        fence == [handle |-> h, life |-> s.life, pool |-> s.pool, id |-> id, slot |-> b,
                  signaled |-> FALSE]
    IN IF s.idle = <<>> THEN Nothing(s)
       ELSE IF b \notin s.memory THEN Result(taken, {}, FALSE, FALSE)
       ELSE Result(Finish([taken EXCEPT !.content[b] = frame], id, b, rendering),
                   IF rendering = "drawing" THEN {fence} ELSE {}, FALSE, FALSE)

\* queue_frame.  A buffer that cannot be filled is returned; a picture that has outgrown
\* the stream ends the session.
IntoMemory(h, s, kind) ==
    LET b == Head(s.idle)
    IN IF s = None \/ s.format # "memory" \/ s.idle = <<>> \/ b \notin s.memory
       THEN Nothing(s)
       ELSE IF sizes[kind] # casts[h].size THEN Result(s, {}, TRUE, FALSE)
       ELSE Result(Queue([s EXCEPT !.idle = Tail(@),
                                   !.content[b] = Picture(h, kind, TRUE)], b),
                   {}, FALSE, FALSE)

\* deliver_session_frame
FromMonitor(h, s, rendering) ==
    IF s # None /\ s.format = "dmabuf"
    THEN IntoDmabuf(h, s, IF plugged THEN rendering ELSE "failed")
    ELSE IF plugged /\ rendering # "failed" THEN IntoMemory(h, s, "monitor")
    ELSE Nothing(s)

\* deliver_window_frame: what cannot be captured at the size of the stream closes it.
FromWindow(h, s, rendering) ==
    IF \/ casts[h].kind # "window" \/ sizes["window"] # casts[h].size
       \/ rendering = "failed"
    THEN Result(None, {}, FALSE, TRUE)
    ELSE IntoMemory(h, s, "window")

\* The casts of `handles` are each given a frame, out of the source their delivery was
\* set up for, on top of what their streams hold `before`; the frame budget starts again
\* if it counts.
Deliver(handles, source, before, budgeted) ==
    \E rendering \in [handles -> Renderings] :
       LET faulty == {h \in handles : rendering[h] \in {"refused", "failed"}}
           result == [h \in handles |->
                        IF source[h] = "monitor" THEN FromMonitor(h, before[h], rendering[h])
                                                 ELSE FromWindow(h, before[h], rendering[h])]
           closed == {h \in handles : result[h].closed}
       IN /\ IF faulty = {} THEN NoFault ELSE Cardinality(faulty) = 1 /\ Fault
          /\ casts' = [h \in Handles |-> IF h \in closed THEN None
                                         ELSE IF h \in handles /\ budgeted
                                         THEN [casts[h] EXCEPT !.rested = FALSE]
                                         ELSE casts[h]]
          /\ streams' = [h \in Handles |-> IF h \in handles THEN result[h].stream ELSE before[h]]
          /\ fences' = fences \cup UNION {result[h].awaited : h \in handles}
          /\ Fatal({h \in handles : result[h].fatal})
          /\ crossed' = (\/ crossed
                         \/ \E h \in handles : rendering[h] = "refused"
                         \/ \E h \in handles : source[h] # casts[h].kind)

----------------------------------------------------------------------------
(* When frames are delivered *)

\* Due for a frame: the source has changed and the budget allows it.
Due(h) == casts[h] # None /\ casts[h].rested /\ (casts[h].kind = "monitor" => plugged)

\* What is on screen changes: every due cast is given a frame, with every other one's
\* frames out of date.
Change(handles, pointerOnly) ==
    /\ changes < MaxChanges /\ changes' = changes + 1
    /\ UNCHANGED <<worldVars, heartbeats, starts>>
    /\ Deliver(handles, [h \in handles |-> casts[h].kind],
               [h \in Handles |-> Outdated(streams[h], pointerOnly)], TRUE)

\* on_view_frame_presented: the windows' casts, then those of the output.
ViewPresented == Change({h \in Handles : Due(h)}, FALSE)

\* on_pointer_motion
PointerMoves ==
    Change({h \in Handles : Due(h) /\ casts[h].kind = "monitor" /\ casts[h].embedded}, TRUE)

\* MIN_FRAME_INTERVAL is over.
Rests(h) ==
    /\ casts[h] # None /\ ~casts[h].rested
    /\ casts' = [casts EXCEPT ![h].rested = TRUE]
    /\ UNCHANGED <<worldVars, heartbeats, streamVars, boundVars, crossed>>

\* Mutant: the timer is dropped once it has fired.
RearmedNever(t) == {}

\* TimeoutAction::ToDuration
Rearmed(t) == {t}

\* The timer of schedule_frame_delivery and of schedule_window_frame_delivery: it ends
\* when its handle has no cast, and tells no cast of the handle from the one before.
Heartbeat(t) ==
    /\ casts[t.handle] # None
    /\ heartbeats' = (heartbeats \ {t}) \cup Rearmed(t)
    /\ UNCHANGED <<worldVars, changes, starts>>
    /\ Deliver({t.handle}, [h \in {t.handle} |-> t.kind], streams, FALSE)

HeartbeatEnds(t) ==
    /\ casts[t.handle] = None
    /\ heartbeats' = heartbeats \ {t}
    /\ UNCHANGED <<worldVars, casts, streamVars, boundVars, crossed>>

\* The GPU finishes a rendering: its fence becomes readable.
GpuFinishes(f) ==
    /\ ~f.signaled
    /\ fences' = (fences \ {f}) \cup {[f EXCEPT !.signaled = TRUE]}
    /\ LET s == streams[f.handle]
       IN streams' = IF s # None /\ s.life = f.life /\ s.pool = f.pool
                     THEN [streams EXCEPT ![f.handle].content[f.slot].drawn = TRUE]
                     ELSE streams
    /\ UNCHANGED <<worldVars, loopVars, failures, boundVars, crossed>>

\* PipeWire is handed a buffer of a set that is gone: it ignores it, or takes the one
\* that has its place.
Taken(seq, b) == IF b \in ToSet(seq) THEN RemoveAt(seq, CHOOSE i \in DOMAIN seq : seq[i] = b) ELSE seq
QueueGone(s, b) == {s, [s EXCEPT !.queued = Append(@, b), !.idle = Taken(@, b)]}

\* The fence's source on the loop: queue_deferred_frame, by handle and id.
FenceReadable(f) ==
    /\ f.signaled
    /\ fences' = fences \ {f}
    /\ LET s    == streams[f.handle]
           held == IF s = None THEN {} ELSE {p \in s.pending : p.id = f.id}
       IN IF held = {} THEN UNCHANGED <<streams, crossed>>
          ELSE \E p \in held :
                 LET left == [s EXCEPT !.pending = @ \ {p}]
                 IN /\ \E after \in IF p.pool = s.pool /\ s.memory # {} THEN {Queue(left, p.slot)}
                                                     ELSE QueueGone(left, p.slot) :
                          streams' = [streams EXCEPT ![f.handle] = after]
                    /\ crossed' = (crossed \/ f.life # s.life \/ p.pool # s.pool
                                           \/ s.memory = {})
    /\ UNCHANGED <<worldVars, loopVars, failures, boundVars>>

----------------------------------------------------------------------------
(* The source *)

\* Another mode, or another geometry of the window.
Resizes(kind) ==
    /\ Fault
    /\ sizes' = [sizes EXCEPT ![kind] = @ + 1]
    /\ UNCHANGED <<gpuBuffers, plugged, loopVars, streamVars, changes, starts, crossed>>

\* No cast is closed for it.
Unplug ==
    /\ plugged /\ plugged' = FALSE
    /\ Fault
    /\ UNCHANGED <<gpuBuffers, sizes, loopVars, streamVars, changes, starts, crossed>>

----------------------------------------------------------------------------
(* The specification *)

PipeWire(h) ==
    \/ Connects(h) \/ Breaks(h) \/ Unusable(h) \/ Fixate(h) \/ AgreeDmabuf(h) \/ AgreeMemory(h)
    \/ AddBuffers(h) \/ RemoveBuffers(h) \/ Reads(h)

DeliveryNext ==
    \/ \E h \in Handles : \/ \E kind \in Kinds, embedded \in BOOLEAN : StartCast(h, kind, embedded)
                          \/ CloseCast(h) \/ PipeWire(h) \/ Rests(h)
    \/ ReadFatal \/ ViewPresented \/ PointerMoves
    \/ \E t \in heartbeats : Heartbeat(t) \/ HeartbeatEnds(t)
    \/ \E f \in fences : GpuFinishes(f) \/ FenceReadable(f)
    \/ \E kind \in Kinds : Resizes(kind)
    \/ Unplug

\* calloop fires its timers and dispatches what is readable, the GPU finishes what it
\* was given; a consumer that is linked reads.  The bound on faults ends the rest.
DeliveryFairness ==
    /\ WF_deliveryVars(ReadFatal)
    /\ \A h \in Handles :
          /\ WF_deliveryVars(Reads(h))
          /\ WF_deliveryVars(\E t \in heartbeats : t.handle = h /\ Heartbeat(t))
          /\ WF_deliveryVars(\E f \in fences : f.handle = h /\ (GpuFinishes(f) \/ FenceReadable(f)))

DeliverySpec == DeliveryInit /\ [][DeliveryNext]_deliveryVars
FairDeliverySpec == DeliverySpec /\ DeliveryFairness

----------------------------------------------------------------------------
(* Properties *)

\* Where a buffer of the stream is: with us, with the consumer, or held for a fence.
Places(s, b) ==
    Cardinality({i \in DOMAIN s.idle : s.idle[i] = b})
    + Cardinality({i \in DOMAIN s.queued : s.queued[i] = b})
    + Cardinality({p \in s.pending : p.slot = b /\ p.pool = s.pool})

\* The consumer is never handed a buffer the GPU still draws into ("never handed to the
\* consumer half-written", pipewire.rs:1299), and no buffer is lost or handed over twice
\* ("queued back exactly once", :1344), however presents, pointer moves, heartbeats and
\* fences fall; what an earlier stream of the handle left on the loop is the exception.
WholeFrames ==
    ~crossed =>
        \A h \in Handles : Stream(h, {"streaming"}) =>
            LET s == streams[h]
            IN /\ \A i \in DOMAIN s.queued : s.content[s.queued[i]].drawn
               /\ \A b \in s.memory : Places(s, b) = 1

\* What a consumer has seen is what its session was approved for: its own source, with
\* the pointer exactly if it asked for it, whatever else is cast at the same time.
FramesAsApproved ==
    ~crossed =>
        \A h \in Handles : casts[h] # None /\ streams[h] # None /\ streams[h].seen # Corrupted =>
            /\ streams[h].seen.kind = casts[h].kind
            /\ streams[h].seen.pointer = (casts[h].embedded /\ casts[h].kind = "monitor")

\* A cast that can carry no frame, or misses one of its buffers, has a failure on its
\* way to the loop that will close it: none stays "silently frameless" (pipewire.rs:896).
NoSilentCast ==
    \A h \in Handles : casts[h] # None =>
        \/ \E i \in DOMAIN failures : failures[i] = h
        \/ Stream(h, {"connecting", "paused"})
        \/ Stream(h, {"streaming"}) /\ streams[h].memory = Slots

\* A stream that carries frames
Flowing(h) == Stream(h, {"streaming"}) /\ (casts[h].kind = "monitor" => plugged)

\* The last picture reaches the consumer: a present or a pointer move the frame budget
\* has swallowed, or that found no buffer, is made up for ("instead of hanging on the
\* last frame", service.rs:1469), unless the stream or its source ends.
PictureCatchesUp == \A h \in Handles : Flowing(h) ~> (~Flowing(h) \/ streams[h].seen.fresh \/ crossed)

=============================================================================
