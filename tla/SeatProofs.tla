----------------------------- MODULE SeatProofs -----------------------------
(***************************************************************************)
(* Proofs about what a seat is shown and who hears its keys.  Of Frames,   *)
(* for any set of outputs: a frame that waits for a flip has one coming.   *)
(* Of FrameDelivery, for any handles and buffers: a cast's consumer reads  *)
(* whole pictures, of what it was approved for, and no cast is left        *)
(* silent.  Of Keyboard, for any bounds: no key sticks, a chord reaches    *)
(* the client whole, and a locked session tells nothing.                   *)
(***************************************************************************)
EXTENDS Frames, FrameDelivery, Keyboard, FiniteSetTheorems, SequenceTheorems, WellFoundedInduction, TLAPS

----------------------------------------------------------------------------
(* The inductive invariant *)

\* What the flags and counters of the outputs are, as far as the flips need it.
FlipTypes ==
    /\ flips \in [Outputs -> 0 .. 2]
    /\ framePending \in [Outputs -> BOOLEAN]
    /\ connected \subseteq Outputs

FlipsInv == FlipTypes /\ NoFlipAwaitedInVain

\* A function built output by output has its type, and its values.
LEMMA OutputFunctions ==
    ASSUME NEW S PROVE Some(S) \in [Outputs -> BOOLEAN] /\ \A o \in Outputs : Some(S)[o] = (o \in S)
BY DEF Some

\* render, whatever is left to it: a frame that waits has been given its flip.
LEMMA RenderKeeps ==
    ASSUME NEW p \in [Outputs -> BOOLEAN], NEW f \in [Outputs -> 0 .. 2],
           \A o \in Outputs : p[o] => f[o] > 0,
           Render(p, f)
    PROVE  /\ flips' \in [Outputs -> 0 .. 2] /\ framePending' \in [Outputs -> BOOLEAN]
           /\ \A o \in Outputs : framePending'[o] => flips'[o] > 0
<1>1. PICK next, queued :
          /\ queued \subseteq next
          /\ framePending' = [o \in Outputs |-> p[o] \/ o \in queued]
          /\ flips' = [o \in Outputs |-> IF o \in next /\ f[o] < 2 THEN f[o] + 1 ELSE f[o]]
  BY DEF Render
<1>2. flips' \in [Outputs -> 0 .. 2]
  BY <1>1
<1>3. framePending' \in [Outputs -> BOOLEAN]
  <2>1. \A o \in Outputs : (p[o] \/ o \in queued) \in BOOLEAN
    OBVIOUS
  <2>2. QED
    BY <1>1, <2>1, Zenon
<1>4. ASSUME NEW o \in Outputs, framePending'[o] PROVE flips'[o] > 0
  <2>1. CASE o \in queued
    BY <1>1, <2>1
  <2>2. CASE p[o]
    BY <1>1, <2>2
  <2>3. p[o] \/ o \in queued
    BY <1>1, <1>4, Zenon
  <2>4. QED
    BY <2>1, <2>2, <2>3
<1>5. QED
  BY <1>2, <1>3, <1>4

\* Nothing waits.
LEMMA NoneWaits ==
    ASSUME framePending' = Some({}), flips' \in [Outputs -> 0 .. 2], connected' \subseteq Outputs
    PROVE  FlipsInv'
BY OutputFunctions DEF FlipsInv, FlipTypes, NoFlipAwaitedInVain

\* clear: flips and what waits for them go together.
LEMMA ClearedKeeps ==
    ASSUME FlipsInv, Cleared, connected' = connected PROVE FlipsInv'
<1>1. flips' = [o \in Outputs |-> 0] /\ framePending' = Some({})
  BY DEF Cleared
<1>2. flips' \in [Outputs -> 0 .. 2]
  BY <1>1
<1>3. QED
  BY <1>1, <1>2, NoneWaits DEF FlipsInv, FlipTypes

\* A step that touches neither the flips nor the outputs.
LEMMA UnchangedKeeps ==
    ASSUME FlipsInv, UNCHANGED <<connected, flips, framePending>> PROVE FlipsInv'
BY DEF FlipsInv, FlipTypes, NoFlipAwaitedInVain

\* on_vblank: the output whose flip completed waits no longer, unless it is drawn anew.
LEMMA AcknowledgeKeeps ==
    ASSUME FlipsInv, NEW o \in Outputs, Acknowledge(o) PROVE FlipsInv'
<1> DEFINE f == [flips EXCEPT ![o] = IF @ = 0 \/ o \notin connected THEN @ ELSE @ - 1]
           p == [framePending EXCEPT ![o] = @ /\ o \notin connected]
<1>1. f \in [Outputs -> 0 .. 2]
  BY DEF FlipsInv, FlipTypes
<1>2. p \in [Outputs -> BOOLEAN]
  BY DEF FlipsInv, FlipTypes
<1>3. \A u \in Outputs : p[u] => f[u] > 0
  <2>1. ASSUME NEW u \in Outputs, p[u] PROVE f[u] > 0
    <3>1. framePending[u] /\ (u = o => o \notin connected)
      BY <2>1, Zenon DEF FlipsInv, FlipTypes
    <3>2. flips[u] > 0
      BY <3>1 DEF FlipsInv, NoFlipAwaitedInVain
    <3>3. QED
      BY <3>1, <3>2 DEF FlipsInv, FlipTypes
  <2>2. QED
    BY <2>1
<1>4. connected' = connected
  BY DEF Acknowledge, outputs
<1>5. CASE Render(p, f)
  <2>1. /\ flips' \in [Outputs -> 0 .. 2] /\ framePending' \in [Outputs -> BOOLEAN]
        /\ \A u \in Outputs : framePending'[u] => flips'[u] > 0
    <3> HIDE DEF p, f
    <3> QED
      BY <1>1, <1>2, <1>3, <1>5, RenderKeeps
  <2>2. QED
    BY <1>4, <2>1 DEF FlipsInv, FlipTypes, NoFlipAwaitedInVain
<1>6. CASE framePending' = p /\ flips' = f
  <2> HIDE DEF p, f
  <2> QED
    BY <1>1, <1>2, <1>3, <1>4, <1>6 DEF FlipsInv, FlipTypes, NoFlipAwaitedInVain
<1>7. Render(p, f) \/ (framePending' = p /\ flips' = f)
  BY DEF Acknowledge
<1>8. QED
  BY <1>5, <1>6, <1>7

\* The loop's renders, and its timers.
LEMMA LoopKeeps == ASSUME FlipsInv, Loop PROVE FlipsInv'
<1>1. ASSUME Render(framePending, flips), UNCHANGED outputs PROVE FlipsInv'
  <2>1. /\ flips' \in [Outputs -> 0 .. 2] /\ framePending' \in [Outputs -> BOOLEAN]
        /\ \A u \in Outputs : framePending'[u] => flips'[u] > 0
    BY <1>1, RenderKeeps DEF FlipsInv, FlipTypes, NoFlipAwaitedInVain
  <2>2. QED
    BY <1>1, <2>1 DEF outputs, FlipsInv, FlipTypes, NoFlipAwaitedInVain
<1>2. CASE IdleRender
  BY <1>1, <1>2 DEF IdleRender
<1>3. CASE VsyncTimer
  BY <1>3, UnchangedKeeps DEF VsyncTimer, outputs, drawn
<1>4. CASE ThrottleTimer
  BY <1>1, <1>4, UnchangedKeeps DEF ThrottleTimer, outputs
<1>5. ASSUME NEW o \in Outputs, Vblank(o) \/ LateVblank(o) PROVE FlipsInv'
  BY <1>5, AcknowledgeKeeps DEF Vblank, LateVblank
<1>6. QED
  BY <1>2, <1>3, <1>4, <1>5 DEF Loop

\* Whoever asks for frames, and time, leave the flips alone.
LEMMA AskingKeeps == ASSUME FlipsInv, Asking \/ Time PROVE FlipsInv'
BY UnchangedKeeps
   DEF Asking, Time, Damage, Present, AwaitVsync, IntervalPasses, outputs, drawn

\* The screensaver and the seat drop every flip together with what waits for it.
LEMMA SeatKeeps == ASSUME FlipsInv, Seat PROVE FlipsInv'
<1>1. CASE Blank
  BY <1>1, ClearedKeeps DEF Blank, outputs
<1>2. CASE Wake
  BY <1>2, UnchangedKeeps DEF Wake, outputs, drawn
<1>3. CASE PauseSession
  BY <1>3, ClearedKeeps DEF PauseSession, outputs
<1>4. ASSUME NEW granted \in BOOLEAN, ActivateSession(granted) PROVE FlipsInv'
  <2>1. UNCHANGED <<connected, flips>> /\ framePending' \in {Some({}), framePending}
    BY <1>4 DEF ActivateSession, outputs
  <2>2. QED
    BY <2>1, NoneWaits, UnchangedKeeps DEF FlipsInv, FlipTypes
<1>5. QED
  BY <1>1, <1>2, <1>3, <1>4 DEF Seat

\* A connector that comes or goes waits for nothing; the others are left alone.
LEMMA HotplugKeeps == ASSUME FlipsInv, Hotplug PROVE FlipsInv'
<1>1. ASSUME NEW o \in Outputs, NEW n \in 0 .. 2,
             framePending' = [framePending EXCEPT ![o] = FALSE],
             flips' = [flips EXCEPT ![o] = n], connected' \subseteq Outputs
      PROVE  FlipsInv'
  <2>1. flips' \in [Outputs -> 0 .. 2] /\ framePending' \in [Outputs -> BOOLEAN]
    BY <1>1 DEF FlipsInv, FlipTypes
  <2>2. ASSUME NEW u \in Outputs, framePending'[u] PROVE flips'[u] > 0
    BY <1>1, <2>2 DEF FlipsInv, FlipTypes, NoFlipAwaitedInVain
  <2>3. QED
    BY <1>1, <2>1, <2>2 DEF FlipsInv, FlipTypes, NoFlipAwaitedInVain
<1>2. ASSUME NEW o \in Outputs, Connect(o) PROVE FlipsInv'
  <2>1. (IF active THEN 1 ELSE 0) \in 0 .. 2
    OBVIOUS
  <2>2. connected' \subseteq Outputs
    BY <1>2 DEF Connect, FlipsInv, FlipTypes
  <2>3. QED
    BY <1>1, <1>2, <2>1, <2>2 DEF Connect
<1>3. ASSUME NEW o \in Outputs, Disconnect(o) PROVE FlipsInv'
  <2>1. connected' \subseteq Outputs
    BY <1>3 DEF Disconnect, FlipsInv, FlipTypes
  <2>2. 0 \in 0 .. 2
    OBVIOUS
  <2>3. QED
    BY <1>1, <1>3, <2>1, <2>2 DEF Disconnect
<1>4. ASSUME NEW o \in Outputs, SetMode(o) PROVE FlipsInv'
  BY <1>4, UnchangedKeeps DEF SetMode, drawn
<1>5. QED
  BY <1>2, <1>3, <1>4 DEF Hotplug

\* No output waits in vain for a vblank, for any number of outputs: whatever a blank, a
\* VT switch, a hotplug or a late vblank drops, it drops the flip and the wait together.
THEOREM FlipsAwaited == Spec => []NoFlipAwaitedInVain
<1>1. Init => FlipsInv
  <2> SUFFICES ASSUME Init PROVE FlipsInv
    OBVIOUS
  <2>1. framePending = Some({}) /\ flips = [o \in Outputs |-> 0] /\ connected = {}
    BY DEF Init
  <2>2. QED
    BY <2>1, OutputFunctions DEF FlipsInv, FlipTypes, NoFlipAwaitedInVain
<1>2. FlipsInv /\ [Next]_vars => FlipsInv'
  <2> SUFFICES ASSUME FlipsInv, [Next]_vars PROVE FlipsInv'
    OBVIOUS
  <2>1. CASE UNCHANGED vars
    BY <2>1, UnchangedKeeps DEF vars, outputs, drawn
  <2>2. QED
    BY <2>1, LoopKeeps, AskingKeeps, SeatKeeps, HotplugKeeps DEF Next
<1>3. FlipsInv => NoFlipAwaitedInVain
  BY DEF FlipsInv
<1>4. QED
  BY <1>1, <1>2, <1>3, PTL DEF Spec

----------------------------------------------------------------------------
(* Buffers in sequences *)

Has(q, b) == \E i \in DOMAIN q : q[i] = b
Distinct(q) == \A i, j \in DOMAIN q : q[i] = q[j] => i = j

LEMMA EmptyQueue == ASSUME NEW S PROVE <<>> \in Seq(S) /\ Distinct(<<>>) /\ \A b : ~ Has(<<>>, b)
BY DEF Distinct, Has

\* The first of a queue is taken.
LEMMA TakeHead ==
    ASSUME NEW S, NEW q \in Seq(S), q # <<>>, Distinct(q)
    PROVE  /\ Head(q) \in S /\ Tail(q) \in Seq(S) /\ Distinct(Tail(q))
           /\ Has(q, Head(q)) /\ ~ Has(Tail(q), Head(q))
           /\ \A b : b # Head(q) => (Has(Tail(q), b) <=> Has(q, b))
<1>1. /\ Head(q) \in S /\ Tail(q) \in Seq(S) /\ Head(q) = q[1]
      /\ Len(q) \in Nat /\ Len(q) > 0 /\ DOMAIN q = 1 .. Len(q)
      /\ DOMAIN Tail(q) = 1 .. Len(q) - 1
      /\ \A i \in 1 .. Len(q) - 1 : Tail(q)[i] = q[i + 1]
  BY HeadTailProperties, EmptySeq, LenProperties
<1>2. Distinct(Tail(q))
  BY <1>1 DEF Distinct
<1>3. Has(q, Head(q))
  BY <1>1 DEF Has
<1>4. ~ Has(Tail(q), Head(q))
  <2>1. SUFFICES ASSUME NEW i \in 1 .. Len(q) - 1, Tail(q)[i] = Head(q) PROVE FALSE
    BY <1>1 DEF Has
  <2>2. q[i + 1] = q[1] /\ i + 1 \in DOMAIN q /\ 1 \in DOMAIN q /\ i + 1 # 1
    BY <1>1, <2>1
  <2>3. QED
    BY <2>2 DEF Distinct
<1>5. ASSUME NEW b, b # Head(q) PROVE Has(Tail(q), b) <=> Has(q, b)
  <2>1. ASSUME Has(Tail(q), b) PROVE Has(q, b)
    <3>1. PICK i \in 1 .. Len(q) - 1 : Tail(q)[i] = b
      BY <1>1, <2>1 DEF Has
    <3>2. q[i + 1] = b /\ i + 1 \in DOMAIN q
      BY <1>1, <3>1
    <3>3. QED
      BY <3>2 DEF Has
  <2>2. ASSUME Has(q, b) PROVE Has(Tail(q), b)
    <3>1. PICK i \in DOMAIN q : q[i] = b
      BY <2>2 DEF Has
    <3>2. i # 1 /\ i \in 1 .. Len(q)
      BY <1>1, <1>5, <3>1
    <3>3. i - 1 \in 1 .. Len(q) - 1 /\ Tail(q)[i - 1] = q[(i - 1) + 1] /\ (i - 1) + 1 = i
      BY <1>1, <3>2
    <3>4. QED
      BY <1>1, <3>1, <3>3 DEF Has
  <2>3. QED
    BY <2>1, <2>2
<1>6. QED
  BY <1>1, <1>2, <1>3, <1>4, <1>5

\* A buffer is put at the end of a queue.
LEMMA PutLast ==
    ASSUME NEW S, NEW q \in Seq(S), NEW x \in S
    PROVE  /\ Append(q, x) \in Seq(S)
           /\ \A b : Has(Append(q, x), b) <=> Has(q, b) \/ b = x
           /\ Distinct(q) /\ ~ Has(q, x) => Distinct(Append(q, x))
<1>1. /\ Append(q, x) \in Seq(S) /\ Len(q) \in Nat
      /\ DOMAIN Append(q, x) = 1 .. Len(q) + 1 /\ DOMAIN q = 1 .. Len(q)
      /\ \A i \in 1 .. Len(q) : Append(q, x)[i] = q[i]
      /\ Append(q, x)[Len(q) + 1] = x
  BY AppendProperties, LenProperties
<1>2. ASSUME NEW b PROVE Has(Append(q, x), b) <=> Has(q, b) \/ b = x
  BY <1>1 DEF Has
<1>3. ASSUME Distinct(q), ~ Has(q, x) PROVE Distinct(Append(q, x))
  BY <1>1, <1>3 DEF Distinct, Has
<1>4. QED
  BY <1>1, <1>2, <1>3

\* A queue without one of its places is a queue.
LEMMA TakenIs ==
    ASSUME NEW S, NEW q \in Seq(S), NEW b
    PROVE  Taken(q, b) \in Seq(S)
<1> DEFINE k == CHOOSE i \in DOMAIN q : q[i] = b
<1>1. CASE b \in ToSet(q)
  <2>1. Len(q) \in Nat /\ DOMAIN q = 1 .. Len(q)
    BY LenProperties
  <2>2. k \in 1 .. Len(q)
    BY <1>1, <2>1 DEF ToSet
  <2>3. \A i \in 1 .. Len(q) : q[i] \in S
    BY <2>1, ElementOfSeq
  <2> HIDE DEF k
  <2>4. SubSeq(q, 1, k - 1) \in Seq(S) /\ SubSeq(q, k + 1, Len(q)) \in Seq(S)
    <3>1. 1 \in Int /\ k - 1 \in Int /\ \A i \in 1 .. k - 1 : q[i] \in S
      BY <2>1, <2>2, <2>3
    <3>2. k + 1 \in Int /\ Len(q) \in Int /\ \A i \in k + 1 .. Len(q) : q[i] \in S
      BY <2>1, <2>2, <2>3
    <3>3. QED
      BY <3>1, <3>2, SubSeqProperties
  <2>5. QED
    BY <1>1, <2>4, ConcatProperties DEF Taken, RemoveAt, k
<1>2. CASE b \notin ToSet(q)
  BY <1>2 DEF Taken
<1>3. QED
  BY <1>1, <1>2

\* A set told one by one.
LEMMA SetAsSeq ==
    ASSUME NEW S, IsFiniteSet(S)
    PROVE  /\ SetToSeq(S) \in Seq(S) /\ Distinct(SetToSeq(S))
           /\ \A x : Has(SetToSeq(S), x) <=> x \in S
<1> DEFINE N == Cardinality(S)
<1>1. PICK n \in Nat : ExistsBijection(1 .. n, S)
  BY FS_NatBijection
<1>2. N = n /\ N \in Nat
  BY <1>1, FS_CountingElements
<1>3. \E f \in [1 .. N -> S] : IsInjective(f)
  BY <1>1, <1>2 DEF ExistsBijection, Bijection, Injection
<1>4. SetToSeq(S) \in [1 .. N -> S] /\ IsInjective(SetToSeq(S))
  BY <1>3 DEF SetToSeq
<1>5. SetToSeq(S) \in Injection(1 .. N, S)
  BY <1>4 DEF Injection
<1>6. Cardinality(1 .. N) = N
  <2>1. N \in Int /\ 1 \in Int
    BY <1>2
  <2>2. Cardinality(1 .. N) = IF 1 > N THEN 0 ELSE N - 1 + 1
    BY <2>1, FS_Interval
  <2>3. QED
    BY <1>2, <2>2
<1>7. SetToSeq(S) \in Surjection(1 .. N, S)
  BY <1>5, <1>6, FS_Injection
<1>8. SetToSeq(S) \in Seq(S)
  BY <1>2, <1>4
<1>9. Distinct(SetToSeq(S))
  BY <1>4 DEF IsInjective, Distinct
<1>10. ASSUME NEW x PROVE Has(SetToSeq(S), x) <=> x \in S
  BY <1>4, <1>7 DEF Has, Surjection
<1>11. QED
  BY <1>8, <1>9, <1>10

\* A set of naturals has a least member, read off the sets below its members.
LEMMA LeastNat ==
    ASSUME NEW T, T \subseteq Nat, T # {}
    PROVE  \E n \in T : \A m \in T : n <= m
<1> DEFINE Below == {0 .. n : n \in T}
<1>1. IsWellFoundedOn(StrictSubsetOrdering(Nat), FiniteSubsetsOf(Nat))
  BY FS_StrictSubsetOrderingWellFounded
<1>2. Below \subseteq FiniteSubsetsOf(Nat) /\ Below # {}
  <2>1. ASSUME NEW n \in T PROVE IsFiniteSet(0 .. n) /\ 0 .. n \subseteq Nat
    <3>1. n \in Int /\ 0 \in Int
      OBVIOUS
    <3>2. QED
      BY <3>1, FS_Interval
  <2>2. QED
    BY <2>1 DEF FiniteSubsetsOf
<1>3. PICK B \in Below : \A C \in Below : ~ (<<C, B>> \in StrictSubsetOrdering(Nat))
  BY <1>1, <1>2, WFMin
<1>4. PICK n \in T : B = 0 .. n
  OBVIOUS
<1>5. ASSUME NEW m \in T PROVE n <= m
  <2>1. m \in Nat /\ n \in Nat /\ 0 .. m \in Below
    OBVIOUS
  <2>2. SUFFICES ASSUME m < n PROVE FALSE
    BY <2>1
  <2>3. 0 .. m \subseteq 0 .. n /\ 0 .. m # 0 .. n
    BY <2>1, <2>2
  <2>4. 0 .. m \in SUBSET Nat /\ B \in SUBSET Nat
    BY <2>1, <1>4
  <2>5. <<0 .. m, B>> \in StrictSubsetOrdering(Nat)
    BY <2>3, <2>4, <1>4 DEF StrictSubsetOrdering
  <2>6. QED
    BY <1>3, <2>1, <2>5
<1>6. QED
  BY <1>5

\* The set of what a function gives to a finite set is finite.
LEMMA FiniteValues ==
    ASSUME NEW S, IsFiniteSet(S), NEW f, DOMAIN f = S
    PROVE  IsFiniteSet({f[x] : x \in S}) /\ Cardinality({f[x] : x \in S}) <= Cardinality(S)
<1> DEFINE T == {f[x] : x \in S}
<1>1. [x \in S |-> f[x]] \in Surjection(S, T)
  BY DEF Surjection
<1>2. QED
  BY <1>1, FS_Surjection

----------------------------------------------------------------------------
(* The inductive invariant of deliveries *)

Fences == [handle : Handles, life : Nat, pool : Nat, id : Nat, slot : Slots, signaled : BOOLEAN]

\* What the state is made of.  A stream never outlives its cast, and is told by its life
\* from the next one of its handle.
DeliveryTypes ==
    /\ sizes \in [Kinds -> Nat]
    /\ casts \in [Handles -> Casts \cup {None}]
    /\ heartbeats \subseteq [handle : Handles, kind : Kinds]
    /\ streams \in [Handles -> Streams \cup {None}]
    /\ fences \subseteq Fences /\ IsFiniteSet(fences)
    /\ failures \in Seq(Handles)
    /\ starts \in Nat
    /\ crossed \in BOOLEAN
    /\ \A h \in Handles : streams[h] # None => casts[h] # None /\ streams[h].life < starts

\* No two fences of a stream share an id: the loop gives a buffer back by its handle and id.
FencesApart(F) ==
    \A f, g \in F : f.handle = g.handle /\ f.life = g.life /\ f.id = g.id => f = g

FencesInv == FencesApart(fences) /\ \A f \in fences : f.life < starts

\* The fence that the buffer p of the stream s waits for
Awaits(h, s, p, f) == f.handle = h /\ f.life = s.life /\ f.id = p.id

\* Every buffer of a stream is in one place only, and none it has memory for is nowhere.
BuffersPlaced(s) ==
    /\ s.state # "streaming" => s.memory = {} /\ s.idle = <<>> /\ s.queued = <<>>
    /\ Distinct(s.idle) /\ Distinct(s.queued)
    /\ \A b \in Slots : ~ (Has(s.idle, b) /\ Has(s.queued, b))
    /\ \A p \in s.pending : p.pool <= s.pool
    /\ \A p \in s.pending :
          p.pool = s.pool => ~ Has(s.idle, p.slot) /\ ~ Has(s.queued, p.slot)
    /\ \A p, q \in s.pending : p.pool = s.pool /\ q.pool = s.pool /\ p.slot = q.slot => p = q
    /\ \A b \in s.memory :
          Has(s.idle, b) \/ Has(s.queued, b) \/ \E p \in s.pending : p.pool = s.pool /\ p.slot = b

\* What is held back has its fence on the loop.
HoldsFenced(h, s, F) ==
    \A p \in s.pending : \E f \in F : Awaits(h, s, p, f) /\ f.pool = p.pool /\ f.slot = p.slot

\* What the consumer can read is drawn, and what is held back will be once its fence is
\* signaled.
QueuedDrawn(h, s, F) ==
    /\ \A b \in Slots : Has(s.queued, b) => s.content[b].drawn
    /\ \A p \in s.pending, f \in F :
          Awaits(h, s, p, f) /\ f.signaled /\ p.pool = s.pool => s.content[p.slot].drawn

Whole(h, s, F) == BuffersPlaced(s) /\ HoldsFenced(h, s, F) /\ QueuedDrawn(h, s, F)

\* A frame of a cast: what it shows, if it shows anything.
FrameOf(cast, frame) ==
    \/ frame = Corrupted
    \/ frame.kind = cast.kind /\ frame.pointer = (cast.embedded /\ cast.kind = "monitor")

\* Everything a consumer has seen or may come to see is of its own cast.
ShowsOwn(cast, s) == FrameOf(cast, s.seen) /\ \A b \in Slots : FrameOf(cast, s.content[b])

StreamsInv ==
    ~ crossed => \A h \in Handles : streams[h] # None =>
        Whole(h, streams[h], fences) /\ ShowsOwn(casts[h], streams[h])

DeliveryInv == DeliveryTypes /\ FencesInv /\ StreamsInv /\ NoSilentCast

----------------------------------------------------------------------------
(* Ids *)

\* next_pending: no fence of the stream has the id a buffer is held back under.
LEMMA FreshId ==
    ASSUME DeliveryTypes, NEW h \in Handles
    PROVE  /\ NextPending(h) \in Nat
           /\ \A f \in fences : f.handle = h /\ f.life = streams[h].life => f.id # NextPending(h)
<1> DEFINE G == {g \in fences : g.handle = h /\ g.life = streams[h].life}
           ids == {f.id : f \in G}
           c == Cardinality(fences)
           free == (0 .. c) \ ids
<1>1. IsFiniteSet(fences) /\ c \in Nat
  BY FS_CardinalityType DEF DeliveryTypes
<1>2. IsFiniteSet(G) /\ Cardinality(G) <= c /\ Cardinality(G) \in Nat
  <2>1. G \in SUBSET fences
    OBVIOUS
  <2>2. QED
    BY <1>1, <2>1, FS_Subset, FS_CardinalityType
<1>3. IsFiniteSet(ids) /\ Cardinality(ids) <= Cardinality(G) /\ Cardinality(ids) \in Nat
  <2> DEFINE F == [g \in G |-> g.id]
  <2>1. DOMAIN F = G /\ ids = {F[x] : x \in G}
    OBVIOUS
  <2> HIDE DEF F, G
  <2>2. QED
    BY <1>2, <2>1, FiniteValues, FS_CardinalityType
<1>4. IsFiniteSet(0 .. c) /\ Cardinality(0 .. c) = c + 1
  <2>1. 0 \in Int /\ c \in Int /\ ~ (0 > c)
    BY <1>1
  <2>2. IsFiniteSet(0 .. c) /\ Cardinality(0 .. c) = IF 0 > c THEN 0 ELSE c - 0 + 1
    BY <2>1, FS_Interval
  <2>3. QED
    BY <1>1, <2>1, <2>2
<1>5. free # {}
  <2>1. SUFFICES ASSUME 0 .. c \in SUBSET ids PROVE FALSE
    BY Zenon
  <2>2. Cardinality(0 .. c) <= Cardinality(ids)
    BY <1>3, <2>1, FS_Subset
  <2>3. QED
    BY <1>1, <1>2, <1>3, <1>4, <2>2
<1>6. free \subseteq Nat
  BY <1>1
<1>7. PICK n \in free : \A m \in free : n <= m
  BY <1>5, <1>6, LeastNat
<1>8. NextPending(h) \in free
  <2>1. NextPending(h) = Min(free)
    BY DEF NextPending
  <2> HIDE DEF free
  <2>2. Min(free) \in free
    BY <1>7 DEF Min
  <2>3. QED
    BY <2>1, <2>2
<1>9. QED
  BY <1>6, <1>8

----------------------------------------------------------------------------
(* What is done to one stream *)

\* The fences of one handle are the same.
SameFences(h, F, G) == \A f : f.handle = h => (f \in F <=> f \in G)

LEMMA WholeFramed ==
    ASSUME NEW h, NEW s, NEW F, NEW G, SameFences(h, F, G), Whole(h, s, F)
    PROVE  Whole(h, s, G)
BY DEF SameFences, Whole, HoldsFenced, QueuedDrawn, Awaits

\* Only what the frames look like has changed, or more of them are drawn, as fences tell.
LEMMA WholeRedrawn ==
    ASSUME NEW h, NEW s, NEW r, NEW F, NEW G, Whole(h, s, F),
           r.state = s.state, r.memory = s.memory, r.idle = s.idle, r.queued = s.queued,
           r.pending = s.pending, r.pool = s.pool, r.life = s.life,
           \A b \in Slots : s.content[b].drawn => r.content[b].drawn,
           \A p \in s.pending : p.slot \in Slots,
           HoldsFenced(h, r, G),
           \A p \in s.pending, f \in G :
              Awaits(h, s, p, f) /\ f.signaled /\ p.pool = s.pool =>
                 r.content[p.slot].drawn \/ f \in F
    PROVE  Whole(h, r, G)
<1>1. BuffersPlaced(r)
  BY DEF Whole, BuffersPlaced
<1>2. QueuedDrawn(h, r, G)
  BY DEF Whole, QueuedDrawn, Awaits
<1>3. QED
  BY <1>1, <1>2 DEF Whole

\* A buffer leaves the head of the idle ones, as it has no memory.
LEMMA WholeWithout ==
    ASSUME NEW h, NEW s, NEW r, NEW F, Whole(h, s, F), s.idle \in Seq(Slots), s.idle # <<>>,
           Head(s.idle) \notin s.memory,
           r.state = s.state, r.memory = s.memory, r.idle = Tail(s.idle), r.queued = s.queued,
           r.pending = s.pending, r.pool = s.pool, r.life = s.life, r.content = s.content
    PROVE  Whole(h, r, F)
<1>1. Distinct(s.idle)
  BY DEF Whole, BuffersPlaced
<1>2. /\ Distinct(r.idle) /\ ~ Has(r.idle, Head(s.idle))
      /\ \A b : b # Head(s.idle) => (Has(r.idle, b) <=> Has(s.idle, b))
  BY <1>1, TakeHead
<1>3. \A b : Has(r.idle, b) => Has(s.idle, b)
  BY <1>2, Zenon
<1>4. BuffersPlaced(r)
  BY <1>2, <1>3 DEF Whole, BuffersPlaced
<1>5. QED
  BY <1>4 DEF Whole, HoldsFenced, QueuedDrawn, Awaits

\* A buffer is filled, with a frame that is drawn, and handed over.
LEMMA WholeQueued ==
    ASSUME NEW h, NEW s, NEW r, NEW F, Whole(h, s, F),
           s.idle \in Seq(Slots), s.queued \in Seq(Slots), s.content \in [Slots -> Frames],
           s.idle # <<>>, s.state = "streaming",
           \A p \in s.pending : p.slot \in Slots,
           NEW frame \in Frames, frame.drawn,
           r.state = s.state, r.memory = s.memory, r.idle = Tail(s.idle),
           r.queued = Append(s.queued, Head(s.idle)),
           r.pending = s.pending, r.pool = s.pool, r.life = s.life,
           r.content = [s.content EXCEPT ![Head(s.idle)] = frame]
    PROVE  Whole(h, r, F)
<1> DEFINE x == Head(s.idle)
<1>1. Distinct(s.idle) /\ Distinct(s.queued)
  BY DEF Whole, BuffersPlaced
<1>2. /\ x \in Slots /\ Distinct(r.idle) /\ Has(s.idle, x) /\ ~ Has(r.idle, x)
      /\ \A b : b # x => (Has(r.idle, b) <=> Has(s.idle, b))
  BY <1>1, TakeHead
<1>3. ~ Has(s.queued, x)
  BY <1>2 DEF Whole, BuffersPlaced
<1>4. Distinct(r.queued) /\ \A b : Has(r.queued, b) <=> Has(s.queued, b) \/ b = x
  BY <1>1, <1>2, <1>3, PutLast
<1>5. \A b \in Slots : r.content[b] = IF b = x THEN frame ELSE s.content[b]
  OBVIOUS
<1> HIDE DEF x
<1>6. BuffersPlaced(r)
  BY <1>2, <1>3, <1>4 DEF Whole, BuffersPlaced
<1>7. HoldsFenced(h, r, F)
  BY DEF Whole, HoldsFenced, Awaits
<1>8. QueuedDrawn(h, r, F)
  <2>1. \A b \in Slots : Has(r.queued, b) => r.content[b].drawn
    BY <1>4, <1>5 DEF Whole, QueuedDrawn
  <2>2. ASSUME NEW p \in r.pending, NEW f \in F, Awaits(h, r, p, f), f.signaled, p.pool = r.pool
        PROVE  r.content[p.slot].drawn
    <3>1. Awaits(h, s, p, f) /\ p \in s.pending /\ p.pool = s.pool
      BY <2>2 DEF Awaits
    <3>2. s.content[p.slot].drawn
      BY <2>2, <3>1 DEF Whole, QueuedDrawn
    <3>3. QED
      BY <1>5, <3>1, <3>2
  <2>3. QED
    BY <2>1, <2>2 DEF QueuedDrawn
<1>9. QED
  BY <1>6, <1>7, <1>8 DEF Whole

\* A buffer is filled, and held back for a fence of its own.
LEMMA WholeHeld ==
    ASSUME NEW h, NEW s, NEW r, NEW F, Whole(h, s, F),
           s.idle \in Seq(Slots), s.content \in [Slots -> Frames],
           s.idle # <<>>, s.state = "streaming", s.pool \in Nat,
           \A p \in s.pending : p.slot \in Slots,
           NEW frame \in Frames, NEW f,
           f.handle = h, f.life = s.life, f.pool = s.pool, f.slot = Head(s.idle), ~ f.signaled,
           \A g \in F : g.handle = h /\ g.life = s.life => g.id # f.id,
           r.state = s.state, r.memory = s.memory, r.idle = Tail(s.idle), r.queued = s.queued,
           r.pending = s.pending \cup {[id |-> f.id, slot |-> Head(s.idle), pool |-> s.pool]},
           r.pool = s.pool, r.life = s.life,
           r.content = [s.content EXCEPT ![Head(s.idle)] = frame]
    PROVE  Whole(h, r, F \cup {f})
<1> DEFINE x == Head(s.idle)
           n == [id |-> f.id, slot |-> x, pool |-> s.pool]
<1>1. Distinct(s.idle)
  BY DEF Whole, BuffersPlaced
<1>2. /\ x \in Slots /\ Distinct(r.idle) /\ Has(s.idle, x) /\ ~ Has(r.idle, x)
      /\ \A b : b # x => (Has(r.idle, b) <=> Has(s.idle, b))
  BY <1>1, TakeHead
<1>3. ~ Has(s.queued, x)
  BY <1>2 DEF Whole, BuffersPlaced
<1>4. \A b \in Slots : r.content[b] = IF b = x THEN frame ELSE s.content[b]
  OBVIOUS
<1>5. n.id = f.id /\ n.slot = x /\ n.pool = s.pool /\ r.pending = s.pending \cup {n}
  OBVIOUS
<1>6. f.slot = x
  OBVIOUS
<1> HIDE DEF x, n
<1>7. \A p \in s.pending : p.pool = s.pool => p.slot # x
  BY <1>2 DEF Whole, BuffersPlaced
<1>8. BuffersPlaced(r)
  <2>1. /\ r.state # "streaming" => r.memory = {} /\ r.idle = <<>> /\ r.queued = <<>>
        /\ Distinct(r.idle) /\ Distinct(r.queued)
        /\ \A b \in Slots : ~ (Has(r.idle, b) /\ Has(r.queued, b))
    BY <1>2, <1>3 DEF Whole, BuffersPlaced
  <2>2. /\ \A p \in r.pending : p.pool <= r.pool
        /\ \A p \in r.pending : p.pool = r.pool => ~ Has(r.idle, p.slot) /\ ~ Has(r.queued, p.slot)
    BY <1>2, <1>3, <1>5 DEF Whole, BuffersPlaced
  <2>3. \A p, q \in r.pending : p.pool = r.pool /\ q.pool = r.pool /\ p.slot = q.slot => p = q
    BY <1>5, <1>7 DEF Whole, BuffersPlaced
  <2>4. \A b \in r.memory :
           Has(r.idle, b) \/ Has(r.queued, b) \/ \E p \in r.pending : p.pool = r.pool /\ p.slot = b
    BY <1>2, <1>5 DEF Whole, BuffersPlaced
  <2>5. QED
    BY <2>1, <2>2, <2>3, <2>4 DEF BuffersPlaced
<1>9. HoldsFenced(h, r, F \cup {f})
  <2>1. Awaits(h, r, n, f) /\ f.pool = n.pool /\ f.slot = n.slot
    BY <1>5, <1>6 DEF Awaits
  <2>2. ASSUME NEW p \in s.pending
        PROVE  \E g \in F \cup {f} : Awaits(h, r, p, g) /\ g.pool = p.pool /\ g.slot = p.slot
    BY DEF Whole, HoldsFenced, Awaits
  <2>3. QED
    BY <1>5, <2>1, <2>2 DEF HoldsFenced
<1>10. QueuedDrawn(h, r, F \cup {f})
  <2>1. \A b \in Slots : Has(r.queued, b) => r.content[b].drawn
    BY <1>3, <1>4 DEF Whole, QueuedDrawn
  <2>2. ASSUME NEW p \in r.pending, NEW g \in F \cup {f}, Awaits(h, r, p, g), g.signaled,
               p.pool = r.pool
        PROVE  r.content[p.slot].drawn
    <3>1. g \in F /\ g.handle = h /\ g.life = s.life /\ g.id = p.id
      BY <2>2 DEF Awaits
    <3>2. p \in s.pending
      BY <1>5, <2>2, <3>1
    <3>3. Awaits(h, s, p, g) /\ p.pool = s.pool
      BY <2>2, <3>1 DEF Awaits
    <3>4. s.content[p.slot].drawn
      BY <2>2, <3>1, <3>2, <3>3 DEF Whole, QueuedDrawn
    <3>5. QED
      BY <1>4, <1>7, <3>2, <3>3, <3>4
  <2>3. QED
    BY <2>1, <2>2 DEF QueuedDrawn
<1>11. QED
  BY <1>8, <1>9, <1>10 DEF Whole

\* The fence is signaled: what was held back for it is handed over.
LEMMA WholeReleased ==
    ASSUME NEW h, NEW s, NEW r, NEW F, Whole(h, s, F), FencesApart(F),
           s.queued \in Seq(Slots), s.content \in [Slots -> Frames], s.memory # {},
           \A p \in s.pending : p \in Holds,
           NEW f \in F, f.signaled, f.handle = h, f.life = s.life,
           NEW p \in s.pending, p.id = f.id, p.pool = s.pool,
           r.state = s.state, r.memory = s.memory, r.idle = s.idle,
           r.queued = Append(s.queued, p.slot), r.pending = s.pending \ {p},
           r.pool = s.pool, r.life = s.life, r.content = s.content
    PROVE  Whole(h, r, F \ {f})
<1>1. s.state = "streaming" /\ Distinct(s.queued)
  BY DEF Whole, BuffersPlaced
<1>2. p.slot \in Slots /\ ~ Has(s.idle, p.slot) /\ ~ Has(s.queued, p.slot)
  BY DEF Whole, BuffersPlaced, Holds
<1>3. Distinct(r.queued) /\ \A b : Has(r.queued, b) <=> Has(s.queued, b) \/ b = p.slot
  BY <1>1, <1>2, PutLast
<1>4. \A q \in s.pending : q.id = p.id => q = p
  <2>1. TAKE q \in s.pending
  <2>2. HAVE q.id = p.id
  <2>3. PICK g \in F : Awaits(h, s, q, g) /\ g.pool = q.pool /\ g.slot = q.slot
    BY DEF Whole, HoldsFenced
  <2>4. PICK e \in F : Awaits(h, s, p, e) /\ e.pool = p.pool /\ e.slot = p.slot
    BY DEF Whole, HoldsFenced
  <2>5. e = g
    BY <2>2, <2>3, <2>4 DEF FencesApart, Awaits
  <2>6. q \in Holds /\ p \in Holds /\ q.slot = p.slot /\ q.pool = p.pool
    BY <2>3, <2>4, <2>5
  <2>7. QED
    BY <2>2, <2>6 DEF Holds
<1>5. BuffersPlaced(r)
  <2>1. /\ r.state # "streaming" => r.memory = {} /\ r.idle = <<>> /\ r.queued = <<>>
        /\ Distinct(r.idle) /\ Distinct(r.queued)
        /\ \A b \in Slots : ~ (Has(r.idle, b) /\ Has(r.queued, b))
    BY <1>1, <1>2, <1>3 DEF Whole, BuffersPlaced
  <2>2. /\ \A q \in r.pending : q.pool <= r.pool
        /\ \A q \in r.pending : q.pool = r.pool => ~ Has(r.idle, q.slot) /\ ~ Has(r.queued, q.slot)
        /\ \A q, u \in r.pending : q.pool = r.pool /\ u.pool = r.pool /\ q.slot = u.slot => q = u
    BY <1>3 DEF Whole, BuffersPlaced
  <2>3. \A b \in r.memory :
           Has(r.idle, b) \/ Has(r.queued, b) \/ \E q \in r.pending : q.pool = r.pool /\ q.slot = b
    BY <1>3 DEF Whole, BuffersPlaced
  <2>4. QED
    BY <2>1, <2>2, <2>3 DEF BuffersPlaced
<1>6. HoldsFenced(h, r, F \ {f})
  <2>1. SUFFICES ASSUME NEW q \in r.pending
                 PROVE  \E g \in F \ {f} : Awaits(h, r, q, g) /\ g.pool = q.pool /\ g.slot = q.slot
    BY DEF HoldsFenced
  <2>2. PICK g \in F : Awaits(h, s, q, g) /\ g.pool = q.pool /\ g.slot = q.slot
    BY DEF Whole, HoldsFenced
  <2>3. g # f
    BY <1>4, <2>2 DEF Awaits
  <2>4. QED
    BY <2>2, <2>3 DEF Awaits
<1>7. QueuedDrawn(h, r, F \ {f})
  <2>1. s.content[p.slot].drawn
    <3>1. Awaits(h, s, p, f)
      BY DEF Awaits
    <3>2. QED
      BY <3>1 DEF Whole, QueuedDrawn
  <2>2. QED
    BY <1>3, <2>1 DEF Whole, QueuedDrawn, Awaits
<1>8. QED
  BY <1>5, <1>6, <1>7 DEF Whole

\* The consumer has read a frame: its buffer is given back.
LEMMA WholeRead ==
    ASSUME NEW h, NEW s, NEW r, NEW F, Whole(h, s, F), s.state = "streaming",
           s.idle \in Seq(Slots), s.queued \in Seq(Slots), s.content \in [Slots -> Frames],
           \A p \in s.pending : p.slot \in Slots,
           s.queued # <<>>, NEW frame \in Frames,
           r.state = s.state, r.memory = s.memory, r.queued = Tail(s.queued),
           r.idle = Append(s.idle, Head(s.queued)),
           r.pending = s.pending, r.pool = s.pool, r.life = s.life,
           r.content = [s.content EXCEPT ![Head(s.queued)] = frame]
    PROVE  Whole(h, r, F)
<1> DEFINE x == Head(s.queued)
<1>1. Distinct(s.idle) /\ Distinct(s.queued)
  BY DEF Whole, BuffersPlaced
<1>2. /\ x \in Slots /\ Distinct(r.queued) /\ Has(s.queued, x) /\ ~ Has(r.queued, x)
      /\ \A b : b # x => (Has(r.queued, b) <=> Has(s.queued, b))
  BY <1>1, TakeHead
<1>3. ~ Has(s.idle, x)
  BY <1>2 DEF Whole, BuffersPlaced
<1>4. Distinct(r.idle) /\ \A b : Has(r.idle, b) <=> Has(s.idle, b) \/ b = x
  BY <1>1, <1>2, <1>3, PutLast
<1>5. \A b \in Slots : b # x => r.content[b] = s.content[b]
  OBVIOUS
<1> HIDE DEF x
<1>6. \A p \in s.pending : p.pool = s.pool => p.slot # x
  BY <1>2 DEF Whole, BuffersPlaced
<1>7. BuffersPlaced(r)
  BY <1>2, <1>3, <1>4, <1>6 DEF Whole, BuffersPlaced
<1>8. HoldsFenced(h, r, F)
  BY DEF Whole, HoldsFenced, Awaits
<1>9. QueuedDrawn(h, r, F)
  BY <1>2, <1>5, <1>6 DEF Whole, QueuedDrawn, Awaits
<1>10. QED
  BY <1>7, <1>8, <1>9 DEF Whole

\* The buffers are gone.
LEMMA WholeAnew ==
    ASSUME NEW h, NEW s, NEW r, NEW F, Whole(h, s, F),
           r.memory = {}, r.idle = <<>>, r.queued = <<>>, r.pool = s.pool,
           r.pending = s.pending, r.life = s.life,
           r.content = [b \in Slots |-> Corrupted], \A p \in s.pending : p.slot \in Slots
    PROVE  Whole(h, r, F)
<1>1. Distinct(<<>>) /\ \A b : ~ Has(<<>>, b)
  BY EmptyQueue
<1>2. BuffersPlaced(r)
  BY <1>1 DEF Whole, BuffersPlaced
<1>3. \A b \in Slots : r.content[b].drawn
  BY DEF Corrupted
<1>4. HoldsFenced(h, r, F)
  BY DEF Whole, HoldsFenced, Awaits
<1>5. QueuedDrawn(h, r, F)
  BY <1>3 DEF QueuedDrawn
<1>6. QED
  BY <1>2, <1>4, <1>5 DEF Whole

\* A set of new ones is there, all of them with us.
LEMMA WholeAdded ==
    ASSUME NEW h, NEW s, NEW r, NEW F, Whole(h, s, F), s.queued = <<>>,
           r.memory \subseteq Slots, r.idle = SetToSeq(Slots), r.queued = s.queued,
           s.pool \in Nat, r.pool = s.pool + 1, r.state = "streaming",
           \A p \in s.pending : p.pool \in Nat /\ p.slot \in Slots,
           r.pending = s.pending, r.life = s.life, r.content = s.content
    PROVE  Whole(h, r, F)
<1>1. Distinct(<<>>) /\ \A b : ~ Has(<<>>, b)
  BY EmptyQueue
<1>2. Distinct(SetToSeq(Slots)) /\ \A b : Has(SetToSeq(Slots), b) <=> b \in Slots
  BY SetAsSeq, DeliveryFinite
<1>3. \A p \in r.pending : p.pool <= r.pool /\ p.pool # r.pool
  BY DEF Whole, BuffersPlaced
<1>4. BuffersPlaced(r)
  BY <1>1, <1>2, <1>3 DEF BuffersPlaced
<1>5. HoldsFenced(h, r, F)
  BY DEF Whole, HoldsFenced, Awaits
<1>6. QueuedDrawn(h, r, F)
  BY <1>1, <1>3 DEF QueuedDrawn
<1>7. QED
  BY <1>4, <1>5, <1>6 DEF Whole

----------------------------------------------------------------------------
(* One delivery *)

LEMMA HeadTail ==
    ASSUME NEW S, NEW q \in Seq(S), q # <<>>
    PROVE  Head(q) \in S /\ Tail(q) \in Seq(S)
BY HeadTailProperties, EmptySeq

\* What a delivery may make of the stream s of the handle h, whatever goes wrong: it stays
\* the stream it was, and a new fence has an id of its own.
Delivered(h, s, r) ==
    /\ r.stream \in Streams \cup {None}
    /\ r.awaited \subseteq Fences /\ IsFiniteSet(r.awaited)
    /\ \A f, g \in r.awaited : f = g
    /\ \A f \in r.awaited :
          /\ s # None /\ f.handle = h /\ f.life = s.life
          /\ \A g \in fences : g.handle = h /\ g.life = s.life => g.id # f.id
    /\ r.closed \in BOOLEAN
    /\ IF r.closed THEN r.stream = None ELSE r.stream = None <=> s = None
    /\ r.stream # None =>
          /\ r.stream.state = s.state /\ r.stream.memory = s.memory /\ r.stream.life = s.life

\* What it makes of it when nothing crosses over.
Faithful(h, s, r) ==
    r.stream # None => Whole(h, r.stream, fences \cup r.awaited) /\ ShowsOwn(casts[h], r.stream)

Sound(h, s) == s # None => Whole(h, s, fences) /\ ShowsOwn(casts[h], s)

\* s is the stream of h, but for what its frames look like.
StreamOf(h, s) ==
    /\ s \in Streams \cup {None}
    /\ s # None => streams[h] # None /\ s.life = streams[h].life

AllRenderings == {"drawing", "refused", "failed", "drawn"}

LEMMA PictureIs ==
    ASSUME DeliveryTypes, NEW h \in Handles, casts[h] # None, NEW kind \in Kinds, NEW done \in BOOLEAN
    PROVE  /\ Picture(h, kind, done) \in Frames /\ Picture(h, kind, done).drawn = done
           /\ kind = casts[h].kind => FrameOf(casts[h], Picture(h, kind, done))
<1>1. casts[h] \in Casts
  BY DEF DeliveryTypes
<1>2. casts[h].embedded \in BOOLEAN /\ casts[h].kind \in Kinds
  BY <1>1 DEF Casts
<1>3. (kind = "monitor" /\ casts[h].embedded) \in BOOLEAN
  BY <1>2
<1>4. Picture(h, kind, done) \in Frames
  BY <1>3 DEF Picture, Frames, ShowsPointer
<1>5. /\ Picture(h, kind, done).drawn = done /\ Picture(h, kind, done).kind = kind
      /\ Picture(h, kind, done).pointer = (kind = "monitor" /\ casts[h].embedded)
  BY DEF Picture, ShowsPointer
<1>6. kind = casts[h].kind => FrameOf(casts[h], Picture(h, kind, done))
  BY <1>2, <1>5 DEF FrameOf
<1>7. QED
  BY <1>4, <1>5, <1>6

LEMMA CorruptedIs == Corrupted \in Frames /\ Corrupted.drawn /\ \A cast : FrameOf(cast, Corrupted)
BY DEF Corrupted, Frames, Kinds, FrameOf

\* Nothing comes of it.
LEMMA NothingDelivered ==
    ASSUME DeliveryTypes, NEW h \in Handles, NEW s, StreamOf(h, s), NEW fatal \in BOOLEAN
    PROVE  /\ Delivered(h, s, Result(s, {}, fatal, FALSE))
           /\ Sound(h, s) => Faithful(h, s, Result(s, {}, fatal, FALSE))
<1>1. IsFiniteSet({})
  BY FS_EmptySet
<1>2. fences \cup {} = fences
  OBVIOUS
<1>3. QED
  BY <1>1, <1>2 DEF Result, Delivered, Faithful, Sound, StreamOf

\* The first idle buffer is taken and filled, and the fence it may be held back for.
Filled(s, frame) == [s EXCEPT !.idle = Tail(@), !.content[Head(s.idle)] = frame]
FenceFor(h, s) ==
    [handle |-> h, life |-> s.life, pool |-> s.pool, id |-> NextPending(h),
     slot |-> Head(s.idle), signaled |-> FALSE]

\* A buffer is filled and handed over.
LEMMA QueueDelivered ==
    ASSUME DeliveryTypes, NEW h \in Handles, NEW s \in Streams, StreamOf(h, s), s.idle # <<>>,
           NEW frame \in Frames, NEW r,
           r = Result(Queue(Filled(s, frame), Head(s.idle)), {}, FALSE, FALSE)
    PROVE  /\ Delivered(h, s, r)
           /\ Sound(h, s) /\ frame.drawn /\ FrameOf(casts[h], frame) => Faithful(h, s, r)
<1> DEFINE x == Head(s.idle)
           t == Queue(Filled(s, frame), x)
<1>1. s # None /\ s.life = streams[h].life
  BY StreamsAssumption DEF StreamOf
<1>2. /\ s.idle \in Seq(Slots) /\ s.queued \in Seq(Slots) /\ s.content \in [Slots -> Frames]
      /\ s.pool \in Nat /\ \A p \in s.pending : p \in Holds /\ p.slot \in Slots
  BY DEF Streams, Holds
<1>3. x \in Slots /\ Tail(s.idle) \in Seq(Slots) /\ Append(s.queued, x) \in Seq(Slots)
  BY <1>2, HeadTail, PutLast
<1>4. [s.content EXCEPT ![x] = frame] \in [Slots -> Frames]
  BY <1>2
<1> HIDE DEF x
<1>5. t \in Streams
  BY <1>3, <1>4 DEF Streams, Queue, Filled, x
<1>6. /\ t.state = s.state /\ t.memory = s.memory /\ t.idle = Tail(s.idle)
      /\ t.queued = Append(s.queued, x) /\ t.pending = s.pending /\ t.pool = s.pool
      /\ t.life = s.life /\ t.content = [s.content EXCEPT ![x] = frame] /\ t.seen = s.seen
  BY DEF Streams, Queue, Filled, x
<1>7. t # None
  BY <1>5, StreamsAssumption
<1>8. r.stream = t /\ r.awaited = {} /\ r.closed = FALSE
  BY DEF Result, x
<1> HIDE DEF t
<1>9. Delivered(h, s, r)
  BY <1>1, <1>5, <1>6, <1>7, <1>8, FS_EmptySet DEF Delivered
<1>10. ASSUME Sound(h, s), frame.drawn, FrameOf(casts[h], frame) PROVE Faithful(h, s, r)
  <2>1. Whole(h, s, fences) /\ ShowsOwn(casts[h], s)
    BY <1>1, <1>10 DEF Sound
  <2>2. s.state = "streaming"
    BY <2>1 DEF Whole, BuffersPlaced
  <2>3. Whole(h, t, fences)
    BY <1>2, <1>6, <1>10, <2>1, <2>2, WholeQueued DEF x
  <2>4. \A b \in Slots : t.content[b] = IF b = x THEN frame ELSE s.content[b]
    BY <1>2, <1>6
  <2>5. ShowsOwn(casts[h], t)
    BY <1>6, <1>10, <2>1, <2>4 DEF ShowsOwn
  <2>6. fences \cup {} = fences
    OBVIOUS
  <2>7. QED
    BY <1>8, <2>3, <2>5, <2>6 DEF Faithful
<1>11. QED
  BY <1>9, <1>10

\* A buffer is filled and held back.
LEMMA HoldDelivered ==
    ASSUME DeliveryTypes, NEW h \in Handles, NEW s \in Streams, StreamOf(h, s), s.idle # <<>>,
           NEW frame \in Frames, NEW r,
           r = Result(Hold(Filled(s, frame), NextPending(h), Head(s.idle)), {FenceFor(h, s)},
                      FALSE, FALSE)
    PROVE  /\ Delivered(h, s, r)
           /\ Sound(h, s) /\ FrameOf(casts[h], frame) => Faithful(h, s, r)
<1> DEFINE x == Head(s.idle)
           id == NextPending(h)
           t == Hold(Filled(s, frame), id, x)
           fence == FenceFor(h, s)
<1>1. s # None /\ s.life = streams[h].life
  BY StreamsAssumption DEF StreamOf
<1>2. /\ s.idle \in Seq(Slots) /\ s.queued \in Seq(Slots) /\ s.content \in [Slots -> Frames]
      /\ s.pool \in Nat /\ s.life \in Nat /\ s.pending \subseteq Holds
      /\ \A p \in s.pending : p \in Holds /\ p.slot \in Slots
  BY DEF Streams, Holds
<1>3. x \in Slots /\ Tail(s.idle) \in Seq(Slots)
  BY <1>2, HeadTail
<1>4. [s.content EXCEPT ![x] = frame] \in [Slots -> Frames]
  BY <1>2
<1>5. id \in Nat /\ \A f \in fences : f.handle = h /\ f.life = s.life => f.id # id
  BY <1>1, FreshId
<1> HIDE DEF x, id
<1>6. s.pending \cup {[id |-> id, slot |-> x, pool |-> s.pool]} \in SUBSET Holds
  BY <1>2, <1>3, <1>5 DEF Holds
<1>7. t \in Streams
  BY <1>3, <1>4, <1>6 DEF Streams, Hold, Filled, x
<1>8. /\ t.state = s.state /\ t.memory = s.memory /\ t.idle = Tail(s.idle)
      /\ t.queued = s.queued /\ t.pool = s.pool /\ t.life = s.life
      /\ t.pending = s.pending \cup {[id |-> id, slot |-> x, pool |-> s.pool]}
      /\ t.content = [s.content EXCEPT ![x] = frame] /\ t.seen = s.seen
  BY DEF Streams, Hold, Filled, x
<1>9. t # None
  BY <1>7, StreamsAssumption
<1>10. r.stream = t /\ r.awaited = {fence} /\ r.closed = FALSE
  BY DEF Result, x, id
<1>11. /\ fence.handle = h /\ fence.life = s.life /\ fence.pool = s.pool /\ fence.id = id
       /\ fence.slot = x /\ ~ fence.signaled
  BY DEF FenceFor, x, id
<1>12. fence \in Fences
  BY <1>2, <1>3, <1>5 DEF Fences, FenceFor, x, id
<1> HIDE DEF t, fence
<1>13. Delivered(h, s, r)
  <2>1. \A f \in r.awaited : f = fence
    BY <1>10
  <2>2. r.awaited \subseteq Fences /\ IsFiniteSet(r.awaited)
    BY <1>10, <1>12, FS_Singleton
  <2>3. \A f \in r.awaited :
           /\ s # None /\ f.handle = h /\ f.life = s.life
           /\ \A g \in fences : g.handle = h /\ g.life = s.life => g.id # f.id
    BY <1>1, <1>5, <1>11, <2>1
  <2>4. QED
    BY <1>1, <1>7, <1>8, <1>9, <1>10, <2>1, <2>2, <2>3 DEF Delivered
<1>14. ASSUME Sound(h, s), FrameOf(casts[h], frame) PROVE Faithful(h, s, r)
  <2>1. Whole(h, s, fences) /\ ShowsOwn(casts[h], s)
    BY <1>1, <1>14 DEF Sound
  <2>2. s.state = "streaming"
    BY <2>1 DEF Whole, BuffersPlaced
  <2>3. \A g \in fences : g.handle = h /\ g.life = s.life => g.id # fence.id
    BY <1>5, <1>11
  <2>4. Whole(h, t, fences \cup {fence})
    <3>1. /\ t.idle = Tail(s.idle) /\ t.content = [s.content EXCEPT ![Head(s.idle)] = frame]
          /\ t.pending = s.pending
                \cup {[id |-> fence.id, slot |-> Head(s.idle), pool |-> s.pool]}
          /\ fence.slot = Head(s.idle)
      BY <1>8, <1>11 DEF x
    <3> HIDE DEF x
    <3>2. QED
      BY <1>2, <1>8, <1>11, <2>1, <2>2, <2>3, <3>1, WholeHeld
  <2>5. \A b \in Slots : t.content[b] = IF b = x THEN frame ELSE s.content[b]
    BY <1>2, <1>8
  <2>6. ShowsOwn(casts[h], t)
    BY <1>8, <1>14, <2>1, <2>5 DEF ShowsOwn
  <2>7. QED
    BY <1>10, <2>4, <2>6 DEF Faithful
<1>15. QED
  BY <1>13, <1>14

\* A buffer without memory is lost to the stream.
LEMMA LossDelivered ==
    ASSUME DeliveryTypes, NEW h \in Handles, NEW s \in Streams, StreamOf(h, s), s.idle # <<>>,
           Head(s.idle) \notin s.memory, NEW r,
           r = Result([s EXCEPT !.idle = Tail(@)], {}, FALSE, FALSE)
    PROVE  Delivered(h, s, r) /\ (Sound(h, s) => Faithful(h, s, r))
<1> DEFINE t == [s EXCEPT !.idle = Tail(@)]
<1>1. s # None /\ s.life = streams[h].life
  BY StreamsAssumption DEF StreamOf
<1>2. s.idle \in Seq(Slots)
  BY DEF Streams
<1>3. t \in Streams
  BY <1>2, HeadTail DEF Streams
<1>4. /\ t.state = s.state /\ t.memory = s.memory /\ t.idle = Tail(s.idle)
      /\ t.queued = s.queued /\ t.pending = s.pending /\ t.pool = s.pool
      /\ t.life = s.life /\ t.content = s.content /\ t.seen = s.seen
  BY DEF Streams
<1>5. t # None
  BY <1>3, StreamsAssumption
<1>6. r.stream = t /\ r.awaited = {} /\ r.closed = FALSE
  BY DEF Result
<1> HIDE DEF t
<1>7. Delivered(h, s, r)
  BY <1>1, <1>3, <1>4, <1>5, <1>6, FS_EmptySet DEF Delivered
<1>8. ASSUME Sound(h, s) PROVE Faithful(h, s, r)
  <2>1. Whole(h, s, fences) /\ ShowsOwn(casts[h], s)
    BY <1>1, <1>8 DEF Sound
  <2>2. Whole(h, t, fences)
    BY <1>2, <1>4, <2>1, WholeWithout
  <2>3. ShowsOwn(casts[h], t)
    BY <1>4, <2>1 DEF ShowsOwn
  <2>4. fences \cup {} = fences
    OBVIOUS
  <2>5. QED
    BY <1>6, <2>2, <2>3, <2>4 DEF Faithful
<1>9. QED
  BY <1>7, <1>8

\* deliver_dmabuf_frame
LEMMA DmabufDelivered ==
    ASSUME DeliveryTypes, NEW h \in Handles, casts[h] # None, NEW s \in Streams, StreamOf(h, s),
           NEW rendering \in AllRenderings
    PROVE  /\ Delivered(h, s, IntoDmabuf(h, s, rendering))
           /\ Sound(h, s) /\ rendering # "refused" /\ casts[h].kind = "monitor"
              => Faithful(h, s, IntoDmabuf(h, s, rendering))
<1> DEFINE b == Head(s.idle)
           taken == [s EXCEPT !.idle = Tail(@)]
           frame == IF rendering = "failed" THEN Corrupted
                                            ELSE Picture(h, "monitor", rendering = "drawn")
           id == NextPending(h)
           filled == Filled(s, frame)
           r == IntoDmabuf(h, s, rendering)
<1>1. CASE s.idle = <<>>
  <2>1. r = Result(s, {}, FALSE, FALSE)
    BY <1>1 DEF IntoDmabuf, Nothing
  <2>2. QED
    BY <2>1, NothingDelivered
<1>2. CASE s.idle # <<>> /\ b \notin s.memory
  <2>1. r = Result(taken, {}, FALSE, FALSE)
    BY <1>2 DEF IntoDmabuf
  <2>2. QED
    BY <1>2, <2>1, LossDelivered
<1>3. CASE s.idle # <<>> /\ b \in s.memory
  <2>1. /\ frame \in Frames
        /\ casts[h].kind = "monitor" => FrameOf(casts[h], frame)
        /\ rendering = "failed" \/ rendering = "drawn" => frame.drawn
    <3>1. "monitor" \in Kinds /\ (rendering = "drawn") \in BOOLEAN
      BY DEF Kinds
    <3>2. QED
      BY <3>1, PictureIs, CorruptedIs
  <2>2. [taken EXCEPT !.content[b] = frame] = filled
    BY DEF Streams, Filled
  <2>3. r = Result(Finish([taken EXCEPT !.content[b] = frame], id, b, rendering),
                   IF rendering = "drawing" THEN {FenceFor(h, s)} ELSE {}, FALSE, FALSE)
    BY <1>3 DEF IntoDmabuf, FenceFor
  <2>4. r = Result(Finish(filled, id, b, rendering),
                   IF rendering = "drawing" THEN {FenceFor(h, s)} ELSE {}, FALSE, FALSE)
    BY <2>2, <2>3
  <2> HIDE DEF frame
  <2>5. CASE rendering = "drawing"
    <3>1. r = Result(Hold(filled, id, b), {FenceFor(h, s)}, FALSE, FALSE)
      BY <2>4, <2>5 DEF Finish
    <3> HIDE DEF r
    <3>2. QED
      BY <1>3, <2>1, <3>1, HoldDelivered DEF r
  <2>6. CASE rendering # "drawing"
    <3>1. r = Result(Queue(filled, b), {}, FALSE, FALSE)
      BY <2>4, <2>6 DEF Finish
    <3>2. rendering # "refused" => rendering = "failed" \/ rendering = "drawn"
      BY <2>6 DEF AllRenderings
    <3> HIDE DEF r
    <3>3. QED
      BY <1>3, <2>1, <3>1, <3>2, QueueDelivered DEF r
  <2>7. QED
    BY <2>5, <2>6
<1>4. QED
  BY <1>1, <1>2, <1>3

\* queue_frame
LEMMA MemoryDelivered ==
    ASSUME DeliveryTypes, NEW h \in Handles, casts[h] # None, NEW s, StreamOf(h, s),
           NEW kind \in Kinds
    PROVE  /\ Delivered(h, s, IntoMemory(h, s, kind))
           /\ Sound(h, s) /\ casts[h].kind = kind => Faithful(h, s, IntoMemory(h, s, kind))
<1> DEFINE b == Head(s.idle)
           frame == Picture(h, kind, TRUE)
           r == IntoMemory(h, s, kind)
<1>1. CASE s = None \/ s.format # "memory" \/ s.idle = <<>> \/ b \notin s.memory
  <2>1. r = Result(s, {}, FALSE, FALSE)
    BY <1>1 DEF IntoMemory, Nothing
  <2>2. QED
    BY <2>1, NothingDelivered
<1>2. CASE /\ ~ (s = None \/ s.format # "memory" \/ s.idle = <<>> \/ b \notin s.memory)
           /\ sizes[kind] # casts[h].size
  <2>1. r = Result(s, {}, TRUE, FALSE)
    BY <1>2 DEF IntoMemory
  <2>2. QED
    BY <2>1, NothingDelivered
<1>3. CASE /\ ~ (s = None \/ s.format # "memory" \/ s.idle = <<>> \/ b \notin s.memory)
           /\ sizes[kind] = casts[h].size
  <2>1. r = Result(Queue(Filled(s, frame), b), {}, FALSE, FALSE)
    BY <1>3 DEF IntoMemory, Filled
  <2>2. s \in Streams /\ s.idle # <<>>
    BY <1>3 DEF StreamOf
  <2>3. /\ frame \in Frames /\ frame.drawn
        /\ casts[h].kind = kind => FrameOf(casts[h], frame)
    BY PictureIs
  <2> HIDE DEF r, frame
  <2>4. QED
    BY <2>1, <2>2, <2>3, QueueDelivered DEF r
<1>4. QED
  BY <1>1, <1>2, <1>3

\* deliver_session_frame
LEMMA MonitorDelivered ==
    ASSUME DeliveryTypes, NEW h \in Handles, casts[h] # None, NEW s, StreamOf(h, s),
           NEW rendering \in AllRenderings
    PROVE  /\ Delivered(h, s, FromMonitor(h, s, rendering))
           /\ Sound(h, s) /\ rendering # "refused" /\ casts[h].kind = "monitor"
              => Faithful(h, s, FromMonitor(h, s, rendering))
<1>1. CASE s # None /\ s.format = "dmabuf"
  <2> DEFINE real == IF plugged THEN rendering ELSE "failed"
  <2>1. FromMonitor(h, s, rendering) = IntoDmabuf(h, s, real)
    BY <1>1 DEF FromMonitor
  <2>2. real \in AllRenderings /\ (rendering # "refused" => real # "refused")
    BY DEF AllRenderings
  <2>3. s \in Streams
    BY <1>1 DEF StreamOf
  <2> HIDE DEF real
  <2>4. QED
    BY <2>1, <2>2, <2>3, DmabufDelivered
<1>2. CASE ~ (s # None /\ s.format = "dmabuf") /\ plugged /\ rendering # "failed"
  <2>1. FromMonitor(h, s, rendering) = IntoMemory(h, s, "monitor")
    BY <1>2 DEF FromMonitor
  <2>2. "monitor" \in Kinds
    BY DEF Kinds
  <2>3. QED
    BY <2>1, <2>2, MemoryDelivered
<1>3. CASE ~ (s # None /\ s.format = "dmabuf") /\ ~ (plugged /\ rendering # "failed")
  <2>1. FromMonitor(h, s, rendering) = Result(s, {}, FALSE, FALSE)
    BY <1>3 DEF FromMonitor, Nothing
  <2>2. QED
    BY <2>1, NothingDelivered
<1>4. QED
  BY <1>1, <1>2, <1>3

\* deliver_window_frame
LEMMA WindowDelivered ==
    ASSUME DeliveryTypes, NEW h \in Handles, casts[h] # None, NEW s, StreamOf(h, s),
           NEW rendering \in AllRenderings
    PROVE  /\ Delivered(h, s, FromWindow(h, s, rendering))
           /\ Sound(h, s) => Faithful(h, s, FromWindow(h, s, rendering))
<1>1. CASE casts[h].kind # "window" \/ sizes["window"] # casts[h].size \/ rendering = "failed"
  <2>1. FromWindow(h, s, rendering) = Result(None, {}, FALSE, TRUE)
    BY <1>1 DEF FromWindow
  <2>2. QED
    BY <2>1, FS_EmptySet DEF Result, Delivered, Faithful
<1>2. CASE ~ (casts[h].kind # "window" \/ sizes["window"] # casts[h].size \/ rendering = "failed")
  <2>1. FromWindow(h, s, rendering) = IntoMemory(h, s, "window")
    BY <1>2 DEF FromWindow
  <2>2. "window" \in Kinds
    BY DEF Kinds
  <2>3. QED
    BY <1>2, <2>1, <2>2, MemoryDelivered
<1>3. QED
  BY <1>1, <1>2

----------------------------------------------------------------------------
(* The steps *)

\* A failure told is on its way, after those told before.
LEMMA FatalIs ==
    ASSUME failures \in Seq(Handles), NEW hs, hs \subseteq Handles, Fatal(hs)
    PROVE  /\ failures' \in Seq(Handles)
           /\ \A h : Has(failures', h) <=> Has(failures, h) \/ h \in hs
<1> DEFINE new == {h \in hs : \A i \in DOMAIN failures : failures[i] # h}
           q == SetToSeq(new)
<1>1. IsFiniteSet(new) /\ new \subseteq Handles
  BY DeliveryFinite, FS_Subset
<1>2. q \in Seq(new) /\ \A x : Has(q, x) <=> x \in new
  BY <1>1, SetAsSeq
<1>3. q \in Seq(Handles)
  BY <1>1, <1>2
<1>4. failures' = failures \o q
  BY DEF Fatal
<1>5. \A x : x \in new <=> x \in hs /\ ~ Has(failures, x)
  BY DEF Has
<1> HIDE DEF q, new
<1>6. /\ failures' \in Seq(Handles) /\ Len(failures) \in Nat /\ Len(q) \in Nat
      /\ Len(failures') = Len(failures) + Len(q)
      /\ \A i \in 1 .. Len(failures) : failures'[i] = failures[i]
      /\ \A i \in 1 .. Len(q) : failures'[Len(failures) + i] = q[i]
      /\ DOMAIN failures = 1 .. Len(failures) /\ DOMAIN q = 1 .. Len(q)
      /\ DOMAIN failures' = 1 .. Len(failures')
  BY <1>3, <1>4, ConcatProperties, LenProperties
<1>7. ASSUME NEW h PROVE Has(failures', h) <=> Has(failures, h) \/ Has(q, h)
  <2>1. ASSUME Has(failures', h) PROVE Has(failures, h) \/ Has(q, h)
    <3>1. PICK i \in 1 .. Len(failures) + Len(q) : failures'[i] = h
      BY <1>6, <2>1 DEF Has
    <3>2. CASE i \in 1 .. Len(failures)
      BY <1>6, <3>1, <3>2 DEF Has
    <3>3. CASE i \notin 1 .. Len(failures)
      <4>1. i - Len(failures) \in 1 .. Len(q) /\ Len(failures) + (i - Len(failures)) = i
        BY <1>6, <3>1, <3>3
      <4>2. q[i - Len(failures)] = h
        BY <1>6, <3>1, <4>1
      <4>3. QED
        BY <1>6, <4>1, <4>2 DEF Has
    <3>4. QED
      BY <3>2, <3>3
  <2>2. ASSUME Has(failures, h) PROVE Has(failures', h)
    BY <1>6, <2>2 DEF Has
  <2>3. ASSUME Has(q, h) PROVE Has(failures', h)
    <3>1. PICK i \in 1 .. Len(q) : q[i] = h
      BY <1>6, <2>3 DEF Has
    <3>2. Len(failures) + i \in 1 .. Len(failures') /\ failures'[Len(failures) + i] = h
      BY <1>6, <3>1
    <3>3. QED
      BY <1>6, <3>2 DEF Has
  <2>4. QED
    BY <2>1, <2>2, <2>3
<1>8. QED
  BY <1>2, <1>5, <1>6, <1>7

\* A cast is not silent as long as its failure is told or its stream is well.
Well(h, s) ==
    /\ s # None
    /\ \/ s.state \in {"connecting", "paused"}
       \/ s.state = "streaming" /\ s.memory = Slots

LEMMA SilentIs ==
    NoSilentCast <=> \A h \in Handles : casts[h] # None => Has(failures, h) \/ Well(h, streams[h])
BY DEF NoSilentCast, Has, Well, Stream

\* A callback leaves the stream of h as t, and everything else alone.
LEMMA CallbackKeeps ==
    ASSUME DeliveryInv, NEW h \in Handles, streams[h] # None, NEW t \in Streams,
           Callback(h, t), t.life = streams[h].life,
           ~ crossed => Whole(h, t, fences) /\ ShowsOwn(casts[h], t),
           failures' \in Seq(Handles),
           \A k : Has(failures, k) => Has(failures', k),
           \/ Has(failures', h) \/ Well(h, t)
           \/ t.state = streams[h].state /\ t.memory = streams[h].memory
    PROVE  DeliveryInv'
<1>1. /\ streams' = [streams EXCEPT ![h] = t]
      /\ sizes' = sizes /\ casts' = casts /\ heartbeats' = heartbeats /\ fences' = fences
      /\ starts' = starts /\ crossed' = crossed
  BY DEF Callback, worldVars, loopVars
<1>2. streams \in [Handles -> Streams \cup {None}]
  BY DEF DeliveryInv, DeliveryTypes
<1>3. \A k \in Handles : streams'[k] = IF k = h THEN t ELSE streams[k]
  BY <1>1, <1>2
<1>4. t # None
  BY StreamsAssumption
<1>5. DeliveryTypes'
  <2>1. streams' \in [Handles -> Streams \cup {None}]
    BY <1>1, <1>2
  <2>2. QED
    BY <1>1, <1>3, <2>1 DEF DeliveryInv, DeliveryTypes
<1>6. FencesInv'
  BY <1>1 DEF DeliveryInv, FencesInv
<1>7. StreamsInv'
  BY <1>1, <1>3 DEF DeliveryInv, StreamsInv
<1>8. NoSilentCast'
  <2>1. ASSUME NEW k \in Handles, casts[k] # None
        PROVE  Has(failures', k) \/ Well(k, streams'[k])
    <3>1. Has(failures, k) \/ Well(k, streams[k])
      BY <2>1, SilentIs DEF DeliveryInv
    <3>2. QED
      BY <1>3, <1>4, <3>1 DEF Well
  <2>2. QED
    BY <1>1, <2>1 DEF NoSilentCast, Has, Well, Stream
<1>9. QED
  BY <1>5, <1>6, <1>7, <1>8 DEF DeliveryInv

LEMMA StreamFacts ==
    ASSUME DeliveryInv, NEW h \in Handles, streams[h] # None
    PROVE  /\ streams[h] \in Streams /\ streams[h].life < starts /\ casts[h] \in Casts
           /\ casts[h] # None
           /\ ~ crossed => Whole(h, streams[h], fences) /\ ShowsOwn(casts[h], streams[h])
BY DEF DeliveryInv, DeliveryTypes, StreamsInv

\* A callback on which nothing fails.
LEMMA QuietFatal ==
    ASSUME DeliveryInv, Fatal({})
    PROVE  failures' \in Seq(Handles) /\ \A k : Has(failures, k) => Has(failures', k)
BY FatalIs DEF DeliveryInv, DeliveryTypes

\* Only what is negotiated changes.
LEMMA WholeNegotiated ==
    ASSUME NEW h, NEW s, NEW r, NEW F, Whole(h, s, F), s.state # "streaming",
           r.memory = s.memory, r.idle = s.idle, r.queued = s.queued, r.state # "streaming",
           r.pending = s.pending, r.pool = s.pool, r.life = s.life, r.content = s.content
    PROVE  Whole(h, r, F)
BY DEF Whole, BuffersPlaced, HoldsFenced, QueuedDrawn, Awaits

LEMMA NegotiationKeeps ==
    ASSUME DeliveryInv, NEW h \in Handles, streams[h] # None, streams[h].state # "streaming",
           NEW t \in Streams, Callback(h, t), Fatal({}),
           t.memory = streams[h].memory, t.idle = streams[h].idle, t.queued = streams[h].queued,
           t.pending = streams[h].pending, t.pool = streams[h].pool, t.life = streams[h].life,
           t.content = streams[h].content, t.seen = streams[h].seen,
           t.state \in {"connecting", "paused"}
    PROVE  DeliveryInv'
<1>1. t # None
  BY StreamsAssumption
<1>2. Well(h, t)
  BY <1>1 DEF Well
<1>3. ~ crossed => Whole(h, t, fences) /\ ShowsOwn(casts[h], t)
  BY StreamFacts, WholeNegotiated DEF ShowsOwn
<1>4. QED
  BY <1>2, <1>3, QuietFatal, CallbackKeeps

LEMMA ConnectsKeeps == ASSUME DeliveryInv, NEW h \in Handles, Connects(h) PROVE DeliveryInv'
<1> DEFINE t == [streams[h] EXCEPT !.state = "paused"]
<1>1. streams[h] # None /\ streams[h].state = "connecting" /\ Callback(h, t) /\ Fatal({})
  BY DEF Connects, Stream
<1>2. streams[h] \in Streams
  BY <1>1, StreamFacts
<1>3. /\ t \in Streams
      /\ t.memory = streams[h].memory /\ t.idle = streams[h].idle /\ t.queued = streams[h].queued
      /\ t.pending = streams[h].pending /\ t.pool = streams[h].pool /\ t.life = streams[h].life
      /\ t.content = streams[h].content /\ t.seen = streams[h].seen /\ t.state = "paused"
  BY <1>2 DEF Streams
<1> HIDE DEF t
<1>4. QED
  BY <1>1, <1>3, NegotiationKeeps

LEMMA FixateKeeps == ASSUME DeliveryInv, NEW h \in Handles, Fixate(h) PROVE DeliveryInv'
<1> DEFINE t == [streams[h] EXCEPT !.offer = "one"]
<1>1. streams[h] # None /\ streams[h].state = "paused" /\ Callback(h, t) /\ Fatal({})
  BY DEF Fixate, Negotiating, Stream
<1>2. streams[h] \in Streams
  BY <1>1, StreamFacts
<1>3. /\ t \in Streams
      /\ t.memory = streams[h].memory /\ t.idle = streams[h].idle /\ t.queued = streams[h].queued
      /\ t.pending = streams[h].pending /\ t.pool = streams[h].pool /\ t.life = streams[h].life
      /\ t.content = streams[h].content /\ t.seen = streams[h].seen /\ t.state = "paused"
  BY <1>1, <1>2 DEF Streams
<1> HIDE DEF t
<1>4. QED
  BY <1>1, <1>3, NegotiationKeeps

LEMMA AgreeKeeps ==
    ASSUME DeliveryInv, NEW h \in Handles, Negotiating(h), NEW format \in {"dmabuf", "memory"},
           Agree(h, format)
    PROVE  DeliveryInv'
<1> DEFINE t == [streams[h] EXCEPT !.format = format]
<1>1. streams[h] # None /\ streams[h].state = "paused" /\ Callback(h, t) /\ Fatal({})
  BY DEF Agree, Negotiating, Stream
<1>2. streams[h] \in Streams
  BY <1>1, StreamFacts
<1>3. /\ t \in Streams
      /\ t.memory = streams[h].memory /\ t.idle = streams[h].idle /\ t.queued = streams[h].queued
      /\ t.pending = streams[h].pending /\ t.pool = streams[h].pool /\ t.life = streams[h].life
      /\ t.content = streams[h].content /\ t.seen = streams[h].seen /\ t.state = "paused"
  BY <1>1, <1>2 DEF Streams
<1> HIDE DEF t
<1>4. QED
  BY <1>1, <1>3, NegotiationKeeps

\* The buffers go: the stream fails, or they are removed.
LEMMA BareStream ==
    ASSUME DeliveryInv, NEW h \in Handles, streams[h] # None, NEW state \in {"paused", "failed"},
           NEW t, t = [streams[h] EXCEPT !.state = state, !.memory = {}, !.idle = <<>>,
                           !.queued = <<>>, !.content = [b \in Slots |-> Corrupted]]
    PROVE  /\ t \in Streams /\ t.life = streams[h].life /\ t.state = state
           /\ ~ crossed => Whole(h, t, fences) /\ ShowsOwn(casts[h], t)
<1> DEFINE s == streams[h]
           bare == [b \in Slots |-> Corrupted]
<1>1. s \in Streams
  BY StreamFacts
<1>2. bare \in [Slots -> Frames]
  BY CorruptedIs
<1>3. <<>> \in Seq(Slots)
  BY EmptyQueue
<1> HIDE DEF bare
<1>4. /\ t \in Streams /\ t.state = state /\ t.memory = {} /\ t.idle = <<>> /\ t.queued = <<>>
      /\ t.pending = s.pending /\ t.pool = s.pool /\ t.life = s.life /\ t.seen = s.seen
      /\ t.content = bare
  BY <1>1, <1>2, <1>3 DEF Streams, bare
<1>5. \A p \in s.pending : p.slot \in Slots
  BY <1>1 DEF Streams, Holds
<1>6. ASSUME ~ crossed PROVE Whole(h, t, fences) /\ ShowsOwn(casts[h], t)
  <2>1. Whole(h, s, fences) /\ ShowsOwn(casts[h], s)
    BY <1>6, StreamFacts
  <2> HIDE DEF s
  <2>2. Whole(h, t, fences)
    BY <1>4, <1>5, <2>1, WholeAnew DEF bare
  <2>3. ShowsOwn(casts[h], t)
    BY <1>4, <2>1, CorruptedIs DEF ShowsOwn, bare
  <2>4. QED
    BY <2>2, <2>3
<1>7. QED
  BY <1>4, <1>6

LEMMA FailureKeeps ==
    ASSUME DeliveryInv, NEW h \in Handles, streams[h] # None, Callback(h, Failed(h)), Fatal({h})
    PROVE  DeliveryInv'
<1>1. /\ Failed(h) \in Streams /\ Failed(h).life = streams[h].life
      /\ ~ crossed => Whole(h, Failed(h), fences) /\ ShowsOwn(casts[h], Failed(h))
  BY BareStream DEF Failed
<1>2. /\ failures' \in Seq(Handles)
      /\ \A k : Has(failures', k) <=> Has(failures, k) \/ k \in {h}
  BY FatalIs DEF DeliveryInv, DeliveryTypes
<1>3. QED
  BY <1>1, <1>2, CallbackKeeps

LEMMA BreaksKeeps == ASSUME DeliveryInv, NEW h \in Handles, Breaks(h) PROVE DeliveryInv'
BY FailureKeeps DEF Breaks, Stream

LEMMA UnusableKeeps == ASSUME DeliveryInv, NEW h \in Handles, Unusable(h) PROVE DeliveryInv'
<1>1. streams[h] # None /\ Refuse(h)
  BY DEF Unusable, Negotiating, Stream
<1>2. CASE streams[h].format = None
  BY <1>1, <1>2, FailureKeeps DEF Refuse
<1>3. CASE streams[h].format # None
  <2>1. Callback(h, streams[h]) /\ Fatal({})
    BY <1>1, <1>3 DEF Refuse
  <2>2. QED
    BY <1>1, <2>1, StreamFacts, QuietFatal, CallbackKeeps
<1>4. QED
  BY <1>2, <1>3

LEMMA RemoveBuffersKeeps == ASSUME DeliveryInv, NEW h \in Handles, RemoveBuffers(h) PROVE DeliveryInv'
<1> DEFINE t == [streams[h] EXCEPT !.state = "paused", !.memory = {}, !.idle = <<>>,
                                   !.queued = <<>>, !.content = [b \in Slots |-> Corrupted]]
<1>1. streams[h] # None /\ Callback(h, t) /\ Fatal({})
  BY DEF RemoveBuffers, Stream
<1>2. /\ t \in Streams /\ t.life = streams[h].life /\ t.state = "paused"
      /\ ~ crossed => Whole(h, t, fences) /\ ShowsOwn(casts[h], t)
  BY <1>1, BareStream
<1> HIDE DEF t
<1>3. Well(h, t)
  BY <1>2, StreamsAssumption DEF Well
<1>4. QED
  BY <1>1, <1>2, <1>3, QuietFatal, CallbackKeeps

LEMMA AddBuffersKeeps == ASSUME DeliveryInv, NEW h \in Handles, AddBuffers(h) PROVE DeliveryInv'
<1> DEFINE s == streams[h]
<1>1. s # None /\ s.state = "paused" /\ s.memory = {}
  BY DEF AddBuffers, Negotiating, Stream
<1>2. PICK without \in {{}} \cup {{b} : b \in Slots} :
        /\ Callback(h, [s EXCEPT !.state = "streaming", !.pool = @ + 1,
                                 !.memory = Slots \ without, !.idle = SetToSeq(Slots)])
        /\ IF without = {} THEN NoFault /\ Fatal({}) ELSE Fault /\ Fatal({h})
  BY DEF AddBuffers
<1> DEFINE t == [s EXCEPT !.state = "streaming", !.pool = @ + 1,
                          !.memory = Slots \ without, !.idle = SetToSeq(Slots)]
<1>3. s \in Streams
  BY <1>1, StreamFacts
<1>4. SetToSeq(Slots) \in Seq(Slots)
  BY SetAsSeq, DeliveryFinite
<1> HIDE DEF s
<1>5. /\ t \in Streams /\ t.state = "streaming" /\ t.memory = Slots \ without
      /\ t.idle = SetToSeq(Slots) /\ t.queued = s.queued /\ t.pending = s.pending
      /\ t.pool = s.pool + 1 /\ t.life = s.life /\ t.content = s.content /\ t.seen = s.seen
  <2> DEFINE m == Slots \ without
             q == SetToSeq(Slots)
  <2>1. m \in SUBSET Slots /\ q \in Seq(Slots)
    BY <1>4
  <2>2. s.pool + 1 \in Nat
    BY <1>3 DEF Streams
  <2> HIDE DEF m, q
  <2>3. t = [s EXCEPT !.state = "streaming", !.pool = s.pool + 1, !.memory = m, !.idle = q]
    BY DEF m, q
  <2>4. /\ t \in Streams /\ t.state = "streaming" /\ t.memory = m
        /\ t.idle = q /\ t.queued = s.queued /\ t.pending = s.pending
        /\ t.pool = s.pool + 1 /\ t.life = s.life /\ t.content = s.content /\ t.seen = s.seen
    BY <1>3, <2>1, <2>2, <2>3 DEF Streams
  <2>5. QED
    BY <2>4 DEF m, q
<1>6. s.pool \in Nat /\ \A p \in s.pending : p.pool \in Nat /\ p.slot \in Slots
  BY <1>3 DEF Streams, Holds
<1>7. Callback(h, t)
  BY <1>2
<1> HIDE DEF t
<1>8. ASSUME ~ crossed PROVE Whole(h, t, fences) /\ ShowsOwn(casts[h], t)
  <2>1. Whole(h, s, fences) /\ ShowsOwn(casts[h], s)
    BY <1>1, <1>8, StreamFacts DEF s
  <2>2. s.idle = <<>> /\ s.queued = <<>>
    BY <1>1, <2>1 DEF Whole, BuffersPlaced
  <2>3. Whole(h, t, fences)
    BY <1>1, <1>5, <1>6, <2>1, <2>2, WholeAdded
  <2>4. ShowsOwn(casts[h], t)
    BY <1>5, <2>1 DEF ShowsOwn
  <2>5. QED
    BY <2>3, <2>4
<1>9. /\ failures' \in Seq(Handles)
      /\ \A k : Has(failures, k) => Has(failures', k)
      /\ Has(failures', h) \/ without = {}
  BY <1>2, FatalIs, QuietFatal DEF DeliveryInv, DeliveryTypes
<1>10. Has(failures', h) \/ Well(h, t)
  BY <1>5, <1>9, StreamsAssumption DEF Well
<1>11. QED
  BY <1>1, <1>5, <1>7, <1>8, <1>9, <1>10, CallbackKeeps DEF s

LEMMA ReadsKeeps == ASSUME DeliveryInv, NEW h \in Handles, Reads(h) PROVE DeliveryInv'
<1> DEFINE s == streams[h]
           b == Head(s.queued)
           frame == s.content[b]
           seen == IF frame = Corrupted THEN s.seen ELSE frame
           t == [s EXCEPT !.queued = Tail(@), !.idle = Append(@, b), !.content[b] = Corrupted,
                          !.seen = seen]
<1>1. /\ s # None /\ s.state = "streaming" /\ s.queued # <<>> /\ failures' = failures
  BY DEF Reads, Stream
<1>2. Callback(h, t)
  BY DEF Reads
<1>3. s \in Streams /\ casts[h] \in Casts
  BY <1>1, StreamFacts
<1> HIDE DEF s
<1>4. /\ s.idle \in Seq(Slots) /\ s.queued \in Seq(Slots) /\ s.content \in [Slots -> Frames]
      /\ s.seen \in Frames /\ \A p \in s.pending : p.slot \in Slots
  BY <1>3 DEF Streams, Holds
<1>5. b \in Slots /\ Tail(s.queued) \in Seq(Slots)
  BY <1>1, <1>4, HeadTail
<1> HIDE DEF b
<1>6. /\ Append(s.idle, b) \in Seq(Slots) /\ [s.content EXCEPT ![b] = Corrupted] \in [Slots -> Frames]
      /\ frame \in Frames /\ seen \in Frames
  BY <1>4, <1>5, PutLast, CorruptedIs
<1>7. seen = s.seen \/ seen = s.content[b]
  OBVIOUS
<1> HIDE DEF seen
<1>8. t \in Streams
  BY <1>3, <1>5, <1>6 DEF Streams
<1>9. /\ t.state = s.state /\ t.memory = s.memory /\ t.queued = Tail(s.queued)
      /\ t.idle = Append(s.idle, b) /\ t.pending = s.pending /\ t.pool = s.pool
      /\ t.life = s.life /\ t.content = [s.content EXCEPT ![b] = Corrupted] /\ t.seen = seen
  BY <1>3 DEF Streams
<1> HIDE DEF t
<1>10. ASSUME ~ crossed PROVE Whole(h, t, fences) /\ ShowsOwn(casts[h], t)
  <2>1. Whole(h, s, fences) /\ ShowsOwn(casts[h], s)
    BY <1>1, <1>10, StreamFacts DEF s
  <2>2. Whole(h, t, fences)
    BY <1>1, <1>4, <1>9, <2>1, CorruptedIs, WholeRead DEF b
  <2>3. \A c \in Slots : t.content[c] = IF c = b THEN Corrupted ELSE s.content[c]
    BY <1>4, <1>9
  <2>4. ShowsOwn(casts[h], t)
    BY <1>5, <1>7, <1>9, <2>1, <2>3, CorruptedIs DEF ShowsOwn
  <2>5. QED
    BY <2>2, <2>4
<1>11. failures' \in Seq(Handles) /\ \A k : Has(failures, k) => Has(failures', k)
  BY <1>1 DEF DeliveryInv, DeliveryTypes
<1>12. QED
  BY <1>1, <1>2, <1>8, <1>9, <1>10, <1>11, CallbackKeeps DEF s

\* A cast begins, its stream with all that is behind it, or without a stream.
LEMMA FreshIs ==
    ASSUME DeliveryTypes, NEW h \in Handles, NEW offer \in {"several", "one", "memory"}, NEW F
    PROVE  /\ FreshStream(offer) \in Streams /\ FreshStream(offer).life = starts
           /\ FreshStream(offer).state = "connecting"
           /\ Whole(h, FreshStream(offer), F) /\ \A cast : ShowsOwn(cast, FreshStream(offer))
<1> DEFINE t == FreshStream(offer)
           bare == [b \in Slots |-> Corrupted]
<1>1. bare \in [Slots -> Frames] /\ Corrupted \in Frames
  BY CorruptedIs
<1>2. <<>> \in Seq(Slots)
  BY EmptyQueue
<1>3. starts \in Nat /\ 0 \in Nat
  BY DEF DeliveryTypes
<1>4. /\ t.state = "connecting" /\ t.memory = {} /\ t.idle = <<>> /\ t.queued = <<>>
      /\ t.pending = {} /\ t.pool = 0 /\ t.life = starts /\ t.content = bare /\ t.seen = Corrupted
  BY DEF FreshStream
<1>5. t \in Streams
  <2> HIDE DEF bare
  <2>1. t = [state |-> "connecting", offer |-> offer, format |-> None,
             memory |-> {}, idle |-> <<>>, queued |-> <<>>,
             content |-> bare, pending |-> {},
             seen |-> Corrupted, pool |-> 0, life |-> starts]
    BY DEF FreshStream, bare
  <2>2. {} \in SUBSET Slots /\ {} \in SUBSET Holds /\ None \in {None, "dmabuf", "memory"}
    OBVIOUS
  <2>3. QED
    BY <1>1, <1>2, <1>3, <2>1, <2>2 DEF Streams
<1> HIDE DEF t
<1>6. Whole(h, t, F)
  <2>1. BuffersPlaced(t)
    BY <1>4, EmptyQueue DEF BuffersPlaced
  <2>2. QED
    BY <1>4, <2>1, EmptyQueue DEF Whole, HoldsFenced, QueuedDrawn
<1>7. ASSUME NEW cast PROVE ShowsOwn(cast, t)
  BY <1>4, CorruptedIs DEF ShowsOwn
<1>8. QED
  BY <1>4, <1>5, <1>6, <1>7 DEF t

LEMMA StartCastKeeps ==
    ASSUME DeliveryInv, NEW h \in Handles, NEW kind \in Kinds, NEW embedded \in BOOLEAN,
           StartCast(h, kind, embedded)
    PROVE  DeliveryInv'
<1> DEFINE cast == [kind |-> kind, embedded |-> embedded, size |-> sizes[kind], rested |-> TRUE]
<1>1. /\ casts[h] = None /\ streams[h] = None /\ starts' = starts + 1
      /\ casts' = [casts EXCEPT ![h] = cast] /\ sizes' = sizes
      /\ heartbeats' = heartbeats \cup {[handle |-> h, kind |-> kind]}
      /\ fences' = fences /\ crossed' = crossed
  BY DEF StartCast, worldVars
<1>2. cast \in Casts
  BY DEF Casts, DeliveryInv, DeliveryTypes
<1> HIDE DEF cast
<1>3. cast # None
  BY <1>2, StreamsAssumption
<1> DEFINE Begun(t) ==
        /\ streams' = [streams EXCEPT ![h] = t]
        /\ failures' \in Seq(Handles)
        /\ \A k : Has(failures, k) => Has(failures', k)
        /\ Has(failures', h) \/ Well(h, t)
        /\ t # None => t.life = starts /\ Whole(h, t, fences) /\ ShowsOwn(cast, t)
<1>4. PICK t \in Streams \cup {None} : Begun(t)
  <2>1. ASSUME NEW offer \in Offers(kind), streams' = [streams EXCEPT ![h] = FreshStream(offer)],
               Fatal({})
        PROVE  \E t \in Streams \cup {None} : Begun(t)
    <3>1. offer \in {"several", "one", "memory"}
      BY <2>1 DEF Offers
    <3>2. /\ FreshStream(offer) \in Streams /\ FreshStream(offer).life = starts
          /\ FreshStream(offer).state = "connecting"
          /\ Whole(h, FreshStream(offer), fences) /\ ShowsOwn(cast, FreshStream(offer))
      BY <3>1, FreshIs DEF DeliveryInv
    <3>3. Well(h, FreshStream(offer))
      BY <3>2, StreamsAssumption DEF Well
    <3>4. Begun(FreshStream(offer))
      BY <2>1, <3>2, <3>3, QuietFatal
    <3>5. QED
      BY <3>2, <3>4
  <2>2. ASSUME Fatal({h}), UNCHANGED streams
        PROVE  \E t \in Streams \cup {None} : Begun(t)
    <3>1. streams' = [streams EXCEPT ![h] = None]
      BY <1>1, <2>2 DEF DeliveryInv, DeliveryTypes
    <3>2. /\ failures' \in Seq(Handles)
          /\ \A k : Has(failures', k) <=> Has(failures, k) \/ k \in {h}
      BY <2>2, FatalIs DEF DeliveryInv, DeliveryTypes
    <3>3. Begun(None)
      BY <3>1, <3>2
    <3>4. QED
      BY <3>3
  <2>3. \/ \E offer \in Offers(kind) : streams' = [streams EXCEPT ![h] = FreshStream(offer)]
                                      /\ Fatal({})
        \/ Fatal({h}) /\ UNCHANGED streams
    BY DEF StartCast
  <2> HIDE DEF Begun
  <2>4. QED
    BY <2>1, <2>2, <2>3
<1>5. /\ casts \in [Handles -> Casts \cup {None}] /\ streams \in [Handles -> Streams \cup {None}]
      /\ starts \in Nat
  BY DEF DeliveryInv, DeliveryTypes
<1>6. /\ \A k \in Handles : casts'[k] = IF k = h THEN cast ELSE casts[k]
      /\ \A k \in Handles : streams'[k] = IF k = h THEN t ELSE streams[k]
  BY <1>1, <1>4, <1>5
<1>7. DeliveryTypes'
  <2>1. /\ casts' \in [Handles -> Casts \cup {None}] /\ streams' \in [Handles -> Streams \cup {None}]
        /\ starts' \in Nat
    BY <1>1, <1>2, <1>4, <1>5
  <2>2. \A k \in Handles : streams'[k] # None => casts'[k] # None /\ streams'[k].life < starts'
    <3>1. TAKE k \in Handles
    <3>2. HAVE streams'[k] # None
    <3>3. CASE k = h
      BY <1>1, <1>3, <1>4, <1>5, <1>6, <3>2, <3>3
    <3>4. CASE k # h
      <4>1. casts[k] # None /\ streams[k].life < starts /\ streams[k] \in Streams
        BY <1>6, <3>2, <3>4 DEF DeliveryInv, DeliveryTypes
      <4>2. streams[k].life \in Nat
        BY <4>1 DEF Streams
      <4>3. QED
        BY <1>1, <1>5, <1>6, <3>4, <4>1, <4>2
    <3>5. QED
      BY <3>3, <3>4
  <2>3. heartbeats' \subseteq [handle : Handles, kind : Kinds]
    BY <1>1 DEF DeliveryInv, DeliveryTypes
  <2>4. QED
    BY <1>1, <1>4, <2>1, <2>2, <2>3 DEF DeliveryInv, DeliveryTypes
<1>8. FencesInv'
  <2>1. ASSUME NEW f \in fences PROVE f.life < starts'
    <3>1. f.life \in Nat /\ f.life < starts
      BY DEF DeliveryInv, DeliveryTypes, FencesInv, Fences
    <3>2. QED
      BY <1>1, <1>5, <3>1
  <2>2. QED
    BY <1>1, <2>1 DEF DeliveryInv, FencesInv
<1>9. StreamsInv'
  BY <1>1, <1>4, <1>6 DEF DeliveryInv, StreamsInv
<1>10. NoSilentCast'
  <2>1. ASSUME NEW k \in Handles, casts'[k] # None PROVE Has(failures', k) \/ Well(k, streams'[k])
    BY <1>4, <1>6, <2>1, SilentIs DEF DeliveryInv, Well
  <2>2. QED
    BY <2>1 DEF NoSilentCast, Has, Well, Stream
<1>11. QED
  BY <1>7, <1>8, <1>9, <1>10 DEF DeliveryInv

\* Casts are closed, and every failure that is left out closes one that is gone.
LEMMA ClosedKeeps ==
    ASSUME DeliveryInv, NEW hs, hs \subseteq Handles, Closed(hs),
           UNCHANGED <<worldVars, heartbeats, fences, boundVars, crossed>>,
           failures' \in Seq(Handles),
           \A k \in Handles : Has(failures, k) => Has(failures', k) \/ k \in hs
    PROVE  DeliveryInv'
<1>1. /\ casts' = [k \in Handles |-> IF k \in hs THEN None ELSE casts[k]]
      /\ streams' = [k \in Handles |-> IF k \in hs THEN None ELSE streams[k]]
      /\ sizes' = sizes /\ heartbeats' = heartbeats /\ fences' = fences /\ starts' = starts
      /\ crossed' = crossed
  BY DEF Closed, worldVars, boundVars
<1>2. casts \in [Handles -> Casts \cup {None}] /\ streams \in [Handles -> Streams \cup {None}]
  BY DEF DeliveryInv, DeliveryTypes
<1>3. /\ casts' \in [Handles -> Casts \cup {None}] /\ streams' \in [Handles -> Streams \cup {None}]
  BY <1>1, <1>2
<1>4. \A k \in Handles : /\ k \in hs => casts'[k] = None /\ streams'[k] = None
                         /\ k \notin hs => casts'[k] = casts[k] /\ streams'[k] = streams[k]
  BY <1>1
<1>5. DeliveryTypes'
  BY <1>1, <1>3, <1>4 DEF DeliveryInv, DeliveryTypes
<1>6. FencesInv'
  BY <1>1 DEF DeliveryInv, FencesInv
<1>7. StreamsInv'
  BY <1>1, <1>4 DEF DeliveryInv, StreamsInv
<1>8. NoSilentCast'
  <2>1. ASSUME NEW k \in Handles, casts'[k] # None PROVE Has(failures', k) \/ Well(k, streams'[k])
    BY <1>4, <2>1, SilentIs DEF DeliveryInv, Well
  <2>2. QED
    BY <2>1 DEF NoSilentCast, Has, Well, Stream
<1>9. QED
  BY <1>5, <1>6, <1>7, <1>8 DEF DeliveryInv

LEMMA CloseCastKeeps == ASSUME DeliveryInv, NEW h \in Handles, CloseCast(h) PROVE DeliveryInv'
<1>1. /\ Closed({h}) /\ UNCHANGED <<worldVars, heartbeats, fences, boundVars, crossed>>
      /\ failures' = failures
  BY DEF CloseCast
<1>2. failures' \in Seq(Handles)
  BY <1>1 DEF DeliveryInv, DeliveryTypes
<1>3. QED
  BY <1>1, <1>2, ClosedKeeps

LEMMA ReadFatalKeeps == ASSUME DeliveryInv, ReadFatal PROVE DeliveryInv'
<1> DEFINE h == Head(failures)
<1>1. /\ failures # <<>> /\ failures' = Tail(failures)
      /\ UNCHANGED <<worldVars, heartbeats, fences, boundVars, crossed>>
      /\ IF casts[h] = None THEN UNCHANGED <<casts, streams>> ELSE Closed({h})
  BY DEF ReadFatal
<1>2. failures \in Seq(Handles)
  BY DEF DeliveryInv, DeliveryTypes
<1>3. h \in Handles /\ failures' \in Seq(Handles)
  BY <1>1, <1>2, HeadTail
<1>4. ASSUME NEW k, Has(failures, k), k # h PROVE Has(failures', k)
  <2>1. /\ Head(failures) = failures[1] /\ Len(failures) \in Nat
        /\ DOMAIN failures = 1 .. Len(failures)
        /\ DOMAIN Tail(failures) = 1 .. Len(failures) - 1
        /\ \A i \in 1 .. Len(failures) - 1 : Tail(failures)[i] = failures[i + 1]
    BY <1>1, <1>2, HeadTailProperties, EmptySeq, LenProperties
  <2>2. PICK i \in 1 .. Len(failures) : failures[i] = k
    BY <1>4, <2>1 DEF Has
  <2>3. i # 1
    BY <1>4, <2>1, <2>2
  <2>4. i - 1 \in 1 .. Len(failures) - 1 /\ Tail(failures)[i - 1] = failures[(i - 1) + 1]
        /\ (i - 1) + 1 = i
    BY <2>1, <2>2, <2>3
  <2>5. QED
    BY <1>1, <2>1, <2>2, <2>4 DEF Has
<1> HIDE DEF h
<1>5. Closed({h})
  <2>1. CASE casts[h] = None
    <3>1. streams[h] = None
      BY <1>3, <2>1 DEF DeliveryInv, DeliveryTypes
    <3>2. casts \in [Handles -> Casts \cup {None}] /\ streams \in [Handles -> Streams \cup {None}]
      BY DEF DeliveryInv, DeliveryTypes
    <3>3. casts' = casts /\ streams' = streams
      BY <1>1, <2>1
    <3>4. /\ casts = [k \in Handles |-> IF k \in {h} THEN None ELSE casts[k]]
          /\ streams = [k \in Handles |-> IF k \in {h} THEN None ELSE streams[k]]
      BY <2>1, <3>1, <3>2
    <3>5. QED
      BY <3>3, <3>4 DEF Closed
  <2>2. CASE casts[h] # None
    BY <1>1, <2>2
  <2>3. QED
    BY <2>1, <2>2
<1>6. QED
  BY <1>1, <1>3, <1>4, <1>5, ClosedKeeps

\* A step that leaves every cast its kind and every stream its buffers keeps what is known
\* of them all.
LEMMA AllKept ==
    ASSUME DeliveryInv, sizes' \in [Kinds -> Nat],
           casts' \in [Handles -> Casts \cup {None}],
           heartbeats' \subseteq [handle : Handles, kind : Kinds],
           streams' \in [Handles -> Streams \cup {None}],
           fences' \subseteq Fences, IsFiniteSet(fences'), FencesApart(fences'),
           \A f \in fences' : f.life < starts,
           failures' \in Seq(Handles), \A h : Has(failures, h) => Has(failures', h),
           starts' = starts, crossed' \in BOOLEAN,
           \A h \in Handles : casts'[h] # None =>
              casts[h] # None /\ (streams'[h] = None <=> streams[h] = None),
           \A h \in Handles : streams'[h] # None =>
              /\ casts'[h] # None /\ streams[h] # None
              /\ streams'[h].state = streams[h].state /\ streams'[h].memory = streams[h].memory
              /\ streams'[h].life = streams[h].life
              /\ ~ crossed' => Whole(h, streams'[h], fences') /\ ShowsOwn(casts'[h], streams'[h])
    PROVE  DeliveryInv'
<1>1. DeliveryTypes'
  BY DEF DeliveryInv, DeliveryTypes
<1>2. FencesInv'
  BY DEF FencesInv
<1>3. StreamsInv'
  BY DEF StreamsInv
<1>4. NoSilentCast'
  <2>1. ASSUME NEW k \in Handles, casts'[k] # None PROVE Has(failures', k) \/ Well(k, streams'[k])
    <3>1. Has(failures, k) \/ Well(k, streams[k])
      BY <2>1, SilentIs DEF DeliveryInv
    <3>2. QED
      BY <2>1, <3>1 DEF Well
  <2>2. QED
    BY <2>1 DEF NoSilentCast, Has, Well, Stream
<1>5. QED
  BY <1>1, <1>2, <1>3, <1>4 DEF DeliveryInv

\* Frames of the same cast, whether its budget is used up or not.
LEMMA CastKept ==
    ASSUME NEW c, NEW d, c.kind = d.kind, c.embedded = d.embedded, NEW s, ShowsOwn(c, s)
    PROVE  ShowsOwn(d, s)
BY DEF ShowsOwn, FrameOf

\* The streams frames are delivered on top of
Prepared(before) ==
    \A h \in Handles :
       /\ StreamOf(h, before[h])
       /\ before[h] = None <=> streams[h] = None
       /\ before[h] # None =>
             before[h].state = streams[h].state /\ before[h].memory = streams[h].memory
       /\ ~ crossed => Sound(h, before[h])

\* What Deliver does, handle by handle.
Given(handles, result) ==
    /\ casts' \in [Handles -> Casts \cup {None}]
    /\ \A h \in Handles :
          IF h \in handles /\ result[h].closed THEN casts'[h] = None
          ELSE /\ casts[h] = None <=> casts'[h] = None
               /\ casts[h] # None => /\ casts'[h].kind = casts[h].kind
                                     /\ casts'[h].embedded = casts[h].embedded

LEMMA DeliverKeeps ==
    ASSUME DeliveryInv, NEW handles, handles \subseteq Handles,
           NEW source \in [handles -> Kinds], NEW before, Prepared(before),
           \A h \in handles : casts[h] # None,
           NEW budgeted \in BOOLEAN, Deliver(handles, source, before, budgeted),
           sizes' = sizes, starts' = starts,
           heartbeats' \subseteq [handle : Handles, kind : Kinds]
    PROVE  DeliveryInv'
<1>1. PICK rendering \in [handles -> Renderings] :
         LET result == [h \in handles |->
                          IF source[h] = "monitor" THEN FromMonitor(h, before[h], rendering[h])
                                                   ELSE FromWindow(h, before[h], rendering[h])]
             closed == {h \in handles : result[h].closed}
         IN  /\ casts' = [h \in Handles |-> IF h \in closed THEN None
                                            ELSE IF h \in handles /\ budgeted
                                            THEN [casts[h] EXCEPT !.rested = FALSE]
                                            ELSE casts[h]]
             /\ streams' = [h \in Handles |-> IF h \in handles THEN result[h].stream ELSE before[h]]
             /\ fences' = fences \cup UNION {result[h].awaited : h \in handles}
             /\ Fatal({h \in handles : result[h].fatal})
             /\ crossed' = (\/ crossed
                            \/ \E h \in handles : rendering[h] = "refused"
                            \/ \E h \in handles : source[h] # casts[h].kind)
  BY DEF Deliver
<1> DEFINE result == [h \in handles |->
                        IF source[h] = "monitor" THEN FromMonitor(h, before[h], rendering[h])
                                                 ELSE FromWindow(h, before[h], rendering[h])]
           new == UNION {result[h].awaited : h \in handles}
<1>2. /\ casts' = [h \in Handles |-> IF h \in handles /\ result[h].closed THEN None
                                     ELSE IF h \in handles /\ budgeted
                                     THEN [casts[h] EXCEPT !.rested = FALSE]
                                     ELSE casts[h]]
      /\ streams' = [h \in Handles |-> IF h \in handles THEN result[h].stream ELSE before[h]]
      /\ fences' = fences \cup new
      /\ Fatal({h \in handles : result[h].fatal})
      /\ crossed' \in BOOLEAN
      /\ ~ crossed' => /\ ~ crossed
                       /\ \A h \in handles : rendering[h] # "refused" /\ source[h] = casts[h].kind
  BY <1>1 DEF DeliveryInv, DeliveryTypes
<1>3. DeliveryTypes /\ DOMAIN result = handles
  BY DEF DeliveryInv
<1>4. ASSUME NEW h \in handles
      PROVE  /\ Delivered(h, before[h], result[h])
             /\ ~ crossed' => Faithful(h, before[h], result[h])
  <2>1. h \in Handles /\ StreamOf(h, before[h]) /\ casts[h] # None
    BY DEF Prepared
  <2>2. rendering[h] \in AllRenderings
    BY DEF Renderings, AllRenderings
  <2>3. ~ crossed' => Sound(h, before[h]) /\ rendering[h] # "refused" /\ source[h] = casts[h].kind
    BY <1>2, <2>1 DEF Prepared
  <2>4. CASE source[h] = "monitor"
    <3>1. result[h] = FromMonitor(h, before[h], rendering[h])
      BY <2>4
    <3> HIDE DEF result
    <3>2. QED
      BY <1>3, <2>1, <2>2, <2>3, <2>4, <3>1, MonitorDelivered
  <2>5. CASE source[h] # "monitor"
    <3>1. result[h] = FromWindow(h, before[h], rendering[h])
      BY <2>5
    <3> HIDE DEF result
    <3>2. QED
      BY <1>3, <2>1, <2>2, <2>3, <3>1, WindowDelivered
  <2>6. QED
    BY <2>4, <2>5
<1> HIDE DEF result
<1>5. /\ casts \in [Handles -> Casts \cup {None}] /\ streams \in [Handles -> Streams \cup {None}]
      /\ fences \subseteq Fences /\ IsFiniteSet(fences) /\ failures \in Seq(Handles)
      /\ \A h \in Handles : streams[h] # None => casts[h] # None /\ streams[h].life < starts
  BY DEF DeliveryInv, DeliveryTypes
<1>6. Given(handles, result)
  <2>1. ASSUME NEW h \in Handles, casts[h] # None
        PROVE  /\ [casts[h] EXCEPT !.rested = FALSE] \in Casts
               /\ [casts[h] EXCEPT !.rested = FALSE].kind = casts[h].kind
               /\ [casts[h] EXCEPT !.rested = FALSE].embedded = casts[h].embedded
    <3>1. casts[h] \in Casts
      BY <1>5, <2>1
    <3>2. QED
      BY <3>1 DEF Casts
  <2>2. ASSUME NEW h \in Handles
        PROVE  /\ casts'[h] \in Casts \cup {None}
               /\ IF h \in handles /\ result[h].closed THEN casts'[h] = None
                  ELSE /\ casts[h] = None <=> casts'[h] = None
                       /\ casts[h] # None => /\ casts'[h].kind = casts[h].kind
                                             /\ casts'[h].embedded = casts[h].embedded
    <3>1. casts'[h] = IF h \in handles /\ result[h].closed THEN None
                      ELSE IF h \in handles /\ budgeted THEN [casts[h] EXCEPT !.rested = FALSE]
                      ELSE casts[h]
      BY <1>2
    <3>2. casts[h] \in Casts \cup {None} /\ None \notin Casts
      BY <1>5, StreamsAssumption
    <3>3. CASE h \in handles /\ result[h].closed
      BY <3>1, <3>3
    <3>4. CASE ~ (h \in handles /\ result[h].closed) /\ h \in handles /\ budgeted
      BY <2>1, <3>1, <3>2, <3>4
    <3>5. CASE ~ (h \in handles /\ result[h].closed) /\ ~ (h \in handles /\ budgeted)
      BY <3>1, <3>2, <3>5
    <3>6. QED
      BY <3>3, <3>4, <3>5
  <2>3. DOMAIN casts' = Handles /\ casts' = [h \in Handles |-> casts'[h]]
    BY <1>2
  <2>4. casts' \in [Handles -> Casts \cup {None}]
    BY <2>2, <2>3
  <2>5. QED
    BY <2>2, <2>4 DEF Given
<1>7. \A h \in Handles : streams'[h] = IF h \in handles THEN result[h].stream ELSE before[h]
  BY <1>2
<1>8. streams' \in [Handles -> Streams \cup {None}]
  <2>1. \A h \in Handles :
           (IF h \in handles THEN result[h].stream ELSE before[h]) \in Streams \cup {None}
    BY <1>4 DEF Delivered, Prepared, StreamOf
  <2>2. QED
    BY <1>2, <2>1
<1>9. /\ \A f \in new : \E h \in handles : f \in result[h].awaited
      /\ \A h \in handles : \A f \in result[h].awaited : f \in new
  OBVIOUS
<1>10. new \subseteq Fences
  BY <1>4, <1>9 DEF Delivered
<1>11. IsFiniteSet(new)
  <2> DEFINE F == [h \in handles |-> result[h].awaited]
  <2>1. IsFiniteSet(handles)
    BY DeliveryFinite, FS_Subset
  <2>2. DOMAIN F = handles /\ {F[x] : x \in handles} = {result[h].awaited : h \in handles}
    OBVIOUS
  <2>3. \A T \in {F[x] : x \in handles} : IsFiniteSet(T)
    BY <1>4, <2>2 DEF Delivered
  <2> HIDE DEF F
  <2>4. IsFiniteSet({F[x] : x \in handles})
    BY <2>1, <2>2, FiniteValues
  <2>5. IsFiniteSet(UNION {F[x] : x \in handles})
    BY <2>3, <2>4, FS_UNION
  <2>6. QED
    BY <2>2, <2>5
<1> HIDE DEF new
<1>12. \A h \in handles : \A f \in result[h].awaited :
          /\ f.handle = h /\ before[h] # None /\ f.life = before[h].life
          /\ before[h].life = streams[h].life /\ streams[h] # None
          /\ \A g \in fences : g.handle = h /\ g.life = before[h].life => g.id # f.id
  BY <1>4 DEF Delivered, Prepared, StreamOf
<1>13. FencesApart(fences')
  <2>1. ASSUME NEW f \in new, NEW g \in new, f.handle = g.handle PROVE f = g
    <3>1. PICK h \in handles : f \in result[h].awaited
      BY <1>9
    <3>2. PICK k \in handles : g \in result[k].awaited
      BY <1>9
    <3>3. h = k
      BY <1>12, <2>1, <3>1, <3>2
    <3>4. QED
      BY <1>4, <3>1, <3>2, <3>3 DEF Delivered
  <2>2. ASSUME NEW f \in new, NEW g \in fences, f.handle = g.handle, f.life = g.life
        PROVE  f.id # g.id
    BY <1>9, <1>12, <2>2
  <2>3. FencesApart(fences)
    BY DEF DeliveryInv, FencesInv
  <2>4. QED
    BY <1>2, <2>1, <2>2, <2>3 DEF FencesApart
<1>14. \A f \in fences' : f.life < starts
  <2>1. \A f \in new : f.life < starts
    <3>1. TAKE f \in new
    <3>2. PICK h \in handles : f \in result[h].awaited
      BY <1>9
    <3>3. QED
      BY <1>5, <1>12, <3>2
  <2>2. QED
    BY <1>2, <2>1 DEF DeliveryInv, FencesInv
<1>15. /\ failures' \in Seq(Handles) /\ \A h : Has(failures, h) => Has(failures', h)
  BY <1>2, <1>5, FatalIs
<1>16. ASSUME NEW h \in Handles, casts'[h] # None
       PROVE  casts[h] # None /\ (streams'[h] = None <=> streams[h] = None)
  <2>1. ~ (h \in handles /\ result[h].closed) /\ casts[h] # None
    BY <1>6, <1>16 DEF Given
  <2>2. CASE h \in handles
    BY <1>4, <1>7, <2>1, <2>2 DEF Delivered, Prepared
  <2>3. CASE h \notin handles
    BY <1>7, <2>1, <2>3 DEF Prepared
  <2>4. QED
    BY <2>1, <2>2, <2>3
<1>17. ASSUME NEW h \in Handles, streams'[h] # None
       PROVE  /\ casts'[h] # None /\ streams[h] # None
              /\ streams'[h].state = streams[h].state /\ streams'[h].memory = streams[h].memory
              /\ streams'[h].life = streams[h].life
              /\ ~ crossed' => Whole(h, streams'[h], fences') /\ ShowsOwn(casts'[h], streams'[h])
  <2>1. /\ before[h] # None /\ streams[h] # None
        /\ ~ (h \in handles /\ result[h].closed)
        /\ streams'[h].state = before[h].state /\ streams'[h].memory = before[h].memory
        /\ streams'[h].life = before[h].life
    BY <1>4, <1>7, <1>17 DEF Delivered, Prepared
  <2>2. /\ before[h].state = streams[h].state /\ before[h].memory = streams[h].memory
        /\ before[h].life = streams[h].life
    BY <2>1 DEF Prepared, StreamOf
  <2>3. /\ casts[h] # None /\ casts'[h] # None
        /\ casts'[h].kind = casts[h].kind /\ casts'[h].embedded = casts[h].embedded
    BY <1>5, <1>6, <2>1 DEF Given
  <2>4. ASSUME ~ crossed' PROVE Whole(h, streams'[h], fences') /\ ShowsOwn(casts'[h], streams'[h])
    <3>1. CASE h \in handles
      <4>1. Whole(h, streams'[h], fences \cup result[h].awaited) /\ ShowsOwn(casts[h], streams'[h])
        BY <1>4, <1>7, <1>17, <2>4, <3>1 DEF Faithful
      <4>2. SameFences(h, fences \cup result[h].awaited, fences')
        BY <1>2, <1>9, <1>12, <3>1 DEF SameFences
      <4>3. QED
        BY <2>3, <4>1, <4>2, WholeFramed, CastKept
    <3>2. CASE h \notin handles
      <4>1. Whole(h, streams'[h], fences) /\ ShowsOwn(casts[h], streams'[h])
        BY <1>2, <1>7, <2>1, <2>4, <3>2 DEF Prepared, Sound
      <4>2. SameFences(h, fences, fences')
        BY <1>2, <1>9, <1>12, <3>2 DEF SameFences
      <4>3. QED
        BY <2>3, <4>1, <4>2, WholeFramed, CastKept
    <3>3. QED
      BY <3>1, <3>2
  <2>5. QED
    BY <2>1, <2>2, <2>3, <2>4
<1>18. /\ fences' \subseteq Fences /\ IsFiniteSet(fences') /\ sizes' \in [Kinds -> Nat]
  BY <1>2, <1>5, <1>10, <1>11, FS_Union DEF DeliveryInv, DeliveryTypes
<1>19. /\ casts' \in [Handles -> Casts \cup {None}] /\ crossed' \in BOOLEAN
  BY <1>2, <1>6 DEF Given
<1>20. QED
  BY <1>8, <1>13, <1>14, <1>15, <1>16, <1>17, <1>18, <1>19, AllKept

\* What is on screen changes: frames are no longer fresh, and that is all.
LEMMA AgedIs ==
    ASSUME NEW frame \in Frames, NEW pointerOnly \in BOOLEAN
    PROVE  /\ Aged(frame, pointerOnly) \in Frames
           /\ Aged(frame, pointerOnly).drawn = frame.drawn
           /\ \A cast : FrameOf(cast, frame) => FrameOf(cast, Aged(frame, pointerOnly))
<1>1. /\ [frame EXCEPT !.fresh = FALSE] \in Frames
      /\ [frame EXCEPT !.fresh = FALSE].drawn = frame.drawn
      /\ [frame EXCEPT !.fresh = FALSE].kind = frame.kind
      /\ [frame EXCEPT !.fresh = FALSE].pointer = frame.pointer
  BY DEF Frames
<1>2. [Corrupted EXCEPT !.fresh = FALSE] = Corrupted
  <2>1. \A c \in Frames : c.fresh = FALSE => [c EXCEPT !.fresh = FALSE] = c
    BY DEF Frames
  <2>2. Corrupted.fresh = FALSE
    BY DEF Corrupted
  <2>3. QED
    BY <2>1, <2>2, CorruptedIs
<1> DEFINE old == [frame EXCEPT !.fresh = FALSE]
<1>3. Aged(frame, pointerOnly) = frame \/ Aged(frame, pointerOnly) = old
  BY DEF Aged
<1>4. ASSUME NEW cast, FrameOf(cast, frame) PROVE FrameOf(cast, old)
  BY <1>1, <1>2, <1>4 DEF FrameOf
<1>5. old \in Frames /\ old.drawn = frame.drawn
  BY <1>1
<1> HIDE DEF old
<1>6. QED
  BY <1>3, <1>4, <1>5

LEMMA OutdatedIs ==
    ASSUME NEW s \in Streams, NEW pointerOnly \in BOOLEAN, NEW r, r = Outdated(s, pointerOnly)
    PROVE  /\ r \in Streams
           /\ r.state = s.state /\ r.memory = s.memory /\ r.idle = s.idle /\ r.queued = s.queued
           /\ r.pending = s.pending /\ r.pool = s.pool /\ r.life = s.life
           /\ r.seen = Aged(s.seen, pointerOnly)
           /\ \A b \in Slots : r.content[b] = Aged(s.content[b], pointerOnly)
<1>1. s # None
  BY StreamsAssumption
<1> DEFINE c == [b \in Slots |-> Aged(s.content[b], pointerOnly)]
<1>2. s.seen \in Frames /\ s.content \in [Slots -> Frames]
  BY DEF Streams
<1>3. c \in [Slots -> Frames] /\ Aged(s.seen, pointerOnly) \in Frames
  BY <1>2, AgedIs
<1>4. r = [s EXCEPT !.content = c, !.seen = Aged(s.seen, pointerOnly)]
  BY <1>1 DEF Outdated
<1>5. /\ \A b \in Slots : c[b] = Aged(s.content[b], pointerOnly)
  OBVIOUS
<1> HIDE DEF c
<1>6. r \in Streams
  BY <1>3, <1>4 DEF Streams
<1>7. r.content = c /\ r.seen = Aged(s.seen, pointerOnly)
  BY <1>4 DEF Streams
<1>8. /\ r.state = s.state /\ r.memory = s.memory /\ r.idle = s.idle /\ r.queued = s.queued
      /\ r.pending = s.pending /\ r.pool = s.pool /\ r.life = s.life
  BY <1>4 DEF Streams
<1>9. QED
  BY <1>5, <1>6, <1>7, <1>8

LEMMA OutdatedSound ==
    ASSUME DeliveryInv, ~ crossed, NEW h \in Handles, streams[h] # None,
           NEW pointerOnly \in BOOLEAN, NEW r, r = Outdated(streams[h], pointerOnly)
    PROVE  Whole(h, r, fences) /\ ShowsOwn(casts[h], r)
<1> DEFINE s == streams[h]
<1>1. s \in Streams /\ Whole(h, s, fences) /\ ShowsOwn(casts[h], s)
  BY StreamFacts
<1>2. /\ r.state = s.state /\ r.memory = s.memory /\ r.idle = s.idle /\ r.queued = s.queued
      /\ r.pending = s.pending /\ r.pool = s.pool /\ r.life = s.life
      /\ r.seen = Aged(s.seen, pointerOnly)
      /\ \A b \in Slots : r.content[b] = Aged(s.content[b], pointerOnly)
  BY <1>1, OutdatedIs
<1>3. /\ s.seen \in Frames /\ \A b \in Slots : s.content[b] \in Frames
      /\ \A p \in s.pending : p.slot \in Slots
  BY <1>1 DEF Streams, Holds
<1> HIDE DEF s
<1>4. \A b \in Slots : r.content[b].drawn = s.content[b].drawn
  BY <1>2, <1>3, AgedIs
<1>5. ShowsOwn(casts[h], r)
  BY <1>1, <1>2, <1>3, AgedIs DEF ShowsOwn
<1>6. HoldsFenced(h, r, fences)
  BY <1>1, <1>2 DEF Whole, HoldsFenced, Awaits
<1>7. Whole(h, r, fences)
  BY <1>1, <1>2, <1>3, <1>4, <1>6, WholeRedrawn
<1>8. QED
  BY <1>5, <1>7

LEMMA OutdatedPrepared ==
    ASSUME DeliveryInv, NEW pointerOnly \in BOOLEAN
    PROVE  Prepared([h \in Handles |-> Outdated(streams[h], pointerOnly)])
<1> DEFINE before == [h \in Handles |-> Outdated(streams[h], pointerOnly)]
<1>1. ASSUME NEW h \in Handles
      PROVE  /\ StreamOf(h, before[h])
             /\ before[h] = None <=> streams[h] = None
             /\ before[h] # None =>
                   before[h].state = streams[h].state /\ before[h].memory = streams[h].memory
             /\ ~ crossed => Sound(h, before[h])
  <2>1. before[h] = Outdated(streams[h], pointerOnly)
    OBVIOUS
  <2>2. CASE streams[h] = None
    BY <2>1, <2>2 DEF Outdated, StreamOf, Sound
  <2>3. CASE streams[h] # None
    <3>1. streams[h] \in Streams
      BY <2>3, StreamFacts
    <3>2. /\ before[h] \in Streams /\ before[h].life = streams[h].life
          /\ before[h].state = streams[h].state /\ before[h].memory = streams[h].memory
      BY <2>1, <3>1, OutdatedIs
    <3>3. ~ crossed => Whole(h, before[h], fences) /\ ShowsOwn(casts[h], before[h])
      BY <2>1, <2>3, OutdatedSound
    <3>4. before[h] # None
      BY <3>2, StreamsAssumption
    <3> HIDE DEF before
    <3>5. QED
      BY <2>3, <3>2, <3>3, <3>4 DEF StreamOf, Sound
  <2>4. QED
    BY <2>2, <2>3
<1> HIDE DEF before
<1>2. Prepared(before)
  BY <1>1 DEF Prepared
<1>3. QED
  BY <1>2 DEF before

LEMMA AsTheyArePrepared == ASSUME DeliveryInv PROVE Prepared(streams)
<1>1. ASSUME NEW h \in Handles PROVE StreamOf(h, streams[h]) /\ (~ crossed => Sound(h, streams[h]))
  BY StreamFacts DEF StreamOf, Sound, DeliveryInv, DeliveryTypes
<1>2. QED
  BY <1>1 DEF Prepared

LEMMA ChangeKeeps ==
    ASSUME DeliveryInv, NEW handles, handles \subseteq Handles,
           \A h \in handles : casts[h] # None,
           NEW pointerOnly \in BOOLEAN, Change(handles, pointerOnly)
    PROVE  DeliveryInv'
<1>1. Deliver(handles, [h \in handles |-> casts[h].kind],
              [h \in Handles |-> Outdated(streams[h], pointerOnly)], TRUE)
  BY DEF Change
<1>2. sizes' = sizes /\ starts' = starts /\ heartbeats' = heartbeats
  BY DEF Change, worldVars
<1>3. [h \in handles |-> casts[h].kind] \in [handles -> Kinds]
  <2>1. \A h \in handles : casts[h] \in Casts
    BY DEF DeliveryInv, DeliveryTypes
  <2>2. \A h \in handles : casts[h].kind \in Kinds
    BY <2>1 DEF Casts
  <2>3. QED
    BY <2>2
<1>4. heartbeats' \subseteq [handle : Handles, kind : Kinds]
  BY <1>2 DEF DeliveryInv, DeliveryTypes
<1>5. QED
  BY <1>1, <1>2, <1>3, <1>4, OutdatedPrepared, DeliverKeeps

LEMMA ChangesKeep == ASSUME DeliveryInv, ViewPresented \/ PointerMoves PROVE DeliveryInv'
<1>1. ASSUME ViewPresented PROVE DeliveryInv'
  <2> DEFINE handles == {h \in Handles : Due(h)}
  <2>1. handles \subseteq Handles /\ \A h \in handles : casts[h] # None
    BY DEF Due
  <2>2. Change(handles, FALSE)
    BY <1>1 DEF ViewPresented
  <2> HIDE DEF handles
  <2>3. QED
    BY <2>1, <2>2, ChangeKeeps
<1>2. ASSUME PointerMoves PROVE DeliveryInv'
  <2> DEFINE handles == {h \in Handles : Due(h) /\ casts[h].kind = "monitor" /\ casts[h].embedded}
  <2>1. handles \subseteq Handles /\ \A h \in handles : casts[h] # None
    BY DEF Due
  <2>2. Change(handles, TRUE)
    BY <1>2 DEF PointerMoves
  <2> HIDE DEF handles
  <2>3. QED
    BY <2>1, <2>2, ChangeKeeps
<1>3. QED
  BY <1>1, <1>2

LEMMA HeartbeatKeeps == ASSUME DeliveryInv, NEW t \in heartbeats, Heartbeat(t) PROVE DeliveryInv'
<1>1. t.handle \in Handles /\ t.kind \in Kinds
  BY DEF DeliveryInv, DeliveryTypes
<1>2. /\ Deliver({t.handle}, [h \in {t.handle} |-> t.kind], streams, FALSE)
      /\ sizes' = sizes /\ starts' = starts /\ casts[t.handle] # None
  BY DEF Heartbeat, worldVars
<1>3. heartbeats' \subseteq [handle : Handles, kind : Kinds]
  BY DEF Heartbeat, Rearmed, DeliveryInv, DeliveryTypes
<1>4. [h \in {t.handle} |-> t.kind] \in [{t.handle} -> Kinds] /\ {t.handle} \subseteq Handles
  BY <1>1
<1>5. \A h \in {t.handle} : casts[h] # None
  BY <1>2
<1>6. QED
  BY <1>2, <1>3, <1>4, <1>5, AsTheyArePrepared, DeliverKeeps

LEMMA HeartbeatEndsKeeps ==
    ASSUME DeliveryInv, NEW t \in heartbeats, HeartbeatEnds(t) PROVE DeliveryInv'
<1>1. /\ sizes' = sizes /\ casts' = casts /\ streams' = streams /\ fences' = fences
      /\ failures' = failures /\ starts' = starts /\ crossed' = crossed
      /\ heartbeats' \subseteq heartbeats
  BY DEF HeartbeatEnds, worldVars, streamVars, boundVars
<1>2. DeliveryTypes'
  BY <1>1 DEF DeliveryInv, DeliveryTypes
<1>3. FencesInv' /\ StreamsInv'
  BY <1>1 DEF DeliveryInv, FencesInv, StreamsInv
<1>4. NoSilentCast'
  BY <1>1 DEF DeliveryInv, NoSilentCast, Stream
<1>5. QED
  BY <1>2, <1>3, <1>4 DEF DeliveryInv

\* The frame budget is full again, or the source is another: no stream is touched.
LEMMA SourceKeeps ==
    ASSUME DeliveryInv, sizes' \in [Kinds -> Nat],
           UNCHANGED <<heartbeats, streamVars, starts, crossed>>,
           casts' \in [Handles -> Casts \cup {None}],
           \A h \in Handles : /\ casts[h] = None <=> casts'[h] = None
                              /\ casts[h] # None => /\ casts'[h].kind = casts[h].kind
                                                    /\ casts'[h].embedded = casts[h].embedded
    PROVE  DeliveryInv'
<1>1. /\ heartbeats' = heartbeats /\ streams' = streams /\ fences' = fences
      /\ failures' = failures /\ starts' = starts /\ crossed' = crossed
  BY DEF streamVars
<1>2. /\ heartbeats' \subseteq [handle : Handles, kind : Kinds]
      /\ streams' \in [Handles -> Streams \cup {None}]
      /\ fences' \subseteq Fences /\ IsFiniteSet(fences') /\ FencesApart(fences')
      /\ \A f \in fences' : f.life < starts
      /\ failures' \in Seq(Handles) /\ crossed' \in BOOLEAN
      /\ \A h : Has(failures, h) => Has(failures', h)
  BY <1>1 DEF DeliveryInv, DeliveryTypes, FencesInv
<1>3. ASSUME NEW h \in Handles, streams'[h] # None
      PROVE  /\ casts'[h] # None /\ streams[h] # None
             /\ streams'[h].state = streams[h].state /\ streams'[h].memory = streams[h].memory
             /\ streams'[h].life = streams[h].life
             /\ ~ crossed' => Whole(h, streams'[h], fences') /\ ShowsOwn(casts'[h], streams'[h])
  <2>1. /\ streams[h] # None /\ casts[h] # None
        /\ ~ crossed => Whole(h, streams[h], fences) /\ ShowsOwn(casts[h], streams[h])
    BY <1>1, <1>3, StreamFacts
  <2>2. /\ casts'[h] # None
        /\ casts'[h].kind = casts[h].kind /\ casts'[h].embedded = casts[h].embedded
    BY <2>1
  <2>3. ~ crossed => ShowsOwn(casts'[h], streams[h])
    BY <2>1, <2>2, CastKept
  <2>4. QED
    BY <1>1, <2>1, <2>2, <2>3
<1>4. \A h \in Handles : casts'[h] # None =>
         casts[h] # None /\ (streams'[h] = None <=> streams[h] = None)
  BY <1>1
<1>5. QED
  BY <1>1, <1>2, <1>3, <1>4, AllKept

LEMMA RestsKeeps == ASSUME DeliveryInv, NEW h \in Handles, Rests(h) PROVE DeliveryInv'
<1>1. /\ casts[h] # None /\ casts' = [casts EXCEPT ![h].rested = TRUE]
      /\ sizes' = sizes /\ UNCHANGED <<heartbeats, streamVars, starts, crossed>>
  BY DEF Rests, worldVars, boundVars
<1>2. casts \in [Handles -> Casts \cup {None}] /\ sizes' \in [Kinds -> Nat]
  BY <1>1 DEF DeliveryInv, DeliveryTypes
<1> DEFINE c == [casts[h] EXCEPT !.rested = TRUE]
<1>3. /\ c \in Casts /\ c.kind = casts[h].kind /\ c.embedded = casts[h].embedded
  BY <1>1, <1>2 DEF Casts
<1>4. casts' = [casts EXCEPT ![h] = c]
  BY <1>1
<1> HIDE DEF c
<1>5. /\ casts' \in [Handles -> Casts \cup {None}]
      /\ \A k \in Handles : casts'[k] = IF k = h THEN c ELSE casts[k]
  BY <1>2, <1>3, <1>4
<1>6. \A k \in Handles : /\ casts[k] = None <=> casts'[k] = None
                         /\ casts[k] # None => /\ casts'[k].kind = casts[k].kind
                                               /\ casts'[k].embedded = casts[k].embedded
  BY <1>1, <1>3, <1>5, StreamsAssumption
<1>7. QED
  BY <1>1, <1>2, <1>5, <1>6, SourceKeeps

LEMMA SourcesKeep ==
    ASSUME DeliveryInv, (\E kind \in Kinds : Resizes(kind)) \/ Unplug PROVE DeliveryInv'
<1>1. sizes \in [Kinds -> Nat] /\ casts \in [Handles -> Casts \cup {None}]
  BY DEF DeliveryInv, DeliveryTypes
<1>2. sizes' \in [Kinds -> Nat]
  BY <1>1 DEF Resizes, Unplug
<1>3. casts' = casts /\ UNCHANGED <<heartbeats, streamVars, starts, crossed>>
  BY DEF Resizes, Unplug, loopVars
<1>4. QED
  BY <1>1, <1>2, <1>3, SourceKeeps

\* The stream s once the picture in its buffer b is finished
Drawn(s, b) == [s EXCEPT !.content[b].drawn = TRUE]

LEMMA DrawnIs ==
    ASSUME NEW s \in Streams, NEW b \in Slots, NEW r, r = Drawn(s, b)
    PROVE  /\ r \in Streams
           /\ r.state = s.state /\ r.memory = s.memory /\ r.idle = s.idle /\ r.queued = s.queued
           /\ r.pending = s.pending /\ r.pool = s.pool /\ r.life = s.life /\ r.seen = s.seen
           /\ r.content[b].drawn
           /\ \A x \in Slots : s.content[x].drawn => r.content[x].drawn
           /\ \A cast : ShowsOwn(cast, s) => ShowsOwn(cast, r)
<1>1. s.content \in [Slots -> Frames]
  BY DEF Streams
<1> DEFINE frame == [s.content[b] EXCEPT !.drawn = TRUE]
           c == [s.content EXCEPT ![b] = frame]
<1>2. /\ frame \in Frames /\ frame.drawn /\ frame.kind = s.content[b].kind
      /\ frame.pointer = s.content[b].pointer
  BY <1>1 DEF Frames
<1>3. s.content[b] = Corrupted => frame = Corrupted
  <2>1. \A d \in Frames : d.drawn = TRUE => [d EXCEPT !.drawn = TRUE] = d
    BY DEF Frames
  <2>2. Corrupted.drawn = TRUE
    BY DEF Corrupted
  <2>3. QED
    BY <2>1, <2>2, CorruptedIs
<1>4. r = [s EXCEPT !.content = c]
  BY DEF Drawn
<1> HIDE DEF frame
<1>5. c \in [Slots -> Frames] /\ \A x \in Slots : c[x] = IF x = b THEN frame ELSE s.content[x]
  BY <1>1, <1>2
<1> HIDE DEF c
<1>6. /\ r \in Streams /\ r.content = c
      /\ r.state = s.state /\ r.memory = s.memory /\ r.idle = s.idle /\ r.queued = s.queued
      /\ r.pending = s.pending /\ r.pool = s.pool /\ r.life = s.life /\ r.seen = s.seen
  BY <1>4, <1>5 DEF Streams
<1>7. /\ r.content[b].drawn
      /\ \A x \in Slots : s.content[x].drawn => r.content[x].drawn
  BY <1>2, <1>5, <1>6
<1>8. ASSUME NEW cast, ShowsOwn(cast, s) PROVE ShowsOwn(cast, r)
  <2>1. FrameOf(cast, frame)
    BY <1>2, <1>3, <1>8 DEF ShowsOwn, FrameOf
  <2>2. QED
    BY <1>5, <1>6, <1>8, <2>1 DEF ShowsOwn
<1>9. QED
  BY <1>6, <1>7, <1>8

\* A fence is signaled: what is held back for it is drawn.
LEMMA WholeSignaled ==
    ASSUME NEW h, NEW s, NEW r, NEW F, Whole(h, s, F), FencesApart(F),
           \A p \in s.pending : p.slot \in Slots,
           NEW f \in F, NEW g, g.handle = f.handle, g.life = f.life, g.pool = f.pool,
           g.id = f.id, g.slot = f.slot,
           r.state = s.state, r.memory = s.memory, r.idle = s.idle, r.queued = s.queued,
           r.pending = s.pending, r.pool = s.pool, r.life = s.life,
           \A b \in Slots : s.content[b].drawn => r.content[b].drawn,
           f.handle = h /\ f.life = s.life /\ f.pool = s.pool => r.content[f.slot].drawn
    PROVE  Whole(h, r, (F \ {f}) \cup {g})
<1> DEFINE G == (F \ {f}) \cup {g}
<1>1. HoldsFenced(h, r, G)
  <2>1. SUFFICES ASSUME NEW p \in r.pending
                 PROVE  \E e \in G : Awaits(h, r, p, e) /\ e.pool = p.pool /\ e.slot = p.slot
    BY DEF HoldsFenced
  <2>2. PICK e \in F : Awaits(h, s, p, e) /\ e.pool = p.pool /\ e.slot = p.slot
    BY DEF Whole, HoldsFenced
  <2>3. CASE e = f
    BY <2>2, <2>3 DEF Awaits
  <2>4. CASE e # f
    BY <2>2, <2>4 DEF Awaits
  <2>5. QED
    BY <2>3, <2>4
<1>2. ASSUME NEW p \in s.pending, NEW e \in G,
             Awaits(h, s, p, e) /\ e.signaled /\ p.pool = s.pool, e \notin F
      PROVE  r.content[p.slot].drawn
  <2>1. e = g
    BY <1>2
  <2>2. Awaits(h, s, p, f)
    BY <1>2, <2>1 DEF Awaits
  <2>3. PICK d \in F : Awaits(h, s, p, d) /\ d.pool = p.pool /\ d.slot = p.slot
    BY DEF Whole, HoldsFenced
  <2>4. d = f
    BY <2>2, <2>3 DEF FencesApart, Awaits
  <2>5. QED
    BY <1>2, <2>2, <2>3, <2>4 DEF Awaits
<1> HIDE DEF G
<1>3. \A p \in s.pending, e \in G :
         Awaits(h, s, p, e) /\ e.signaled /\ p.pool = s.pool => r.content[p.slot].drawn \/ e \in F
  BY <1>2
<1>4. Whole(h, r, G)
  BY <1>1, <1>3, WholeRedrawn
<1>5. QED
  BY <1>4 DEF G

LEMMA GpuFinishesKeeps == ASSUME DeliveryInv, NEW f \in fences, GpuFinishes(f) PROVE DeliveryInv'
<1> DEFINE g == [f EXCEPT !.signaled = TRUE]
           k == f.handle
           hit == streams[k] # None /\ streams[k].life = f.life /\ streams[k].pool = f.pool
<1>1. /\ fences' = (fences \ {f}) \cup {g}
      /\ streams' = IF hit THEN [streams EXCEPT ![k].content[f.slot].drawn = TRUE] ELSE streams
      /\ sizes' = sizes /\ casts' = casts /\ heartbeats' = heartbeats /\ failures' = failures
      /\ starts' = starts /\ crossed' = crossed
  BY DEF GpuFinishes, worldVars, loopVars, boundVars
<1>2. /\ sizes \in [Kinds -> Nat] /\ casts \in [Handles -> Casts \cup {None}]
      /\ heartbeats \subseteq [handle : Handles, kind : Kinds]
      /\ streams \in [Handles -> Streams \cup {None}]
      /\ fences \subseteq Fences /\ IsFiniteSet(fences) /\ failures \in Seq(Handles)
      /\ crossed \in BOOLEAN /\ FencesApart(fences) /\ \A e \in fences : e.life < starts
  BY DEF DeliveryInv, DeliveryTypes, FencesInv
<1>3. /\ g \in Fences /\ g.handle = f.handle /\ g.life = f.life /\ g.pool = f.pool
      /\ g.id = f.id /\ g.slot = f.slot
  <2>1. f \in Fences
    BY <1>2
  <2>2. QED
    BY <2>1 DEF Fences
<1>4. k \in Handles /\ f.slot \in Slots
  BY <1>2 DEF Fences
<1> HIDE DEF g
<1>5. fences' \subseteq Fences /\ IsFiniteSet(fences')
  <2>1. IsFiniteSet({f}) /\ IsFiniteSet({g})
    BY FS_Singleton
  <2>2. IsFiniteSet(fences \ {f})
    BY <1>2, FS_Difference
  <2>3. QED
    BY <1>1, <1>2, <1>3, <2>1, <2>2, FS_Union
<1>6. FencesApart(fences') /\ \A e \in fences' : e.life < starts
  <2>1. \A e \in fences' : \E d \in fences :
           /\ d.handle = e.handle /\ d.life = e.life /\ d.id = e.id
           /\ e = IF d = f THEN g ELSE d
    BY <1>1, <1>3
  <2>2. ASSUME NEW e \in fences' PROVE e.life < starts
    <3>1. PICK d \in fences : d.life = e.life
      BY <2>1
    <3>2. QED
      BY <1>2, <3>1
  <2>3. ASSUME NEW e \in fences', NEW j \in fences',
               e.handle = j.handle, e.life = j.life, e.id = j.id
        PROVE  e = j
    <3>1. PICK d \in fences : /\ d.handle = e.handle /\ d.life = e.life /\ d.id = e.id
                             /\ e = IF d = f THEN g ELSE d
      BY <2>1
    <3>2. PICK c \in fences : /\ c.handle = j.handle /\ c.life = j.life /\ c.id = j.id
                             /\ j = IF c = f THEN g ELSE c
      BY <2>1
    <3>3. c = d
      BY <1>2, <2>3, <3>1, <3>2 DEF FencesApart
    <3>4. QED
      BY <3>1, <3>2, <3>3
  <2>4. QED
    BY <2>2, <2>3 DEF FencesApart
<1>7. \A h \in Handles : streams'[h] = IF hit /\ h = k THEN Drawn(streams[h], f.slot) ELSE streams[h]
  <2>1. CASE hit
    <3>1. streams' = [streams EXCEPT ![k] = Drawn(streams[k], f.slot)]
      BY <1>1, <2>1 DEF Drawn
    <3>2. QED
      BY <1>2, <1>4, <2>1, <3>1
  <2>2. CASE ~ hit
    BY <1>1, <2>2
  <2>3. QED
    BY <2>1, <2>2
<1>8. DOMAIN streams' = Handles /\ streams' = [h \in Handles |-> streams'[h]]
  BY <1>1, <1>2
<1>9. ASSUME NEW h \in Handles
      PROVE  /\ streams'[h] \in Streams \cup {None}
             /\ streams'[h] = None <=> streams[h] = None
             /\ streams'[h] # None =>
                   /\ casts'[h] # None /\ streams[h] # None
                   /\ streams'[h].state = streams[h].state
                   /\ streams'[h].memory = streams[h].memory /\ streams'[h].life = streams[h].life
                   /\ ~ crossed' => Whole(h, streams'[h], fences') /\ ShowsOwn(casts'[h], streams'[h])
  <2>1. CASE streams[h] = None
    BY <1>7, <2>1
  <2>2. CASE streams[h] # None
    <3> DEFINE s == streams[h]
               r == streams'[h]
    <3>1. /\ s \in Streams /\ casts[h] # None
          /\ ~ crossed => Whole(h, s, fences) /\ ShowsOwn(casts[h], s)
      BY <2>2, StreamFacts
    <3>2. \A p \in s.pending : p.slot \in Slots
      BY <3>1 DEF Streams, Holds
    <3>3. r = IF hit /\ h = k THEN Drawn(s, f.slot) ELSE s
      BY <1>7
    <3>4. f.handle = h /\ f.life = s.life /\ f.pool = s.pool => r = Drawn(s, f.slot)
      BY <2>2, <3>3
    <3> HIDE DEF s, r
    <3>5. /\ r \in Streams
          /\ r.state = s.state /\ r.memory = s.memory /\ r.idle = s.idle /\ r.queued = s.queued
          /\ r.pending = s.pending /\ r.pool = s.pool /\ r.life = s.life
          /\ \A b \in Slots : s.content[b].drawn => r.content[b].drawn
          /\ \A cast : ShowsOwn(cast, s) => ShowsOwn(cast, r)
          /\ f.handle = h /\ f.life = s.life /\ f.pool = s.pool => r.content[f.slot].drawn
      <4>1. CASE r = Drawn(s, f.slot)
        BY <1>4, <3>1, <4>1, DrawnIs
      <4>2. CASE r # Drawn(s, f.slot)
        <5>1. r = s /\ ~ (f.handle = h /\ f.life = s.life /\ f.pool = s.pool)
          BY <3>3, <3>4, <4>2
        <5>2. QED
          BY <3>1, <5>1
      <4>3. QED
        BY <4>1, <4>2
    <3>6. ~ crossed => Whole(h, r, fences') /\ ShowsOwn(casts[h], r)
      <4>1. ASSUME ~ crossed PROVE Whole(h, r, (fences \ {f}) \cup {g})
        BY <1>2, <1>3, <3>1, <3>2, <3>5, <4>1, WholeSignaled
      <4>2. QED
        BY <1>1, <3>1, <3>5, <4>1
    <3>7. r # None
      BY <3>5, StreamsAssumption
    <3>8. QED
      BY <1>1, <2>2, <3>1, <3>5, <3>6, <3>7 DEF s, r
  <2>3. QED
    BY <2>1, <2>2
<1>10. streams' \in [Handles -> Streams \cup {None}]
  BY <1>8, <1>9
<1>11. QED
  BY <1>1, <1>2, <1>5, <1>6, <1>9, <1>10, AllKept

\* A fence nothing of the stream waits for is taken off the loop.
LEMMA WholeUnfenced ==
    ASSUME NEW h, NEW s, NEW F, Whole(h, s, F), NEW f,
           \A p \in s.pending : ~ Awaits(h, s, p, f)
    PROVE  Whole(h, s, F \ {f})
BY DEF Whole, HoldsFenced, QueuedDrawn

\* What a fence's source hands over: the buffer p that is held back, if its set is still
\* there, and whatever PipeWire makes of it if not.
LEMMA ReleasedIs ==
    ASSUME NEW s \in Streams, NEW p \in s.pending, NEW left, left = [s EXCEPT !.pending = @ \ {p}],
           NEW r, r \in {Queue(left, p.slot)} \cup QueueGone(left, p.slot)
    PROVE  /\ r \in Streams /\ r.state = s.state /\ r.memory = s.memory /\ r.life = s.life
           /\ r.content = s.content /\ r.seen = s.seen
           /\ r = Queue(left, p.slot) =>
                 /\ r.idle = s.idle /\ r.pool = s.pool /\ r.pending = s.pending \ {p}
                 /\ r.queued = Append(s.queued, p.slot)
<1>1. /\ p.slot \in Slots /\ s.queued \in Seq(Slots) /\ s.idle \in Seq(Slots)
      /\ s.pending \ {p} \subseteq Holds
  BY DEF Streams, Holds
<1>2. Append(s.queued, p.slot) \in Seq(Slots) /\ Taken(s.idle, p.slot) \in Seq(Slots)
  BY <1>1, PutLast, TakenIs
<1>3. /\ left \in Streams /\ left.state = s.state /\ left.memory = s.memory /\ left.life = s.life
      /\ left.content = s.content /\ left.seen = s.seen /\ left.idle = s.idle
      /\ left.pool = s.pool /\ left.pending = s.pending \ {p} /\ left.queued = s.queued
  BY <1>1 DEF Streams
<1> DEFINE queued == [left EXCEPT !.queued = Append(s.queued, p.slot)]
           gone   == [left EXCEPT !.queued = Append(s.queued, p.slot), !.idle = Taken(s.idle, p.slot)]
<1>4. /\ queued \in Streams /\ queued.state = left.state /\ queued.memory = left.memory
      /\ queued.life = left.life /\ queued.content = left.content /\ queued.seen = left.seen
      /\ queued.idle = left.idle /\ queued.pool = left.pool /\ queued.pending = left.pending
      /\ queued.queued = Append(s.queued, p.slot)
  BY <1>2, <1>3 DEF Streams
<1>5. /\ gone \in Streams /\ gone.state = left.state /\ gone.memory = left.memory
      /\ gone.life = left.life /\ gone.content = left.content /\ gone.seen = left.seen
  BY <1>2, <1>3 DEF Streams
<1>6. Queue(left, p.slot) = queued /\ QueueGone(left, p.slot) = {left, gone}
  BY <1>3 DEF Queue, QueueGone
<1> HIDE DEF queued, gone
<1>7. r = queued \/ r = left \/ r = gone
  BY <1>6
<1>8. /\ r \in Streams /\ r.state = s.state /\ r.memory = s.memory /\ r.life = s.life
      /\ r.content = s.content /\ r.seen = s.seen
  BY <1>3, <1>4, <1>5, <1>7
<1>9. QED
  BY <1>3, <1>4, <1>6, <1>8

LEMMA FenceReadableKeeps == ASSUME DeliveryInv, NEW f \in fences, FenceReadable(f) PROVE DeliveryInv'
<1> DEFINE k == f.handle
           s == streams[k]
           taken == IF s = None THEN {} ELSE {p \in s.pending : p.id = f.id}
<1>1. /\ f.signaled /\ fences' = fences \ {f}
      /\ sizes' = sizes /\ casts' = casts /\ heartbeats' = heartbeats /\ failures' = failures
      /\ starts' = starts
  BY DEF FenceReadable, worldVars, loopVars, boundVars
<1>2. /\ sizes \in [Kinds -> Nat] /\ casts \in [Handles -> Casts \cup {None}]
      /\ heartbeats \subseteq [handle : Handles, kind : Kinds]
      /\ streams \in [Handles -> Streams \cup {None}]
      /\ fences \subseteq Fences /\ IsFiniteSet(fences) /\ failures \in Seq(Handles)
      /\ crossed \in BOOLEAN /\ FencesApart(fences) /\ \A e \in fences : e.life < starts
  BY DEF DeliveryInv, DeliveryTypes, FencesInv
<1>3. k \in Handles
  BY <1>2 DEF Fences
<1>4. fences' \subseteq Fences /\ IsFiniteSet(fences') /\ FencesApart(fences')
      /\ \A e \in fences' : e.life < starts
  <2>1. IsFiniteSet(fences \ {f})
    BY <1>2, FS_Difference
  <2>2. QED
    BY <1>1, <1>2, <2>1 DEF FencesApart
<1>5. ASSUME NEW h \in Handles, streams[h] # None, ~ crossed,
             \A p \in streams[h].pending : ~ Awaits(h, streams[h], p, f)
      PROVE  Whole(h, streams[h], fences') /\ ShowsOwn(casts'[h], streams[h])
  BY <1>1, <1>5, StreamFacts, WholeUnfenced
<1>6. CASE taken = {}
  <2>1. streams' = streams /\ crossed' = crossed
    BY <1>6 DEF FenceReadable
  <2>2. ASSUME NEW h \in Handles, streams'[h] # None
        PROVE  /\ casts'[h] # None /\ streams[h] # None
               /\ streams'[h].state = streams[h].state
               /\ streams'[h].memory = streams[h].memory /\ streams'[h].life = streams[h].life
               /\ ~ crossed' => Whole(h, streams'[h], fences') /\ ShowsOwn(casts'[h], streams'[h])
    <3>1. casts'[h] # None /\ streams[h] # None
      BY <1>1, <2>1, <2>2, StreamFacts
    <3>2. \A p \in streams[h].pending : ~ Awaits(h, streams[h], p, f)
      BY <1>6, <3>1 DEF Awaits
    <3>3. QED
      BY <1>5, <2>1, <3>1, <3>2
  <2>3. QED
    BY <1>1, <1>2, <1>4, <2>1, <2>2, AllKept
<1>7. CASE taken # {}
  <2>1. s # None /\ s \in Streams
    BY <1>2, <1>3, <1>7
  <2>2. PICK p \in taken :
          LET left == [s EXCEPT !.pending = @ \ {p}]
          IN  /\ \E after \in IF p.pool = s.pool /\ s.memory # {} THEN {Queue(left, p.slot)}
                                                  ELSE QueueGone(left, p.slot) :
                    streams' = [streams EXCEPT ![k] = after]
              /\ crossed' = (crossed \/ f.life # s.life \/ p.pool # s.pool \/ s.memory = {})
    BY <1>7 DEF FenceReadable
  <2> DEFINE left == [s EXCEPT !.pending = @ \ {p}]
  <2>3. PICK r \in IF p.pool = s.pool /\ s.memory # {} THEN {Queue(left, p.slot)}
                                                       ELSE QueueGone(left, p.slot) :
          streams' = [streams EXCEPT ![k] = r]
    BY <2>2
  <2>4. p \in s.pending /\ p.id = f.id
    BY <2>1
  <2>5. /\ r \in {Queue(left, p.slot)} \cup QueueGone(left, p.slot)
        /\ p.pool = s.pool /\ s.memory # {} => r = Queue(left, p.slot)
    BY <2>3
  <2>6. /\ r \in Streams /\ r.state = s.state /\ r.memory = s.memory /\ r.life = s.life
        /\ r.content = s.content /\ r.seen = s.seen
        /\ r = Queue(left, p.slot) =>
              /\ r.idle = s.idle /\ r.pool = s.pool /\ r.pending = s.pending \ {p}
              /\ r.queued = Append(s.queued, p.slot)
    <3>1. left = [s EXCEPT !.pending = @ \ {p}]
      OBVIOUS
    <3> HIDE DEF left
    <3>2. QED
      BY <2>1, <2>4, <2>5, <3>1, ReleasedIs
  <2>7. /\ crossed' \in BOOLEAN
        /\ ~ crossed' => ~ crossed /\ f.life = s.life /\ p.pool = s.pool /\ s.memory # {}
    BY <2>2
  <2> HIDE DEF left
  <2>8. r # None
    BY <2>6, StreamsAssumption
  <2>9. ASSUME ~ crossed' PROVE Whole(k, r, fences') /\ ShowsOwn(casts'[k], r)
    <3>1. /\ ~ crossed /\ f.life = s.life /\ p.pool = s.pool /\ s.memory # {}
          /\ r = Queue(left, p.slot)
      BY <2>5, <2>7, <2>9
    <3>2. Whole(k, s, fences) /\ ShowsOwn(casts[k], s)
      BY <1>3, <2>1, <3>1, StreamFacts
    <3>3. /\ s.queued \in Seq(Slots) /\ s.content \in [Slots -> Frames]
          /\ \A q \in s.pending : q \in Holds
      BY <2>1 DEF Streams
    <3>4. ShowsOwn(casts'[k], r)
      BY <1>1, <2>6, <3>2 DEF ShowsOwn
    <3>5. f.handle = k
      OBVIOUS
    <3> HIDE DEF s, k
    <3>6. Whole(k, r, fences \ {f})
      BY <1>1, <1>2, <2>4, <2>6, <3>1, <3>2, <3>3, <3>5, WholeReleased
    <3>7. QED
      BY <1>1, <3>4, <3>6
  <2>10. /\ streams' \in [Handles -> Streams \cup {None}]
         /\ \A h \in Handles : streams'[h] = IF h = k THEN r ELSE streams[h]
    BY <1>2, <1>3, <2>3, <2>6
  <2>11. ASSUME NEW h \in Handles, streams'[h] # None
         PROVE  /\ casts'[h] # None /\ streams[h] # None
                /\ streams'[h].state = streams[h].state
                /\ streams'[h].memory = streams[h].memory /\ streams'[h].life = streams[h].life
                /\ ~ crossed' => Whole(h, streams'[h], fences') /\ ShowsOwn(casts'[h], streams'[h])
    <3>1. CASE h = k
      <4>1. casts'[k] # None
        BY <1>1, <1>3, <2>1, StreamFacts
      <4>2. QED
        BY <2>1, <2>6, <2>9, <2>10, <3>1, <4>1
    <3>2. CASE h # k
      <4>1. streams'[h] = streams[h] /\ streams[h] # None /\ casts'[h] # None
        BY <1>1, <2>10, <2>11, <3>2, StreamFacts
      <4>2. \A q \in streams[h].pending : ~ Awaits(h, streams[h], q, f)
        BY <3>2 DEF Awaits
      <4>3. QED
        BY <1>5, <2>7, <4>1, <4>2
    <3>3. QED
      BY <3>1, <3>2
  <2>12. \A h \in Handles : casts'[h] # None =>
            casts[h] # None /\ (streams'[h] = None <=> streams[h] = None)
    BY <1>1, <2>1, <2>8, <2>10
  <2> HIDE DEF s, taken, k
  <2>13. QED
    BY <1>1, <1>2, <1>4, <2>7, <2>10, <2>11, <2>12, AllKept
<1>8. QED
  BY <1>6, <1>7

----------------------------------------------------------------------------
(* Every step *)

LEMMA PipeWireKeeps == ASSUME DeliveryInv, NEW h \in Handles, PipeWire(h) PROVE DeliveryInv'
<1>1. CASE Connects(h)
  BY <1>1, ConnectsKeeps
<1>2. CASE Breaks(h)
  BY <1>2, BreaksKeeps
<1>3. CASE Unusable(h)
  BY <1>3, UnusableKeeps
<1>4. CASE Fixate(h)
  BY <1>4, FixateKeeps
<1>5. CASE AgreeDmabuf(h) \/ AgreeMemory(h)
  BY <1>5, AgreeKeeps DEF AgreeDmabuf, AgreeMemory
<1>6. CASE AddBuffers(h)
  BY <1>6, AddBuffersKeeps
<1>7. CASE RemoveBuffers(h)
  BY <1>7, RemoveBuffersKeeps
<1>8. CASE Reads(h)
  BY <1>8, ReadsKeeps
<1>9. QED
  BY <1>1, <1>2, <1>3, <1>4, <1>5, <1>6, <1>7, <1>8 DEF PipeWire

LEMMA DeliveryInvInit == DeliveryInit => DeliveryInv
<1>1. SUFFICES ASSUME DeliveryInit PROVE DeliveryInv
  OBVIOUS
<1>2. <<>> \in Seq(Handles) /\ IsFiniteSet({})
  BY EmptyQueue, FS_EmptySet
<1>3. DeliveryTypes
  BY <1>1, <1>2 DEF DeliveryInit, DeliveryTypes
<1>4. FencesInv /\ StreamsInv
  BY <1>1 DEF DeliveryInit, FencesInv, FencesApart, StreamsInv
<1>5. NoSilentCast
  BY <1>1 DEF DeliveryInit, NoSilentCast
<1>6. QED
  BY <1>3, <1>4, <1>5 DEF DeliveryInv

LEMMA DeliveryInvNext == DeliveryInv /\ [DeliveryNext]_deliveryVars => DeliveryInv'
<1>1. SUFFICES ASSUME DeliveryInv, [DeliveryNext]_deliveryVars PROVE DeliveryInv'
  OBVIOUS
<1>2. CASE \E h \in Handles, kind \in Kinds, embedded \in BOOLEAN : StartCast(h, kind, embedded)
  BY <1>1, <1>2, StartCastKeeps
<1>3. CASE \E h \in Handles : CloseCast(h) \/ PipeWire(h) \/ Rests(h)
  BY <1>1, <1>3, CloseCastKeeps, PipeWireKeeps, RestsKeeps
<1>4. CASE ReadFatal
  BY <1>1, <1>4, ReadFatalKeeps
<1>5. CASE ViewPresented \/ PointerMoves
  BY <1>1, <1>5, ChangesKeep
<1>6. CASE \E t \in heartbeats : Heartbeat(t) \/ HeartbeatEnds(t)
  BY <1>1, <1>6, HeartbeatKeeps, HeartbeatEndsKeeps
<1>7. CASE \E f \in fences : GpuFinishes(f) \/ FenceReadable(f)
  BY <1>1, <1>7, GpuFinishesKeeps, FenceReadableKeeps
<1>8. CASE (\E kind \in Kinds : Resizes(kind)) \/ Unplug
  BY <1>1, <1>8, SourcesKeep
<1>9. CASE UNCHANGED deliveryVars
  <2>1. /\ sizes' = sizes /\ casts' = casts /\ heartbeats' = heartbeats /\ streams' = streams
        /\ fences' = fences /\ failures' = failures /\ starts' = starts /\ crossed' = crossed
    BY <1>9 DEF deliveryVars, worldVars, loopVars, streamVars, boundVars
  <2>2. DeliveryTypes'
    BY <1>1, <2>1 DEF DeliveryInv, DeliveryTypes
  <2>3. FencesInv' /\ StreamsInv'
    BY <1>1, <2>1 DEF DeliveryInv, FencesInv, StreamsInv
  <2>4. NoSilentCast'
    BY <1>1, <2>1 DEF DeliveryInv, NoSilentCast, Stream
  <2>5. QED
    BY <2>2, <2>3, <2>4 DEF DeliveryInv
<1>10. QED
  BY <1>1, <1>2, <1>3, <1>4, <1>5, <1>6, <1>7, <1>8, <1>9 DEF DeliveryNext

\* A buffer has as many places in a queue of distinct ones as it is in it.
LEMMA PlacesIn ==
    ASSUME NEW q, Distinct(q), NEW b
    PROVE  Cardinality({i \in DOMAIN q : q[i] = b}) = IF Has(q, b) THEN 1 ELSE 0
<1>1. CASE Has(q, b)
  <2>1. PICK i \in DOMAIN q : q[i] = b
    BY <1>1 DEF Has
  <2>2. {j \in DOMAIN q : q[j] = b} = {i}
    BY <2>1 DEF Distinct
  <2>3. QED
    BY <1>1, <2>2, FS_Singleton
<1>2. CASE ~ Has(q, b)
  <2>1. {j \in DOMAIN q : q[j] = b} = {}
    BY <1>2 DEF Has
  <2>2. QED
    BY <1>2, <2>1, FS_EmptySet
<1>3. QED
  BY <1>1, <1>2

LEMMA OnePlace ==
    ASSUME NEW s, BuffersPlaced(s), NEW b \in s.memory, s.memory \subseteq Slots
    PROVE  Places(s, b) = 1
<1> DEFINE taken == {p \in s.pending : p.slot = b /\ p.pool = s.pool}
<1>1. /\ Cardinality({i \in DOMAIN s.idle : s.idle[i] = b}) = IF Has(s.idle, b) THEN 1 ELSE 0
      /\ Cardinality({i \in DOMAIN s.queued : s.queued[i] = b}) = IF Has(s.queued, b) THEN 1 ELSE 0
  BY PlacesIn DEF BuffersPlaced
<1>2. Cardinality(taken) = IF \E p \in s.pending : p.pool = s.pool /\ p.slot = b THEN 1 ELSE 0
  <2>1. CASE \E p \in s.pending : p.pool = s.pool /\ p.slot = b
    <3>1. PICK p \in s.pending : p.pool = s.pool /\ p.slot = b
      BY <2>1
    <3>2. taken = {p}
      BY <3>1 DEF BuffersPlaced
    <3>3. QED
      BY <2>1, <3>2, FS_Singleton
  <2>2. CASE ~ \E p \in s.pending : p.pool = s.pool /\ p.slot = b
    <3>1. taken = {}
      BY <2>2
    <3>2. QED
      BY <2>2, <3>1, FS_EmptySet
  <2>3. QED
    BY <2>1, <2>2
<1>3. /\ ~ (Has(s.idle, b) /\ Has(s.queued, b))
      /\ (\E p \in s.pending : p.pool = s.pool /\ p.slot = b) => ~ Has(s.idle, b) /\ ~ Has(s.queued, b)
      /\ Has(s.idle, b) \/ Has(s.queued, b) \/ \E p \in s.pending : p.pool = s.pool /\ p.slot = b
  BY DEF BuffersPlaced
<1> HIDE DEF taken
<1>4. /\ (IF Has(s.idle, b) THEN 1 ELSE 0) + (IF Has(s.queued, b) THEN 1 ELSE 0)
         + (IF \E p \in s.pending : p.pool = s.pool /\ p.slot = b THEN 1 ELSE 0) = 1
  BY <1>3
<1>5. QED
  BY <1>1, <1>2, <1>4 DEF Places, taken

LEMMA DeliveryInvWholeFrames == DeliveryInv => WholeFrames
<1>1. SUFFICES ASSUME DeliveryInv, ~ crossed, NEW h \in Handles, Stream(h, {"streaming"}),
                      NEW s, s = streams[h]
               PROVE  /\ \A i \in DOMAIN s.queued : s.content[s.queued[i]].drawn
                      /\ \A b \in s.memory : Places(s, b) = 1
  BY DEF WholeFrames
<1>2. s \in Streams /\ Whole(h, s, fences)
  BY <1>1, StreamFacts DEF Stream
<1>3. s.queued \in Seq(Slots) /\ s.memory \subseteq Slots
  BY <1>2 DEF Streams
<1>4. ASSUME NEW i \in DOMAIN s.queued PROVE s.content[s.queued[i]].drawn
  <2>1. s.queued[i] \in Slots
    BY <1>3, LenProperties, ElementOfSeq
  <2>2. Has(s.queued, s.queued[i])
    BY DEF Has
  <2>3. QED
    BY <1>2, <2>1, <2>2 DEF Whole, QueuedDrawn
<1>5. \A b \in s.memory : Places(s, b) = 1
  BY <1>2, <1>3, OnePlace DEF Whole
<1>6. QED
  BY <1>4, <1>5

LEMMA DeliveryInvFramesAsApproved == DeliveryInv => FramesAsApproved
<1>1. SUFFICES ASSUME DeliveryInv, ~ crossed, NEW h \in Handles, casts[h] # None, streams[h] # None,
                      streams[h].seen # Corrupted
               PROVE  /\ streams[h].seen.kind = casts[h].kind
                      /\ streams[h].seen.pointer = (casts[h].embedded /\ casts[h].kind = "monitor")
  BY DEF FramesAsApproved
<1>2. ShowsOwn(casts[h], streams[h])
  BY <1>1, StreamFacts
<1>3. QED
  BY <1>1, <1>2 DEF ShowsOwn, FrameOf

\* The invariant of deliveries, by induction over their steps.
THEOREM DeliveryInvariant == DeliverySpec => []DeliveryInv
<1>1. QED
  BY DeliveryInvInit, DeliveryInvNext, PTL DEF DeliverySpec

\* The type invariant of a cast's delivery: what every variable holds, that no stream
\* outlives its cast (stop_stream goes with active_streams), and that a stream is told
\* from the ones before it of the same handle.
THEOREM DeliveryTypesHold == DeliverySpec => []DeliveryTypes
<1>1. DeliveryInv => DeliveryTypes
  BY DEF DeliveryInv
<1>2. QED
  BY <1>1, DeliveryInvariant, PTL

\* For any handles and buffers, and however many presents, failures and casts there are:
\* finish_dmabuf_frame and queue_deferred_frame never hand over a buffer the GPU still
\* draws into, nor lose one, nor hand one over twice.
THEOREM FramesWhole == DeliverySpec => []WholeFrames
<1>1. QED
  BY DeliveryInvariant, DeliveryInvWholeFrames, PTL

\* take_output_snapshot and capture_window_pixels give every consumer its own source,
\* with the pointer exactly if its cast embeds it, whatever else is cast.
THEOREM FramesApproved == DeliverySpec => []FramesAsApproved
<1>1. QED
  BY DeliveryInvariant, DeliveryInvFramesAsApproved, PTL

\* fatal, state_changed and add_buffer leave no cast without frames untold: the loop has
\* been sent the failure that closes it.
THEOREM SilentCastNever == DeliverySpec => []NoSilentCast
<1>1. DeliveryInv => NoSilentCast
  BY DEF DeliveryInv
<1>2. QED
  BY <1>1, DeliveryInvariant, PTL

----------------------------------------------------------------------------
(* The inductive invariant of the keys *)

KeyboardTypes ==
    /\ down \subseteq Keys /\ held \subseteq Keys /\ sent \subseteq Keys
    /\ verdicts \in Seq(Events) /\ pending \in Seq(Events)
    /\ consumed \subseteq Keys /\ forwarded \subseteq Keys /\ gameKeys \subseteq Keys
    /\ told \subseteq Keys /\ swallowed \subseteq Keys
    /\ gaming \in BOOLEAN /\ locked \in BOOLEAN /\ capturing \in BOOLEAN
    /\ recording \in BOOLEAN /\ typing \in BOOLEAN /\ focused \in BOOLEAN

\* The place i of a queue is a press of the key, or a release of it.
DownAt(q, k, i) == q[i].key = k /\ q[i].press = TRUE
UpAt(q, k, i)   == q[i].key = k /\ q[i].press = FALSE
Presses(q, k)   == \E i \in DOMAIN q : DownAt(q, k, i)
Releases(q, k)  == \E i \in DOMAIN q : UpAt(q, k, i)
LastAt(q, i)    == \A j \in DOMAIN q : j > i => q[j].key # q[i].key

\* What Flutter was told last of a key is whether it is held.
SentTold(q, s) == \A i \in DOMAIN q : LastAt(q, i) => (q[i].press = TRUE <=> q[i].key \in s)

\* What the keys of the seat, of Flutter and of the client have to do with each other.
HeldInv ==
    /\ held \subseteq down
    /\ \A k \in sent : k \in down \/ (k \in swallowed /\ k \notin Modifiers)
    /\ gaming /\ ~locked => sent = {}
    /\ locked \/ typing \/ ~focused => told = {}
    /\ typing => ~gaming

\* A press that is kept from the client, until the next verdict or after it.
IsPending(k) == Presses(pending, k)
Withholding  == {k \in Keys : IsPending(k) \/ k \in consumed}

\* A release of the key is to come from Flutter, or Flutter is still to be told of it.
Covered(q, s, k) == k \in s \/ Releases(q, k)

\* Between two presses of a key is its release, and before the first one if it is withheld.
Spaced(q, k, withheld) ==
    \A i \in DOMAIN q : DownAt(q, k, i) =>
        /\ withheld => \E l \in DOMAIN q : l < i /\ UpAt(q, k, l)
        /\ \A j \in DOMAIN q : j < i /\ DownAt(q, k, j) =>
              \E l \in DOMAIN q : j < l /\ l < i /\ UpAt(q, k, l)

\* Only modifiers are pending, a Super key among them, and each is consumed or pending.
PendingInv ==
    /\ \A i \in DOMAIN pending : pending[i].press = TRUE /\ pending[i].key \in Modifiers
    /\ pending # <<>> => IsPending("Super")
    /\ \A k \in Keys : IsPending(k) => k \notin consumed

\* What Flutter holds and is still to judge, and the keys withheld until it has.
FlutterHolds(q, s, withheld) ==
    /\ SentTold(q, s)
    /\ \A k \in withheld : Covered(q, s, k)
    /\ \A k \in Modifiers : Spaced(q, k, k \in withheld)

\* What Flutter will have judged once the keys are up.
StillDue(q, d, k) == IF k \in d THEN q \o <<Event(k, FALSE)>> ELSE q

NoPress(q, k, a, b) == \A j \in DOMAIN q : a < j /\ j < b => ~ DownAt(q, k, j)

\* A release among them goes out to the client: any does for a key that is sure to be
\* released; the first one for a key that is clean; and one that follows another.
Freed(q, k, clean, sure) ==
    \E i \in DOMAIN q :
       /\ UpAt(q, k, i)
       /\ \/ sure
          \/ clean /\ NoPress(q, k, 0, i)
          \/ \E l \in DOMAIN q : l < i /\ UpAt(q, k, l) /\ NoPress(q, k, l, i)

Clean(k) == ~ IsPending(k) /\ (k \in Modifiers \/ k \notin consumed)
Sure(k)  == k \notin Modifiers /\ k \in forwarded

ToldInv == \A k \in told \ swallowed : Freed(StillDue(verdicts, down, k), k, Clean(k), Sure(k))

KeyboardInv ==
    /\ KeyboardTypes /\ HeldInv /\ PendingInv
    /\ FlutterHolds(verdicts, sent, Withholding)
    /\ ToldInv

----------------------------------------------------------------------------
(* Events in queues *)

LEMMA EventIs ==
    /\ \A k \in Keys, b \in BOOLEAN : Event(k, b) \in Events /\ Event(k, b).key = k /\ Event(k, b).press = b
    /\ \A e \in Events : /\ e.key \in Keys /\ e.press \in BOOLEAN
                         /\ e = Event(e.key, e.press)
BY DEF Event, Events

LEMMA JoinIs ==
    ASSUME NEW q \in Seq(Events), NEW r \in Seq(Events)
    PROVE  /\ q \o r \in Seq(Events) /\ Len(q) \in Nat /\ Len(r) \in Nat
           /\ DOMAIN q = 1 .. Len(q) /\ DOMAIN r = 1 .. Len(r)
           /\ DOMAIN (q \o r) = 1 .. Len(q) + Len(r)
           /\ \A i \in 1 .. Len(q) : (q \o r)[i] = q[i]
           /\ \A i \in 1 .. Len(r) : (q \o r)[Len(q) + i] = r[i]
           /\ \A i \in 1 .. Len(q) + Len(r) : i \in 1 .. Len(q) \/ \E j \in 1 .. Len(r) : i = Len(q) + j
<1>1. \A i \in 1 .. Len(q) + Len(r) : i \in 1 .. Len(q) \/ i - Len(q) \in 1 .. Len(r)
  OBVIOUS
<1>2. \A i \in 1 .. Len(q) + Len(r) : i = Len(q) + (i - Len(q))
  OBVIOUS
<1>3. QED
  BY <1>1, <1>2

LEMMA RestIs ==
    ASSUME NEW q \in Seq(Events), q # <<>>
    PROVE  /\ Tail(q) \in Seq(Events) /\ Head(q) \in Events /\ Head(q) = q[1]
           /\ Len(q) \in Nat \ {0} /\ DOMAIN q = 1 .. Len(q)
           /\ DOMAIN Tail(q) = 1 .. Len(q) - 1
           /\ \A i \in 1 .. Len(q) - 1 : Tail(q)[i] = q[i + 1]
           /\ \A i \in 1 .. Len(q) : i = 1 \/ i - 1 \in 1 .. Len(q) - 1
OBVIOUS

LEMMA TailOfJoin ==
    ASSUME NEW q \in Seq(Events), q # <<>>, NEW r \in Seq(Events)
    PROVE  Tail(q \o r) = Tail(q) \o r /\ q \o r # <<>> /\ Head(q \o r) = Head(q)
OBVIOUS

LEMMA LastOf ==
    ASSUME NEW q \in Seq(Events), NEW i \in DOMAIN q
    PROVE  \E m \in DOMAIN q : m >= i /\ q[m].key = q[i].key /\ LastAt(q, m)
<1> DEFINE T == {n \in Nat : \E m \in DOMAIN q : m >= i /\ q[m].key = q[i].key /\ n = Len(q) - m}
<1>1. Len(q) \in Nat /\ DOMAIN q = 1 .. Len(q)
  OBVIOUS
<1>2. Len(q) - i \in T
  BY <1>1
<1>3. PICK n \in T : \A o \in T : n <= o
  BY <1>2, LeastNat
<1>4. PICK m \in DOMAIN q : m >= i /\ q[m].key = q[i].key /\ n = Len(q) - m
  OBVIOUS
<1>5. ASSUME NEW j \in DOMAIN q, j > m, q[j].key = q[m].key PROVE FALSE
  <2>1. Len(q) - j \in T
    BY <1>1, <1>4, <1>5
  <2>2. n <= Len(q) - j
    BY <2>1, <1>3
  <2>3. QED
    BY <2>2, <1>1, <1>4, <1>5
<1>6. QED
  BY <1>4, <1>5 DEF LastAt

LEMMA FirstUp ==
    ASSUME NEW q \in Seq(Events), NEW k, Releases(q, k)
    PROVE  \E m \in DOMAIN q : UpAt(q, k, m) /\ \A j \in DOMAIN q : j < m => ~ UpAt(q, k, j)
<1> DEFINE T == {n \in DOMAIN q : UpAt(q, k, n)}
<1>1. T \subseteq Nat /\ T # {}
  BY DEF Releases
<1>2. PICK m \in T : \A o \in T : m <= o
  BY <1>1, LeastNat
<1>3. QED
  BY <1>2

LEMMA OneIs ==
    ASSUME NEW e \in Events
    PROVE  <<e>> \in Seq(Events) /\ DOMAIN <<e>> = {1} /\ <<e>>[1] = e
OBVIOUS

\* What some events leave of a set: the keys they say nothing of, and those pressed last.
LEMMA AfterOne ==
    ASSUME NEW s \in SUBSET Keys, NEW e \in Events
    PROVE  /\ After(s, <<e>>) \subseteq Keys
           /\ e.press = TRUE \/ e.press = FALSE
           /\ e.press = TRUE => After(s, <<e>>) = s \cup {e.key}
           /\ e.press = FALSE => After(s, <<e>>) = s \ {e.key}
<1>1. e.key \in Keys /\ e.press \in BOOLEAN
  BY EventIs
<1>2. \A i \in DOMAIN <<e>> : i = 1 /\ <<e>>[i] = e
  BY OneIs
<1>3. 1 \in DOMAIN <<e>>
  BY OneIs
<1>4. After(s, <<e>>) = {k \in Keys : (k \in s /\ e.key # k) \/ (e.press /\ e.key = k)}
  BY <1>2, <1>3 DEF After
<1>5. QED
  BY <1>1, <1>4

LEMMA AfterNone ==
    ASSUME NEW s \in SUBSET Keys
    PROVE  After(s, <<>>) = s
BY DEF After

\* Presses alone add their keys.
LEMMA AfterPresses ==
    ASSUME NEW s \in SUBSET Keys, NEW q \in Seq(Events), \A i \in DOMAIN q : q[i].press = TRUE
    PROVE  \A k \in Keys : k \in After(s, q) <=> k \in s \/ Presses(q, k)
<1>1. SUFFICES ASSUME NEW k \in Keys PROVE k \in After(s, q) <=> k \in s \/ Presses(q, k)
  OBVIOUS
<1>2. CASE Presses(q, k)
  <2>1. PICK i \in DOMAIN q : q[i].key = k
    BY <1>2 DEF Presses, DownAt
  <2>2. PICK m \in DOMAIN q : q[m].key = k /\ LastAt(q, m)
    BY <2>1, LastOf
  <2>3. q[m].press
    BY Zenon
  <2>4. QED
    BY <2>2, <2>3, <1>2 DEF After, LastAt
<1>3. CASE ~ Presses(q, k)
  <2>1. \A i \in DOMAIN q : q[i].key # k
    BY <1>3 DEF Presses, DownAt
  <2>2. QED
    BY <2>1, <1>3 DEF After
<1>4. QED
  BY <1>2, <1>3

\* The last of the events settles its key, and leaves the others as the rest do.
LEMMA AfterLast ==
    ASSUME NEW s \in SUBSET Keys, NEW q \in Seq(Events), NEW e \in Events
    PROVE  /\ After(s, Append(q, e)) \subseteq Keys
           /\ e.key \in After(s, Append(q, e)) <=> e.press = TRUE
           /\ \A k \in Keys : k # e.key => (k \in After(s, Append(q, e)) <=> k \in After(s, q))
<1> DEFINE r == Append(q, e)
<1>1. /\ DOMAIN q = 1 .. Len(q) /\ Len(q) \in Nat /\ DOMAIN r = 1 .. Len(q) + 1
      /\ \A i \in 1 .. Len(q) : r[i] = q[i]
      /\ r[Len(q) + 1] = e
  OBVIOUS
<1>2. e.key \in Keys /\ e.press \in BOOLEAN
  BY EventIs
<1> HIDE DEF r
<1>3. \A i \in 1 .. Len(q) + 1 : i \in 1 .. Len(q) \/ i = Len(q) + 1
  BY <1>1
<1>4. e.key \in After(s, r) <=> e.press = TRUE
  <2>1. \A i \in DOMAIN r : ~ (i < Len(q) + 1 /\ \A j \in DOMAIN r : j > i => r[j].key # e.key)
    BY <1>1
  <2>2. Len(q) + 1 \in DOMAIN r /\ \A j \in DOMAIN r : ~ (j > Len(q) + 1)
    BY <1>1
  <2>3. \A i \in DOMAIN r : i < Len(q) + 1 \/ i = Len(q) + 1
    BY <1>1
  <2>4. e.key \in After(s, r) <=> \E i \in DOMAIN r :
          r[i].press /\ r[i].key = e.key /\ \A j \in DOMAIN r : j > i => r[j].key # e.key
    BY <1>1, <1>2, <2>2, Zenon DEF After
  <2>5. e.key \in After(s, r) <=> e.press
    BY <2>1, <2>2, <2>3, <2>4, <1>1, Zenon
  <2>6. QED
    BY <2>5, <1>2
<1>5. ASSUME NEW k \in Keys, k # e.key PROVE k \in After(s, r) <=> k \in After(s, q)
  <2>1. (\A i \in DOMAIN r : r[i].key # k) <=> \A i \in DOMAIN q : q[i].key # k
    BY <1>1, <1>3, <1>5
  <2>2. \A i \in DOMAIN q : (\A j \in DOMAIN r : j > i => r[j].key # k) <=> (\A j \in DOMAIN q : j > i => q[j].key # k)
    BY <1>1, <1>3, <1>5
  <2>3. (\E i \in DOMAIN r : r[i].press /\ r[i].key = k /\ \A j \in DOMAIN r : j > i => r[j].key # k)
        <=> \E i \in DOMAIN q : q[i].press /\ q[i].key = k /\ \A j \in DOMAIN q : j > i => q[j].key # k
    <3>1. \A i \in DOMAIN q : i \in DOMAIN r /\ r[i] = q[i]
      BY <1>1
    <3>2. \A i \in DOMAIN r : r[i].key = k => i \in DOMAIN q
      BY <1>1, <1>3, <1>5
    <3>3. QED
      BY <3>1, <3>2, <2>2, Zenon
  <2>4. QED
    BY <2>1, <2>3, Zenon DEF After
<1>6. After(s, r) \subseteq Keys
  BY DEF After
<1>7. QED
  BY <1>4, <1>5, <1>6 DEF r

----------------------------------------------------------------------------
(* What Flutter is told next *)

\* The places of a queue t that r follows q in.
Follows(t, q, r, k) ==
    /\ \A i \in DOMAIN q : i \in DOMAIN t /\ (DownAt(t, k, i) <=> DownAt(q, k, i))
                                         /\ (UpAt(t, k, i) <=> UpAt(q, k, i))
    /\ \A i \in DOMAIN r : /\ Len(q) + i \in DOMAIN t
                           /\ DownAt(t, k, Len(q) + i) <=> DownAt(r, k, i)
                           /\ UpAt(t, k, Len(q) + i) <=> UpAt(r, k, i)
    /\ \A i \in DOMAIN t : i \in DOMAIN q \/ \E j \in DOMAIN r : i = Len(q) + j
    /\ \A i \in DOMAIN q, j \in DOMAIN r : i < Len(q) + j
    /\ \A i \in DOMAIN t : i \in Int

LEMMA JoinPlaces ==
    ASSUME NEW q \in Seq(Events), NEW r \in Seq(Events), NEW k
    PROVE  Follows(q \o r, q, r, k)
<1> DEFINE t == q \o r
<1>1. /\ Len(q) \in Nat /\ Len(r) \in Nat
      /\ DOMAIN q = 1 .. Len(q) /\ DOMAIN r = 1 .. Len(r) /\ DOMAIN t = 1 .. Len(q) + Len(r)
      /\ \A i \in 1 .. Len(q) : t[i] = q[i]
      /\ \A i \in 1 .. Len(r) : t[Len(q) + i] = r[i]
      /\ \A i \in 1 .. Len(q) + Len(r) : i \in 1 .. Len(q) \/ \E j \in 1 .. Len(r) : i = Len(q) + j
  BY JoinIs
<1> HIDE DEF t
<1>2. \A i \in DOMAIN q : i \in DOMAIN t /\ t[i] = q[i]
  BY <1>1
<1>3. \A i \in DOMAIN r : Len(q) + i \in DOMAIN t /\ t[Len(q) + i] = r[i]
  BY <1>1
<1>4. \A i \in DOMAIN t : i \in DOMAIN q \/ \E j \in DOMAIN r : i = Len(q) + j
  BY <1>1
<1>5. \A i \in DOMAIN q, j \in DOMAIN r : i < Len(q) + j
  BY <1>1
<1>6. \A i \in DOMAIN t : i \in Int
  BY <1>1
<1>7. QED
  BY <1>2, <1>3, <1>4, <1>5, <1>6, Zenon DEF DownAt, UpAt, t, Follows

\* The release of whatever Flutter was told is held.
AllUp(r, s) ==
    /\ \A i \in DOMAIN r : r[i].press = FALSE
    /\ \A k \in Keys : Releases(r, k) <=> k \in s

LEMMA SentAppended ==
    ASSUME NEW q \in Seq(Events), NEW s \in SUBSET Keys, NEW e \in Events, SentTold(q, s)
    PROVE  SentTold(q \o <<e>>, After(s, <<e>>))
<1> DEFINE r == q \o <<e>>
<1>1. /\ DOMAIN q = 1 .. Len(q) /\ Len(q) \in Nat /\ DOMAIN r = 1 .. Len(q) + 1
      /\ \A i \in 1 .. Len(q) : r[i] = q[i] /\ q[i] \in Events
      /\ r[Len(q) + 1] = e
  OBVIOUS
<1>0. PICK t : /\ t = After(s, <<e>>) /\ e.key \in Keys /\ (e.press = TRUE \/ e.press = FALSE)
               /\ e.press = TRUE => t = s \cup {e.key}
               /\ e.press = FALSE => t = s \ {e.key}
  BY AfterOne, EventIs
<1> HIDE DEF r
<1>2. ASSUME NEW i \in DOMAIN r, LastAt(r, i)
      PROVE  r[i].press = TRUE <=> r[i].key \in t
  <2>1. CASE i = Len(q) + 1
    BY <2>1, <1>1, <1>0
  <2>2. CASE i # Len(q) + 1
    <3>1. i \in DOMAIN q /\ r[i] = q[i] /\ r[i].key # e.key
      BY <2>2, <1>1, <1>2 DEF LastAt
    <3>2. LastAt(q, i)
      BY <3>1, <1>1, <1>2 DEF LastAt
    <3>3. q[i].press = TRUE <=> q[i].key \in s
      BY <3>1, <3>2 DEF SentTold
    <3>4. q[i].key \in t <=> q[i].key \in s
      BY <3>1, <1>0
    <3>5. QED
      BY <3>1, <3>3, <3>4
  <2>3. QED
    BY <2>1, <2>2
<1>3. QED
  BY <1>0, <1>2 DEF SentTold, r

LEMMA SentReleased ==
    ASSUME NEW q \in Seq(Events), NEW s \in SUBSET Keys, NEW r \in Seq(Events), SentTold(q, s), AllUp(r, s)
    PROVE  SentTold(q \o r, {})
<1>1. ASSUME NEW i \in DOMAIN (q \o r), LastAt(q \o r, i), (q \o r)[i].press = TRUE PROVE FALSE
  <2>1. i \in DOMAIN q /\ (q \o r)[i] = q[i]
    <3>1. ASSUME NEW j \in DOMAIN r, i = Len(q) + j PROVE FALSE
      <4>1. (q \o r)[Len(q) + j] = r[j]
        BY JoinIs
      <4>2. r[j].press = FALSE
        BY DEF AllUp
      <4>3. QED
        BY <4>1, <4>2, <3>1, <1>1
    <3>2. QED
      BY <3>1, <1>1, JoinIs
  <2>2. LastAt(q, i)
    <3>1. \A j \in DOMAIN q : j \in DOMAIN (q \o r) /\ (q \o r)[j] = q[j]
      BY JoinIs
    <3>2. QED
      BY <2>1, <3>1, <1>1 DEF LastAt
  <2>3. q[i].key \in s /\ q[i].key \in Keys
    BY <2>1, <2>2, <1>1 DEF SentTold
  <2>4. PICK j \in DOMAIN r : r[j].key = q[i].key
    BY <2>3 DEF AllUp, Releases, UpAt
  <2>5. Len(q) + j \in DOMAIN (q \o r) /\ Len(q) + j > i /\ (q \o r)[Len(q) + j].key = (q \o r)[i].key
    <3>1. j \in 1 .. Len(r) /\ i \in 1 .. Len(q) /\ Len(q) \in Nat /\ Len(r) \in Nat
      BY <2>1
    <3>2. (q \o r)[Len(q) + j] = r[j] /\ DOMAIN (q \o r) = 1 .. Len(q) + Len(r)
      BY <3>1, JoinIs
    <3>3. Len(q) + j \in 1 .. Len(q) + Len(r) /\ Len(q) + j > i
      BY <3>1
    <3>4. QED
      BY <2>1, <2>4, <3>2, <3>3
  <2>6. QED
    BY <2>5, <1>1 DEF LastAt
<1>2. QED
  BY <1>1 DEF SentTold

\* A key whose last word was a press is held by Flutter.
LEMMA PressLast ==
    ASSUME NEW q \in Seq(Events), NEW s \in SUBSET Keys, SentTold(q, s),
           NEW k, NEW i \in DOMAIN q, q[i].key = k, k \notin s
    PROVE  \E m \in DOMAIN q : m >= i /\ UpAt(q, k, m) /\ \A j \in DOMAIN q : j > m => q[j].key # k
<1>1. PICK m \in DOMAIN q : m >= i /\ q[m].key = q[i].key /\ LastAt(q, m)
  BY LastOf
<1>2. q[m].press = FALSE
  BY <1>1, EventIs DEF SentTold
<1>3. QED
  BY <1>1, <1>2 DEF UpAt, LastAt

\* And one that is, was pressed last.
LEMMA ReleaseLast ==
    ASSUME NEW q \in Seq(Events), NEW s \in SUBSET Keys, SentTold(q, s),
           NEW k, NEW i \in DOMAIN q, q[i].key = k, k \in s
    PROVE  \E m \in DOMAIN q : m >= i /\ DownAt(q, k, m)
<1>1. PICK m \in DOMAIN q : m >= i /\ q[m].key = q[i].key /\ LastAt(q, m)
  BY LastOf
<1>2. q[m].press = TRUE
  BY <1>1 DEF SentTold
<1>3. QED
  BY <1>1, <1>2 DEF DownAt

LEMMA CoveredAppended ==
    ASSUME NEW q \in Seq(Events), NEW s \in SUBSET Keys, NEW e \in Events, NEW k \in Keys, Covered(q, s, k)
    PROVE  Covered(q \o <<e>>, After(s, <<e>>), k)
<1>0. PICK t : t = q \o <<e>> /\ Follows(t, q, <<e>>, k)
  BY OneIs, JoinPlaces
<1>1. CASE Releases(q, k)
  BY <1>0, <1>1 DEF Covered, Releases, Follows
<1>2. CASE k \in s /\ (k # e.key \/ e.press = TRUE)
  <2>1. (e.press = TRUE => After(s, <<e>>) = s \cup {e.key}) /\ (e.press = FALSE => After(s, <<e>>) = s \ {e.key})
    BY AfterOne
  <2>3. e.press = TRUE \/ e.press = FALSE
    BY AfterOne
  <2>4. k \in After(s, <<e>>)
    BY <1>2, <2>1, <2>3
  <2>2. QED
    BY <2>4 DEF Covered
<1>3. CASE k = e.key /\ e.press = FALSE
  <2>1. UpAt(<<e>>, k, 1) /\ 1 \in DOMAIN <<e>>
    BY <1>3, OneIs DEF UpAt
  <2>2. QED
    BY <1>0, <2>1 DEF Covered, Releases, Follows
<1>4. QED
  BY <1>1, <1>2, <1>3, AfterOne DEF Covered

LEMMA CoveredReleased ==
    ASSUME NEW q \in Seq(Events), NEW s \in SUBSET Keys, NEW r \in Seq(Events), NEW k \in Keys,
           Covered(q, s, k), AllUp(r, s)
    PROVE  Covered(q \o r, {}, k)
<1>0. PICK t : t = q \o r /\ Follows(t, q, r, k)
  BY JoinPlaces
<1>1. Releases(q, k) \/ Releases(r, k)
  BY DEF Covered, AllUp
<1>2. QED
  BY <1>0, <1>1 DEF Covered, Releases, Follows

LEMMA SpacedJoined ==
    ASSUME NEW q \in Seq(Events), NEW r \in Seq(Events), NEW k, NEW w, Spaced(q, k, w), ~ Presses(r, k)
    PROVE  Spaced(q \o r, k, w)
<1>0. PICK t : t = q \o r /\ Follows(t, q, r, k)
  BY JoinPlaces
<1>1. \A i \in DOMAIN t : DownAt(t, k, i) => i \in DOMAIN q /\ DownAt(q, k, i)
  BY <1>0 DEF Presses, Follows
<1>2. \A i \in DOMAIN q : i \in DOMAIN t /\ (UpAt(t, k, i) <=> UpAt(q, k, i))
  BY <1>0 DEF Follows
<1>3. Spaced(t, k, w)
  BY <1>1, <1>2 DEF Spaced
<1>4. QED
  BY <1>0, <1>3

\* A press of a key that Flutter does not hold.
LEMMA SpacedPressed ==
    ASSUME NEW q \in Seq(Events), NEW s \in SUBSET Keys, NEW k \in Keys, NEW w, NEW e \in Events,
           Spaced(q, k, w), SentTold(q, s), k \notin s, w => Covered(q, s, k)
    PROVE  Spaced(q \o <<e>>, k, w)
<1>0. PICK t : t = q \o <<e>> /\ Follows(t, q, <<e>>, k)
  BY OneIs, JoinPlaces
<1>1. ASSUME NEW j \in DOMAIN q, DownAt(q, k, j) PROVE \E l \in DOMAIN q : j < l /\ UpAt(q, k, l)
  <2>1. PICK m \in DOMAIN q : m >= j /\ UpAt(q, k, m)
    BY <1>1, PressLast DEF DownAt
  <2>2. m # j /\ m \in Int /\ j \in Int
    BY <2>1, <1>1, JoinIs DEF UpAt, DownAt
  <2>3. QED
    BY <2>1, <2>2
<1>2. ASSUME NEW i \in DOMAIN t, DownAt(t, k, i)
      PROVE  /\ w => \E l \in DOMAIN t : l < i /\ UpAt(t, k, l)
             /\ \A j \in DOMAIN t : j < i /\ DownAt(t, k, j) =>
                   \E l \in DOMAIN t : j < l /\ l < i /\ UpAt(t, k, l)
  <2>1. CASE i \in DOMAIN q
    <3>1. \A j \in DOMAIN t : j < i => j \in DOMAIN q
      BY <2>1, <1>0, JoinIs DEF Follows
    <3>2. QED
      BY <2>1, <1>2, <3>1, <1>0 DEF Spaced, Follows
  <2>2. CASE i = Len(q) + 1
    <3>1. \A j \in DOMAIN t : j < i => j \in DOMAIN q
      BY <2>2, <1>0, JoinIs, OneIs DEF Follows
    <3>2. \A l \in DOMAIN q : l < i
      BY <2>2, JoinIs, OneIs
    <3>3. w => Releases(q, k)
      BY DEF Covered
    <3>4. \A l \in DOMAIN q : l \in DOMAIN t /\ (UpAt(t, k, l) <=> UpAt(q, k, l))
                                           /\ (DownAt(t, k, l) <=> DownAt(q, k, l))
      BY <1>0 DEF Follows
    <3>5. QED
      BY <3>1, <3>2, <3>3, <3>4, <1>1 DEF Releases
  <2>3. QED
    BY <2>1, <2>2, <1>0, OneIs DEF Follows
<1>3. Spaced(t, k, w)
  BY <1>2 DEF Spaced
<1>4. QED
  BY <1>0, <1>3

----------------------------------------------------------------------------
(* What Flutter has judged *)

\* The places of what is left of a queue.
Leaves(t, q, k) ==
    /\ \A i \in DOMAIN t : /\ i \in Int /\ i > 0 /\ i + 1 \in DOMAIN q
                           /\ DownAt(t, k, i) <=> DownAt(q, k, i + 1)
                           /\ UpAt(t, k, i) <=> UpAt(q, k, i + 1)
    /\ \A i \in DOMAIN q : i \in Int /\ (i = 1 \/ (i > 1 /\ i - 1 \in DOMAIN t))
    /\ 1 \in DOMAIN q

LEMMA RestPlaces ==
    ASSUME NEW q \in Seq(Events), q # <<>>, NEW k
    PROVE  Leaves(Tail(q), q, k)
<1>1. PICK t : /\ t = Tail(q) /\ Len(q) \in Nat \ {0} /\ DOMAIN q = 1 .. Len(q)
               /\ DOMAIN t = 1 .. Len(q) - 1
               /\ \A i \in 1 .. Len(q) - 1 : t[i] = q[i + 1]
  BY RestIs
<1>2. \A i \in DOMAIN t : i \in Int /\ i > 0 /\ i + 1 \in DOMAIN q /\ t[i] = q[i + 1]
  BY <1>1
<1>3. \A i \in DOMAIN q : i \in Int /\ (i = 1 \/ (i > 1 /\ i - 1 \in DOMAIN t))
  BY <1>1
<1>4. 1 \in DOMAIN q
  BY <1>1
<1>5. QED
  BY <1>1, <1>2, <1>3, <1>4, Zenon DEF Leaves, DownAt, UpAt

LEMMA SentRest ==
    ASSUME NEW q \in Seq(Events), q # <<>>, NEW s, SentTold(q, s)
    PROVE  SentTold(Tail(q), s)
<1>1. PICK t : /\ t = Tail(q) /\ Len(q) \in Nat \ {0} /\ DOMAIN q = 1 .. Len(q)
               /\ DOMAIN t = 1 .. Len(q) - 1
               /\ \A i \in 1 .. Len(q) - 1 : t[i] = q[i + 1]
               /\ \A i \in 1 .. Len(q) : i = 1 \/ i - 1 \in 1 .. Len(q) - 1
  BY RestIs
<1>2. ASSUME NEW i \in DOMAIN t, LastAt(t, i) PROVE t[i].press = TRUE <=> t[i].key \in s
  <2>1. i + 1 \in DOMAIN q /\ t[i] = q[i + 1]
    BY <1>1
  <2>2. ASSUME NEW j \in DOMAIN q, j > i + 1 PROVE q[j].key # q[i + 1].key
    <3>1. j - 1 \in DOMAIN t /\ j - 1 > i /\ t[j - 1] = q[(j - 1) + 1] /\ (j - 1) + 1 = j
      BY <1>1, <2>2
    <3>2. t[j - 1].key # t[i].key
      BY <3>1, <1>2 DEF LastAt
    <3>3. QED
      BY <3>1, <3>2, <2>1
  <2>3. LastAt(q, i + 1)
    BY <2>2 DEF LastAt
  <2>4. QED
    BY <2>1, <2>3 DEF SentTold
<1>3. SentTold(t, s)
  BY <1>2 DEF SentTold
<1>4. QED
  BY <1>1, <1>3

LEMMA CoveredRest ==
    ASSUME NEW q \in Seq(Events), q # <<>>, NEW s \in SUBSET Keys, SentTold(q, s), NEW k,
           Covered(q, s, k) \/ DownAt(q, k, 1), ~ UpAt(q, k, 1)
    PROVE  Covered(Tail(q), s, k)
<1>0. PICK t : t = Tail(q) /\ Leaves(t, q, k)
  BY RestPlaces
<1>1. ASSUME NEW i \in DOMAIN q, UpAt(q, k, i) PROVE Releases(t, k)
  <2>1. i - 1 \in DOMAIN t /\ (i - 1) + 1 = i
    BY <1>0, <1>1 DEF Leaves
  <2>2. UpAt(t, k, i - 1)
    BY <1>0, <1>1, <2>1 DEF Leaves
  <2>3. QED
    BY <2>1, <2>2 DEF Releases
<1>2. Covered(q, s, k)
  <2>1. CASE DownAt(q, k, 1) /\ k \notin s
    <3>1. 1 \in DOMAIN q /\ q[1].key = k
      BY <1>0, <2>1 DEF Leaves, DownAt
    <3>2. \E m \in DOMAIN q : UpAt(q, k, m)
      BY <2>1, <3>1, PressLast
    <3>3. QED
      BY <3>2 DEF Covered, Releases
  <2>2. QED
    BY <2>1 DEF Covered
<1>3. QED
  BY <1>0, <1>1, <1>2 DEF Covered, Releases

LEMMA SpacedRest ==
    ASSUME NEW q \in Seq(Events), q # <<>>, NEW k, NEW w, NEW v, Spaced(q, k, w),
           v => (w \/ DownAt(q, k, 1)) /\ ~ UpAt(q, k, 1)
    PROVE  Spaced(Tail(q), k, v)
<1>0. PICK t : t = Tail(q) /\ Leaves(t, q, k)
  BY RestPlaces
<1>1. ASSUME NEW i \in DOMAIN t, DownAt(t, k, i)
      PROVE  /\ v => \E l \in DOMAIN t : l < i /\ UpAt(t, k, l)
             /\ \A j \in DOMAIN t : j < i /\ DownAt(t, k, j) =>
                   \E l \in DOMAIN t : j < l /\ l < i /\ UpAt(t, k, l)
  <2>1. i + 1 \in DOMAIN q /\ DownAt(q, k, i + 1) /\ i \in Int /\ i > 0
    BY <1>0, <1>1 DEF Leaves
  <2>2. ASSUME NEW l \in DOMAIN q, l < i + 1, l > 1, UpAt(q, k, l)
        PROVE  l - 1 \in DOMAIN t /\ l - 1 < i /\ UpAt(t, k, l - 1) /\ l \in Int
    <3>1. l \in Int /\ l - 1 \in DOMAIN t /\ (l - 1) + 1 = l
      BY <1>0, <2>2 DEF Leaves
    <3>2. UpAt(t, k, l - 1)
      BY <1>0, <2>2, <3>1 DEF Leaves
    <3>3. QED
      BY <2>1, <2>2, <3>1, <3>2
  <2>3. ASSUME v PROVE \E l \in DOMAIN t : l < i /\ UpAt(t, k, l)
    <3>1. \E l \in DOMAIN q : l < i + 1 /\ l > 1 /\ UpAt(q, k, l)
      <4>1. CASE w
        <5>1. PICK l \in DOMAIN q : l < i + 1 /\ UpAt(q, k, l)
          BY <2>1, <4>1 DEF Spaced
        <5>2. l > 1
          BY <5>1, <2>3, <1>0 DEF Leaves
        <5>3. QED
          BY <5>1, <5>2
      <4>2. CASE DownAt(q, k, 1)
        <5>1. 1 \in DOMAIN q /\ 1 < i + 1
          BY <1>0, <2>1 DEF Leaves
        <5>2. PICK l \in DOMAIN q : 1 < l /\ l < i + 1 /\ UpAt(q, k, l)
          BY <2>1, <4>2, <5>1 DEF Spaced
        <5>3. l > 1
          BY <5>2, <1>0 DEF Leaves
        <5>4. QED
          BY <5>2, <5>3
      <4>3. QED
        BY <4>1, <4>2, <2>3
    <3>2. QED
      BY <3>1, <2>2
  <2>4. ASSUME NEW j \in DOMAIN t, j < i, DownAt(t, k, j)
        PROVE  \E l \in DOMAIN t : j < l /\ l < i /\ UpAt(t, k, l)
    <3>1. j + 1 \in DOMAIN q /\ DownAt(q, k, j + 1) /\ j \in Int /\ j > 0
      BY <1>0, <2>4 DEF Leaves
    <3>2. j + 1 < i + 1
      BY <2>1, <2>4, <3>1
    <3>3. PICK l \in DOMAIN q : j + 1 < l /\ l < i + 1 /\ UpAt(q, k, l)
      BY <2>1, <3>1, <3>2 DEF Spaced
    <3>4. l \in Int
      BY <1>0 DEF Leaves
    <3>5. l > 1 /\ j < l - 1
      BY <3>1, <3>3, <3>4
    <3>6. QED
      BY <3>3, <3>5, <2>2
  <2>5. QED
    BY <2>3, <2>4
<1>2. Spaced(t, k, v)
  BY <1>1 DEF Spaced
<1>3. QED
  BY <1>0, <1>2

----------------------------------------------------------------------------
(* A release that goes out *)

LEMMA FreedMore ==
    ASSUME NEW q, NEW k, NEW c, NEW s, NEW d, NEW u, Freed(q, k, c, s), c => d, s => u
    PROVE  Freed(q, k, d, u)
BY Zenon DEF Freed

LEMMA FreedJoined ==
    ASSUME NEW q \in Seq(Events), NEW r \in Seq(Events), NEW k, NEW c, NEW s, Freed(q, k, c, s)
    PROVE  Freed(q \o r, k, c, s)
<1>0. PICK t : t = q \o r /\ Follows(t, q, r, k)
  BY JoinPlaces
<1>1. \A i \in DOMAIN q : \A j \in DOMAIN t : j < i => j \in DOMAIN q
  BY <1>0, JoinIs DEF Follows
<1>2. \A i \in DOMAIN q : i \in DOMAIN t /\ (DownAt(t, k, i) <=> DownAt(q, k, i))
                                         /\ (UpAt(t, k, i) <=> UpAt(q, k, i))
  BY <1>0 DEF Follows
<1>3. Freed(t, k, c, s)
  BY <1>1, <1>2 DEF Freed, NoPress
<1>4. QED
  BY <1>0, <1>3

\* What is told before the last release is no press of its key.
LEMMA FreedInserted ==
    ASSUME NEW q \in Seq(Events), NEW r \in Seq(Events), NEW u \in Events, NEW k, NEW c, NEW s,
           u.key = k, u.press = FALSE, Freed(q \o <<u>>, k, c, s), ~ Presses(r, k)
    PROVE  Freed((q \o r) \o <<u>>, k, c, s)
<1>0. <<u>> \in Seq(Events) /\ DOMAIN <<u>> = {1} /\ <<u>>[1] = u /\ q \o r \in Seq(Events)
  BY OneIs, JoinIs
<1>1. PICK a : a = q \o <<u>> /\ Follows(a, q, <<u>>, k)
  BY <1>0, JoinPlaces
<1>13. PICK b : b = q \o r
  OBVIOUS
<1>14. Follows(b, q, r, k) /\ b \in Seq(Events)
  BY <1>0, <1>13, JoinPlaces, Zenon
<1>15. /\ Len(b) \in Nat /\ Len(q) \in Nat /\ Len(r) \in Nat
       /\ Len(b) = Len(q) + Len(r) /\ DOMAIN b = 1 .. Len(b) /\ DOMAIN q = 1 .. Len(q)
  BY <1>13
<1>3. PICK t : t = b \o <<u>> /\ Follows(t, b, <<u>>, k)
  BY <1>0, <1>13, <1>14, <1>15, JoinPlaces
<1>4. UpAt(<<u>>, k, 1) /\ 1 \in DOMAIN <<u>>
  BY <1>0 DEF UpAt
<1>5. \A i \in DOMAIN q : /\ i \in DOMAIN b /\ i \in DOMAIN a /\ i \in DOMAIN t /\ i \in Int
                          /\ DownAt(t, k, i) <=> DownAt(a, k, i)
                          /\ UpAt(t, k, i) <=> UpAt(a, k, i)
  BY <1>1, <1>13, <1>14, <1>15, <1>3 DEF Follows
<1>6. Len(b) + 1 \in DOMAIN t /\ UpAt(t, k, Len(b) + 1)
  BY <1>0, <1>3, <1>4 DEF Follows
<1>7. \A j \in DOMAIN t : j < Len(b) + 1 /\ DownAt(t, k, j) => j \in DOMAIN q
  <2>1. ASSUME NEW j \in DOMAIN t, j < Len(b) + 1, DownAt(t, k, j) PROVE j \in DOMAIN b /\ DownAt(b, k, j)
    <3>1. j \in DOMAIN b
      BY <2>1, <1>0, <1>13, <1>14, <1>15, <1>3 DEF Follows
    <3>2. QED
      BY <3>1, <2>1, <1>3 DEF Follows
  <2>2. ASSUME NEW j \in DOMAIN b, DownAt(b, k, j) PROVE j \in DOMAIN q
    BY <2>2, <1>13, <1>14, <1>15 DEF Follows, Presses
  <2>3. QED
    BY <2>1, <2>2
<1>8. \A i \in DOMAIN q : \A j \in DOMAIN t : j < i => j \in DOMAIN q
  <2>1. SUFFICES ASSUME NEW i \in DOMAIN q, NEW j \in DOMAIN t, j < i PROVE j \in DOMAIN q
    OBVIOUS
  <2>2. j \in DOMAIN b
    BY <2>1, <1>0, <1>13, <1>14, <1>15, <1>3 DEF Follows
  <2>3. QED
    BY <2>1, <2>2, <1>13, <1>14, <1>15
<1>9. PICK i \in DOMAIN a : UpAt(a, k, i) /\ (s \/ (c /\ NoPress(a, k, 0, i))
                               \/ \E l \in DOMAIN a : l < i /\ UpAt(a, k, l) /\ NoPress(a, k, l, i))
  BY <1>1 DEF Freed
<1>10. \A j \in DOMAIN a : j \in DOMAIN q \/ j = Len(q) + 1
  BY <1>0, <1>1 DEF Follows
<1>11. CASE i \in DOMAIN q
  <2>1. ASSUME NEW m, NoPress(a, k, m, i) PROVE NoPress(t, k, m, i)
    BY <1>5, <1>8, <1>11, <2>1 DEF NoPress
  <2>2. \A l \in DOMAIN a : l < i => l \in DOMAIN q
    BY <1>10, <1>11, <1>13, <1>14, <1>15
  <2>3. Freed(t, k, c, s)
    BY <1>5, <1>9, <1>11, <2>1, <2>2 DEF Freed
  <2>4. QED
    BY <2>3, <1>13, <1>14, <1>15, <1>3
<1>12. CASE i = Len(q) + 1
  <2>0. \A j \in DOMAIN q : j < i /\ j < Len(b) + 1
    BY <1>13, <1>14, <1>15, <1>12
  <2>1. ASSUME NEW m, NoPress(a, k, m, i) PROVE NoPress(t, k, m, Len(b) + 1)
    BY <1>5, <1>7, <1>12, <2>0, <2>1 DEF NoPress
  <2>2. \A l \in DOMAIN a : l < i => l \in DOMAIN q
    BY <1>10, <1>12, <1>13, <1>14, <1>15
  <2>3. Freed(t, k, c, s)
    BY <1>5, <1>6, <1>9, <2>0, <2>1, <2>2 DEF Freed
  <2>4. QED
    BY <2>3, <1>13, <1>14, <1>15, <1>3
<1>16. QED
  BY <1>10, <1>11, <1>12

\* An event that does not bring the release forward is judged.
LEMMA FreedRest ==
    ASSUME NEW q \in Seq(Events), q # <<>>, NEW k, NEW c, NEW s, NEW d, NEW u, Freed(q, k, c, s),
           ~ UpAt(q, k, 1), DownAt(q, k, 1) \/ (c => d), s => u
    PROVE  Freed(Tail(q), k, d, u)
<1>0. PICK t : t = Tail(q) /\ Leaves(t, q, k)
  BY RestPlaces
<1>1. PICK i \in DOMAIN q : UpAt(q, k, i) /\ (s \/ (c /\ NoPress(q, k, 0, i))
                               \/ \E l \in DOMAIN q : l < i /\ UpAt(q, k, l) /\ NoPress(q, k, l, i))
  BY DEF Freed
<1>2. \A l \in DOMAIN q : UpAt(q, k, l) => /\ l - 1 \in DOMAIN t /\ (l - 1) + 1 = l /\ l > 1 /\ l \in Int
                                           /\ UpAt(t, k, l - 1)
  <2>1. SUFFICES ASSUME NEW l \in DOMAIN q, UpAt(q, k, l)
                 PROVE  l - 1 \in DOMAIN t /\ (l - 1) + 1 = l /\ l > 1 /\ l \in Int /\ UpAt(t, k, l - 1)
    OBVIOUS
  <2>2. l # 1
    BY <2>1
  <2>3. l - 1 \in DOMAIN t /\ l \in Int /\ l > 1 /\ (l - 1) + 1 = l
    BY <2>2, <1>0 DEF Leaves
  <2>4. UpAt(t, k, l - 1)
    BY <2>1, <2>3, <1>0 DEF Leaves
  <2>5. QED
    BY <2>3, <2>4
<1>3. ASSUME NEW l \in Int, NEW m \in Int, NoPress(q, k, l, m) PROVE NoPress(t, k, l - 1, m - 1)
  <2>1. \A j \in DOMAIN t : j \in Int /\ j + 1 \in DOMAIN q /\ (DownAt(t, k, j) => DownAt(q, k, j + 1))
    BY <1>0 DEF Leaves
  <2>2. \A j \in DOMAIN t : l - 1 < j /\ j < m - 1 => l < j + 1 /\ j + 1 < m
    BY <2>1
  <2>3. QED
    BY <2>1, <2>2, <1>3 DEF NoPress
<1>4. CASE s
  BY <1>0, <1>1, <1>2, <1>4 DEF Freed
<1>5. CASE c /\ NoPress(q, k, 0, i)
  <2>1. ~ DownAt(q, k, 1) /\ i \in Int /\ i > 1
    BY <1>0, <1>1, <1>2, <1>5 DEF Leaves, NoPress
  <2>2. NoPress(t, k, 0 - 1, i - 1)
    BY <1>3, <1>5, <2>1
  <2>3. NoPress(t, k, 0, i - 1)
    BY <2>2, <1>0 DEF NoPress, Leaves
  <2>4. d
    BY <2>1, <1>5
  <2>5. Freed(t, k, d, u)
    BY <1>1, <1>2, <2>3, <2>4 DEF Freed
  <2>6. QED
    BY <1>0, <2>5
<1>6. CASE \E l \in DOMAIN q : l < i /\ UpAt(q, k, l) /\ NoPress(q, k, l, i)
  <2>1. PICK l \in DOMAIN q : l < i /\ UpAt(q, k, l) /\ NoPress(q, k, l, i)
    BY <1>6
  <2>2. NoPress(t, k, l - 1, i - 1) /\ l - 1 < i - 1
    BY <2>1, <1>1, <1>2, <1>3
  <2>3. i - 1 \in DOMAIN t /\ l - 1 \in DOMAIN t /\ UpAt(t, k, i - 1) /\ UpAt(t, k, l - 1)
    BY <2>1, <1>1, <1>2
  <2>4. Freed(t, k, d, u)
    BY <2>2, <2>3 DEF Freed
  <2>5. QED
    BY <1>0, <2>4
<1>7. QED
  BY <1>1, <1>4, <1>5, <1>6

\* The one release that was withheld is judged, and its key is clean from then on.
LEMMA FreedGone ==
    ASSUME NEW q \in Seq(Events), q # <<>>, NEW k, NEW u, Freed(q, k, FALSE, FALSE)
    PROVE  Freed(Tail(q), k, TRUE, u)
<1>0. PICK t : t = Tail(q) /\ Leaves(t, q, k)
  BY RestPlaces
<1>1. PICK i \in DOMAIN q, l \in DOMAIN q : UpAt(q, k, i) /\ l < i /\ UpAt(q, k, l) /\ NoPress(q, k, l, i)
  BY DEF Freed
<1>8. l \in Int /\ (l = 1 \/ (l > 1 /\ l - 1 \in DOMAIN t))
  BY <1>0 DEF Leaves
<1>9. i \in Int /\ (i = 1 \/ (i > 1 /\ i - 1 \in DOMAIN t))
  BY <1>0 DEF Leaves
<1>2. l >= 1 /\ i > 1 /\ i - 1 \in DOMAIN t /\ (i - 1) + 1 = i
  BY <1>1, <1>8, <1>9
<1>3. UpAt(t, k, i - 1)
  BY <1>0, <1>1, <1>2 DEF Leaves
<1>4. NoPress(t, k, l - 1, i - 1)
  <2>1. \A j \in DOMAIN t : j \in Int /\ j + 1 \in DOMAIN q /\ (DownAt(t, k, j) => DownAt(q, k, j + 1))
    BY <1>0 DEF Leaves
  <2>2. \A j \in DOMAIN t : l - 1 < j /\ j < i - 1 => l < j + 1 /\ j + 1 < i
    BY <2>1, <1>8, <1>9
  <2>3. QED
    BY <2>1, <2>2, <1>1 DEF NoPress
<1>5. CASE l = 1
  BY <1>0, <1>2, <1>3, <1>4, <1>5 DEF Freed
<1>6. CASE l > 1
  <2>1. l - 1 \in DOMAIN t /\ (l - 1) + 1 = l /\ l - 1 < i - 1
    BY <1>1, <1>6, <1>8, <1>9
  <2>2. UpAt(t, k, l - 1)
    BY <1>0, <1>1, <2>1 DEF Leaves
  <2>3. Freed(t, k, TRUE, u)
    BY <1>2, <1>3, <1>4, <2>1, <2>2 DEF Freed
  <2>4. QED
    BY <1>0, <2>3
<1>7. QED
  BY <1>8, <1>5, <1>6

\* Any release frees a key that is sure to be released.
LEMMA FreedAny ==
    ASSUME NEW q, NEW k, NEW c, Releases(q, k)
    PROVE  Freed(q, k, c, TRUE)
BY DEF Freed, Releases

\* The first release frees a key whose presses all come after it.
LEMMA FreedFirst ==
    ASSUME NEW q \in Seq(Events), NEW k, NEW u, Releases(q, k),
           \A i \in DOMAIN q : DownAt(q, k, i) => \E l \in DOMAIN q : l < i /\ UpAt(q, k, l)
    PROVE  Freed(q, k, TRUE, u)
<1>1. PICK m \in DOMAIN q : UpAt(q, k, m) /\ \A j \in DOMAIN q : j < m => ~ UpAt(q, k, j)
  BY FirstUp
<1>2. ASSUME NEW j \in DOMAIN q, j < m, DownAt(q, k, j) PROVE FALSE
  <2>1. PICK l \in DOMAIN q : l < j /\ UpAt(q, k, l)
    BY <1>2
  <2>2. l \in Int /\ j \in Int /\ m \in Int
    OBVIOUS
  <2>3. l < m
    BY <2>1, <2>2, <1>2
  <2>4. QED
    BY <2>1, <2>3, <1>1
<1>3. NoPress(q, k, 0, m)
  BY <1>2 DEF NoPress
<1>4. QED
  BY <1>1, <1>3 DEF Freed

\* Where Flutter holds nothing, its last release and the one that follows.
LEMMA FreedAfter ==
    ASSUME NEW q \in Seq(Events), NEW u \in Events, NEW k, NEW c, NEW s,
           u.key = k, u.press = FALSE, SentTold(q, {}), c \/ Releases(q, k)
    PROVE  Freed(q \o <<u>>, k, c, s)
<1>0. <<u>> \in Seq(Events) /\ DOMAIN <<u>> = {1} /\ <<u>>[1] = u
  BY OneIs
<1>1. PICK t : t = q \o <<u>> /\ Follows(t, q, <<u>>, k)
  BY <1>0, JoinPlaces
<1>2. UpAt(<<u>>, k, 1) /\ 1 \in DOMAIN <<u>>
  BY <1>0 DEF UpAt
<1>3. Len(q) + 1 \in DOMAIN t /\ UpAt(t, k, Len(q) + 1)
  BY <1>0, <1>1, <1>2 DEF Follows
<1>4. \A j \in DOMAIN t : j < Len(q) + 1 /\ DownAt(t, k, j) => j \in DOMAIN q /\ DownAt(q, k, j)
  <2>1. \A j \in DOMAIN t : j \in DOMAIN q \/ j = Len(q) + 1
    BY <1>0, <1>1 DEF Follows
  <2>2. Len(q) + 1 \in Int
    OBVIOUS
  <2>3. QED
    BY <2>1, <2>2, <1>1 DEF Follows
<1>5. CASE \E i \in DOMAIN q : q[i].key = k
  <2>1. PICK i \in DOMAIN q : q[i].key = k
    BY <1>5
  <2>2. k \notin {} /\ {} \in SUBSET Keys
    OBVIOUS
  <2>3. PICK m \in DOMAIN q : m >= i /\ UpAt(q, k, m) /\ \A j \in DOMAIN q : j > m => q[j].key # k
    BY <2>1, <2>2, PressLast
  <2>4. m \in DOMAIN t /\ UpAt(t, k, m) /\ m < Len(q) + 1
    BY <2>3, <1>0, <1>1 DEF Follows
  <2>5. NoPress(t, k, m, Len(q) + 1)
    BY <2>3, <1>4 DEF NoPress, DownAt
  <2>6. Freed(t, k, c, s)
    BY <1>3, <2>4, <2>5 DEF Freed
  <2>7. QED
    BY <1>1, <2>6
<1>6. CASE \A i \in DOMAIN q : q[i].key # k
  <2>1. ~ Releases(q, k) /\ ~ Presses(q, k)
    BY <1>6 DEF Releases, Presses, DownAt, UpAt
  <2>2. c
    BY <2>1
  <2>3. NoPress(t, k, 0, Len(q) + 1)
    BY <1>4, <2>1 DEF NoPress, Presses
  <2>4. Freed(t, k, c, s)
    BY <1>3, <2>2, <2>3 DEF Freed
  <2>5. QED
    BY <1>1, <2>4
<1>7. QED
  BY <1>5, <1>6

----------------------------------------------------------------------------
(* What Flutter holds *)

LEMMA FlutterAppended ==
    ASSUME NEW q \in Seq(Events), NEW s \in SUBSET Keys, NEW w \in SUBSET Keys, NEW e \in Events,
           FlutterHolds(q, s, w), e.press = TRUE /\ e.key \in Modifiers => e.key \notin s
    PROVE  FlutterHolds(q \o <<e>>, After(s, <<e>>), w)
<1>1. SentTold(q \o <<e>>, After(s, <<e>>))
  BY SentAppended DEF FlutterHolds
<1>2. ASSUME NEW k \in w PROVE Covered(q \o <<e>>, After(s, <<e>>), k)
  BY CoveredAppended DEF FlutterHolds
<1>3. ASSUME NEW k \in Modifiers PROVE Spaced(q \o <<e>>, k, k \in w)
  <2>1. Spaced(q, k, k \in w) /\ SentTold(q, s) /\ (k \in w => Covered(q, s, k)) /\ k \in Keys
    BY DEF FlutterHolds, Modifiers
  <2>2. CASE e.press = TRUE /\ e.key = k
    <3>1. k \notin s
      BY <2>2
    <3>2. QED
      BY <2>1, <3>1, SpacedPressed
  <2>3. CASE ~ (e.press = TRUE /\ e.key = k)
    <3>1. <<e>> \in Seq(Events) /\ ~ Presses(<<e>>, k)
      BY <2>3, OneIs DEF Presses, DownAt
    <3>2. QED
      BY <2>1, <3>1, SpacedJoined
  <2>4. QED
    BY <2>2, <2>3
<1>4. QED
  BY <1>1, <1>2, <1>3 DEF FlutterHolds

LEMMA FlutterReleased ==
    ASSUME NEW q \in Seq(Events), NEW s \in SUBSET Keys, NEW w \in SUBSET Keys, NEW r \in Seq(Events),
           FlutterHolds(q, s, w), AllUp(r, s)
    PROVE  FlutterHolds(q \o r, {}, w)
<1>1. SentTold(q \o r, {})
  BY SentReleased DEF FlutterHolds
<1>2. ASSUME NEW k \in w PROVE Covered(q \o r, {}, k)
  BY CoveredReleased DEF FlutterHolds
<1>3. ASSUME NEW k \in Modifiers PROVE Spaced(q \o r, k, k \in w)
  <2>1. ~ Presses(r, k)
    BY DEF AllUp, Presses, DownAt
  <2>2. QED
    BY <2>1, SpacedJoined DEF FlutterHolds
<1>4. QED
  BY <1>1, <1>2, <1>3 DEF FlutterHolds

LEMMA FlutterJudged ==
    ASSUME NEW q \in Seq(Events), q # <<>>, NEW s \in SUBSET Keys, NEW w \in SUBSET Keys, NEW v \in SUBSET Keys,
           FlutterHolds(q, s, w),
           \A k \in v : (k \in w \/ DownAt(q, k, 1)) /\ ~ UpAt(q, k, 1)
    PROVE  FlutterHolds(Tail(q), s, v)
<1>1. SentTold(Tail(q), s)
  BY SentRest DEF FlutterHolds
<1>2. ASSUME NEW k \in v PROVE Covered(Tail(q), s, k)
  <2>1. (Covered(q, s, k) \/ DownAt(q, k, 1)) /\ ~ UpAt(q, k, 1) /\ SentTold(q, s)
    BY DEF FlutterHolds
  <2>2. QED
    BY <2>1, CoveredRest
<1>3. ASSUME NEW k \in Modifiers PROVE Spaced(Tail(q), k, k \in v)
  <2>1. Spaced(q, k, k \in w) /\ (k \in v => (k \in w \/ DownAt(q, k, 1)) /\ ~ UpAt(q, k, 1))
    BY DEF FlutterHolds
  <2>2. QED
    BY <2>1, SpacedRest
<1>4. QED
  BY <1>1, <1>2, <1>3 DEF FlutterHolds

----------------------------------------------------------------------------
(* What Flutter will have judged once the keys are up *)

\* A key goes down or comes up.
Toggles(d, c, e) ==
    /\ e.key \in Keys
    /\ \/ e.press = TRUE /\ e.key \notin d /\ c = d \cup {e.key}
       \/ e.press = FALSE /\ e.key \in d /\ c = d \ {e.key}

LEMMA UpIs ==
    ASSUME NEW k \in Keys
    PROVE  /\ Event(k, FALSE) \in Events /\ Event(k, FALSE).key = k /\ Event(k, FALSE).press = FALSE
           /\ <<Event(k, FALSE)>> \in Seq(Events)
<1>1. FALSE \in BOOLEAN
  OBVIOUS
<1>2. Event(k, FALSE) \in Events /\ Event(k, FALSE).key = k /\ Event(k, FALSE).press = FALSE
  BY <1>1, EventIs, Zenon
<1>3. QED
  BY <1>2, OneIs, Zenon

LEMMA DueIs ==
    ASSUME NEW q \in Seq(Events), NEW d, NEW k \in Keys
    PROVE  StillDue(q, d, k) \in Seq(Events)
BY UpIs, JoinIs DEF StillDue

LEMMA DueMoved ==
    ASSUME NEW q \in Seq(Events), NEW d, NEW c, NEW e, Toggles(d, c, e), NEW k \in Keys,
           NEW clean, NEW sure, Freed(StillDue(q, d, k), k, clean, sure), k = e.key => e.press = TRUE
    PROVE  Freed(StillDue(q, c, k), k, clean, sure)
<1>0. PICK u : u = Event(k, FALSE) /\ u \in Events /\ u.key = k /\ u.press = FALSE /\ <<u>> \in Seq(Events)
  BY UpIs, Zenon
<1>1. CASE k \in c /\ k \notin d
  <2>1. StillDue(q, d, k) = q /\ StillDue(q, c, k) = q \o <<u>>
    BY <1>0, <1>1 DEF StillDue
  <2>2. QED
    BY <2>1, <1>0, FreedJoined
<1>2. CASE k \in c <=> k \in d
  BY <1>2 DEF StillDue
<1>3. QED
  BY <1>1, <1>2 DEF Toggles

LEMMA DueReleased ==
    ASSUME NEW q \in Seq(Events), NEW d, NEW r \in Seq(Events), NEW k \in Keys, ~ Presses(r, k),
           NEW clean, NEW sure, Freed(StillDue(q, d, k), k, clean, sure)
    PROVE  Freed(StillDue(q \o r, d, k), k, clean, sure)
<1>0. PICK u : u = Event(k, FALSE) /\ u \in Events /\ u.key = k /\ u.press = FALSE /\ <<u>> \in Seq(Events)
  BY UpIs, Zenon
<1>1. CASE k \in d
  <2>1. StillDue(q, d, k) = q \o <<u>> /\ StillDue(q \o r, d, k) = (q \o r) \o <<u>>
    BY <1>0, <1>1 DEF StillDue
  <2>2. QED
    BY <2>1, <1>0, FreedInserted
<1>2. CASE k \notin d
  BY <1>2, FreedJoined DEF StillDue
<1>3. QED
  BY <1>1, <1>2

LEMMA DueAppended ==
    ASSUME NEW q \in Seq(Events), NEW d, NEW c, NEW e \in Events, Toggles(d, c, e), NEW k \in Keys,
           NEW clean, NEW sure, Freed(StillDue(q, d, k), k, clean, sure)
    PROVE  Freed(StillDue(q \o <<e>>, c, k), k, clean, sure)
<1>0. PICK u : u = Event(k, FALSE) /\ u \in Events /\ u.key = k /\ u.press = FALSE /\ <<u>> \in Seq(Events)
  BY UpIs, Zenon
<1>5. <<e>> \in Seq(Events) /\ q \o <<e>> \in Seq(Events)
  BY OneIs, JoinIs
<1>1. CASE k = e.key /\ e.press = TRUE
  <2>1. StillDue(q, d, k) = q /\ StillDue(q \o <<e>>, c, k) = (q \o <<e>>) \o <<u>>
    BY <1>0, <1>1 DEF StillDue, Toggles
  <2>2. Freed(q \o <<e>>, k, clean, sure)
    BY <1>5, <2>1, FreedJoined
  <2>3. QED
    BY <1>5, <2>1, <2>2, <1>0, FreedJoined
<1>2. CASE k = e.key /\ e.press = FALSE
  <2>1. e = Event(k, FALSE)
    BY <1>2, EventIs, Zenon
  <2>2. k \in d /\ k \notin c
    BY <1>2 DEF Toggles
  <2>3. StillDue(q, d, k) = q \o <<e>> /\ StillDue(q \o <<e>>, c, k) = q \o <<e>>
    BY <2>1, <2>2 DEF StillDue
  <2>4. QED
    BY <2>3
<1>3. CASE k # e.key
  <2>1. ~ Presses(<<e>>, k)
    BY <1>3, OneIs DEF Presses, DownAt
  <2>2. Freed(StillDue(q \o <<e>>, d, k), k, clean, sure)
    BY <1>5, <2>1, DueReleased
  <2>3. StillDue(q \o <<e>>, c, k) = StillDue(q \o <<e>>, d, k)
    BY <1>3 DEF StillDue, Toggles
  <2>4. QED
    BY <2>2, <2>3
<1>4. QED
  BY <1>1, <1>2, <1>3 DEF Toggles

LEMMA DueJudged ==
    ASSUME NEW q \in Seq(Events), q # <<>>, NEW d, NEW k \in Keys
    PROVE  /\ StillDue(q, d, k) \in Seq(Events) /\ StillDue(q, d, k) # <<>>
           /\ StillDue(Tail(q), d, k) = Tail(StillDue(q, d, k))
           /\ DownAt(StillDue(q, d, k), k, 1) <=> DownAt(q, k, 1)
           /\ UpAt(StillDue(q, d, k), k, 1) <=> UpAt(q, k, 1)
<1>1. CASE k \notin d
  BY <1>1 DEF StillDue
<1>2. CASE k \in d
  <2>1. PICK u : u = <<Event(k, FALSE)>> /\ u \in Seq(Events)
    BY UpIs
  <2>2. StillDue(q, d, k) = q \o u /\ StillDue(Tail(q), d, k) = Tail(q) \o u
    BY <1>2, <2>1 DEF StillDue
  <2>3. q \o u \in Seq(Events) /\ q \o u # <<>> /\ Tail(q \o u) = Tail(q) \o u /\ (q \o u)[1] = q[1]
    <3>4. Len(q) \in Nat \ {0}
      BY RestIs
    <3>5. 1 \in 1 .. Len(q)
      BY <3>4
    <3>1. q \o u \in Seq(Events) /\ 1 \in 1 .. Len(q)
      BY <2>1, <3>5, JoinIs
    <3>2. (q \o u)[1] = q[1]
      BY <2>1, <3>1, JoinIs
    <3>3. QED
      BY <2>1, <3>1, <3>2, TailOfJoin
  <2>4. QED
    BY <2>2, <2>3, Zenon DEF DownAt, UpAt
<1>3. QED
  BY <1>1, <1>2

----------------------------------------------------------------------------
(* The keys *)

LEMMA HardwareIs ==
    ASSUME KeyboardTypes, NEW e \in Events, Hardware(e)
    PROVE  Toggles(down, down', e) /\ down' \subseteq Keys
<1>1. /\ e.key \in Keys /\ (e.press = TRUE \/ e.press = FALSE)
      /\ e.press = TRUE => After(down, <<e>>) = down \cup {e.key}
      /\ e.press = FALSE => After(down, <<e>>) = down \ {e.key}
      /\ After(down, <<e>>) \subseteq Keys
  <2>1. e.key \in Keys
    BY EventIs
  <2>2. down \in SUBSET Keys
    BY DEF KeyboardTypes
  <2>3. QED
    BY <2>1, <2>2, AfterOne
<1>2. e.press = (e.key \notin down) /\ down' = After(down, <<e>>)
  BY DEF Hardware
<1>3. QED
  BY <1>1, <1>2 DEF Toggles

LEMMA HeldIs ==
    ASSUME KeyboardTypes, held \subseteq down, NEW e \in Events, Hardware(e)
    PROVE  After(held, <<e>>) \subseteq down' /\ After(held, <<e>>) \subseteq Keys
<1>1. /\ e.press = TRUE => After(held, <<e>>) = held \cup {e.key}
      /\ e.press = FALSE => After(held, <<e>>) = held \ {e.key}
      /\ After(held, <<e>>) \subseteq Keys
  BY AfterOne DEF KeyboardTypes
<1>2. Toggles(down, down', e)
  BY HardwareIs
<1>3. QED
  BY <1>1, <1>2 DEF Toggles

\* The presses consumed are all that were kept from the client.
LEMMA ConsumingIs ==
    ASSUME KeyboardTypes, PendingInv
    PROVE  Consuming = Withholding
<1>1. \A i \in DOMAIN pending : pending[i].press = TRUE
  BY DEF PendingInv
<1>2. \A k \in Keys : k \in Consuming <=> k \in consumed \/ Presses(pending, k)
  BY <1>1, AfterPresses DEF KeyboardTypes, Consuming
<1>3. Consuming \subseteq Keys
  BY DEF Consuming, After
<1>4. QED
  BY <1>2, <1>3 DEF Withholding, IsPending

\* What consuming them changes of what is withheld: nothing, but of what waits for the next verdict.
LEMMA ConsumePendingIs ==
    ASSUME KeyboardTypes, PendingInv, ConsumePending
    PROVE  /\ pending' \in Seq(Events) /\ consumed' \subseteq Keys
           /\ PendingInv' /\ Withholding' = Withholding
           /\ \A k \in Keys : Clean(k) => Clean(k)'
<1>1. pending' = <<>> /\ consumed' = Withholding
  BY ConsumingIs DEF ConsumePending
<1>2. \A k : ~ IsPending(k)'
  BY <1>1 DEF IsPending, Presses
<1>3. Withholding \subseteq Keys /\ pending' \in Seq(Events)
  BY <1>1 DEF Withholding
<1>4. PendingInv'
  BY <1>1, <1>2 DEF PendingInv
<1>5. Withholding' = Withholding
  BY <1>1, <1>2, <1>3 DEF Withholding
<1>6. ASSUME NEW k \in Keys, Clean(k) PROVE Clean(k)'
  BY <1>1, <1>2, <1>6 DEF Clean, Withholding
<1>7. QED
  BY <1>1, <1>3, <1>4, <1>5, <1>6

LEMMA SameWithheld ==
    ASSUME PendingInv, UNCHANGED forwardingVars
    PROVE  /\ PendingInv' /\ Withholding' = Withholding
           /\ \A k : Clean(k)' = Clean(k) /\ Sure(k)' = Sure(k)
<1>1. pending' = pending /\ consumed' = consumed /\ forwarded' = forwarded
  BY DEF forwardingVars
<1>2. \A k : IsPending(k)' = IsPending(k)
  BY <1>1 DEF IsPending
<1>3. PendingInv'
  BY <1>1, <1>2 DEF PendingInv
<1>4. Withholding' = Withholding
  BY <1>1, <1>2 DEF Withholding
<1>5. \A k : Clean(k)' = Clean(k) /\ Sure(k)' = Sure(k)
  BY <1>1, <1>2 DEF Clean, Sure
<1>6. QED
  BY <1>3, <1>4, <1>5

\* A key that neither Flutter nor a client hears of.
LEMMA SwallowKeeps ==
    ASSUME KeyboardInv, NEW e \in Events, Hardware(e), ConsumePending,
           UNCHANGED <<sent, verdicts, forwarded, locked, typing, focused>>,
           held' \subseteq After(held, <<e>>), gameKeys' \subseteq Keys,
           gaming' \in BOOLEAN, capturing' \in BOOLEAN, recording' \in BOOLEAN,
           gaming' => gaming,
           told' \subseteq told, swallowed' \subseteq Keys,
           \A k \in told' \ swallowed' : k \notin swallowed /\ (k = e.key => e.press = TRUE),
           sent # {} => swallowed \subseteq swallowed',
           e.press = FALSE /\ e.key \in sent => e.key \in swallowed' /\ e.key \notin Modifiers
    PROVE  KeyboardInv'
<1>1. /\ KeyboardTypes /\ HeldInv /\ PendingInv /\ ToldInv
      /\ FlutterHolds(verdicts, sent, Withholding)
  BY DEF KeyboardInv
<1>2. Toggles(down, down', e) /\ down' \subseteq Keys
  BY <1>1, HardwareIs
<1>3. held' \subseteq down' /\ held' \subseteq Keys
  BY <1>1, HeldIs DEF HeldInv
<1>4. /\ pending' \in Seq(Events) /\ consumed' \subseteq Keys
      /\ PendingInv' /\ Withholding' = Withholding
      /\ \A k \in Keys : Clean(k) => Clean(k)'
  BY <1>1, ConsumePendingIs
<1>5. KeyboardTypes'
  BY <1>1, <1>2, <1>3, <1>4 DEF KeyboardTypes
<1>6. HeldInv'
  BY <1>1, <1>2, <1>3 DEF HeldInv, Toggles
<1>7. FlutterHolds(verdicts, sent, Withholding)'
  BY <1>1, <1>4 DEF FlutterHolds
<1>8. ASSUME NEW k \in told' \ swallowed'
      PROVE  Freed(StillDue(verdicts, down, k), k, Clean(k), Sure(k))'
  <2>1. k \in Keys /\ verdicts \in Seq(Events) /\ Freed(StillDue(verdicts, down, k), k, Clean(k), Sure(k))
    BY <1>1 DEF KeyboardTypes, ToldInv
  <2>2. Freed(StillDue(verdicts, down', k), k, Clean(k), Sure(k))
    BY <1>2, <2>1, DueMoved
  <2>3. (Clean(k) => Clean(k)') /\ (Sure(k) => Sure(k)')
    BY <1>4, <2>1 DEF Sure
  <2>4. Freed(StillDue(verdicts, down', k), k, Clean(k)', Sure(k)')
    BY <2>2, <2>3, FreedMore
  <2>5. QED
    BY <2>4
<1>9. ToldInv'
  BY <1>8 DEF ToldInv
<1>10. QED
  BY <1>4, <1>5, <1>6, <1>7, <1>9 DEF KeyboardInv

\* The assumption of SwallowKeeps about a swallowed release.
LEMMA SwallowsIs ==
    ASSUME KeyboardTypes, NEW e \in Events, Swallows(e)
    PROVE  /\ ConsumePending /\ forwarded' = forwarded /\ focused' = focused
           /\ e.key \in Keys /\ (e.press = TRUE \/ e.press = FALSE)
           /\ swallowed' \subseteq Keys /\ swallowed \subseteq swallowed'
           /\ e.press = FALSE => e.key \in swallowed'
<1>1. e.key \in Keys /\ e.press \in BOOLEAN
  BY EventIs
<1>2. QED
  BY <1>1 DEF Swallows, KeyboardTypes

LEMMA LockedHotkeyKeeps ==
    ASSUME KeyboardInv, NEW e \in Events, Hardware(e), LockedHotkey(e)
    PROVE  KeyboardInv'
<1>1. KeyboardTypes
  BY DEF KeyboardInv
<1>2. /\ Swallows(e) /\ e.key = "Print" /\ held' = After(held, <<e>>)
      /\ UNCHANGED <<sent, verdicts, gaming, gameKeys, locked, capturing, recording, typing, told>>
  BY DEF LockedHotkey, gameVars, modeVars
<1>3. /\ ConsumePending /\ forwarded' = forwarded /\ focused' = focused
      /\ swallowed' \subseteq Keys /\ swallowed \subseteq swallowed'
      /\ e.press = TRUE \/ e.press = FALSE
      /\ e.press = FALSE => e.key \in swallowed'
  BY <1>1, <1>2, SwallowsIs
<1>4. e.key \notin Modifiers
  BY <1>2 DEF Modifiers
<1>5. QED
  BY <1>1, <1>2, <1>3, <1>4, SwallowKeeps DEF KeyboardTypes

LEMMA PrintHotkeyKeeps ==
    ASSUME KeyboardInv, NEW e \in Events, Hardware(e), PrintHotkey(e)
    PROVE  KeyboardInv'
<1>1. KeyboardTypes
  BY DEF KeyboardInv
<1>2. /\ Swallows(e) /\ e.key = "Print" /\ held' = After(held, <<e>>) /\ capturing' \in BOOLEAN
      /\ UNCHANGED <<sent, verdicts, gaming, gameKeys, locked, recording, typing, told>>
  BY DEF PrintHotkey, gameVars
<1>3. /\ ConsumePending /\ forwarded' = forwarded /\ focused' = focused
      /\ swallowed' \subseteq Keys /\ swallowed \subseteq swallowed'
      /\ e.press = TRUE \/ e.press = FALSE
      /\ e.press = FALSE => e.key \in swallowed'
  BY <1>1, <1>2, SwallowsIs
<1>4. e.key \notin Modifiers
  BY <1>2 DEF Modifiers
<1>5. QED
  BY <1>1, <1>2, <1>3, <1>4, SwallowKeeps DEF KeyboardTypes

LEMMA LeaveGameHotkeyKeeps ==
    ASSUME KeyboardInv, NEW e \in Events, Hardware(e), LeaveGameHotkey(e)
    PROVE  KeyboardInv'
<1>1. KeyboardTypes /\ HeldInv
  BY DEF KeyboardInv
<1>2. PICK back, heard :
        /\ back = (IF gaming THEN gameKeys ELSE {}) /\ heard = (IF focused THEN back ELSE {})
        /\ LeavesGame(e)
        /\ held' = After(held, <<e>>) \ back
        /\ gaming' = FALSE
        /\ gameKeys' = gameKeys \ back
        /\ told' = told \ heard
        /\ swallowed' = (IF e.press THEN swallowed ELSE swallowed \cup {e.key}) \ heard
        /\ ConsumePending
        /\ UNCHANGED <<forwarded, focused, sent, verdicts, locked, capturing, recording, typing>>
  BY DEF LeaveGameHotkey, modeVars
<1>3. e.key \in Keys /\ (e.press = TRUE \/ e.press = FALSE)
  BY EventIs
<1>4. e.key = "Escape" /\ e.key \notin Modifiers /\ ~locked
  BY <1>2 DEF LeavesGame, Plain, Modifiers
<1>5. sent # {} => heard = {}
  BY <1>1, <1>2, <1>4 DEF HeldInv
<1>6. swallowed' \subseteq Keys /\ (sent # {} => swallowed \subseteq swallowed')
  BY <1>1, <1>2, <1>3, <1>5 DEF KeyboardTypes
<1>7. \A k \in told' \ swallowed' : k \notin swallowed /\ (k = e.key => e.press = TRUE)
  BY <1>2, <1>3
<1>8. e.press = FALSE /\ e.key \in sent => e.key \in swallowed'
  BY <1>2, <1>5
<1>9. QED
  BY <1>1, <1>2, <1>4, <1>6, <1>7, <1>8, SwallowKeeps DEF KeyboardTypes

LEMMA CaptureKeyKeeps ==
    ASSUME KeyboardInv, NEW e \in Events, Hardware(e), CaptureKey(e)
    PROVE  KeyboardInv'
<1>1. /\ KeyboardTypes /\ HeldInv /\ PendingInv /\ ToldInv
      /\ FlutterHolds(verdicts, sent, Withholding)
  BY DEF KeyboardInv
<1>2. /\ held' = After(held, <<e>>) /\ capturing' \in BOOLEAN
      /\ UNCHANGED <<gaming, gameKeys, locked, recording, typing, told>>
  BY DEF CaptureKey, gameVars
<1>3. e.key \in Keys /\ (e.press = TRUE \/ e.press = FALSE)
  BY EventIs
<1>4. CASE ~ (~e.press /\ e.key \in sent)
  <2>1. Swallows(e) /\ UNCHANGED <<sent, verdicts>>
    BY <1>4 DEF CaptureKey
  <2>2. /\ ConsumePending /\ forwarded' = forwarded /\ focused' = focused
        /\ swallowed' \subseteq Keys /\ swallowed \subseteq swallowed'
        /\ e.press = FALSE => e.key \in swallowed'
    BY <1>1, <2>1, SwallowsIs
  <2>3. e.press = FALSE => e.key \notin sent
    BY <1>4
  <2>4. QED
    BY <1>1, <1>2, <1>3, <2>1, <2>2, <2>3, SwallowKeeps DEF KeyboardTypes
<1>5. CASE ~e.press /\ e.key \in sent
  <2>1. /\ SendToFlutter(<<e>>) /\ sent' = sent \ {e.key} /\ ConsumePending
        /\ UNCHANGED <<forwarded, focused, swallowed>>
    BY <1>5 DEF CaptureKey
  <2>2. /\ pending' \in Seq(Events) /\ consumed' \subseteq Keys
        /\ PendingInv' /\ Withholding' = Withholding
        /\ \A k \in Keys : Clean(k) => Clean(k)'
    BY <1>1, <2>1, ConsumePendingIs
  <2>3. Toggles(down, down', e) /\ down' \subseteq Keys /\ held' \subseteq down' /\ held' \subseteq Keys
    BY <1>1, <1>2, HardwareIs, HeldIs DEF HeldInv
  <2>4. verdicts' = verdicts \o <<e>> /\ verdicts' \in Seq(Events) /\ sent' = After(sent, <<e>>)
    <3>1. e.press = FALSE /\ sent \in SUBSET Keys /\ verdicts \in Seq(Events)
      BY <1>1, <1>3, <1>5 DEF KeyboardTypes
    <3>2. After(sent, <<e>>) = sent \ {e.key}
      BY <3>1, AfterOne
    <3>3. verdicts \o <<e>> \in Seq(Events)
      BY <3>1, OneIs, JoinIs
    <3>4. QED
      BY <2>1, <3>2, <3>3 DEF SendToFlutter
  <2>5. KeyboardTypes'
    BY <1>1, <1>2, <2>1, <2>2, <2>3, <2>4 DEF KeyboardTypes
  <2>6. HeldInv'
    BY <1>1, <1>2, <2>1, <2>3 DEF HeldInv, Toggles
  <2>7. FlutterHolds(verdicts', sent', Withholding)
    <3>1. verdicts \in Seq(Events) /\ sent \in SUBSET Keys /\ Withholding \in SUBSET Keys
      BY <1>1 DEF KeyboardTypes, Withholding
    <3>2. ~ (e.press = TRUE)
      BY <1>5
    <3>3. QED
      BY <1>1, <2>4, <3>1, <3>2, FlutterAppended
  <2>8. ASSUME NEW k \in told' \ swallowed' PROVE Freed(StillDue(verdicts, down, k), k, Clean(k), Sure(k))'
    <3>1. k \in Keys /\ verdicts \in Seq(Events) /\ Freed(StillDue(verdicts, down, k), k, Clean(k), Sure(k))
      BY <1>1, <1>2, <2>1 DEF KeyboardTypes, ToldInv
    <3>2. Freed(StillDue(verdicts', down', k), k, Clean(k), Sure(k))
      BY <2>3, <2>4, <3>1, DueAppended
    <3>3. (Clean(k) => Clean(k)') /\ (Sure(k) => Sure(k)')
      BY <2>1, <2>2, <3>1 DEF Sure
    <3>4. Freed(StillDue(verdicts', down', k), k, Clean(k)', Sure(k)')
      BY <3>2, <3>3, FreedMore
    <3>5. QED
      BY <3>4
  <2>9. ToldInv'
    BY <2>8 DEF ToldInv
  <2>10. QED
    BY <2>2, <2>5, <2>6, <2>7, <2>9 DEF KeyboardInv
<1>6. QED
  BY <1>4, <1>5

LEMMA FlutterKeyKeeps ==
    ASSUME KeyboardInv, NEW e \in Events, Hardware(e), FlutterKey(e)
    PROVE  KeyboardInv'
<1>1. /\ KeyboardTypes /\ HeldInv /\ PendingInv /\ ToldInv
      /\ FlutterHolds(verdicts, sent, Withholding)
  BY DEF KeyboardInv
<1>2. /\ ~ GamingInput /\ held' = After(held, <<e>>) /\ sent' = After(sent, <<e>>)
      /\ SendToFlutter(<<e>>) /\ recording' \in BOOLEAN
      /\ UNCHANGED forwardingVars
      /\ UNCHANGED <<pending, consumed, forwarded, gaming, gameKeys, locked, capturing,
                     typing, focused, told, swallowed>>
  BY DEF FlutterKey, gameVars, clientVars, forwardingVars
<1>3. PendingInv' /\ Withholding' = Withholding /\ \A k : Clean(k)' = Clean(k) /\ Sure(k)' = Sure(k)
  BY <1>1, <1>2, SameWithheld
<1>4. Toggles(down, down', e) /\ down' \subseteq Keys /\ held' \subseteq down' /\ held' \subseteq Keys
  BY <1>1, <1>2, HardwareIs, HeldIs DEF HeldInv
<1>5. /\ verdicts \in Seq(Events) /\ sent \in SUBSET Keys /\ Withholding \in SUBSET Keys
      /\ verdicts' = verdicts \o <<e>>
  BY <1>1, <1>2 DEF KeyboardTypes, Withholding, SendToFlutter
<1>6. verdicts' \in Seq(Events)
  BY <1>5, OneIs, JoinIs
<1>8. sent' \subseteq Keys
  BY <1>2, <1>5, AfterOne
<1>9. KeyboardTypes'
  BY <1>1, <1>2, <1>4, <1>6, <1>8 DEF KeyboardTypes
<1>10. HeldInv'
  <2>1. \A k \in sent' : k \in down' \/ (k \in swallowed /\ k \notin Modifiers)
    <3>1. \/ e.press = TRUE /\ sent' = sent \cup {e.key}
          \/ e.press = FALSE /\ sent' = sent \ {e.key}
      BY <1>2, <1>5, AfterOne
    <3>2. QED
      BY <1>1, <1>4, <3>1 DEF HeldInv, Toggles
  <2>2. ~ (gaming' /\ ~locked')
    BY <1>2 DEF GamingInput
  <2>3. QED
    BY <1>1, <1>2, <1>4, <2>1, <2>2 DEF HeldInv
<1>11. FlutterHolds(verdicts', sent', Withholding)
  <2>1. e.press = TRUE /\ e.key \in Modifiers => e.key \notin sent
    BY <1>1, <1>4 DEF HeldInv, Toggles
  <2>2. QED
    BY <1>1, <1>2, <1>5, <2>1, FlutterAppended
<1>12. ASSUME NEW k \in told' \ swallowed' PROVE Freed(StillDue(verdicts, down, k), k, Clean(k), Sure(k))'
  <2>1. k \in Keys /\ Freed(StillDue(verdicts, down, k), k, Clean(k), Sure(k))
    BY <1>1, <1>2 DEF KeyboardTypes, ToldInv
  <2>2. Freed(StillDue(verdicts', down', k), k, Clean(k), Sure(k))
    BY <1>4, <1>5, <2>1, DueAppended
  <2>3. Freed(StillDue(verdicts', down', k), k, Clean(k)', Sure(k)')
    BY <1>3, <2>2
  <2>4. QED
    BY <2>3
<1>13. ToldInv'
  BY <1>12 DEF ToldInv
<1>14. QED
  BY <1>3, <1>9, <1>10, <1>11, <1>13 DEF KeyboardInv

----------------------------------------------------------------------------
(* The client *)

\* What it takes the keys for, after presses and one more event.
LEMMA TellsIs ==
    ASSUME KeyboardTypes, HeldInv, NEW q \in Seq(Events), NEW e \in Events,
           \A i \in DOMAIN q : q[i].press = TRUE,
           verdicts' \in Seq(Events), Tell(Append(q, e))
    PROVE  /\ told' \subseteq Keys /\ swallowed' \subseteq swallowed /\ focused' = focused
           /\ ~focused => told' = {}
           /\ \A k \in told' : IF k = e.key THEN e.press = TRUE ELSE k \in told \/ Presses(q, k)
           /\ \A k \in told' \ swallowed' : k \notin swallowed
           /\ \A k \in swallowed \ swallowed' : k = e.key /\ e.press = FALSE /\ ~ Presses(verdicts', k)
<1>0. PICK r : r = Append(q, e)
  OBVIOUS
<1>1. /\ DOMAIN q = 1 .. Len(q) /\ Len(q) \in Nat /\ DOMAIN r = 1 .. Len(q) + 1
      /\ \A i \in 1 .. Len(q) : r[i] = q[i]
      /\ r[Len(q) + 1] = e
  BY <1>0
<1>2. CASE ~ focused
  BY <1>2 DEF Tell, HeldInv, KeyboardTypes
<1>3. CASE focused
  <2>1. /\ told' = After(told, r) /\ focused' = focused
        /\ swallowed' = {k \in swallowed : Event(k, FALSE) \in Range(r) => Event(k, TRUE) \in Range(verdicts')}
    BY <1>0, <1>3 DEF Tell
  <2>2. /\ After(told, r) \subseteq Keys
        /\ e.key \in After(told, r) <=> e.press = TRUE
        /\ \A k \in Keys : k # e.key => (k \in After(told, r) <=> k \in After(told, q))
    BY <1>0, AfterLast DEF KeyboardTypes
  <2>3. \A k \in Keys : k \in After(told, q) <=> k \in told \/ Presses(q, k)
    BY AfterPresses DEF KeyboardTypes
  <2>4. ASSUME NEW k \in swallowed, k \notin swallowed'
        PROVE  k = e.key /\ e.press = FALSE /\ ~ Presses(verdicts', k)
    <3>1. Event(k, FALSE) \in Range(r) /\ Event(k, TRUE) \notin Range(verdicts') /\ k \in Keys
      BY <2>1, <2>4 DEF KeyboardTypes
    <3>2. PICK i \in DOMAIN r : r[i] = Event(k, FALSE)
      BY <3>1 DEF Range
    <3>3. r[i].key = k /\ r[i].press = FALSE
      BY <3>1, <3>2, UpIs
    <3>4. i = Len(q) + 1
      <4>1. ASSUME i \in 1 .. Len(q) PROVE FALSE
        <5>1. r[i] = q[i] /\ q[i].press = TRUE
          BY <1>1, <4>1
        <5>2. QED
          BY <5>1, <3>3
      <4>2. QED
        BY <4>1, <1>1
    <3>5. k = e.key /\ e.press = FALSE
      BY <1>1, <3>3, <3>4
    <3>6. ASSUME NEW j \in DOMAIN verdicts', DownAt(verdicts', k, j) PROVE verdicts'[j] = Event(k, TRUE)
      <4>1. verdicts'[j] \in Events
        OBVIOUS
      <4>2. QED
        BY <3>6, <4>1, EventIs DEF DownAt
    <3>7. QED
      BY <3>1, <3>5, <3>6 DEF Presses, Range
  <2>5. told' \subseteq Keys /\ swallowed' \subseteq swallowed
    BY <2>1, <2>2
  <2>6. \A k \in told' : IF k = e.key THEN e.press = TRUE ELSE k \in told \/ Presses(q, k)
    BY <2>1, <2>2, <2>3
  <2>7. \A k \in told' \ swallowed' : k \notin swallowed
    <3>1. \A k \in told' : k = e.key => e.press = TRUE
      BY <2>6
    <3>2. QED
      BY <2>4, <3>1
  <2>8. QED
    BY <1>3, <2>1, <2>4, <2>5, <2>6, <2>7
<1>4. QED
  BY <1>2, <1>3 DEF KeyboardTypes

LEMMA TellsOne ==
    ASSUME KeyboardTypes, HeldInv, NEW e \in Events, verdicts' \in Seq(Events), Tell(<<e>>)
    PROVE  /\ told' \subseteq Keys /\ swallowed' \subseteq swallowed /\ focused' = focused
           /\ ~focused => told' = {}
           /\ \A k \in told' : IF k = e.key THEN e.press = TRUE ELSE k \in told
           /\ \A k \in told' \ swallowed' : k \notin swallowed
           /\ \A k \in swallowed \ swallowed' : k = e.key /\ e.press = FALSE /\ ~ Presses(verdicts', k)
<1>0. <<>> \in Seq(Events) /\ Append(<<>>, e) = <<e>> /\ DOMAIN <<>> = {}
  OBVIOUS
<1>1. PICK q : q = <<>> /\ q \in Seq(Events) /\ Append(q, e) = <<e>> /\ DOMAIN q = {}
  BY <1>0, Zenon
<1>2. \A k : ~ Presses(q, k)
  BY <1>1 DEF Presses
<1>3. Tell(Append(q, e))
  BY <1>1
<1>4. \A i \in DOMAIN q : q[i].press = TRUE
  BY <1>1
<1>5. /\ told' \subseteq Keys /\ swallowed' \subseteq swallowed /\ focused' = focused
      /\ ~focused => told' = {}
      /\ \A k \in told' : IF k = e.key THEN e.press = TRUE ELSE k \in told \/ Presses(q, k)
      /\ \A k \in told' \ swallowed' : k \notin swallowed
      /\ \A k \in swallowed \ swallowed' : k = e.key /\ e.press = FALSE /\ ~ Presses(verdicts', k)
  BY <1>1, <1>3, <1>4, TellsIs
<1>6. QED
  BY <1>2, <1>5

LEMMA GameKeyKeeps ==
    ASSUME KeyboardInv, NEW e \in Events, Hardware(e), GameKey(e)
    PROVE  KeyboardInv'
<1>1. /\ KeyboardTypes /\ HeldInv /\ PendingInv /\ ToldInv
      /\ FlutterHolds(verdicts, sent, Withholding)
  BY DEF KeyboardInv
<1>2. /\ GamingInput /\ held' = After(held, <<e>>) /\ gameKeys' = After(gameKeys, <<e>>)
      /\ recording' \in BOOLEAN /\ Tell(<<e>>) /\ UNCHANGED forwardingVars
      /\ UNCHANGED <<sent, verdicts, pending, consumed, forwarded, gaming, locked, capturing, typing>>
  BY DEF GameKey, forwardingVars
<1>3. PendingInv' /\ Withholding' = Withholding /\ \A k : Clean(k)' = Clean(k) /\ Sure(k)' = Sure(k)
  BY <1>1, <1>2, SameWithheld
<1>4. Toggles(down, down', e) /\ down' \subseteq Keys /\ held' \subseteq down' /\ held' \subseteq Keys
  BY <1>1, <1>2, HardwareIs, HeldIs DEF HeldInv
<1>5. /\ told' \subseteq Keys /\ swallowed' \subseteq swallowed /\ focused' = focused
      /\ ~focused => told' = {}
      /\ \A k \in told' : IF k = e.key THEN e.press = TRUE ELSE k \in told
      /\ \A k \in told' \ swallowed' : k \notin swallowed
  <2>1. verdicts' \in Seq(Events)
    BY <1>1, <1>2 DEF KeyboardTypes
  <2>2. QED
    BY <1>1, <1>2, <2>1, TellsOne
<1>6. sent = {} /\ ~locked /\ ~typing
  BY <1>1, <1>2 DEF HeldInv, GamingInput
<1>7. KeyboardTypes'
  <2>1. gameKeys' \subseteq Keys
    BY <1>2 DEF After
  <2>2. QED
    BY <1>1, <1>2, <1>4, <1>5, <2>1 DEF KeyboardTypes
<1>8. HeldInv'
  BY <1>1, <1>2, <1>4, <1>5, <1>6 DEF HeldInv
<1>9. FlutterHolds(verdicts, sent, Withholding)'
  BY <1>1, <1>2, <1>3 DEF FlutterHolds
<1>10. ASSUME NEW k \in told' \ swallowed' PROVE Freed(StillDue(verdicts, down, k), k, Clean(k), Sure(k))'
  <2>1. k \in Keys /\ verdicts \in Seq(Events) /\ SentTold(verdicts, {})
    BY <1>1, <1>5, <1>6 DEF KeyboardTypes, FlutterHolds
  <2>2. CASE k # e.key
    <3>1. k \in told \ swallowed
      BY <1>5, <2>2
    <3>2. Freed(StillDue(verdicts, down', k), k, Clean(k), Sure(k))
      BY <1>1, <1>4, <2>1, <2>2, <3>1, DueMoved DEF ToldInv
    <3>3. QED
      BY <1>2, <1>3, <3>2
  <2>3. CASE k = e.key
    <3>1. PICK u : u = Event(k, FALSE) /\ u \in Events /\ u.key = k /\ u.press = FALSE
      BY <2>1, UpIs, Zenon
    <3>2. k \in down'
      BY <1>4, <1>5, <2>3 DEF Toggles
    <3>3. Clean(k) \/ Releases(verdicts, k)
      BY <1>1, <1>6, <2>1 DEF Clean, Withholding, FlutterHolds, Covered
    <3>4. Freed(verdicts \o <<u>>, k, Clean(k), Sure(k))
      BY <2>1, <3>1, <3>3, FreedAfter
    <3>5. StillDue(verdicts, down', k) = verdicts \o <<u>>
      BY <3>1, <3>2 DEF StillDue
    <3>6. QED
      BY <1>2, <1>3, <3>4, <3>5
  <2>4. QED
    BY <2>2, <2>3
<1>11. ToldInv'
  BY <1>10 DEF ToldInv
<1>12. QED
  BY <1>3, <1>7, <1>8, <1>9, <1>11 DEF KeyboardInv

LEMMA KeyEventKeeps ==
    ASSUME KeyboardInv, NEW e \in Events, KeyEvent(e)
    PROVE  KeyboardInv'
BY LockedHotkeyKeeps, CaptureKeyKeeps, PrintHotkeyKeeps, LeaveGameHotkeyKeeps, GameKeyKeeps, FlutterKeyKeeps
   DEF KeyEvent

----------------------------------------------------------------------------
(* Flutter's verdict *)

LEMMA DueReleases ==
    ASSUME NEW q \in Seq(Events), NEW d, NEW k \in Keys, Releases(q, k) \/ k \in d
    PROVE  Releases(StillDue(q, d, k), k)
<1>1. PICK u : u = Event(k, FALSE) /\ u \in Events /\ <<u>> \in Seq(Events) /\ u.key = k /\ u.press = FALSE
  BY UpIs, Zenon
<1>2. CASE k \notin d
  BY <1>2 DEF StillDue
<1>3. CASE k \in d
  <2>1. PICK t : t = q \o <<u>> /\ Follows(t, q, <<u>>, k)
    BY <1>1, JoinPlaces
  <2>2. UpAt(<<u>>, k, 1) /\ 1 \in DOMAIN <<u>>
    BY <1>1, OneIs DEF UpAt
  <2>3. Releases(t, k)
    BY <2>1, <2>2 DEF Releases, Follows
  <2>4. StillDue(q, d, k) = t
    BY <1>1, <1>3, <2>1 DEF StillDue
  <2>5. QED
    BY <2>3, <2>4
<1>4. QED
  BY <1>2, <1>3

LEMMA DueFirst ==
    ASSUME NEW q \in Seq(Events), NEW d, NEW k \in Keys, Spaced(q, k, TRUE)
    PROVE  \A i \in DOMAIN StillDue(q, d, k) : DownAt(StillDue(q, d, k), k, i) =>
               \E l \in DOMAIN StillDue(q, d, k) : l < i /\ UpAt(StillDue(q, d, k), k, l)
<1>1. PICK u : u = Event(k, FALSE) /\ u \in Events /\ <<u>> \in Seq(Events) /\ u.key = k /\ u.press = FALSE
  BY UpIs, Zenon
<1>2. CASE k \notin d
  BY <1>2 DEF StillDue, Spaced
<1>3. CASE k \in d
  <2>1. ~ Presses(<<u>>, k)
    BY <1>1, OneIs DEF Presses, DownAt
  <2>2. Spaced(q \o <<u>>, k, TRUE)
    BY <1>1, <2>1, SpacedJoined
  <2>3. StillDue(q, d, k) = q \o <<u>>
    BY <1>1, <1>3 DEF StillDue
  <2>4. Spaced(StillDue(q, d, k), k, TRUE)
    BY <2>2, <2>3
  <2>5. QED
    BY <2>4 DEF Spaced
<1>4. QED
  BY <1>2, <1>3

\* What a verdict makes of a key that the client is to be released of: it comes no closer;
\* it was withheld, and has been released; or it was told anew, of a modifier that was
\* withheld or of any other key.
Fate(k) ==
    \/ /\ k \in told \ swallowed /\ ~ UpAt(verdicts, k, 1)
       /\ DownAt(verdicts, k, 1) \/ (Clean(k) => Clean(k)')
       /\ Sure(k) => Sure(k)'
    \/ k \in told \ swallowed /\ ~ Clean(k) /\ ~ Sure(k) /\ Clean(k)'
    \/ /\ k \in Modifiers /\ (k \in Withholding \/ DownAt(verdicts, k, 1)) /\ ~ UpAt(verdicts, k, 1)
       /\ Clean(k)'
    \/ k \notin Modifiers /\ k \notin swallowed /\ DownAt(verdicts, k, 1) /\ Sure(k)'

LEMMA FateFreed ==
    ASSUME KeyboardInv, verdicts # <<>>, verdicts' = Tail(verdicts), down' = down,
           NEW k \in Keys, Fate(k)
    PROVE  Freed(StillDue(verdicts, down, k), k, Clean(k), Sure(k))'
<1>1. /\ KeyboardTypes /\ HeldInv /\ ToldInv
      /\ FlutterHolds(verdicts, sent, Withholding)
  BY DEF KeyboardInv
<1>2. verdicts \in Seq(Events) /\ sent \in SUBSET Keys /\ verdicts' \in Seq(Events)
  BY <1>1, RestIs DEF KeyboardTypes
<1>3. PICK q : /\ q = StillDue(verdicts, down, k) /\ q \in Seq(Events) /\ q # <<>>
               /\ StillDue(verdicts', down', k) = Tail(q)
               /\ DownAt(q, k, 1) <=> DownAt(verdicts, k, 1)
               /\ UpAt(q, k, 1) <=> UpAt(verdicts, k, 1)
  BY <1>2, DueJudged
<1>11. PICK v, d : v = verdicts' /\ d = down' /\ v \in Seq(Events) /\ Tail(q) = StillDue(v, d, k)
  BY <1>2, <1>3
<1>4. PICK clean, sure : clean = Clean(k)' /\ sure = Sure(k)'
  OBVIOUS
<1>5. SUFFICES Freed(Tail(q), k, clean, sure)
  BY <1>3, <1>4
<1>6. CASE /\ k \in told \ swallowed /\ ~ UpAt(verdicts, k, 1)
           /\ DownAt(verdicts, k, 1) \/ (Clean(k) => clean)
           /\ Sure(k) => sure
  <2>1. Freed(q, k, Clean(k), Sure(k))
    BY <1>1, <1>3, <1>6 DEF ToldInv
  <2>2. QED
    BY <1>3, <1>6, <2>1, FreedRest
<1>7. CASE k \in told \ swallowed /\ ~ Clean(k) /\ ~ Sure(k) /\ clean
  <2>1. Freed(q, k, Clean(k), Sure(k))
    BY <1>1, <1>3, <1>7 DEF ToldInv
  <2>2. Freed(q, k, FALSE, FALSE)
    BY <2>1, <1>7, Zenon DEF Freed
  <2>3. Freed(Tail(q), k, TRUE, sure)
    BY <1>3, <2>2, FreedGone
  <2>4. QED
    BY <2>3, <1>7, FreedMore
<1>8. CASE /\ k \in Modifiers /\ (k \in Withholding \/ DownAt(verdicts, k, 1)) /\ ~ UpAt(verdicts, k, 1)
           /\ clean
  <2>1. Covered(verdicts', sent, k)
    <3>1. SentTold(verdicts, sent) /\ (Covered(verdicts, sent, k) \/ DownAt(verdicts, k, 1))
      BY <1>1, <1>8 DEF FlutterHolds
    <3>2. QED
      BY <1>2, <1>8, <3>1, CoveredRest
  <2>2. Spaced(verdicts', k, TRUE)
    <3>1. Spaced(verdicts, k, k \in Withholding)
      BY <1>1, <1>8 DEF FlutterHolds
    <3>2. QED
      BY <1>2, <1>8, <3>1, SpacedRest
  <2>3. k \in sent => k \in down'
    BY <1>1, <1>8 DEF HeldInv
  <2>4. Releases(verdicts', k) \/ k \in down'
    BY <2>1, <2>3 DEF Covered
  <2>5. Releases(Tail(q), k)
    <3>1. Releases(v, k) \/ k \in d
      BY <1>11, <2>4
    <3>2. Releases(StillDue(v, d, k), k)
      BY <1>11, <3>1, DueReleases
    <3>3. QED
      BY <1>11, <3>2
  <2>6. \A i \in DOMAIN Tail(q) : DownAt(Tail(q), k, i) => \E l \in DOMAIN Tail(q) : l < i /\ UpAt(Tail(q), k, l)
    <3>1. Spaced(v, k, TRUE)
      BY <1>11, <2>2
    <3>2. \A i \in DOMAIN StillDue(v, d, k) : DownAt(StillDue(v, d, k), k, i) =>
             \E l \in DOMAIN StillDue(v, d, k) : l < i /\ UpAt(StillDue(v, d, k), k, l)
      BY <1>11, <3>1, DueFirst
    <3>3. QED
      BY <1>11, <3>2
  <2>7. Tail(q) \in Seq(Events)
    BY <1>3, RestIs
  <2>8. Freed(Tail(q), k, TRUE, sure)
    BY <2>5, <2>6, <2>7, FreedFirst
  <2>9. QED
    BY <2>8, <1>8, FreedMore
<1>9. CASE k \notin Modifiers /\ k \notin swallowed /\ DownAt(verdicts, k, 1) /\ sure
  <2>1. ~ UpAt(verdicts, k, 1)
    BY <1>9 DEF UpAt, DownAt
  <2>2. Covered(verdicts', sent, k)
    BY <1>1, <1>2, <1>9, <2>1, CoveredRest DEF FlutterHolds
  <2>3. k \in sent => k \in down'
    BY <1>1, <1>9 DEF HeldInv
  <2>4. Releases(verdicts', k) \/ k \in down'
    BY <2>2, <2>3 DEF Covered
  <2>5. Releases(Tail(q), k)
    <3>1. Releases(v, k) \/ k \in d
      BY <1>11, <2>4
    <3>2. Releases(StillDue(v, d, k), k)
      BY <1>11, <3>1, DueReleases
    <3>3. QED
      BY <1>11, <3>2
  <2>6. Freed(Tail(q), k, clean, TRUE)
    BY <2>5, FreedAny
  <2>7. QED
    BY <2>6, <1>9, FreedMore
<1>10. QED
  BY <1>4, <1>6, <1>7, <1>8, <1>9 DEF Fate

\* A verdict that withholds no key it should not, and leaves every key told a release.
LEMMA JudgedKeeps ==
    ASSUME KeyboardInv, verdicts # <<>>, verdicts' = Tail(verdicts),
           UNCHANGED <<down, held, sent, gaming, gameKeys, locked, capturing, recording, typing, focused>>,
           pending' \in Seq(Events), consumed' \subseteq Keys, forwarded' \subseteq Keys,
           told' \subseteq Keys, swallowed' \subseteq swallowed,
           locked \/ typing \/ ~focused => told' = {},
           PendingInv',
           \A k \in Withholding' : (k \in Withholding \/ DownAt(verdicts, k, 1)) /\ ~ UpAt(verdicts, k, 1),
           \A k \in swallowed \ swallowed' : UpAt(verdicts, k, 1) /\ ~ Presses(verdicts', k),
           \A k \in told' \ swallowed' : Fate(k)
    PROVE  KeyboardInv'
<1>1. /\ KeyboardTypes /\ HeldInv
      /\ FlutterHolds(verdicts, sent, Withholding)
  BY DEF KeyboardInv
<1>2. verdicts \in Seq(Events) /\ sent \in SUBSET Keys /\ verdicts' \in Seq(Events)
  BY <1>1, RestIs DEF KeyboardTypes
<1>3. KeyboardTypes'
  BY <1>1, <1>2 DEF KeyboardTypes
<1>4. ASSUME NEW k \in sent PROVE k \in down \/ (k \in swallowed' /\ k \notin Modifiers)
  <2>1. k \in down \/ (k \in swallowed /\ k \notin Modifiers)
    BY <1>1 DEF HeldInv
  <2>2. CASE k \in swallowed \ swallowed'
    <3>1. UpAt(verdicts, k, 1) /\ ~ Presses(verdicts', k)
      BY <2>2
    <3>2. PICK t : t = verdicts' /\ Leaves(t, verdicts, k)
      BY <1>2, RestPlaces
    <3>3. 1 \in DOMAIN verdicts /\ verdicts[1].key = k
      BY <3>1, <3>2 DEF Leaves, UpAt
    <3>4. PICK m \in DOMAIN verdicts : m >= 1 /\ DownAt(verdicts, k, m)
      BY <1>1, <1>2, <3>3, ReleaseLast DEF FlutterHolds
    <3>5. m # 1
      BY <3>1, <3>4 DEF UpAt, DownAt
    <3>6. m - 1 \in DOMAIN t /\ (m - 1) + 1 = m
      BY <3>2, <3>5 DEF Leaves
    <3>7. DownAt(t, k, m - 1)
      BY <3>2, <3>4, <3>6 DEF Leaves
    <3>8. Presses(t, k)
      BY <3>6, <3>7 DEF Presses
    <3>9. QED
      BY <3>1, <3>2, <3>8
  <2>3. QED
    BY <2>1, <2>2
<1>5. HeldInv'
  BY <1>1, <1>4 DEF HeldInv
<1>6. FlutterHolds(verdicts', sent, Withholding')
  <2>1. Withholding \in SUBSET Keys /\ Withholding' \in SUBSET Keys
    BY DEF Withholding
  <2>2. QED
    BY <1>1, <1>2, <2>1, FlutterJudged
<1>7. ASSUME NEW k \in told' \ swallowed' PROVE Freed(StillDue(verdicts, down, k), k, Clean(k), Sure(k))'
  BY FateFreed
<1>8. ToldInv'
  BY <1>7 DEF ToldInv
<1>9. QED
  BY <1>3, <1>5, <1>6, <1>8 DEF KeyboardInv

\* The oldest event is judged; the rest of the state that a verdict may not touch.
Judging(e) ==
    /\ verdicts # <<>> /\ e = Head(verdicts) /\ verdicts' = Tail(verdicts)
    /\ UNCHANGED <<down, held, sent, gaming, gameKeys, locked, capturing, recording, typing>>

LEMMA JudgingIs ==
    ASSUME KeyboardTypes, NEW e, Judging(e)
    PROVE  /\ e \in Events /\ e.key \in Keys /\ (e.press = TRUE \/ e.press = FALSE)
           /\ verdicts' \in Seq(Events)
           /\ \A k : DownAt(verdicts, k, 1) <=> k = e.key /\ e.press = TRUE
           /\ \A k : UpAt(verdicts, k, 1) <=> k = e.key /\ e.press = FALSE
<1>1. verdicts \in Seq(Events) /\ verdicts # <<>> /\ e = Head(verdicts) /\ verdicts' = Tail(verdicts)
  BY DEF KeyboardTypes, Judging
<1>2. e \in Events /\ e = verdicts[1] /\ verdicts' \in Seq(Events)
  BY <1>1, RestIs
<1>3. e.key \in Keys /\ e.press \in BOOLEAN
  BY <1>2, EventIs
<1>4. QED
  BY <1>2, <1>3 DEF DownAt, UpAt

LEMMA PendingIs ==
    ASSUME KeyboardTypes, NEW k \in Keys
    PROVE  Event(k, TRUE) \in Range(pending) <=> IsPending(k)
<1>1. TRUE \in BOOLEAN
  OBVIOUS
<1>2. Event(k, TRUE) \in Events /\ Event(k, TRUE).key = k /\ Event(k, TRUE).press = TRUE
  BY <1>1, EventIs, Zenon
<1>3. \A i \in DOMAIN pending : pending[i] \in Events
  BY DEF KeyboardTypes
<1>4. \A i \in DOMAIN pending : DownAt(pending, k, i) <=> pending[i] = Event(k, TRUE)
  BY <1>2, <1>3, EventIs DEF DownAt
<1>5. QED
  BY <1>4 DEF Range, IsPending, Presses

LEMMA PressesAppend ==
    ASSUME NEW q \in Seq(Events), NEW e \in Events
    PROVE  /\ Append(q, e) \in Seq(Events)
           /\ \A k : Presses(Append(q, e), k) <=> Presses(q, k) \/ (k = e.key /\ e.press = TRUE)
           /\ \A i \in DOMAIN Append(q, e) : Append(q, e)[i] = e \/ \E j \in DOMAIN q : Append(q, e)[i] = q[j]
<1>0. PICK r : r = Append(q, e)
  OBVIOUS
<1>1. /\ r \in Seq(Events) /\ DOMAIN q = 1 .. Len(q) /\ Len(q) \in Nat /\ DOMAIN r = 1 .. Len(q) + 1
      /\ \A i \in 1 .. Len(q) : r[i] = q[i]
      /\ r[Len(q) + 1] = e
  BY <1>0
<1>2. \A i \in DOMAIN q : i \in DOMAIN r /\ r[i] = q[i]
  BY <1>1
<1>3. Len(q) + 1 \in DOMAIN r /\ r[Len(q) + 1] = e
  BY <1>1
<1>4. \A i \in DOMAIN r : i \in DOMAIN q \/ i = Len(q) + 1
  BY <1>1
<1>5. \A k : Presses(r, k) <=> Presses(q, k) \/ (k = e.key /\ e.press = TRUE)
  BY <1>2, <1>3, <1>4, Zenon DEF Presses, DownAt
<1>6. \A i \in DOMAIN r : r[i] = e \/ \E j \in DOMAIN q : r[i] = q[j]
  BY <1>2, <1>3, <1>4, Zenon
<1>7. QED
  BY <1>0, <1>1, <1>5, <1>6

\* What is sure to be released, after presses and one more event.
LEMMA ForwardIs ==
    ASSUME KeyboardTypes, NEW q \in Seq(Events), NEW e \in Events,
           \A i \in DOMAIN q : q[i].press = TRUE,
           forwarded' = After(forwarded, Append(q, e))
    PROVE  /\ forwarded' \subseteq Keys
           /\ \A k \in Keys : k # e.key /\ Sure(k) => Sure(k)'
           /\ e.press = TRUE => e.key \in forwarded'
<1>1. /\ forwarded' \subseteq Keys /\ (e.key \in forwarded' <=> e.press = TRUE)
      /\ \A k \in Keys : k # e.key => (k \in forwarded' <=> k \in After(forwarded, q))
  BY AfterLast DEF KeyboardTypes
<1>2. \A k \in Keys : k \in After(forwarded, q) <=> k \in forwarded \/ Presses(q, k)
  BY AfterPresses DEF KeyboardTypes
<1>3. QED
  BY <1>1, <1>2 DEF Sure

\* Nothing waits for a verdict, and what is consumed was withheld.
LEMMA NonePending ==
    ASSUME KeyboardTypes, PendingInv, pending' = <<>>, consumed' \subseteq Keys
    PROVE  /\ pending' \in Seq(Events) /\ PendingInv' /\ Withholding' = consumed'
           /\ \A k \in Modifiers : Clean(k)'
           /\ \A k \in Keys : k \notin consumed' => Clean(k)'
           /\ consumed' \subseteq Withholding => \A k \in Keys : Clean(k) => Clean(k)'
<1>1. \A k : ~ IsPending(k)'
  BY DEF IsPending, Presses
<1>2. pending' \in Seq(Events)
  OBVIOUS
<1>3. PendingInv'
  BY <1>1 DEF PendingInv
<1>4. Withholding' = consumed'
  BY <1>1 DEF Withholding
<1>5. \A k \in Keys : k \in Modifiers \/ k \notin consumed' => Clean(k)'
  BY <1>1 DEF Clean
<1>6. Modifiers \subseteq Keys
  BY DEF Modifiers
<1>7. consumed' \subseteq Withholding => \A k \in Keys : Clean(k) => Clean(k)'
  BY <1>5 DEF Clean, Withholding
<1>8. QED
  BY <1>2, <1>3, <1>4, <1>5, <1>6, <1>7

\* What the parts of a verdict are proved from.
LEMMA JudgingFrom ==
    ASSUME KeyboardInv, NEW e, Judging(e)
    PROVE  /\ KeyboardTypes /\ HeldInv /\ PendingInv /\ FlutterHolds(verdicts, sent, Withholding)
           /\ verdicts # <<>> /\ verdicts' = Tail(verdicts)
           /\ UNCHANGED <<down, held, sent, gaming, gameKeys, locked, capturing, recording, typing>>
           /\ locked \/ typing \/ ~focused => told = {}
           /\ Consuming = Withholding /\ Withholding \subseteq Keys
           /\ e \in Events /\ e.key \in Keys /\ (e.press = TRUE \/ e.press = FALSE)
           /\ verdicts' \in Seq(Events) /\ pending \in Seq(Events)
           /\ \A k : DownAt(verdicts, k, 1) <=> k = e.key /\ e.press = TRUE
           /\ \A k : UpAt(verdicts, k, 1) <=> k = e.key /\ e.press = FALSE
           /\ \A i \in DOMAIN pending : pending[i].press = TRUE
           /\ \A k : IsPending(k) => k \in Modifiers /\ k \in Withholding /\ k \notin consumed
           /\ \A k : Sure(k) => k \notin Modifiers
<1>1. KeyboardTypes /\ HeldInv /\ PendingInv /\ FlutterHolds(verdicts, sent, Withholding)
  BY DEF KeyboardInv
<1>2. /\ e \in Events /\ e.key \in Keys /\ (e.press = TRUE \/ e.press = FALSE)
      /\ verdicts' \in Seq(Events)
      /\ \A k : DownAt(verdicts, k, 1) <=> k = e.key /\ e.press = TRUE
      /\ \A k : UpAt(verdicts, k, 1) <=> k = e.key /\ e.press = FALSE
  BY <1>1, JudgingIs
<1>3. verdicts # <<>> /\ verdicts' = Tail(verdicts)
      /\ UNCHANGED <<down, held, sent, gaming, gameKeys, locked, capturing, recording, typing>>
  BY DEF Judging
<1>4. Consuming = Withholding /\ Withholding \subseteq Keys
  BY <1>1, ConsumingIs DEF Withholding
<1>5. \A i \in DOMAIN pending : pending[i].press = TRUE
  BY <1>1 DEF PendingInv
<1>6. \A k : IsPending(k) => k \in Modifiers /\ k \in Withholding /\ k \notin consumed
  <2>1. SUFFICES ASSUME NEW k, IsPending(k) PROVE k \in Modifiers /\ k \in Withholding /\ k \notin consumed
    OBVIOUS
  <2>2. k \in Modifiers /\ k \in Keys
    BY <1>1, <2>1 DEF PendingInv, IsPending, Presses, DownAt, Modifiers
  <2>3. QED
    BY <1>1, <2>1, <2>2 DEF PendingInv, Withholding
<1>7. locked \/ typing \/ ~focused => told = {}
  BY <1>1 DEF HeldInv
<1>8. pending \in Seq(Events)
  BY <1>1 DEF KeyboardTypes
<1>9. \A k : Sure(k) => k \notin Modifiers
  BY DEF Sure
<1>10. QED
  BY <1>1, <1>2, <1>3, <1>4, <1>5, <1>6, <1>7, <1>8, <1>9

\* The client's variables stay: a key told keeps its release, unless a press withheld was of it.
LEMMA UntoldKeeps ==
    ASSUME KeyboardInv, NEW e, Judging(e), UNCHANGED <<forwarded, clientVars>>,
           pending' \in Seq(Events), consumed' \subseteq Keys, PendingInv',
           \A k \in Withholding' : (k \in Withholding \/ DownAt(verdicts, k, 1)) /\ ~ UpAt(verdicts, k, 1),
           \A k \in Keys : \/ ~ UpAt(verdicts, k, 1) /\ (DownAt(verdicts, k, 1) \/ (Clean(k) => Clean(k)'))
                           \/ ~ Clean(k) /\ ~ Sure(k) /\ Clean(k)'
    PROVE  KeyboardInv'
<1>1. /\ KeyboardTypes /\ verdicts # <<>> /\ verdicts' = Tail(verdicts)
      /\ UNCHANGED <<down, held, sent, gaming, gameKeys, locked, capturing, recording, typing>>
      /\ locked \/ typing \/ ~focused => told = {}
  BY JudgingFrom
<1>2. UNCHANGED <<forwarded, focused, told, swallowed>>
  BY DEF clientVars
<1>3. \A k : Sure(k)' = Sure(k)
  BY <1>2 DEF Sure
<1>4. ASSUME NEW k \in told' \ swallowed' PROVE Fate(k)
  <2>1. k \in Keys /\ k \in told \ swallowed /\ (Sure(k) => Sure(k)')
    BY <1>1, <1>2, <1>3, <1>4 DEF KeyboardTypes
  <2>2. QED
    BY <2>1 DEF Fate
<1>5. /\ forwarded' \subseteq Keys /\ told' \subseteq Keys /\ swallowed' \subseteq swallowed
      /\ locked \/ typing \/ ~focused => told' = {}
      /\ swallowed \ swallowed' = {}
  BY <1>1, <1>2 DEF KeyboardTypes
<1>6. QED
  BY <1>1, <1>2, <1>4, <1>5, JudgedKeeps

\* The client is told some presses that were withheld, and the event: each is of a modifier.
LEMMA ToldKeeps ==
    ASSUME KeyboardInv, NEW e, Judging(e), ~ KeptFromClients, NEW q \in Seq(Events),
           \A i \in DOMAIN q : q[i].press = TRUE,
           Forward(Append(q, e)),
           pending' \in Seq(Events), consumed' \subseteq Keys, PendingInv',
           \A k \in Withholding' : (k \in Withholding \/ DownAt(verdicts, k, 1)) /\ ~ UpAt(verdicts, k, 1),
           \A k \in Keys : Clean(k) => Clean(k)',
           \A k : Presses(q, k) => k \in Modifiers /\ k \in Withholding /\ Clean(k)',
           e.press = TRUE /\ e.key \in Modifiers => Clean(e.key)'
    PROVE  KeyboardInv'
<1>1. /\ KeyboardTypes /\ HeldInv /\ verdicts # <<>> /\ verdicts' = Tail(verdicts)
      /\ UNCHANGED <<down, held, sent, gaming, gameKeys, locked, capturing, recording, typing>>
      /\ e \in Events /\ e.key \in Keys /\ (e.press = TRUE \/ e.press = FALSE)
      /\ verdicts' \in Seq(Events)
      /\ \A k : DownAt(verdicts, k, 1) <=> k = e.key /\ e.press = TRUE
      /\ \A k : UpAt(verdicts, k, 1) <=> k = e.key /\ e.press = FALSE
  BY JudgingFrom
<1>2. /\ told' \subseteq Keys /\ swallowed' \subseteq swallowed /\ focused' = focused
      /\ ~focused => told' = {}
      /\ \A k \in told' : IF k = e.key THEN e.press = TRUE ELSE k \in told \/ Presses(q, k)
      /\ \A k \in told' \ swallowed' : k \notin swallowed
      /\ \A k \in swallowed \ swallowed' : k = e.key /\ e.press = FALSE /\ ~ Presses(verdicts', k)
  <2>1. Tell(Append(q, e))
    BY DEF Forward
  <2>2. QED
    BY <1>1, <2>1, TellsIs
<1>3. /\ forwarded' \subseteq Keys
      /\ \A k \in Keys : k # e.key /\ Sure(k) => Sure(k)'
      /\ e.press = TRUE => e.key \in forwarded'
  <2>1. forwarded' = After(forwarded, Append(q, e))
    BY DEF Forward
  <2>2. QED
    BY <1>1, <2>1, ForwardIs
<1>4. ASSUME NEW k \in told' \ swallowed' PROVE Fate(k)
  <2>1. k \in Keys /\ k \notin swallowed
    BY <1>2
  <2>2. CASE k = e.key
    <3>1. e.press = TRUE /\ DownAt(verdicts, k, 1) /\ ~ UpAt(verdicts, k, 1)
      BY <1>1, <1>2, <2>2
    <3>2. CASE k \in Modifiers
      BY <2>2, <3>1, <3>2 DEF Fate
    <3>3. CASE k \notin Modifiers
      <4>1. Sure(k)'
        BY <1>3, <2>2, <3>1, <3>3 DEF Sure, Modifiers
      <4>2. QED
        BY <2>1, <3>1, <3>3, <4>1 DEF Fate
    <3>4. QED
      BY <3>2, <3>3
  <2>3. CASE k # e.key
    <3>1. ~ UpAt(verdicts, k, 1)
      BY <1>1, <2>3
    <3>2. CASE Presses(q, k)
      BY <3>1, <3>2 DEF Fate
    <3>3. CASE k \in told
      <4>1. (Sure(k) => Sure(k)') /\ (Clean(k) => Clean(k)')
        BY <1>3, <2>1, <2>3
      <4>2. QED
        BY <2>1, <3>1, <3>3, <4>1 DEF Fate
    <3>4. QED
      BY <1>2, <2>3, <3>2, <3>3
  <2>4. QED
    BY <2>2, <2>3
<1>5. locked \/ typing \/ ~focused => told' = {}
  BY <1>2 DEF KeptFromClients
<1>6. \A k \in swallowed \ swallowed' : UpAt(verdicts, k, 1) /\ ~ Presses(verdicts', k)
  BY <1>1, <1>2
<1>7. QED
  BY <1>1, <1>2, <1>3, <1>4, <1>5, <1>6, JudgedKeeps

LEMMA KeptKeeps ==
    ASSUME KeyboardInv, NEW e, Judging(e), KeptFromClients, Clear, UNCHANGED clientVars
    PROVE  KeyboardInv'
<1>1. /\ KeyboardTypes /\ HeldInv /\ PendingInv /\ verdicts # <<>> /\ verdicts' = Tail(verdicts)
      /\ UNCHANGED <<down, held, sent, gaming, gameKeys, locked, capturing, recording, typing>>
      /\ locked \/ typing \/ ~focused => told = {}
  BY JudgingFrom
<1>2. told = {} /\ UNCHANGED <<focused, told, swallowed>>
  BY <1>1 DEF KeptFromClients, clientVars
<1>3. pending' = <<>> /\ consumed' = {} /\ forwarded' = {}
  BY DEF Clear
<1>4. pending' \in Seq(Events) /\ PendingInv' /\ Withholding' = {}
  BY <1>1, <1>3, NonePending
<1>5. consumed' \subseteq Keys /\ forwarded' \subseteq Keys /\ told' = {}
      /\ told' \subseteq Keys /\ swallowed' = swallowed
  BY <1>2, <1>3
<1>6. QED
  BY <1>1, <1>2, <1>4, <1>5, JudgedKeeps

LEMMA ResolveWithheldKeeps ==
    ASSUME KeyboardInv, NEW e, Judging(e), ~ KeptFromClients, NEW handled, ResolveWithheld(e, handled)
    PROVE  KeyboardInv'
<1>1. /\ KeyboardTypes /\ PendingInv
      /\ e.key \in Keys /\ (e.press = TRUE \/ e.press = FALSE)
      /\ pending \in Seq(Events)
      /\ \A k : DownAt(verdicts, k, 1) <=> k = e.key /\ e.press = TRUE
      /\ \A k : UpAt(verdicts, k, 1) <=> k = e.key /\ e.press = FALSE
      /\ \A i \in DOMAIN pending : pending[i].press = TRUE
      /\ \A k : IsPending(k) => k \in Modifiers /\ k \in Withholding /\ k \notin consumed
      /\ \A k : Sure(k) => k \notin Modifiers
  BY JudgingFrom
<1>2. /\ ~e.press /\ Event(e.key, TRUE) \in Range(pending) /\ pending' = <<>> /\ consumed' = consumed
  BY DEF ResolveWithheld
<1>3. e.press = FALSE /\ IsPending(e.key) /\ e.key \in Modifiers /\ e.key \notin consumed
  BY <1>1, <1>2, PendingIs
<1>4. consumed' \subseteq Keys /\ consumed' \subseteq Withholding /\ e.key \notin consumed'
  BY <1>1, <1>2, <1>3 DEF KeyboardTypes, Withholding
<1>5. /\ pending' \in Seq(Events) /\ PendingInv' /\ Withholding' = consumed'
      /\ \A k \in Modifiers : Clean(k)'
      /\ \A k \in Keys : Clean(k) => Clean(k)'
  BY <1>1, <1>2, <1>4, NonePending
<1>6. \A k \in Withholding' : (k \in Withholding \/ DownAt(verdicts, k, 1)) /\ ~ UpAt(verdicts, k, 1)
  BY <1>1, <1>4, <1>5
<1>7. CASE UNCHANGED <<forwarded, clientVars>>
  <2>1. \A k \in Keys : \/ ~ UpAt(verdicts, k, 1) /\ (DownAt(verdicts, k, 1) \/ (Clean(k) => Clean(k)'))
                        \/ ~ Clean(k) /\ ~ Sure(k) /\ Clean(k)'
    <3>1. SUFFICES ASSUME NEW k \in Keys, UpAt(verdicts, k, 1) PROVE ~ Clean(k) /\ ~ Sure(k) /\ Clean(k)'
      BY <1>5
    <3>2. k = e.key /\ k \in Modifiers
      BY <1>1, <1>3, <3>1
    <3>3. ~ Clean(k)
      BY <1>3, <3>2 DEF Clean
    <3>4. QED
      BY <1>1, <1>5, <3>2, <3>3
  <2>2. QED
    BY <1>4, <1>5, <1>6, <1>7, <2>1, UntoldKeeps
<1>8. CASE Forward(Append(pending, e))
  <2>1. \A k : Presses(pending, k) => k \in Modifiers /\ k \in Withholding /\ Clean(k)'
    BY <1>1, <1>5 DEF IsPending
  <2>2. QED
    BY <1>1, <1>3, <1>4, <1>5, <1>6, <1>8, <2>1, ToldKeeps
<1>9. QED
  BY <1>7, <1>8 DEF ResolveWithheld

LEMMA ResolveReleaseKeeps ==
    ASSUME KeyboardInv, NEW e, Judging(e), ~ KeptFromClients, NEW handled, ResolveRelease(e, handled)
    PROVE  KeyboardInv'
<1>1. /\ KeyboardTypes /\ PendingInv
      /\ Consuming = Withholding /\ Withholding \subseteq Keys
      /\ e \in Events /\ e.key \in Keys /\ (e.press = TRUE \/ e.press = FALSE)
      /\ \A k : DownAt(verdicts, k, 1) <=> k = e.key /\ e.press = TRUE
      /\ \A k : UpAt(verdicts, k, 1) <=> k = e.key /\ e.press = FALSE
  BY JudgingFrom
<1>2. /\ ~e.press /\ Event(e.key, TRUE) \notin Range(pending) /\ pending' = <<>> /\ consumed' = Consuming \ {e.key}
  BY DEF ResolveRelease
<1>3. e.press = FALSE /\ ~ IsPending(e.key)
  BY <1>1, <1>2, PendingIs
<1>4. consumed' \subseteq Keys /\ consumed' \subseteq Withholding /\ e.key \notin consumed'
  BY <1>1, <1>2
<1>5. /\ pending' \in Seq(Events) /\ PendingInv' /\ Withholding' = consumed'
      /\ \A k \in Keys : k \notin consumed' => Clean(k)'
      /\ \A k \in Keys : Clean(k) => Clean(k)'
  BY <1>1, <1>2, <1>4, NonePending
<1>6. \A k \in Withholding' : (k \in Withholding \/ DownAt(verdicts, k, 1)) /\ ~ UpAt(verdicts, k, 1)
  BY <1>1, <1>4, <1>5
<1>7. CASE UNCHANGED <<forwarded, clientVars>> /\ ~ (e.key \in forwarded \/ e.key \notin Consuming \/ e.key \in Modifiers)
  <2>1. ~ Clean(e.key) /\ ~ Sure(e.key) /\ Clean(e.key)'
    BY <1>1, <1>3, <1>4, <1>5, <1>7 DEF Clean, Sure, Withholding
  <2>2. \A k \in Keys : \/ ~ UpAt(verdicts, k, 1) /\ (DownAt(verdicts, k, 1) \/ (Clean(k) => Clean(k)'))
                        \/ ~ Clean(k) /\ ~ Sure(k) /\ Clean(k)'
    BY <1>1, <1>5, <2>1
  <2>3. UNCHANGED <<forwarded, clientVars>>
    BY <1>7
  <2>4. QED
    BY <1>4, <1>5, <1>6, <2>2, <2>3, UntoldKeeps
<1>8. CASE Forward(<<e>>)
  <2>1. <<>> \in Seq(Events) /\ Append(<<>>, e) = <<e>> /\ DOMAIN <<>> = {}
    OBVIOUS
  <2>2. PICK q : q = <<>> /\ q \in Seq(Events) /\ Append(q, e) = <<e>> /\ DOMAIN q = {}
    BY <2>1, Zenon
  <2>3. (\A k : ~ Presses(q, k)) /\ (\A i \in DOMAIN q : q[i].press = TRUE) /\ Forward(Append(q, e))
    BY <1>8, <2>2 DEF Presses
  <2>4. QED
    BY <1>3, <1>4, <1>5, <1>6, <2>2, <2>3, ToldKeeps
<1>9. QED
  BY <1>7, <1>8 DEF ResolveRelease

LEMMA ResolveHandledKeeps ==
    ASSUME KeyboardInv, NEW e, Judging(e), NEW handled, ResolveHandled(e, handled)
    PROVE  KeyboardInv'
<1>1. /\ KeyboardTypes /\ PendingInv
      /\ Consuming = Withholding /\ Withholding \subseteq Keys
      /\ e.key \in Keys /\ (e.press = TRUE \/ e.press = FALSE)
      /\ \A k : DownAt(verdicts, k, 1) <=> k = e.key /\ e.press = TRUE
      /\ \A k : UpAt(verdicts, k, 1) <=> k = e.key /\ e.press = FALSE
      /\ \A k : IsPending(k) => k \in Modifiers /\ k \in Withholding /\ k \notin consumed
  BY JudgingFrom
<1>2. /\ e.press /\ consumed' = Consuming \cup {e.key} /\ pending' = <<>>
      /\ UNCHANGED <<forwarded, clientVars>>
  BY DEF ResolveHandled
<1>3. e.press = TRUE /\ consumed' \subseteq Keys
  BY <1>1, <1>2
<1>4. /\ pending' \in Seq(Events) /\ PendingInv' /\ Withholding' = consumed'
      /\ \A k \in Keys : k \notin consumed' => Clean(k)'
      /\ \A k \in Modifiers : Clean(k)'
  BY <1>1, <1>2, <1>3, NonePending
<1>5. \A k \in Withholding' : (k \in Withholding \/ DownAt(verdicts, k, 1)) /\ ~ UpAt(verdicts, k, 1)
  BY <1>1, <1>2, <1>3, <1>4
<1>6. ASSUME NEW k \in Keys PROVE ~ UpAt(verdicts, k, 1) /\ (DownAt(verdicts, k, 1) \/ (Clean(k) => Clean(k)'))
  <2>1. ~ UpAt(verdicts, k, 1)
    BY <1>1, <1>3
  <2>2. CASE k = e.key
    BY <1>1, <1>3, <2>1, <2>2
  <2>3. CASE k # e.key /\ k \notin Modifiers
    <3>1. Clean(k) => k \notin consumed'
      BY <1>1, <1>2, <2>3 DEF Clean, Withholding
    <3>2. QED
      BY <1>4, <2>1, <3>1
  <2>4. QED
    BY <1>4, <2>1, <2>2, <2>3
<1>7. QED
  BY <1>2, <1>3, <1>4, <1>5, <1>6, UntoldKeeps

LEMMA KeysFinite == IsFiniteSet(Keys)
<1>1. IsFiniteSet({"Super", "Ctrl", "A", "B", "Print", "Escape"})
  <2>1. IsFiniteSet({})
    BY FS_EmptySet
  <2>2. \A S, x : IsFiniteSet(S) => IsFiniteSet(S \cup {x})
    BY FS_AddElement
  <2>3. IsFiniteSet({"Super"})
    <3>1. {"Super"} = {} \cup {"Super"}
      OBVIOUS
    <3>2. QED
      BY <2>1, <2>2, <3>1, Zenon
  <2>4. IsFiniteSet({"Super", "Ctrl"})
    <3>1. {"Super", "Ctrl"} = {"Super"} \cup {"Ctrl"}
      OBVIOUS
    <3>2. QED
      BY <2>3, <2>2, <3>1, Zenon
  <2>5. IsFiniteSet({"Super", "Ctrl", "A"})
    <3>1. {"Super", "Ctrl", "A"} = {"Super", "Ctrl"} \cup {"A"}
      OBVIOUS
    <3>2. QED
      BY <2>4, <2>2, <3>1, Zenon
  <2>6. IsFiniteSet({"Super", "Ctrl", "A", "B"})
    <3>1. {"Super", "Ctrl", "A", "B"} = {"Super", "Ctrl", "A"} \cup {"B"}
      OBVIOUS
    <3>2. QED
      BY <2>5, <2>2, <3>1, Zenon
  <2>7. IsFiniteSet({"Super", "Ctrl", "A", "B", "Print"})
    <3>1. {"Super", "Ctrl", "A", "B", "Print"} = {"Super", "Ctrl", "A", "B"} \cup {"Print"}
      OBVIOUS
    <3>2. QED
      BY <2>6, <2>2, <3>1, Zenon
  <2>8. {"Super", "Ctrl", "A", "B", "Print", "Escape"} = {"Super", "Ctrl", "A", "B", "Print"} \cup {"Escape"}
    OBVIOUS
  <2>9. QED
    BY <2>7, <2>2, <2>8, Zenon
<1>2. QED
  BY <1>1, FS_Subset, KeyboardBounds

\* The presses of some keys, or their releases, in whatever order they are told.
LEMMA EventsOf ==
    ASSUME NEW s \in SUBSET Keys, NEW b \in BOOLEAN
    PROVE  \E q \in Seq(Events) :
              /\ q = SetToSeq({Event(k, b) : k \in s})
              /\ \A i \in DOMAIN q : q[i].press = b
              /\ \A k \in Keys : k \in s <=> \E i \in DOMAIN q : q[i].key = k
              /\ \A k : (\E i \in DOMAIN q : q[i].key = k) => k \in Keys
<1> DEFINE S == {Event(k, b) : k \in s}
<1> DEFINE f == [k \in s |-> Event(k, b)]
<1>1. IsFiniteSet(S)
  <2>1. IsFiniteSet(s)
    BY KeysFinite, FS_Subset
  <2>2. DOMAIN f = s /\ {f[k] : k \in s} = S
    OBVIOUS
  <2>3. IsFiniteSet({f[k] : k \in s})
    BY <2>1, FiniteValues
  <2>4. QED
    BY <2>2, <2>3
<1>2. S \subseteq Events /\ \A x \in S : x.press = b /\ x.key \in s
  BY EventIs
<1>3. \A k \in s : Event(k, b) \in S /\ Event(k, b).key = k
  BY EventIs
<1> HIDE DEF S
<1>4. PICK q : q = SetToSeq(S) /\ q \in Seq(S) /\ \A x : Has(q, x) <=> x \in S
  BY <1>1, SetAsSeq
<1>5. q \in Seq(Events)
  BY <1>2, <1>4
<1>6. \A i \in DOMAIN q : q[i] \in S
  BY <1>4
<1>7. \A k \in s : \E i \in DOMAIN q : q[i].key = k
  BY <1>3, <1>4 DEF Has
<1>8. (\A i \in DOMAIN q : q[i].press = b) /\ \A i \in DOMAIN q : q[i].key \in s
  BY <1>2, <1>6
<1>9. q = SetToSeq({Event(k, b) : k \in s})
  BY <1>4 DEF S
<1>10. QED
  BY <1>5, <1>7, <1>8, <1>9

LEMMA ResolvePressKeeps ==
    ASSUME KeyboardInv, NEW e, Judging(e), ~ KeptFromClients, NEW handled, ResolvePress(e, handled)
    PROVE  KeyboardInv'
<1>1. /\ KeyboardTypes /\ PendingInv
      /\ e.key \in Keys /\ (e.press = TRUE \/ e.press = FALSE)
      /\ \A k : DownAt(verdicts, k, 1) <=> k = e.key /\ e.press = TRUE
      /\ \A k : UpAt(verdicts, k, 1) <=> k = e.key /\ e.press = FALSE
  BY JudgingFrom
<1>2. PICK replayed :
        /\ replayed = IF e.key \in Modifiers THEN {} ELSE {k \in consumed : Withheld(k)}
        /\ e.press /\ pending = <<>> /\ consumed' = consumed \ replayed /\ pending' = pending
        /\ Forward(Append(SetToSeq({Event(k, TRUE) : k \in replayed}), e))
  BY DEF ResolvePress
<1>3. e.press = TRUE /\ replayed \in SUBSET Keys /\ TRUE \in BOOLEAN
      /\ \A k \in replayed : k \in Modifiers /\ k \in consumed
  BY <1>1, <1>2 DEF KeyboardTypes, Withheld
<1>4. PICK q \in Seq(Events) :
         /\ q = SetToSeq({Event(k, TRUE) : k \in replayed})
         /\ \A i \in DOMAIN q : q[i].press = TRUE
         /\ \A k \in Keys : k \in replayed <=> \E i \in DOMAIN q : q[i].key = k
         /\ \A k : (\E i \in DOMAIN q : q[i].key = k) => k \in Keys
  BY <1>3, EventsOf
<1>5. Forward(Append(q, e))
  BY <1>2, <1>4
<1>6. consumed' \subseteq Keys /\ consumed' \subseteq Withholding
  BY <1>1, <1>2 DEF KeyboardTypes, Withholding
<1>7. /\ pending' \in Seq(Events) /\ PendingInv' /\ Withholding' = consumed'
      /\ \A k \in Modifiers : Clean(k)'
      /\ \A k \in Keys : Clean(k) => Clean(k)'
  BY <1>1, <1>2, <1>6, NonePending
<1>8. \A k \in Withholding' : (k \in Withholding \/ DownAt(verdicts, k, 1)) /\ ~ UpAt(verdicts, k, 1)
  BY <1>1, <1>3, <1>6, <1>7
<1>9. ASSUME NEW k, Presses(q, k) PROVE k \in Modifiers /\ k \in Withholding /\ Clean(k)'
  <2>1. k \in replayed
    BY <1>4, <1>9 DEF Presses, DownAt
  <2>2. k \in Modifiers /\ k \in Withholding
    BY <1>3, <2>1 DEF Withholding
  <2>3. QED
    BY <1>7, <2>2
<1>10. QED
  BY <1>4, <1>5, <1>6, <1>7, <1>8, <1>9, ToldKeeps

LEMMA ResolveSuperKeeps ==
    ASSUME KeyboardInv, NEW e, Judging(e), ~ KeptFromClients, NEW handled, ResolveSuper(e, handled)
    PROVE  KeyboardInv'
<1>1. /\ KeyboardTypes /\ PendingInv /\ FlutterHolds(verdicts, sent, Withholding)
      /\ e \in Events /\ e.key \in Keys /\ (e.press = TRUE \/ e.press = FALSE)
      /\ pending \in Seq(Events)
      /\ \A k : DownAt(verdicts, k, 1) <=> k = e.key /\ e.press = TRUE
      /\ \A k : UpAt(verdicts, k, 1) <=> k = e.key /\ e.press = FALSE
      /\ \A i \in DOMAIN pending : pending[i].press = TRUE
      /\ \A k : IsPending(k) => k \in Modifiers /\ k \in Withholding /\ k \notin consumed
      /\ \A k : Sure(k) => k \notin Modifiers
      /\ verdicts # <<>>
  BY JudgingFrom
<1>2. e.press /\ (pending # <<>> \/ e.key = "Super") /\ consumed' = consumed
  BY DEF ResolveSuper
<1>3. e.press = TRUE /\ consumed' \subseteq Keys /\ consumed' \subseteq Withholding
  BY <1>1, <1>2 DEF KeyboardTypes, Withholding
<1>4. CASE e.key \in Modifiers
  <2>1. pending' = Append(pending, e) /\ UNCHANGED <<forwarded, clientVars>>
    BY <1>4 DEF ResolveSuper
  <2>2. /\ pending' \in Seq(Events)
        /\ \A k : IsPending(k)' <=> IsPending(k) \/ (k = e.key /\ e.press = TRUE)
        /\ \A i \in DOMAIN pending' : pending'[i] = e \/ \E j \in DOMAIN pending : pending'[i] = pending[j]
    <3>1. /\ Append(pending, e) \in Seq(Events)
          /\ \A k : Presses(Append(pending, e), k) <=> Presses(pending, k) \/ (k = e.key /\ e.press = TRUE)
          /\ \A i \in DOMAIN Append(pending, e) :
                Append(pending, e)[i] = e \/ \E j \in DOMAIN pending : Append(pending, e)[i] = pending[j]
      BY <1>1, PressesAppend
    <3>2. PICK r : /\ r = Append(pending, e) /\ r \in Seq(Events)
                   /\ \A k : Presses(r, k) <=> Presses(pending, k) \/ (k = e.key /\ e.press = TRUE)
                   /\ \A i \in DOMAIN r : r[i] = e \/ \E j \in DOMAIN pending : r[i] = pending[j]
      BY <3>1, Zenon
    <3>3. pending' = r
      BY <2>1, <3>2
    <3>4. QED
      BY <3>2, <3>3 DEF IsPending
  <2>3. e.key \notin Withholding
    <3>1. verdicts \in Seq(Events)
      BY <1>1 DEF KeyboardTypes
    <3>2. Spaced(verdicts, e.key, e.key \in Withholding) /\ DownAt(verdicts, e.key, 1)
      BY <1>1, <1>3, <1>4 DEF FlutterHolds
    <3>3. 1 \in DOMAIN verdicts
      BY <1>1, <3>1
    <3>4. \A l \in DOMAIN verdicts : ~ (l < 1)
      BY <3>1
    <3>5. QED
      BY <3>2, <3>3, <3>4 DEF Spaced
  <2>4. PendingInv'
    <3>1. \A i \in DOMAIN pending' : pending'[i].press = TRUE /\ pending'[i].key \in Modifiers
      BY <1>1, <1>3, <1>4, <2>2 DEF PendingInv
    <3>2. IsPending("Super")'
      BY <1>1, <1>2, <1>3, <2>2 DEF PendingInv
    <3>3. \A k \in Keys : IsPending(k)' => k \notin consumed'
      BY <1>1, <1>2, <2>2, <2>3 DEF PendingInv, Withholding
    <3>4. QED
      BY <3>1, <3>2, <3>3 DEF PendingInv
  <2>5. \A k \in Withholding' : (k \in Withholding \/ DownAt(verdicts, k, 1)) /\ ~ UpAt(verdicts, k, 1)
    BY <1>1, <1>2, <1>3, <2>2 DEF Withholding
  <2>6. ASSUME NEW k \in Keys PROVE ~ UpAt(verdicts, k, 1) /\ (DownAt(verdicts, k, 1) \/ (Clean(k) => Clean(k)'))
    BY <1>1, <1>2, <1>3, <2>2 DEF Clean
  <2>7. QED
    BY <1>3, <2>1, <2>2, <2>4, <2>5, <2>6, UntoldKeeps
<1>5. CASE e.key \notin Modifiers
  <2>1. pending' = <<>> /\ Forward(Append(pending, e))
    BY <1>5 DEF ResolveSuper
  <2>2. /\ pending' \in Seq(Events) /\ PendingInv' /\ Withholding' = consumed'
        /\ \A k \in Modifiers : Clean(k)'
        /\ \A k \in Keys : Clean(k) => Clean(k)'
    BY <1>1, <1>3, <2>1, NonePending
  <2>3. \A k \in Withholding' : (k \in Withholding \/ DownAt(verdicts, k, 1)) /\ ~ UpAt(verdicts, k, 1)
    BY <1>1, <1>3, <2>2
  <2>4. \A k : Presses(pending, k) => k \in Modifiers /\ k \in Withholding /\ Clean(k)'
    BY <1>1, <2>2 DEF IsPending
  <2>5. QED
    BY <1>1, <1>3, <1>5, <2>1, <2>2, <2>3, <2>4, ToldKeeps
<1>6. QED
  BY <1>4, <1>5

LEMMA VerdictKeeps ==
    ASSUME KeyboardInv, NEW handled, Verdict(handled)
    PROVE  KeyboardInv'
<1>1. PICK e : /\ e = Head(verdicts) /\ Judging(e)
               /\ IF KeptFromClients
                  THEN Clear /\ UNCHANGED clientVars
                  ELSE \/ ResolveWithheld(e, handled) \/ ResolveRelease(e, handled)
                       \/ ResolveHandled(e, handled)
                       \/ ResolvePress(e, handled)    \/ ResolveSuper(e, handled)
  BY DEF Verdict, Judging, gameVars, modeVars
<1>2. QED
  BY <1>1, KeptKeeps, ResolveWithheldKeeps, ResolveReleaseKeeps, ResolveHandledKeeps, ResolvePressKeeps,
     ResolveSuperKeeps

----------------------------------------------------------------------------
(* What happens between the keys *)

\* What no step between the keys changes for the worse.
LEMMA BetweenKeeps ==
    ASSUME KeyboardInv, UNCHANGED <<down, forwardingVars, swallowed>>,
           KeyboardTypes', HeldInv',
           \/ UNCHANGED <<verdicts, sent>>
           \/ \E r \in Seq(Events) : verdicts' = verdicts \o r /\ AllUp(r, sent) /\ sent' = {},
           told' \subseteq told
    PROVE  KeyboardInv'
<1>1. /\ KeyboardTypes /\ HeldInv /\ PendingInv /\ ToldInv
      /\ FlutterHolds(verdicts, sent, Withholding)
  BY DEF KeyboardInv
<1>2. PendingInv' /\ Withholding' = Withholding /\ \A k : Clean(k)' = Clean(k) /\ Sure(k)' = Sure(k)
  BY <1>1, SameWithheld
<1>3. verdicts \in Seq(Events) /\ sent \in SUBSET Keys /\ Withholding \in SUBSET Keys /\ told \subseteq Keys
  BY <1>1 DEF KeyboardTypes, Withholding
<1>4. CASE UNCHANGED <<verdicts, sent>>
  <2>1. FlutterHolds(verdicts, sent, Withholding)'
    BY <1>1, <1>2, <1>4 DEF FlutterHolds
  <2>2. ASSUME NEW k \in told' \ swallowed' PROVE Freed(StillDue(verdicts, down, k), k, Clean(k), Sure(k))'
    <3>1. Freed(StillDue(verdicts, down, k), k, Clean(k), Sure(k))
      BY <1>1, <2>2 DEF ToldInv
    <3>2. QED
      BY <1>2, <1>4, <3>1
  <2>3. ToldInv'
    BY <2>2 DEF ToldInv
  <2>4. QED
    BY <1>2, <2>1, <2>3 DEF KeyboardInv
<1>5. CASE \E r \in Seq(Events) : verdicts' = verdicts \o r /\ AllUp(r, sent) /\ sent' = {}
  <2>1. PICK r \in Seq(Events) : verdicts' = verdicts \o r /\ AllUp(r, sent) /\ sent' = {}
    BY <1>5
  <2>2. FlutterHolds(verdicts, sent, Withholding)'
    <3>1. FlutterHolds(verdicts \o r, {}, Withholding)
      BY <1>1, <1>3, <2>1, FlutterReleased
    <3>2. QED
      BY <1>2, <2>1, <3>1
  <2>3. ASSUME NEW k \in told' \ swallowed' PROVE Freed(StillDue(verdicts, down, k), k, Clean(k), Sure(k))'
    <3>1. Freed(StillDue(verdicts, down, k), k, Clean(k), Sure(k)) /\ k \in Keys
      BY <1>1, <1>3, <2>3 DEF ToldInv
    <3>2. ~ Presses(r, k)
      BY <2>1 DEF AllUp, Presses, DownAt
    <3>3. Freed(StillDue(verdicts \o r, down, k), k, Clean(k), Sure(k))
      BY <1>3, <3>1, <3>2, DueReleased
    <3>4. QED
      BY <1>2, <2>1, <3>3
  <2>4. ToldInv'
    BY <2>3 DEF ToldInv
  <2>5. QED
    BY <1>2, <2>2, <2>4 DEF KeyboardInv
<1>6. QED
  BY <1>4, <1>5

LEMMA ReleaseIs ==
    ASSUME KeyboardTypes, ReleaseFlutterKeys
    PROVE  /\ verdicts' \in Seq(Events) /\ sent' = {}
           /\ \E r \in Seq(Events) : verdicts' = verdicts \o r /\ AllUp(r, sent) /\ sent' = {}
<1>1. sent \in SUBSET Keys /\ FALSE \in BOOLEAN /\ verdicts \in Seq(Events)
  BY DEF KeyboardTypes
<1>2. PICK r \in Seq(Events) :
         /\ r = SetToSeq({Event(k, FALSE) : k \in sent})
         /\ \A i \in DOMAIN r : r[i].press = FALSE
         /\ \A k \in Keys : k \in sent <=> \E i \in DOMAIN r : r[i].key = k
  BY <1>1, EventsOf
<1>3. AllUp(r, sent)
  BY <1>2 DEF AllUp, Releases, UpAt
<1>4. verdicts' = verdicts \o r /\ sent' = {}
  BY <1>2 DEF ReleaseFlutterKeys, SendToFlutter
<1>5. verdicts' \in Seq(Events)
  BY <1>1, <1>2, <1>4, JoinIs
<1>6. QED
  BY <1>3, <1>4, <1>5

LEMMA BetweenFrom ==
    ASSUME KeyboardInv PROVE KeyboardTypes /\ HeldInv /\ PendingInv
BY DEF KeyboardInv

LEMMA CaptureEndsKeeps == ASSUME KeyboardInv, CaptureEnds PROVE KeyboardInv'
<1>1. KeyboardTypes'
  BY BetweenFrom DEF CaptureEnds, KeyboardTypes, forwardingVars, gameVars, clientVars
<1>2. HeldInv'
  BY BetweenFrom DEF CaptureEnds, HeldInv, gameVars, clientVars
<1>3. UNCHANGED <<down, forwardingVars, swallowed, verdicts, sent, told>>
  BY DEF CaptureEnds, clientVars
<1>4. QED
  BY <1>1, <1>2, <1>3, BetweenKeeps

LEMMA FocusMovesKeeps == ASSUME KeyboardInv, NEW some \in BOOLEAN, FocusMoves(some) PROVE KeyboardInv'
<1>1. KeyboardTypes'
  BY BetweenFrom DEF FocusMoves, KeyboardTypes, forwardingVars, gameVars, modeVars
<1>2. HeldInv'
  BY BetweenFrom DEF FocusMoves, HeldInv, gameVars, modeVars
<1>3. UNCHANGED <<down, forwardingVars, swallowed, verdicts, sent>> /\ told' = {}
  BY DEF FocusMoves
<1>4. QED
  BY <1>1, <1>2, <1>3, BetweenKeeps

LEMMA TextFieldKeeps == ASSUME KeyboardInv, TextField PROVE KeyboardInv'
<1>0. UNCHANGED <<down, held, forwardingVars, pending, consumed, forwarded, swallowed, verdicts, sent, gaming, gameKeys,
                  locked, capturing, recording>>
  BY DEF TextField, forwardingVars, gameVars
<1>1. /\ typing' = ~typing /\ (typing' => ~gaming) /\ focused' = (focused /\ ~typing')
      /\ told' = (IF typing' THEN {} ELSE told)
  BY DEF TextField
<1>2. typing' \in BOOLEAN /\ focused' \in BOOLEAN
  BY <1>1
<1>3. told' = {}
  BY <1>1, BetweenFrom DEF HeldInv, KeyboardTypes
<1>4. KeyboardTypes'
  BY <1>0, <1>2, <1>3, BetweenFrom DEF KeyboardTypes
<1>5. HeldInv'
  BY <1>0, <1>1, <1>3, BetweenFrom DEF HeldInv
<1>6. QED
  BY <1>0, <1>3, <1>4, <1>5, BetweenKeeps

LEMMA GameBeginsKeeps == ASSUME KeyboardInv, GameBegins PROVE KeyboardInv'
<1>1. ReleaseFlutterKeys /\ ~locked /\ ~typing /\ gaming' = TRUE /\ focused' = TRUE
      /\ UNCHANGED <<down, held, forwardingVars, pending, consumed, forwarded, gameKeys, swallowed,
                     locked, capturing, recording, typing>>
      /\ (told' = told \/ told' = {})
  <2>1. focused' \in BOOLEAN /\ (told' = told \/ told' = {}) /\ focused'
    BY BetweenFrom DEF GameBegins, clientVars, KeyboardTypes
  <2>2. QED
    BY <2>1 DEF GameBegins, forwardingVars, modeVars
<1>2. verdicts' \in Seq(Events) /\ sent' = {}
      /\ \E r \in Seq(Events) : verdicts' = verdicts \o r /\ AllUp(r, sent) /\ sent' = {}
  BY <1>1, BetweenFrom, ReleaseIs
<1>3. KeyboardTypes'
  BY <1>1, <1>2, BetweenFrom DEF KeyboardTypes
<1>4. HeldInv'
  BY <1>1, <1>2, BetweenFrom DEF HeldInv
<1>5. told' \subseteq told
  BY <1>1
<1>6. QED
  BY <1>1, <1>2, <1>3, <1>4, <1>5, BetweenKeeps

LEMMA GameEndsKeeps == ASSUME KeyboardInv, GameEnds PROVE KeyboardInv'
<1>1. KeyboardTypes'
  BY BetweenFrom DEF GameEnds, KeyboardTypes, forwardingVars, modeVars, clientVars
<1>2. HeldInv'
  BY BetweenFrom DEF GameEnds, HeldInv, modeVars, clientVars
<1>3. UNCHANGED <<down, forwardingVars, swallowed, verdicts, sent, told>>
  BY DEF GameEnds, clientVars
<1>4. QED
  BY <1>1, <1>2, <1>3, BetweenKeeps

LEMMA LockKeeps == ASSUME KeyboardInv, Lock PROVE KeyboardInv'
<1>1. /\ KeyboardTypes /\ HeldInv /\ PendingInv
      /\ FlutterHolds(verdicts, sent, Withholding)
  BY DEF KeyboardInv
<1>2. /\ locked' = TRUE /\ capturing' = FALSE /\ held' = held \ gameKeys /\ gameKeys' = {} /\ told' = {}
      /\ pending' = <<>> /\ consumed' = {} /\ forwarded' = {}
      /\ UNCHANGED <<down, sent, verdicts, gaming, recording, typing, focused, swallowed>>
  BY DEF Lock, Clear
<1>3. pending' \in Seq(Events) /\ PendingInv' /\ Withholding' = {}
  BY <1>1, <1>2, NonePending
<1>4. KeyboardTypes'
  BY <1>1, <1>2, <1>3 DEF KeyboardTypes
<1>5. HeldInv'
  BY <1>1, <1>2 DEF HeldInv
<1>6. FlutterHolds(verdicts, sent, {})
  <2>1. ASSUME NEW k \in Modifiers PROVE Spaced(verdicts, k, k \in {})
    BY <1>1 DEF FlutterHolds, Spaced
  <2>2. QED
    BY <1>1, <2>1 DEF FlutterHolds
<1>7. FlutterHolds(verdicts, sent, Withholding)'
  BY <1>2, <1>3, <1>6
<1>8. ToldInv'
  BY <1>2 DEF ToldInv
<1>9. QED
  BY <1>3, <1>4, <1>5, <1>7, <1>8 DEF KeyboardInv

LEMMA UnlockKeeps == ASSUME KeyboardInv, Unlock PROVE KeyboardInv'
<1>1. /\ locked' = FALSE /\ locked
      /\ UNCHANGED <<down, held, forwardingVars, pending, consumed, forwarded, gaming, gameKeys, capturing,
                     recording, typing, focused, told, swallowed>>
  BY DEF Unlock, forwardingVars, gameVars, clientVars
<1>2. told = {}
  BY <1>1, BetweenFrom DEF HeldInv
<1>3. CASE gaming /\ ReleaseFlutterKeys
  <2>1. verdicts' \in Seq(Events) /\ sent' = {}
        /\ \E r \in Seq(Events) : verdicts' = verdicts \o r /\ AllUp(r, sent) /\ sent' = {}
    BY <1>3, BetweenFrom, ReleaseIs
  <2>2. KeyboardTypes'
    BY <1>1, <2>1, BetweenFrom DEF KeyboardTypes
  <2>3. HeldInv'
    BY <1>1, <1>2, <2>1, BetweenFrom DEF HeldInv
  <2>4. QED
    BY <1>1, <2>1, <2>2, <2>3, BetweenKeeps
<1>4. CASE ~gaming /\ UNCHANGED <<sent, verdicts>>
  <2>1. KeyboardTypes'
    BY <1>1, <1>4, BetweenFrom DEF KeyboardTypes
  <2>2. HeldInv'
    BY <1>1, <1>2, <1>4, BetweenFrom DEF HeldInv
  <2>3. QED
    BY <1>1, <1>4, <2>1, <2>2, BetweenKeeps
<1>5. QED
  BY <1>3, <1>4 DEF Unlock

LEMMA KeyboardInvInit == KeyboardInit => KeyboardInv
<1> SUFFICES ASSUME KeyboardInit PROVE KeyboardInv
  OBVIOUS
<1>1. /\ down = {} /\ held = {} /\ sent = {} /\ verdicts = <<>> /\ pending = <<>> /\ consumed = {} /\ told = {}
      /\ gaming = FALSE /\ typing = FALSE
  BY DEF KeyboardInit
<1>2. <<>> \in Seq(Events)
  OBVIOUS
<1>3. KeyboardTypes
  BY <1>1, <1>2 DEF KeyboardInit, KeyboardTypes
<1>4. HeldInv
  BY <1>1 DEF HeldInv
<1>5. PendingInv /\ Withholding = {}
  BY <1>1 DEF PendingInv, IsPending, Presses, Withholding
<1>6. FlutterHolds(verdicts, sent, Withholding)
  BY <1>1, <1>5 DEF FlutterHolds, SentTold, Spaced
<1>7. ToldInv
  BY <1>1 DEF ToldInv
<1>8. QED
  BY <1>3, <1>4, <1>5, <1>6, <1>7 DEF KeyboardInv

LEMMA KeyboardInvNext == KeyboardInv /\ [KeyboardNext]_keyboardVars => KeyboardInv'
<1> SUFFICES ASSUME KeyboardInv, [KeyboardNext]_keyboardVars PROVE KeyboardInv'
  OBVIOUS
<1>1. CASE UNCHANGED keyboardVars
  <2>1. UNCHANGED <<down, held, sent, verdicts, forwardingVars, pending, consumed, forwarded, gaming, gameKeys,
                    locked, capturing, recording, typing, focused, told, swallowed>>
    BY <1>1 DEF keyboardVars, forwardingVars, gameVars, modeVars, clientVars
  <2>2. KeyboardTypes'
    BY <2>1, BetweenFrom DEF KeyboardTypes
  <2>3. HeldInv'
    BY <2>1, BetweenFrom DEF HeldInv
  <2>4. QED
    BY <2>1, <2>2, <2>3, BetweenKeeps
<1>2. QED
  BY <1>1, KeyEventKeeps, VerdictKeeps, FocusMovesKeeps, CaptureEndsKeeps, TextFieldKeeps, GameBeginsKeeps,
     GameEndsKeeps, LockKeeps, UnlockKeeps DEF KeyboardNext

\* The invariant holds in every state of the compositor's keyboard.
THEOREM KeyboardInvariant == KeyboardSpec => []KeyboardInv
<1>1. KeyboardInit => KeyboardInv
  BY KeyboardInvInit
<1>2. KeyboardInv /\ [KeyboardNext]_keyboardVars => KeyboardInv'
  BY KeyboardInvNext
<1>3. QED
  BY <1>1, <1>2, PTL DEF KeyboardSpec

\* handle_keyboard_event, resolve, input_forward: once no key is down and Flutter has judged
\* all it was told, no client keeps a press it was told, but of a key whose release a
\* selection or a hotkey swallowed.
THEOREM StuckNever == KeyboardSpec => []NothingSticks
<1>1. KeyboardInv => NothingSticks
  <2>1. SUFFICES ASSUME KeyboardInv, down = {}, verdicts = <<>>, NEW k \in told, k \notin swallowed PROVE FALSE
    BY DEF NothingSticks
  <2>2. Freed(StillDue(verdicts, down, k), k, Clean(k), Sure(k))
    BY <2>1 DEF KeyboardInv, ToldInv
  <2>3. StillDue(verdicts, down, k) = <<>>
    BY <2>1 DEF StillDue
  <2>4. \E i \in DOMAIN <<>> : UpAt(<<>>, k, i)
    BY <2>2, <2>3 DEF Freed
  <2>5. QED
    BY <2>4
<1>2. QED
  BY <1>1, KeyboardInvariant, PTL

----------------------------------------------------------------------------
(* What a step tells the client *)

\* Apart from the gaming mode, only a verdict tells the client of a press.
LEMMA TellingIs ==
    ASSUME KeyboardInv, [KeyboardNext]_keyboardVars, NEW k \in told' \ told, k \notin gameKeys'
    PROVE  \E handled \in BOOLEAN : Verdict(handled)
<1>1. KeyboardTypes /\ HeldInv
  BY DEF KeyboardInv
<1>2. ASSUME NEW e \in Events, KeyEvent(e) PROVE FALSE
  <2>1. CASE LockedHotkey(e) \/ CaptureKey(e) \/ PrintHotkey(e) \/ LeaveGameHotkey(e) \/ FlutterKey(e)
    <3>1. told' \subseteq told
      BY <2>1 DEF LockedHotkey, CaptureKey, PrintHotkey, LeaveGameHotkey, FlutterKey, clientVars
    <3>2. QED
      BY <3>1
  <2>2. CASE GameKey(e)
    <3>1. Tell(<<e>>) /\ gameKeys' = After(gameKeys, <<e>>) /\ verdicts' = verdicts
      BY <2>2 DEF GameKey
    <3>2. verdicts' \in Seq(Events)
      BY <1>1, <3>1 DEF KeyboardTypes
    <3>3. \A j \in told' : IF j = e.key THEN e.press = TRUE ELSE j \in told
      BY <1>1, <3>1, <3>2, TellsOne
    <3>4. k = e.key /\ e.press = TRUE
      BY <3>3
    <3>5. gameKeys \in SUBSET Keys
      BY <1>1 DEF KeyboardTypes
    <3>6. After(gameKeys, <<e>>) = gameKeys \cup {e.key}
      BY <3>4, <3>5, AfterOne
    <3>7. QED
      BY <3>1, <3>4, <3>6
  <2>3. QED
    BY <1>2, <2>1, <2>2 DEF KeyEvent
<1>3. ASSUME \/ \E some \in BOOLEAN : FocusMoves(some)
             \/ CaptureEnds \/ TextField \/ GameBegins \/ GameEnds \/ Lock \/ Unlock
             \/ UNCHANGED keyboardVars
      PROVE  FALSE
  <2>1. told' = told \/ told' = {}
    BY <1>3 DEF FocusMoves, CaptureEnds, TextField, GameBegins, GameEnds, Lock, Unlock, keyboardVars, clientVars
  <2>2. QED
    BY <2>1
<1>4. QED
  BY <1>2, <1>3 DEF KeyboardNext

LEMMA ChordTold ==
    ASSUME KeyboardInv, NEW handled \in BOOLEAN, Verdict(handled),
           NEW k \in Keys \ Modifiers, k \in told' \ told
    PROVE  /\ pending' = <<>>
           /\ \A m \in Modifiers \cap held : m \in consumed' => Event("Super", TRUE) \in Range(pending)
<1>1. PICK e : /\ e = Head(verdicts) /\ Judging(e)
               /\ IF KeptFromClients
                  THEN Clear /\ UNCHANGED clientVars
                  ELSE \/ ResolveWithheld(e, handled) \/ ResolveRelease(e, handled)
                       \/ ResolveHandled(e, handled)
                       \/ ResolvePress(e, handled)    \/ ResolveSuper(e, handled)
  BY DEF Verdict, Judging, gameVars, modeVars
<1>2. /\ KeyboardTypes /\ HeldInv /\ PendingInv
      /\ e \in Events /\ e.key \in Keys /\ (e.press = TRUE \/ e.press = FALSE)
      /\ verdicts' \in Seq(Events) /\ pending \in Seq(Events)
      /\ \A i \in DOMAIN pending : pending[i].press = TRUE
      /\ \A j : IsPending(j) => j \in Modifiers
  BY <1>1, JudgingFrom
<1>3. ~ UNCHANGED clientVars
  BY DEF clientVars
<1>4. ~ KeptFromClients
  BY <1>1, <1>3
  \* Whatever is told with the event is of modifiers, and so the event is of the key.
<1>5. ASSUME NEW q \in Seq(Events), \A i \in DOMAIN q : q[i].press = TRUE, Tell(Append(q, e)), ~ Presses(q, k)
      PROVE  k = e.key /\ e.press = TRUE
  <2>1. \A j \in told' : IF j = e.key THEN e.press = TRUE ELSE j \in told \/ Presses(q, j)
    BY <1>2, <1>5, TellsIs
  <2>2. QED
    BY <1>5, <2>1
<1>6. ~ Presses(pending, k)
  BY <1>2 DEF IsPending
<1>7. CASE ResolveWithheld(e, handled)
  <2>1. Tell(Append(pending, e)) /\ ~e.press
    BY <1>3, <1>7 DEF ResolveWithheld, Forward
  <2>2. QED
    BY <1>2, <1>5, <1>6, <2>1
<1>8. CASE ResolveRelease(e, handled)
  <2>1. Tell(<<e>>) /\ ~e.press
    BY <1>3, <1>8 DEF ResolveRelease, Forward
  <2>2. \A j \in told' : IF j = e.key THEN e.press = TRUE ELSE j \in told
    BY <1>2, <2>1, TellsOne
  <2>3. QED
    BY <2>1, <2>2
<1>9. CASE ResolveHandled(e, handled)
  BY <1>3, <1>9 DEF ResolveHandled
<1>10. CASE ResolvePress(e, handled)
  <2>1. PICK replayed :
          /\ replayed = IF e.key \in Modifiers THEN {} ELSE {j \in consumed : Withheld(j)}
          /\ e.press /\ pending = <<>> /\ consumed' = consumed \ replayed /\ pending' = pending
          /\ Forward(Append(SetToSeq({Event(j, TRUE) : j \in replayed}), e))
    BY <1>10 DEF ResolvePress
  <2>2. replayed \in SUBSET Keys /\ TRUE \in BOOLEAN /\ \A j \in replayed : j \in Modifiers
    BY <1>2, <2>1 DEF KeyboardTypes, Withheld
  <2>3. PICK q \in Seq(Events) :
           /\ q = SetToSeq({Event(j, TRUE) : j \in replayed})
           /\ \A i \in DOMAIN q : q[i].press = TRUE
           /\ \A j \in Keys : j \in replayed <=> \E i \in DOMAIN q : q[i].key = j
           /\ \A j : (\E i \in DOMAIN q : q[i].key = j) => j \in Keys
    BY <2>2, EventsOf
  <2>4. Tell(Append(q, e))
    BY <2>1, <2>3 DEF Forward
  <2>5. ~ Presses(q, k)
    BY <2>2, <2>3 DEF Presses, DownAt
  <2>6. k = e.key
    BY <1>5, <2>3, <2>4, <2>5
  <2>7. replayed = {j \in consumed : Withheld(j)}
    BY <2>1, <2>6
  <2>8. QED
    BY <2>1, <2>7 DEF Withheld
<1>11. CASE ResolveSuper(e, handled)
  <2>1. e.key \notin Modifiers
    BY <1>3, <1>11 DEF ResolveSuper
  <2>2. pending' = <<>> /\ pending # <<>>
    BY <1>2, <1>11, <2>1 DEF ResolveSuper, Modifiers
  <2>3. IsPending("Super") /\ "Super" \in Keys
    BY <1>2, <2>2 DEF PendingInv, Modifiers
  <2>4. Event("Super", TRUE) \in Range(pending)
    BY <1>2, <2>3, PendingIs
  <2>5. QED
    BY <2>2, <2>4
<1>12. QED
  BY <1>1, <1>4, <1>7, <1>8, <1>9, <1>10, <1>11

\* SuperKeyForwarding: a key goes out to a client with every modifier that is held and was
\* withheld from it, and leaves none withheld.
THEOREM ChordsWhole == KeyboardSpec => ChordWhole
<1>1. ASSUME KeyboardInv, [KeyboardNext]_keyboardVars,
             NEW k \in Keys \ Modifiers, k \in told' \ told /\ k \notin gameKeys'
      PROVE  /\ pending' = <<>>
             /\ \A m \in Modifiers \cap held : m \in consumed' => Event("Super", TRUE) \in Range(pending)
  BY <1>1, TellingIs, ChordTold
<1>2. KeyboardInv /\ [KeyboardNext]_keyboardVars =>
        [ \A k \in Keys \ Modifiers :
            k \in told' \ told /\ k \notin gameKeys' =>
                /\ pending' = <<>>
                /\ \A m \in Modifiers \cap held :
                      m \in consumed' => Event("Super", TRUE) \in Range(pending) ]_keyboardVars
  BY <1>1
<1>3. QED
  BY <1>2, KeyboardInvariant, PTL DEF KeyboardSpec, ChordWhole

\* post_flutter_handle_key_event, handle_keyboard_event: while the session is locked nothing
\* of the keys reaches a client.
THEOREM LockedQuiet == KeyboardSpec => LockedTellsNothing
<1>1. ASSUME KeyboardInv, [KeyboardNext]_keyboardVars, locked PROVE told' = told
  <2>1. told = {}
    BY <1>1 DEF KeyboardInv, HeldInv
  <2>2. SUFFICES ASSUME NEW k \in told' PROVE FALSE
    BY <2>1
  <2>3. CASE k \in gameKeys'
    <3>1. ASSUME NEW e \in Events, KeyEvent(e) PROVE FALSE
      <4>1. ~ GameKey(e) /\ ~ LeaveGameHotkey(e)
        BY <1>1 DEF GameKey, GamingInput, LeaveGameHotkey, LeavesGame, Plain
      <4>2. LockedHotkey(e) \/ CaptureKey(e) \/ PrintHotkey(e) \/ FlutterKey(e)
        BY <3>1, <4>1 DEF KeyEvent
      <4>3. told' = told
        BY <4>2 DEF LockedHotkey, CaptureKey, PrintHotkey, FlutterKey, clientVars
      <4>4. QED
        BY <2>1, <2>2, <4>3
    <3>2. ASSUME NEW handled \in BOOLEAN, Verdict(handled) PROVE FALSE
      BY <1>1, <2>1, <2>2, <3>2 DEF Verdict, KeptFromClients, clientVars
    <3>3. ASSUME \/ \E some \in BOOLEAN : FocusMoves(some)
                 \/ CaptureEnds \/ TextField \/ GameBegins \/ GameEnds \/ Lock \/ Unlock
                 \/ UNCHANGED keyboardVars
          PROVE  FALSE
      <4>1. told' = told \/ told' = {}
        BY <3>3 DEF FocusMoves, CaptureEnds, TextField, GameBegins, GameEnds, Lock, Unlock, keyboardVars, clientVars
      <4>2. QED
        BY <2>1, <2>2, <4>1
    <3>4. QED
      BY <1>1, <3>1, <3>2, <3>3 DEF KeyboardNext
  <2>4. CASE k \notin gameKeys'
    <3>1. PICK handled \in BOOLEAN : Verdict(handled)
      BY <1>1, <2>1, <2>2, <2>4, TellingIs
    <3>2. told' = told
      BY <1>1, <3>1 DEF Verdict, KeptFromClients, clientVars
    <3>3. QED
      BY <2>1, <2>2, <3>2
  <2>5. QED
    BY <2>3, <2>4
<1>2. KeyboardInv /\ [KeyboardNext]_keyboardVars => [ locked => told' = told ]_keyboardVars
  BY <1>1
<1>3. QED
  BY <1>2, KeyboardInvariant, PTL DEF KeyboardSpec, LockedTellsNothing

=============================================================================
