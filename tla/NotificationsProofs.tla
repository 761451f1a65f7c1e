------------------------- MODULE NotificationsProofs -------------------------
(***************************************************************************)
(* Proofs about Notifications, for any number of clients, windows and      *)
(* calls: nothing on the desktop outlives what it stands for, an           *)
(* activation token reaches the owner of its window alone, and once all    *)
(* is quiet the clients, the compositor and the shell agree on which       *)
(* notifications are live.                                                 *)
(***************************************************************************)
EXTENDS Notifications, FiniteSetTheorems, SequenceTheorems, TLAPS

----------------------------------------------------------------------------
(* Sequences and the order of ids *)

Sequential(q) == q \in Seq(Range(q))

LEMMA EmptyIsSequential == Sequential(<<>>) /\ Len(<<>>) = 0 /\ DOMAIN <<>> = {}
<1>1. <<>> \in Seq({}) /\ Len(<<>>) = 0
  BY EmptySeq
<1>2. <<>> \in Seq(Range(<<>>))
  BY <1>1, SeqOfRange
<1>3. DOMAIN <<>> = {}
  BY <1>1, LenProperties
<1>4. QED
  BY <1>1, <1>2, <1>3 DEF Sequential

LEMMA Counted == ASSUME NEW q, Sequential(q)
                 PROVE  Len(q) \in Nat /\ DOMAIN q = 1..Len(q)
BY LenProperties DEF Sequential

\* What another message at the end of a queue changes.
Grown(q, e, r) ==
    /\ Sequential(r) /\ Len(q) \in Nat /\ Len(r) = Len(q) + 1
    /\ DOMAIN q = 1..Len(q) /\ DOMAIN r = 1..Len(q) + 1
    /\ \A i \in DOMAIN q : r[i] = q[i]
    /\ r[Len(q) + 1] = e

LEMMA Growing == ASSUME NEW q, Sequential(q), NEW e PROVE Grown(q, e, Append(q, e))
<1> DEFINE S == Range(q) \cup {e}
           r == Append(q, e)
<1>1. q \in Seq(S) /\ e \in S
  BY SeqMonotonic DEF Sequential
<1>2. /\ r \in Seq(S) /\ Len(r) = Len(q) + 1
      /\ \A i \in 1..Len(q) : r[i] = q[i]
      /\ r[Len(q) + 1] = e
  BY <1>1, AppendProperties
<1>3. r \in Seq(Range(r)) /\ DOMAIN r = 1..Len(r)
  BY <1>2, SeqOfRange, LenProperties
<1>4. QED
  BY <1>2, <1>3, Counted DEF Grown, Sequential

\* What the others see once the first of a queue is gone.
Shifted(q, r) ==
    /\ Sequential(r) /\ Len(q) \in Nat \ {0} /\ Len(r) \in Nat /\ Len(q) = Len(r) + 1
    /\ DOMAIN q = 1..Len(r) + 1 /\ DOMAIN r = 1..Len(r)
    /\ \A i \in 1..Len(r) : r[i] = q[i + 1]
    /\ Head(q) = q[1]

LEMMA Shifting == ASSUME NEW q, Sequential(q), q # <<>> PROVE Shifted(q, Tail(q))
<1> DEFINE r == Tail(q)
<1>1. /\ r \in Seq(Range(q)) /\ Len(r) = Len(q) - 1
      /\ \A i \in 1..Len(r) : r[i] = q[i + 1]
  BY HeadTailProperties DEF Sequential
<1>2. Len(q) \in Nat \ {0} /\ DOMAIN q = 1..Len(q)
  BY EmptySeq, LenProperties DEF Sequential
<1>3. r \in Seq(Range(r)) /\ DOMAIN r = 1..Len(r)
  BY <1>1, SeqOfRange, LenProperties
<1>4. Head(q) = q[1]
  BY DEF Sequential
<1>5. QED
  BY <1>1, <1>2, <1>3, <1>4 DEF Shifted, Sequential

\* What a queue that follows another adds to it.
Joined(q, s, r) ==
    /\ Sequential(r) /\ Len(q) \in Nat /\ Len(s) \in Nat /\ Len(r) = Len(q) + Len(s)
    /\ DOMAIN q = 1..Len(q) /\ DOMAIN s = 1..Len(s) /\ DOMAIN r = 1..Len(q) + Len(s)
    /\ \A i \in DOMAIN q : r[i] = q[i]
    /\ \A i \in DOMAIN s : r[Len(q) + i] = s[i]
    /\ \A i \in DOMAIN r : i \in DOMAIN q \/ (i - Len(q) \in DOMAIN s /\ r[i] = s[i - Len(q)])

LEMMA Joining == ASSUME NEW q, NEW s, Sequential(q), Sequential(s) PROVE Joined(q, s, q \o s)
<1> DEFINE S == Range(q) \cup Range(s)
           r == q \o s
<1>1. q \in Seq(S) /\ s \in Seq(S)
  BY SeqMonotonic DEF Sequential
<1>2. /\ r \in Seq(S) /\ Len(r) = Len(q) + Len(s)
      /\ \A i \in 1..Len(q) + Len(s) : r[i] = IF i <= Len(q) THEN q[i] ELSE s[i - Len(q)]
  BY <1>1, ConcatProperties
<1>3. r \in Seq(Range(r)) /\ DOMAIN r = 1..Len(r)
  BY <1>2, SeqOfRange, LenProperties
<1>4. Len(q) \in Nat /\ Len(s) \in Nat /\ DOMAIN q = 1..Len(q) /\ DOMAIN s = 1..Len(s)
  BY Counted
<1>5. \A i \in DOMAIN s : r[Len(q) + i] = s[i]
  BY <1>2, <1>4
<1>6. QED
  BY <1>2, <1>3, <1>4, <1>5 DEF Joined, Sequential

\* A finite set of ids is listed in order, each of them once.
LEMMA NthLists ==
    ASSUME NEW ids \in SUBSET Nat, IsFiniteSet(ids)
    PROVE  /\ Cardinality(ids) \in Nat
           /\ \A i \in 1..Cardinality(ids) : Nth(ids, i) \in ids
           /\ \A i, j \in 1..Cardinality(ids) : Nth(ids, i) = Nth(ids, j) => i = j
           /\ \A id \in ids : \E i \in 1..Cardinality(ids) : Nth(ids, i) = id
<1> DEFINE n == Cardinality(ids)
           Upto(id) == {k \in ids : k <= id}
           rank == [id \in ids |-> Cardinality(Upto(id))]
<1>1. n \in Nat
  BY FS_CardinalityType
<1>2. ASSUME NEW id \in ids PROVE IsFiniteSet(Upto(id)) /\ rank[id] \in 1..n
  <2>1. Upto(id) \in SUBSET ids /\ id \in Upto(id)
    OBVIOUS
  <2>2. IsFiniteSet(Upto(id)) /\ Cardinality(Upto(id)) <= n
    BY <2>1, FS_Subset
  <2>3. Cardinality(Upto(id)) \in Nat /\ Cardinality(Upto(id)) # 0
    BY <2>1, <2>2, FS_CardinalityType, FS_EmptySet
  <2>4. QED
    BY <1>1, <2>2, <2>3
<1>3. ASSUME NEW id \in ids, NEW other \in ids, id < other PROVE rank[id] # rank[other]
  <2>0. id \in Nat /\ other \in Nat /\ \A k \in ids : k \in Nat
    OBVIOUS
  <2>1. Upto(id) \in SUBSET Upto(other) /\ other \in Upto(other) /\ other \notin Upto(id)
    <3>1. \A k \in ids : k <= id => k <= other
      BY <1>3, <2>0
    <3>2. other <= other /\ ~(other <= id)
      BY <1>3, <2>0
    <3>3. QED
      BY <3>1, <3>2
  <2>2. IsFiniteSet(Upto(other))
    BY <1>2
  <2>3. Cardinality(Upto(other)) # Cardinality(Upto(id))
    BY <2>1, <2>2, FS_Subset
  <2>4. QED
    BY <2>3
<1>4. \A id, other \in ids : rank[id] = rank[other] => id = other
  BY <1>3
<1>5. rank \in Injection(ids, 1..n)
  BY <1>2, <1>4 DEF Injection, IsInjective
<1>6. IsFiniteSet(1..n) /\ Cardinality(1..n) = n
  BY <1>1, FS_Interval
<1>7. rank \in Surjection(ids, 1..n)
  BY <1>5, <1>6, FS_Injection
<1>8. ASSUME NEW i \in 1..n PROVE Nth(ids, i) \in ids /\ rank[Nth(ids, i)] = i
  <2>1. PICK id \in ids : rank[id] = i
    BY <1>7 DEF Surjection
  <2>2. \E k \in ids : Cardinality({l \in ids : l <= k}) = i
    BY <2>1
  <2>3. Nth(ids, i) \in ids /\ Cardinality({l \in ids : l <= Nth(ids, i)}) = i
    BY <2>2 DEF Nth
  <2>4. QED
    BY <2>3
<1>9. \A id \in ids : \E i \in 1..n : Nth(ids, i) = id
  BY <1>2, <1>4, <1>8
<1>10. QED
  BY <1>1, <1>8, <1>9

----------------------------------------------------------------------------
(* Whose an id is once the first n requests of the queue to the loop are handled *)

Touches(e, id) == e.request \in {"result", "closed"} /\ e.id = id

Untouched(q, id, i, n) == \A k \in i + 1..n : ~Touches(q[k], id)

\* Its sender owns window w.
Owned(q, pend, send, id, w, n) ==
    \/ Untouched(q, id, 0, n) /\ id \in DOMAIN send /\ WindowOf[send[id]] = w
    \/ \E j \in 1..n : /\ Touches(q[j], id) /\ q[j].request = "result"
                       /\ WindowOf[pend[q[j].call]] = w
                       /\ Untouched(q, id, j, n)

\* It has no sender.
Unowned(q, send, id, n) ==
    \/ Untouched(q, id, 0, n) /\ id \notin DOMAIN send
    \/ \E j \in 1..n : /\ Touches(q[j], id) /\ q[j].request = "closed"
                       /\ Untouched(q, id, j, n)

\* The books depend on the requests up to there alone.
LEMMA SameBefore ==
    ASSUME NEW q, NEW r, NEW n \in Nat, \A i \in 1..n : r[i] = q[i],
           NEW pend, NEW send, NEW id
    PROVE  /\ \A w : Owned(q, pend, send, id, w, n) => Owned(r, pend, send, id, w, n)
           /\ Unowned(q, send, id, n) => Unowned(r, send, id, n)
<1>1. \A j \in 0..n : Untouched(q, id, j, n) => Untouched(r, id, j, n)
  BY DEF Untouched
<1>2. 0 \in 0..n /\ \A j \in 1..n : j \in 0..n
  OBVIOUS
<1>3. ASSUME NEW w, Owned(q, pend, send, id, w, n) PROVE Owned(r, pend, send, id, w, n)
  BY <1>1, <1>2, <1>3 DEF Owned
<1>4. ASSUME Unowned(q, send, id, n) PROVE Unowned(r, send, id, n)
  BY <1>1, <1>2, <1>4 DEF Unowned
<1>5. QED
  BY <1>3, <1>4

\* Requests that are not about an id leave it to whom it belonged.
LEMMA SameAfter ==
    ASSUME NEW q, NEW n \in Nat, NEW m \in Nat, n <= m, NEW id, Untouched(q, id, n, m),
           NEW pend, NEW send
    PROVE  /\ \A w : Owned(q, pend, send, id, w, n) => Owned(q, pend, send, id, w, m)
           /\ Unowned(q, send, id, n) => Unowned(q, send, id, m)
<1>1. \A j \in 0..n : Untouched(q, id, j, n) => Untouched(q, id, j, m)
  <2>1. ASSUME NEW j \in 0..n, Untouched(q, id, j, n), NEW k \in j + 1..m
        PROVE  ~Touches(q[k], id)
    <3>1. k \in j + 1..n \/ k \in n + 1..m
      OBVIOUS
    <3>2. QED
      BY <2>1, <3>1 DEF Untouched
  <2>2. QED
    BY <2>1 DEF Untouched
<1>2. 0 \in 0..n /\ \A j \in 1..n : j \in 0..n /\ j \in 1..m
  OBVIOUS
<1>3. ASSUME NEW w, Owned(q, pend, send, id, w, n) PROVE Owned(q, pend, send, id, w, m)
  BY <1>1, <1>2, <1>3 DEF Owned
<1>4. ASSUME Unowned(q, send, id, n) PROVE Unowned(q, send, id, m)
  BY <1>1, <1>2, <1>4 DEF Unowned
<1>5. QED
  BY <1>3, <1>4

\* What the loop does to the senders when it handles request e
Applied(e, pend, send, send2) ==
    \A id :
        /\ Touches(e, id) /\ e.request = "result" =>
              id \in DOMAIN send2 /\ send2[id] = pend[e.call]
        /\ Touches(e, id) /\ e.request = "closed" => id \notin DOMAIN send2
        /\ ~Touches(e, id) => /\ id \in DOMAIN send2 <=> id \in DOMAIN send
                              /\ id \in DOMAIN send => send2[id] = send[id]

\* Handling the first request moves the books by one place.
LEMMA Handled ==
    ASSUME NEW q, NEW r, Shifted(q, r), NEW pend, NEW pend2, NEW send, NEW send2,
           Applied(q[1], pend, send, send2),
           \A j \in 1..Len(r) : r[j].request = "result" => pend2[r[j].call] = pend[r[j].call],
           NEW n \in 0..Len(r), NEW id
    PROVE  /\ \A w : Owned(q, pend, send, id, w, n + 1) => Owned(r, pend2, send2, id, w, n)
           /\ Unowned(q, send, id, n + 1) => Unowned(r, send2, id, n)
<1>1. /\ Len(r) \in Nat /\ n \in Nat /\ n <= Len(r)
      /\ \A i \in 1..n : r[i] = q[i + 1]
  BY DEF Shifted
<1>2. ASSUME NEW j \in 1..n + 1, Untouched(q, id, j, n + 1) PROVE Untouched(r, id, j - 1, n)
  <2>1. \A k \in j - 1 + 1..n : k + 1 \in j + 1..n + 1 /\ r[k] = q[k + 1]
    BY <1>1
  <2>2. QED
    BY <1>2, <2>1 DEF Untouched
<1>3. Untouched(q, id, 0, n + 1) => ~Touches(q[1], id) /\ Untouched(q, id, 1, n + 1)
  <2>1. 1 \in 0 + 1..n + 1 /\ \A k \in 1 + 1..n + 1 : k \in 0 + 1..n + 1
    BY <1>1
  <2>2. QED
    BY <2>1 DEF Untouched
<1>4. Untouched(q, id, 1, n + 1) => Untouched(r, id, 0, n)
  <2>1. 1 \in 1..n + 1 /\ 1 - 1 = 0
    BY <1>1
  <2>2. QED
    BY <1>2, <2>1
<1>5. \A j \in 1..n + 1 : j # 1 => j - 1 \in 1..n /\ r[j - 1] = q[j]
  BY <1>1
<1>6. \A j \in 1..n : r[j].request = "result" => pend2[r[j].call] = pend[r[j].call]
  BY <1>1
<1>7. ASSUME NEW w, Owned(q, pend, send, id, w, n + 1) PROVE Owned(r, pend2, send2, id, w, n)
  <2>1. CASE Untouched(q, id, 0, n + 1) /\ id \in DOMAIN send /\ WindowOf[send[id]] = w
    BY <1>3, <1>4, <2>1 DEF Applied, Owned
  <2>2. CASE \E j \in 1..n + 1 : /\ Touches(q[j], id) /\ q[j].request = "result"
                                 /\ WindowOf[pend[q[j].call]] = w
                                 /\ Untouched(q, id, j, n + 1)
    <3>1. PICK j \in 1..n + 1 : /\ Touches(q[j], id) /\ q[j].request = "result"
                                /\ WindowOf[pend[q[j].call]] = w
                                /\ Untouched(q, id, j, n + 1)
      BY <2>2
    <3>2. CASE j = 1
      BY <1>4, <3>1, <3>2 DEF Applied, Owned
    <3>3. CASE j # 1
      <4>1. j - 1 \in 1..n /\ r[j - 1] = q[j] /\ Untouched(r, id, j - 1, n)
        BY <1>2, <1>5, <3>1, <3>3
      <4>2. WindowOf[pend2[r[j - 1].call]] = w
        BY <1>6, <3>1, <4>1
      <4>3. QED
        BY <3>1, <4>1, <4>2 DEF Owned
    <3>4. QED
      BY <3>2, <3>3
  <2>3. QED
    BY <1>7, <2>1, <2>2 DEF Owned
<1>8. ASSUME Unowned(q, send, id, n + 1) PROVE Unowned(r, send2, id, n)
  <2>1. CASE Untouched(q, id, 0, n + 1) /\ id \notin DOMAIN send
    BY <1>3, <1>4, <2>1 DEF Applied, Unowned
  <2>2. CASE \E j \in 1..n + 1 : /\ Touches(q[j], id) /\ q[j].request = "closed"
                                 /\ Untouched(q, id, j, n + 1)
    <3>1. PICK j \in 1..n + 1 : /\ Touches(q[j], id) /\ q[j].request = "closed"
                                /\ Untouched(q, id, j, n + 1)
      BY <2>2
    <3>2. CASE j = 1
      BY <1>4, <3>1, <3>2 DEF Applied, Unowned
    <3>3. CASE j # 1
      <4>1. j - 1 \in 1..n /\ r[j - 1] = q[j] /\ Untouched(r, id, j - 1, n)
        BY <1>2, <1>5, <3>1, <3>3
      <4>2. QED
        BY <3>1, <4>1 DEF Unowned
    <3>4. QED
      BY <3>2, <3>3
  <2>3. QED
    BY <1>8, <2>1, <2>2 DEF Unowned
<1>9. QED
  BY <1>7, <1>8

----------------------------------------------------------------------------
(* The books of the two parties: the ids and the owners of the live notifications, *)
(* against what the loop knows and what is on its way to it                         *)

ClosedAt(q, i, id) == i \in DOMAIN q /\ q[i].request = "closed" /\ q[i].id = id

\* The ids a client was told of, or will be
Told(q, ans) == Range(ans) \cup {q[i].id : i \in {j \in DOMAIN q : q[j].request = "result"}}

Bounded(q, send, sig, ans, ours, last) ==
    /\ last \in Nat
    /\ \A i \in DOMAIN q : q[i].request \in {"result", "closed"} => q[i].id \in 1..last
    /\ DOMAIN send \subseteq 1..last /\ DOMAIN sig \subseteq 1..last
    /\ Range(ans) \subseteq 1..last /\ DOMAIN ours \subseteq 1..last

\* Once all requests are handled the loop knows the senders of the live ids alone.
Balanced(q, pend, send, ours, last) ==
    \A id \in 1..last :
        /\ id \in DOMAIN ours => Owned(q, pend, send, id, ours[id], Len(q))
        /\ id \notin DOMAIN ours => Unowned(q, send, id, Len(q))

\* When a token is minted its id is of the client whose window it names.
TokensOwned(q, pend, send) ==
    \A i \in DOMAIN q :
        q[i].request = "token" => Owned(q, pend, send, q[i].id, q[i].window, i - 1)

\* What is told closed is not live, and was not told before.
ToldOnce(q, sig, ours) ==
    /\ \A i \in DOMAIN q : q[i].request = "closed" =>
          /\ q[i].id \notin DOMAIN ours /\ q[i].id \notin DOMAIN sig
          /\ \A j \in DOMAIN q : ClosedAt(q, j, q[i].id) => j = i
    /\ DOMAIN ours \cap DOMAIN sig = {}
    /\ \A id \in DOMAIN sig : sig[id] = 1

\* An id a client was told of is live, or was told closed or will be; and a live id
\* is one that a client was told of or will be.
Accounted(q, sig, ans, ours) ==
    /\ \A id \in Told(q, ans) :
          id \in DOMAIN ours \/ id \in DOMAIN sig \/ \E i \in DOMAIN q : ClosedAt(q, i, id)
    /\ DOMAIN ours \subseteq Told(q, ans)

BooksOf(q, pend, send, sig, ans, ours, last) ==
    /\ Bounded(q, send, sig, ans, ours, last)
    /\ Balanced(q, pend, send, ours, last)
    /\ TokensOwned(q, pend, send)
    /\ ToldOnce(q, sig, ours)
    /\ Accounted(q, sig, ans, ours)

LEMMA ToldOf ==
    ASSUME NEW q, NEW ans, NEW id
    PROVE  id \in Told(q, ans) <=> \/ \E t \in DOMAIN ans : ans[t] = id
                                   \/ \E i \in DOMAIN q : q[i].request = "result" /\ q[i].id = id
BY DEF Told, Range

\* A request for a token of a live id, or one that is about no id.
LEMMA AsksLoop ==
    ASSUME NEW q, NEW pend, NEW send, NEW sig, NEW ans, NEW ours, NEW last,
           BooksOf(q, pend, send, sig, ans, ours, last), Sequential(q),
           NEW e, NEW r, Grown(q, e, r), e.request \notin {"result", "closed"},
           e.request = "token" => e.id \in DOMAIN ours /\ ours[e.id] = e.window
    PROVE  BooksOf(r, pend, send, sig, ans, ours, last)
<1> DEFINE n == Len(q)
<1>1. /\ n \in Nat /\ Len(r) = n + 1 /\ DOMAIN q = 1..n /\ DOMAIN r = 1..n + 1
      /\ \A i \in 1..n : r[i] = q[i]
      /\ r[n + 1] = e
  BY DEF Grown
<1> HIDE DEF n
<1>2. \A i \in DOMAIN r : (i \in DOMAIN q /\ r[i] = q[i]) \/ (i = n + 1 /\ r[i] = e)
  <2>1. \A i \in 1..n + 1 : i \in 1..n \/ i = n + 1
    BY <1>1
  <2>2. QED
    BY <1>1, <2>1
<1>3. Bounded(r, send, sig, ans, ours, last)
  BY <1>2 DEF BooksOf, Bounded
<1>4. \A id : Untouched(r, id, n, n + 1)
  <2>1. \A k \in n + 1..n + 1 : k = n + 1
    BY <1>1
  <2>2. QED
    BY <1>1, <2>1 DEF Untouched, Touches
<1>5. ASSUME NEW id
      PROVE  /\ \A w : Owned(q, pend, send, id, w, n) => Owned(r, pend, send, id, w, n)
             /\ \A w : Owned(r, pend, send, id, w, n) => Owned(r, pend, send, id, w, n + 1)
             /\ Unowned(q, send, id, n) => Unowned(r, send, id, n + 1)
  <2>1. /\ \A w : Owned(q, pend, send, id, w, n) => Owned(r, pend, send, id, w, n)
        /\ Unowned(q, send, id, n) => Unowned(r, send, id, n)
    BY <1>1, SameBefore
  <2>2. n + 1 \in Nat /\ n <= n + 1
    BY <1>1
  <2>3. /\ \A w : Owned(r, pend, send, id, w, n) => Owned(r, pend, send, id, w, n + 1)
        /\ Unowned(r, send, id, n) => Unowned(r, send, id, n + 1)
    BY <1>1, <1>4, <2>2, SameAfter
  <2>4. QED
    BY <2>1, <2>3
<1>6. Balanced(r, pend, send, ours, last)
  BY <1>1, <1>5 DEF BooksOf, Balanced, n
<1>7. TokensOwned(r, pend, send)
  <2>1. ASSUME NEW i \in DOMAIN q, q[i].request = "token"
        PROVE  Owned(r, pend, send, r[i].id, r[i].window, i - 1)
    <3>1. Owned(q, pend, send, q[i].id, q[i].window, i - 1)
      BY <2>1 DEF BooksOf, TokensOwned
    <3>2. i - 1 \in Nat /\ \A k \in 1..i - 1 : r[k] = q[k]
      BY <1>1
    <3>3. r[i] = q[i]
      BY <1>1
    <3>4. QED
      BY <3>1, <3>2, <3>3, SameBefore
  <2>2. ASSUME e.request = "token"
        PROVE  Owned(r, pend, send, e.id, e.window, n)
    <3>1. e.id \in 1..last /\ Owned(q, pend, send, e.id, e.window, n)
      BY <2>2 DEF BooksOf, Bounded, Balanced, n
    <3>2. QED
      BY <1>5, <3>1
  <2>3. ASSUME NEW i \in DOMAIN r, r[i].request = "token"
        PROVE  Owned(r, pend, send, r[i].id, r[i].window, i - 1)
    <3>1. CASE i \in DOMAIN q /\ r[i] = q[i]
      BY <2>1, <2>3, <3>1
    <3>2. CASE i = n + 1 /\ r[i] = e
      <4>1. i - 1 = n
        BY <1>1, <3>2
      <4>2. QED
        BY <2>2, <2>3, <3>2, <4>1
    <3>3. QED
      BY <1>2, <3>1, <3>2
  <2>4. QED
    BY <2>3 DEF TokensOwned
<1>8. ToldOnce(r, sig, ours)
  BY <1>1, <1>2 DEF BooksOf, ToldOnce, ClosedAt
<1>9. Accounted(r, sig, ans, ours)
  <2>1. \A id : id \in Told(r, ans) <=> id \in Told(q, ans)
    <3>1. \A id : (\E i \in DOMAIN r : r[i].request = "result" /\ r[i].id = id)
                     <=> \E i \in DOMAIN q : q[i].request = "result" /\ q[i].id = id
      BY <1>1, <1>2
    <3>2. QED
      BY <3>1, ToldOf
  <2>2. \A id : (\E i \in DOMAIN q : ClosedAt(q, i, id)) => \E i \in DOMAIN r : ClosedAt(r, i, id)
    BY <1>1 DEF ClosedAt
  <2>3. QED
    BY <2>1, <2>2 DEF BooksOf, Accounted
<1>10. QED
  BY <1>3, <1>6, <1>7, <1>8, <1>9 DEF BooksOf

\* Each of a set of ids is told closed once.
TellsAll(s, ids) ==
    /\ \A i \in DOMAIN s : s[i].request = "closed" /\ s[i].id \in ids
    /\ \A i, j \in DOMAIN s : s[i].id = s[j].id => i = j
    /\ \A id \in ids : \E i \in DOMAIN s : s[i].id = id

\* A set of ids is live no more.
LiveNoMore(ours, ids, ours2) ==
    /\ ids \subseteq DOMAIN ours /\ DOMAIN ours2 = DOMAIN ours \ ids
    /\ \A id \in DOMAIN ours2 : ours2[id] = ours[id]

\* The ids of a set are closed, and the loop will tell their clients.
LEMMA TellsClosed ==
    ASSUME NEW q, NEW pend, NEW send, NEW sig, NEW ans, NEW ours, NEW last,
           BooksOf(q, pend, send, sig, ans, ours, last), Sequential(q),
           NEW s, NEW r, Joined(q, s, r), NEW ids, TellsAll(s, ids),
           NEW ours2, LiveNoMore(ours, ids, ours2)
    PROVE  BooksOf(r, pend, send, sig, ans, ours2, last)
<1>0. /\ \A i \in DOMAIN s : s[i].request = "closed" /\ s[i].id \in ids
      /\ \A i, j \in DOMAIN s : s[i].id = s[j].id => i = j
      /\ \A id \in ids : \E i \in DOMAIN s : s[i].id = id
      /\ ids \subseteq DOMAIN ours /\ DOMAIN ours2 = DOMAIN ours \ ids
      /\ \A id \in DOMAIN ours2 : ours2[id] = ours[id]
  BY DEF TellsAll, LiveNoMore
<1> USE <1>0
<1> DEFINE n == Len(q)
           m == Len(s)
<1>1. /\ n \in Nat /\ m \in Nat /\ Len(r) = n + m
      /\ DOMAIN q = 1..n /\ DOMAIN s = 1..m /\ DOMAIN r = 1..n + m
      /\ \A i \in 1..n : r[i] = q[i]
      /\ \A i \in 1..m : r[n + i] = s[i]
      /\ \A i \in DOMAIN r : i \in 1..n \/ (i - n \in 1..m /\ r[i] = s[i - n])
  BY DEF Joined
<1> HIDE DEF n, m
<1>2. \A i \in DOMAIN r :
         \/ i \in DOMAIN q /\ r[i] = q[i]
         \/ i \notin DOMAIN q /\ i - n \in DOMAIN s /\ r[i] = s[i - n]
  <2>1. \A i \in DOMAIN r : i - n \in 1..m => i \notin 1..n
    BY <1>1
  <2>2. QED
    BY <1>1, <2>1
<1>3. /\ \A i \in DOMAIN q : i \in DOMAIN r /\ r[i] = q[i]
      /\ \A i \in DOMAIN s : n + i \in DOMAIN r /\ r[n + i] = s[i]
  BY <1>1
<1>4. Bounded(r, send, sig, ans, ours2, last)
  BY <1>2 DEF BooksOf, Bounded
<1>5. ASSUME NEW id, id \notin ids PROVE Untouched(r, id, n, n + m)
  <2>1. ASSUME NEW k \in n + 1..n + m PROVE ~Touches(r[k], id)
    <3>1. k - n \in DOMAIN s /\ r[k] = s[k - n]
      <4>1. k \in DOMAIN r /\ k \notin 1..n
        BY <1>1
      <4>2. QED
        BY <1>1, <4>1
    <3>2. QED
      BY <1>5, <3>1 DEF Touches
  <2>2. QED
    BY <2>1 DEF Untouched
<1>6. ASSUME NEW id
      PROVE  /\ \A w : Owned(q, pend, send, id, w, n) => Owned(r, pend, send, id, w, n)
             /\ Unowned(q, send, id, n) => Unowned(r, send, id, n)
  BY <1>1, SameBefore
<1>7. ASSUME NEW id, id \notin ids
      PROVE  /\ \A w : Owned(r, pend, send, id, w, n) => Owned(r, pend, send, id, w, n + m)
             /\ Unowned(r, send, id, n) => Unowned(r, send, id, n + m)
  <2>1. n + m \in Nat /\ n <= n + m
    BY <1>1
  <2>2. QED
    BY <1>1, <1>5, <1>7, <2>1, SameAfter
<1>8. ASSUME NEW id \in ids PROVE Unowned(r, send, id, n + m)
  <2>1. PICK i \in DOMAIN s : s[i].id = id
    OBVIOUS
  <2>2. PICK j : j = n + i
    OBVIOUS
  <2>3. j \in 1..n + m /\ r[j] = s[i]
    BY <1>1, <2>1, <2>2
  <2>4. Touches(r[j], id) /\ r[j].request = "closed"
    BY <2>1, <2>3 DEF Touches
  <2>5. ASSUME NEW k \in j + 1..n + m PROVE ~Touches(r[k], id)
    <3>1. k - n \in DOMAIN s /\ r[k] = s[k - n] /\ k - n # i
      <4>1. k \in DOMAIN r /\ k \notin 1..n /\ k - n # i
        BY <1>1, <2>1, <2>2
      <4>2. QED
        BY <1>1, <4>1
    <3>2. s[k - n].id # id
      BY <2>1, <3>1
    <3>3. QED
      BY <3>1, <3>2 DEF Touches
  <2>6. QED
    BY <2>3, <2>4, <2>5 DEF Unowned, Untouched
<1>9. Balanced(r, pend, send, ours2, last)
  <2>1. ASSUME NEW id \in 1..last, id \in DOMAIN ours2
        PROVE  Owned(r, pend, send, id, ours2[id], n + m)
    <3>1. id \in DOMAIN ours /\ id \notin ids /\ ours2[id] = ours[id]
      BY <2>1
    <3>2. Owned(q, pend, send, id, ours[id], n)
      BY <3>1 DEF BooksOf, Balanced, n
    <3>3. QED
      BY <1>6, <1>7, <3>1, <3>2
  <2>2. ASSUME NEW id \in 1..last, id \notin DOMAIN ours2
        PROVE  Unowned(r, send, id, n + m)
    <3>1. CASE id \in ids
      BY <1>8, <3>1
    <3>2. CASE id \notin ids
      <4>1. Unowned(q, send, id, n)
        BY <2>2, <3>2 DEF BooksOf, Balanced, n
      <4>2. QED
        BY <1>6, <1>7, <3>2, <4>1
    <3>3. QED
      BY <3>1, <3>2
  <2>3. QED
    BY <1>1, <2>1, <2>2 DEF Balanced
<1>10. TokensOwned(r, pend, send)
  <2>1. ASSUME NEW i \in DOMAIN q, q[i].request = "token"
        PROVE  Owned(r, pend, send, r[i].id, r[i].window, i - 1)
    <3>1. Owned(q, pend, send, q[i].id, q[i].window, i - 1)
      BY <2>1 DEF BooksOf, TokensOwned
    <3>2. i - 1 \in Nat /\ \A k \in 1..i - 1 : r[k] = q[k]
      BY <1>1
    <3>3. r[i] = q[i]
      BY <1>1
    <3>4. QED
      BY <3>1, <3>2, <3>3, SameBefore
  <2>2. \A i \in DOMAIN r : r[i].request = "token" => i \in DOMAIN q /\ q[i].request = "token"
    BY <1>2
  <2>3. QED
    BY <2>1, <2>2 DEF TokensOwned
<1>11. ToldOnce(r, sig, ours2)
  <2>1. ASSUME NEW i \in DOMAIN r, r[i].request = "closed"
        PROVE  /\ r[i].id \notin DOMAIN ours2 /\ r[i].id \notin DOMAIN sig
               /\ \A j \in DOMAIN r : ClosedAt(r, j, r[i].id) => j = i
    <3>1. CASE i \in DOMAIN q /\ r[i] = q[i]
      <4>1. /\ q[i].id \notin DOMAIN ours /\ q[i].id \notin DOMAIN sig
            /\ \A j \in DOMAIN q : ClosedAt(q, j, q[i].id) => j = i
        BY <2>1, <3>1 DEF BooksOf, ToldOnce
      <4>2. ASSUME NEW j \in DOMAIN r, ClosedAt(r, j, r[i].id) PROVE j = i
        <5>1. j \in DOMAIN q /\ r[j] = q[j]
          BY <1>2, <3>1, <4>1, <4>2 DEF ClosedAt
        <5>2. QED
          BY <3>1, <4>1, <4>2, <5>1 DEF ClosedAt
      <4>3. QED
        BY <3>1, <4>1, <4>2
    <3>2. CASE i \notin DOMAIN q /\ i - n \in DOMAIN s /\ r[i] = s[i - n]
      <4>1. r[i].id \in ids
        BY <3>2
      <4>2. r[i].id \in DOMAIN ours /\ r[i].id \notin DOMAIN ours2 /\ r[i].id \notin DOMAIN sig
        BY <4>1 DEF BooksOf, ToldOnce
      <4>3. ASSUME NEW j \in DOMAIN r, ClosedAt(r, j, r[i].id) PROVE j = i
        <5>1. j \notin DOMAIN q \/ r[j] # q[j]
          BY <4>2, <4>3 DEF BooksOf, ToldOnce, ClosedAt
        <5>2. j - n \in DOMAIN s /\ r[j] = s[j - n]
          BY <1>2, <5>1
        <5>3. j - n = i - n
          BY <3>2, <4>3, <5>2 DEF ClosedAt
        <5>4. QED
          BY <1>1, <5>3
      <4>4. QED
        BY <4>2, <4>3
    <3>3. QED
      BY <1>2, <3>1, <3>2
  <2>2. DOMAIN ours2 \cap DOMAIN sig = {} /\ \A id \in DOMAIN sig : sig[id] = 1
    BY DEF BooksOf, ToldOnce
  <2>3. QED
    BY <2>1, <2>2 DEF ToldOnce
<1>12. Accounted(r, sig, ans, ours2)
  <2>1. \A id : id \in Told(r, ans) <=> id \in Told(q, ans)
    <3>1. \A id : (\E i \in DOMAIN r : r[i].request = "result" /\ r[i].id = id)
                     <=> \E i \in DOMAIN q : q[i].request = "result" /\ q[i].id = id
      <4>1. \A i \in DOMAIN r : r[i].request = "result" => i \in DOMAIN q /\ r[i] = q[i]
        BY <1>2
      <4>2. QED
        BY <1>3, <4>1
    <3>2. QED
      BY <3>1, ToldOf
  <2>2. \A id : (\E i \in DOMAIN q : ClosedAt(q, i, id)) => \E i \in DOMAIN r : ClosedAt(r, i, id)
    BY <1>3 DEF ClosedAt
  <2>3. ASSUME NEW id \in ids PROVE \E i \in DOMAIN r : ClosedAt(r, i, id)
    <3>1. PICK i \in DOMAIN s : s[i].id = id
      OBVIOUS
    <3>2. n + i \in DOMAIN r /\ r[n + i] = s[i]
      BY <1>3
    <3>3. QED
      BY <3>1, <3>2 DEF ClosedAt
  <2>4. QED
    BY <2>1, <2>2, <2>3 DEF BooksOf, Accounted
<1>13. QED
  BY <1>4, <1>9, <1>10, <1>11, <1>12 DEF BooksOf

\* A new id has no sender, and nobody was told of it.
LEMMA NewId ==
    ASSUME NEW q, NEW pend, NEW send, NEW sig, NEW ans, NEW ours, NEW last,
           BooksOf(q, pend, send, sig, ans, ours, last), Sequential(q)
    PROVE  /\ BooksOf(q, pend, send, sig, ans, ours, last + 1)
           /\ last + 1 \notin DOMAIN ours /\ last + 1 \notin DOMAIN sig
           /\ \A i \in DOMAIN q : ~ClosedAt(q, i, last + 1)
<1>1. last \in Nat /\ last + 1 \notin 1..last /\ 1..last \subseteq 1..last + 1
      /\ \A id \in 1..last + 1 : id \in 1..last \/ id = last + 1
  BY DEF BooksOf, Bounded
<1>2. PICK new : new = last + 1
  OBVIOUS
<1>3. Len(q) \in Nat /\ DOMAIN q = 1..Len(q)
  BY Counted
<1>4. Bounded(q, send, sig, ans, ours, last + 1)
  BY <1>1 DEF BooksOf, Bounded
<1>5. \A i \in DOMAIN q : ~Touches(q[i], new) /\ ~ClosedAt(q, i, new)
  BY <1>1, <1>2 DEF BooksOf, Bounded, Touches, ClosedAt
<1>6. new \notin DOMAIN ours /\ new \notin DOMAIN sig /\ new \notin DOMAIN send
  BY <1>1, <1>2 DEF BooksOf, Bounded
<1>7. Unowned(q, send, new, Len(q))
  <2>1. \A k \in 0 + 1..Len(q) : k \in DOMAIN q
    BY <1>3
  <2>2. QED
    BY <1>5, <1>6, <2>1 DEF Unowned, Untouched
<1>8. Balanced(q, pend, send, ours, last + 1)
  BY <1>1, <1>2, <1>6, <1>7 DEF BooksOf, Balanced
<1>9. QED
  BY <1>2, <1>4, <1>5, <1>6, <1>8 DEF BooksOf

\* A notification, new or replaced in place, is the one of the call it answers.
LEMMA TellsResult ==
    ASSUME NEW q, NEW pend, NEW send, NEW sig, NEW ans, NEW ours, NEW last,
           BooksOf(q, pend, send, sig, ans, ours, last), Sequential(q),
           NEW e, NEW r, Grown(q, e, r), e.request = "result", e.id \in 1..last,
           e.id \notin DOMAIN sig, \A i \in DOMAIN q : ~ClosedAt(q, i, e.id),
           NEW ours2, DOMAIN ours2 = DOMAIN ours \cup {e.id},
           ours2[e.id] = WindowOf[pend[e.call]],
           \A id \in DOMAIN ours : id # e.id => ours2[id] = ours[id]
    PROVE  BooksOf(r, pend, send, sig, ans, ours2, last)
<1> DEFINE n == Len(q)
<1>1. /\ n \in Nat /\ Len(r) = n + 1 /\ DOMAIN q = 1..n /\ DOMAIN r = 1..n + 1
      /\ \A i \in 1..n : r[i] = q[i]
      /\ r[n + 1] = e
  BY DEF Grown
<1> HIDE DEF n
<1>2. \A i \in DOMAIN r : (i \in DOMAIN q /\ r[i] = q[i]) \/ (i = n + 1 /\ r[i] = e)
  <2>1. \A i \in 1..n + 1 : i \in 1..n \/ i = n + 1
    BY <1>1
  <2>2. QED
    BY <1>1, <2>1
<1>3. Bounded(r, send, sig, ans, ours2, last)
  BY <1>2 DEF BooksOf, Bounded
<1>4. ASSUME NEW id, id # e.id PROVE Untouched(r, id, n, n + 1)
  <2>1. \A k \in n + 1..n + 1 : k = n + 1
    BY <1>1
  <2>2. QED
    BY <1>1, <1>4, <2>1 DEF Untouched, Touches
<1>5. ASSUME NEW id
      PROVE  /\ \A w : Owned(q, pend, send, id, w, n) => Owned(r, pend, send, id, w, n)
             /\ Unowned(q, send, id, n) => Unowned(r, send, id, n)
  BY <1>1, SameBefore
<1>6. ASSUME NEW id, id # e.id
      PROVE  /\ \A w : Owned(r, pend, send, id, w, n) => Owned(r, pend, send, id, w, n + 1)
             /\ Unowned(r, send, id, n) => Unowned(r, send, id, n + 1)
  <2>1. n + 1 \in Nat /\ n <= n + 1
    BY <1>1
  <2>2. QED
    BY <1>1, <1>4, <1>6, <2>1, SameAfter
<1>7. Owned(r, pend, send, e.id, ours2[e.id], n + 1)
  <2>1. PICK j : j = n + 1
    OBVIOUS
  <2>2. j \in 1..n + 1 /\ r[j] = e /\ \A k \in j + 1..n + 1 : FALSE
    BY <1>1, <2>1
  <2>3. QED
    BY <2>2 DEF Owned, Untouched, Touches
<1>8. Balanced(r, pend, send, ours2, last)
  <2>1. ASSUME NEW id \in 1..last, id \in DOMAIN ours2
        PROVE  Owned(r, pend, send, id, ours2[id], n + 1)
    <3>1. CASE id = e.id
      BY <1>7, <3>1
    <3>2. CASE id # e.id
      <4>1. id \in DOMAIN ours /\ ours2[id] = ours[id]
        BY <2>1, <3>2
      <4>2. Owned(q, pend, send, id, ours[id], n)
        BY <4>1 DEF BooksOf, Balanced, n
      <4>3. QED
        BY <1>5, <1>6, <3>2, <4>1, <4>2
    <3>3. QED
      BY <3>1, <3>2
  <2>2. ASSUME NEW id \in 1..last, id \notin DOMAIN ours2
        PROVE  Unowned(r, send, id, n + 1)
    <3>1. id # e.id /\ Unowned(q, send, id, n)
      BY <2>2 DEF BooksOf, Balanced, n
    <3>2. QED
      BY <1>5, <1>6, <3>1
  <2>3. QED
    BY <1>1, <2>1, <2>2 DEF Balanced
<1>9. TokensOwned(r, pend, send)
  <2>1. ASSUME NEW i \in DOMAIN q, q[i].request = "token"
        PROVE  Owned(r, pend, send, r[i].id, r[i].window, i - 1)
    <3>1. Owned(q, pend, send, q[i].id, q[i].window, i - 1)
      BY <2>1 DEF BooksOf, TokensOwned
    <3>2. i - 1 \in Nat /\ \A k \in 1..i - 1 : r[k] = q[k]
      BY <1>1
    <3>3. r[i] = q[i]
      BY <1>1
    <3>4. QED
      BY <3>1, <3>2, <3>3, SameBefore
  <2>2. \A i \in DOMAIN r : r[i].request = "token" => i \in DOMAIN q /\ q[i].request = "token"
    BY <1>2
  <2>3. QED
    BY <2>1, <2>2 DEF TokensOwned
<1>10. ToldOnce(r, sig, ours2)
  <2>1. ASSUME NEW i \in DOMAIN r, r[i].request = "closed"
        PROVE  /\ r[i].id \notin DOMAIN ours2 /\ r[i].id \notin DOMAIN sig
               /\ \A j \in DOMAIN r : ClosedAt(r, j, r[i].id) => j = i
    <3>1. i \in DOMAIN q /\ r[i] = q[i]
      BY <1>2, <2>1
    <3>2. /\ q[i].id \notin DOMAIN ours /\ q[i].id \notin DOMAIN sig /\ q[i].id # e.id
          /\ \A j \in DOMAIN q : ClosedAt(q, j, q[i].id) => j = i
      BY <2>1, <3>1 DEF BooksOf, ToldOnce, ClosedAt
    <3>3. \A j \in DOMAIN r : ClosedAt(r, j, q[i].id) => ClosedAt(q, j, q[i].id)
      BY <1>2 DEF ClosedAt
    <3>4. QED
      BY <3>1, <3>2, <3>3 DEF ClosedAt
  <2>2. DOMAIN ours2 \cap DOMAIN sig = {} /\ \A id \in DOMAIN sig : sig[id] = 1
    BY DEF BooksOf, ToldOnce
  <2>3. QED
    BY <2>1, <2>2 DEF ToldOnce
<1>11. Accounted(r, sig, ans, ours2)
  <2>1. \A id : id \in Told(r, ans) <=> id \in Told(q, ans) \/ id = e.id
    <3>1. \A id : (\E i \in DOMAIN r : r[i].request = "result" /\ r[i].id = id)
                     <=> \/ \E i \in DOMAIN q : q[i].request = "result" /\ q[i].id = id
                         \/ id = e.id
      <4>1. \A i \in DOMAIN q : i \in DOMAIN r /\ r[i] = q[i]
        BY <1>1
      <4>2. n + 1 \in DOMAIN r /\ r[n + 1].request = "result" /\ r[n + 1].id = e.id
        BY <1>1
      <4>3. QED
        BY <1>2, <4>1, <4>2
    <3>2. QED
      BY <3>1, ToldOf
  <2>2. \A id : (\E i \in DOMAIN q : ClosedAt(q, i, id)) => \E i \in DOMAIN r : ClosedAt(r, i, id)
    BY <1>1 DEF ClosedAt
  <2>3. QED
    BY <2>1, <2>2 DEF BooksOf, Accounted
<1>12. QED
  BY <1>3, <1>8, <1>9, <1>10, <1>11 DEF BooksOf

\* The answers that are still to come are of the senders that wait.
StillWaiting(r, pend, pend2) ==
    \A j \in 1..Len(r) : r[j].request = "result" => pend2[r[j].call] = pend[r[j].call]

\* What request e does to what was said to the clients
Said(e, sig, sig2, ans, ans2) ==
    /\ IF e.request = "closed"
       THEN DOMAIN sig2 = DOMAIN sig \cup {e.id} /\ \A id \in DOMAIN sig2 : sig2[id] = 1
       ELSE sig2 = sig
    /\ IF e.request = "result" THEN Range(ans2) = Range(ans) \cup {e.id} ELSE ans2 = ans

\* The loop handles the first request: the books move on by one place, and what the
\* request did to the signals and the answers keeps them.
LEMMA LoopHandles ==
    ASSUME NEW q, NEW pend, NEW send, NEW sig, NEW ans, NEW ours, NEW last,
           BooksOf(q, pend, send, sig, ans, ours, last), NEW r, Shifted(q, r),
           NEW pend2, NEW send2, NEW sig2, NEW ans2,
           Applied(q[1], pend, send, send2), DOMAIN send2 \subseteq 1..last,
           StillWaiting(r, pend, pend2), Said(q[1], sig, sig2, ans, ans2)
    PROVE  BooksOf(r, pend2, send2, sig2, ans2, ours, last)
<1> DEFINE e == q[1]
           m == Len(r)
<1>1. /\ m \in Nat /\ Len(q) = m + 1 /\ DOMAIN q = 1..m + 1 /\ DOMAIN r = 1..m
      /\ \A i \in 1..m : r[i] = q[i + 1]
  BY DEF Shifted
<1> HIDE DEF m
<1>2. /\ 1 \in DOMAIN q
      /\ \A i \in DOMAIN r : i + 1 \in DOMAIN q /\ i + 1 # 1 /\ r[i] = q[i + 1]
      /\ \A i \in DOMAIN q : i # 1 => i - 1 \in DOMAIN r /\ r[i - 1] = q[i]
  BY <1>1
<1> HIDE DEF e
<1>3. q[1] = e /\ Said(e, sig, sig2, ans, ans2)
  BY DEF e
<1>4. Bounded(r, send2, sig2, ans2, ours, last)
  <2>1. e.request \in {"result", "closed"} => e.id \in 1..last
    BY <1>2, <1>3 DEF BooksOf, Bounded
  <2>2. \A i \in DOMAIN r : r[i].request \in {"result", "closed"} => r[i].id \in 1..last
    BY <1>2 DEF BooksOf, Bounded
  <2>3. DOMAIN sig2 \subseteq 1..last
    BY <1>3, <2>1 DEF BooksOf, Bounded, Said
  <2>4. Range(ans2) \subseteq 1..last
    BY <1>3, <2>1 DEF BooksOf, Bounded, Said
  <2>5. QED
    BY <2>2, <2>3, <2>4 DEF BooksOf, Bounded
<1>5. ASSUME NEW n \in 0..m, NEW id
      PROVE  /\ \A w : Owned(q, pend, send, id, w, n + 1) => Owned(r, pend2, send2, id, w, n)
             /\ Unowned(q, send, id, n + 1) => Unowned(r, send2, id, n)
  <2>1. n \in 0..Len(r)
    BY DEF m
  <2>2. QED
    BY <2>1, Handled DEF StillWaiting
<1>6. Balanced(r, pend2, send2, ours, last)
  <2>1. m \in 0..m
    BY <1>1
  <2>2. QED
    BY <1>1, <1>5, <2>1 DEF BooksOf, Balanced, m
<1>7. TokensOwned(r, pend2, send2)
  <2>1. ASSUME NEW i \in DOMAIN r, r[i].request = "token"
        PROVE  Owned(r, pend2, send2, r[i].id, r[i].window, i - 1)
    <3>0. PICK k : k = i + 1
      OBVIOUS
    <3>1. PICK n \in 0..m : n = i - 1 /\ n + 1 = k - 1
      <4>1. i - 1 \in 0..m /\ i - 1 + 1 = k - 1
        BY <1>1, <3>0
      <4>2. QED
        BY <4>1
    <3>2. k \in DOMAIN q /\ r[i] = q[k]
      BY <1>2, <3>0
    <3>3. Owned(q, pend, send, r[i].id, r[i].window, n + 1)
      BY <2>1, <3>1, <3>2 DEF BooksOf, TokensOwned
    <3>4. QED
      BY <1>5, <3>1, <3>3
  <2>2. QED
    BY <2>1 DEF TokensOwned
<1>8. ToldOnce(r, sig2, ours)
  <2>1. ASSUME NEW i \in DOMAIN r, r[i].request = "closed"
        PROVE  /\ r[i].id \notin DOMAIN ours /\ r[i].id \notin DOMAIN sig2
               /\ \A j \in DOMAIN r : ClosedAt(r, j, r[i].id) => j = i
    <3>1. PICK k : k = i + 1
      OBVIOUS
    <3>2. k \in DOMAIN q /\ k # 1 /\ q[k] = r[i]
      BY <1>2, <3>1
    <3>3. /\ r[i].id \notin DOMAIN ours /\ r[i].id \notin DOMAIN sig
          /\ \A j \in DOMAIN q : ClosedAt(q, j, r[i].id) => j = k
      BY <2>1, <3>2 DEF BooksOf, ToldOnce
    <3>4. e.request = "closed" => e.id # r[i].id
      BY <1>2, <1>3, <3>2, <3>3 DEF ClosedAt
    <3>5. \A j \in DOMAIN r : ClosedAt(r, j, r[i].id) => j = i
      <4>1. ASSUME NEW j \in DOMAIN r, ClosedAt(r, j, r[i].id) PROVE j = i
        <5>1. ClosedAt(q, j + 1, r[i].id) /\ j + 1 \in DOMAIN q
          BY <1>2, <4>1 DEF ClosedAt
        <5>2. j + 1 = i + 1
          BY <3>1, <3>3, <5>1
        <5>3. QED
          BY <1>1, <5>2
      <4>2. QED
        BY <4>1
    <3>6. QED
      BY <1>3, <3>3, <3>4, <3>5 DEF Said
  <2>2. DOMAIN ours \cap DOMAIN sig2 = {}
    BY <1>2, <1>3 DEF BooksOf, ToldOnce, Said
  <2>3. \A id \in DOMAIN sig2 : sig2[id] = 1
    BY <1>3 DEF BooksOf, ToldOnce, Said
  <2>4. QED
    BY <2>1, <2>2, <2>3 DEF ToldOnce
<1>9. Accounted(r, sig2, ans2, ours)
  <2>1. ASSUME NEW id PROVE id \in Told(r, ans2) <=> id \in Told(q, ans)
    <3>1. (\E i \in DOMAIN q : q[i].request = "result" /\ q[i].id = id)
             <=> \/ \E i \in DOMAIN r : r[i].request = "result" /\ r[i].id = id
                 \/ e.request = "result" /\ e.id = id
      BY <1>2, <1>3
    <3>2. (\E t \in DOMAIN ans2 : ans2[t] = id)
             <=> (\E t \in DOMAIN ans : ans[t] = id) \/ (e.request = "result" /\ e.id = id)
      <4>1. id \in Range(ans2) <=> id \in Range(ans) \/ (e.request = "result" /\ e.id = id)
        BY <1>3 DEF Said
      <4>2. QED
        BY <4>1 DEF Range
    <3>3. QED
      BY <3>1, <3>2, ToldOf
  <2>2. ASSUME NEW id, \E i \in DOMAIN q : ClosedAt(q, i, id)
        PROVE  id \in DOMAIN sig2 \/ \E i \in DOMAIN r : ClosedAt(r, i, id)
    BY <1>2, <1>3, <2>2 DEF ClosedAt, Said
  <2>3. DOMAIN sig \subseteq DOMAIN sig2
    BY <1>3 DEF Said
  <2>4. QED
    BY <2>1, <2>2, <2>3 DEF BooksOf, Accounted
<1>10. QED
  BY <1>4, <1>6, <1>7, <1>8, <1>9 DEF BooksOf

----------------------------------------------------------------------------
(* The inductive invariant *)

EntrySet ==
    [window : Windows, resolved : BOOLEAN,
     shape : [timed : BOOLEAN, resident : BOOLEAN, default : BOOLEAN],
     read : BOOLEAN, closed : BOOLEAN, synthetic : BOOLEAN]

\* The live notifications of the clients, and the notices the shell made itself
LiveIn(map) == {id \in DOMAIN map : ~map[id].closed /\ ~map[id].synthetic}
NoticesIn(map) == {id \in DOMAIN map : map[id].synthetic}
OwnersIn(map) == [id \in LiveIn(map) |-> map[id].window]

Queues == /\ Sequential(calls) /\ Sequential(queued_outgoing)
          /\ Sequential(toShell) /\ Sequential(toLoop)

EntriesOf(map, last) ==
    /\ last \in Nat
    /\ \A id \in DOMAIN map :
          /\ id \in 1..last /\ map[id] \in EntrySet
          /\ map[id].synthetic => ~map[id].shape.default

\* A call comes from a client, and what it replaces was a notification of one.
CallsIn(q, last, notices) ==
    \A i \in DOMAIN q : q[i].call = "Notify" =>
        /\ q[i].sender \in Senders /\ q[i].shape \in Shapes
        /\ q[i].replaces \in (0..last) \ notices

OnceIn(q) ==
    \A i, j \in DOMAIN q :
        q[i].call = "Notify" /\ q[j].call = "Notify" /\ q[i].token = q[j].token => i = j

Answers(q, i, token) == i \in DOMAIN q /\ q[i].request = "result" /\ q[i].call = token

\* Calls that the loop took and the shell has still to answer
TakenIn(q, loop, pend) ==
    \A i \in DOMAIN q : q[i].call = "Notify" =>
        /\ q[i].token \in DOMAIN pend /\ pend[q[i].token] = q[i].sender
        /\ \A j \in DOMAIN loop : ~Answers(loop, j, q[i].token)

ApartIn(q, r) ==
    \A i \in DOMAIN q, j \in DOMAIN r :
        q[i].call = "Notify" /\ r[j].call = "Notify" => q[i].token # r[j].token

\* The calls the loop has still to take
FreshIn(q, pend, ans) ==
    \A i \in DOMAIN q : q[i].call = "Notify" => q[i].token \notin DOMAIN pend \cup DOMAIN ans

AnswersOnce(loop, pend, ans) ==
    /\ \A i \in DOMAIN loop : loop[i].request = "result" =>
          /\ loop[i].call \in DOMAIN pend
          /\ \A j \in DOMAIN loop : Answers(loop, j, loop[i].call) => j = i
    /\ DOMAIN pend \cap DOMAIN ans = {}

\* A call has one token, wherever it is: with the loop, with the shell or answered.
TicketsOf(new, kept, sent, loop, pend, ans) ==
    /\ OnceIn(new) /\ OnceIn(kept) /\ OnceIn(sent) /\ ApartIn(kept, sent)
    /\ FreshIn(new, pend, ans)
    /\ TakenIn(kept, loop, pend) /\ TakenIn(sent, loop, pend)
    /\ AnswersOnce(loop, pend, ans)

TokensOf(q) == {q[i].token : i \in {j \in DOMAIN q : q[j].call = "Notify"}}

IssuedOf(new, pend, ans) == \E n \in Nat : DOMAIN pend \cup DOMAIN ans \cup TokensOf(new) = 1..n

CardsLive(map, shown, channels) ==
    \A card \in shown :
        /\ card.id \in DOMAIN map /\ ~map[card.id].closed
        /\ card.id \in DOMAIN channels /\ channels[card.id] = card.channel

\* A remembered demand has its notice, and its window is known.
DemandsOf(map, demands, windows) ==
    /\ windows \subseteq Windows
    /\ \A window \in DOMAIN demands :
          /\ window \in windows
          /\ demands[window] \in NoticesIn(map) /\ map[demands[window]].window = window

\* What the clients were told of, or will be, is not one of the shell's own notices.
CallsOf(last, notices) ==
    /\ CallsIn(calls, last, notices) /\ CallsIn(queued_outgoing, last, notices)
    /\ CallsIn(toShell, last, notices)
    /\ Told(toLoop, answered) \cap notices = {}

Entries == EntriesOf(notificationMap, lastIndex)
Calls   == CallsOf(lastIndex, NoticesIn(notificationMap))
Tickets == TicketsOf(calls, queued_outgoing, toShell, toLoop, pending_notify, answered)
Issued  == IssuedOf(calls, pending_notify, answered)
Books   == BooksOf(toLoop, pending_notify, notification_senders, closedSignals, answered,
                   OwnersIn(notificationMap), lastIndex)
Popups  == CardsLive(notificationMap, cards, popupChannels)
Demands == DemandsOf(notificationMap, attention, metaWindows)

NotificationInv ==
    /\ Queues /\ Entries /\ Calls /\ Tickets /\ Issued /\ Books /\ Popups /\ Demands
    /\ TokenToItsOwner

----------------------------------------------------------------------------
(* A call on its way: what reading, writing and answering change *)

\* Reading the first message of a queue of calls leaves the others as they were.
LEMMA ReadsCall ==
    ASSUME NEW q, NEW r, Shifted(q, r)
    PROVE  /\ \A last, notices : CallsIn(q, last, notices) => CallsIn(r, last, notices)
           /\ OnceIn(q) => /\ OnceIn(r)
                           /\ q[1].call = "Notify" =>
                                 \A i \in DOMAIN r : r[i].call = "Notify" => r[i].token # q[1].token
           /\ \A loop, pend : TakenIn(q, loop, pend) => TakenIn(r, loop, pend)
           /\ \A s : ApartIn(q, s) => ApartIn(r, s)
           /\ \A s : ApartIn(s, q) => ApartIn(s, r)
           /\ \A pend, ans : FreshIn(q, pend, ans) => FreshIn(r, pend, ans)
<1>1. /\ Len(r) \in Nat
      /\ DOMAIN q = 1..Len(r) + 1 /\ DOMAIN r = 1..Len(r)
      /\ \A i \in DOMAIN r : r[i] = q[i + 1]
  BY DEF Shifted
<1>2. /\ 1 \in DOMAIN q /\ \A i \in DOMAIN r : i + 1 \in DOMAIN q /\ i + 1 # 1
      /\ \A i, j \in DOMAIN r : i + 1 = j + 1 => i = j
  BY <1>1
<1>3. \A last, notices : CallsIn(q, last, notices) => CallsIn(r, last, notices)
  BY <1>1, <1>2 DEF CallsIn
<1>4. ASSUME OnceIn(q)
      PROVE  /\ OnceIn(r)
             /\ q[1].call = "Notify" =>
                   \A i \in DOMAIN r : r[i].call = "Notify" => r[i].token # q[1].token
  <2>1. OnceIn(r)
    BY <1>1, <1>2, <1>4 DEF OnceIn
  <2>2. ASSUME q[1].call = "Notify", NEW i \in DOMAIN r, r[i].call = "Notify"
        PROVE  r[i].token # q[1].token
    BY <1>1, <1>2, <1>4, <2>2 DEF OnceIn
  <2>3. QED
    BY <2>1, <2>2
<1>5. \A loop, pend : TakenIn(q, loop, pend) => TakenIn(r, loop, pend)
  BY <1>1, <1>2 DEF TakenIn
<1>6. /\ \A s : ApartIn(q, s) => ApartIn(r, s)
      /\ \A s : ApartIn(s, q) => ApartIn(s, r)
      /\ \A pend, ans : FreshIn(q, pend, ans) => FreshIn(r, pend, ans)
  BY <1>1, <1>2 DEF ApartIn, FreshIn
<1>7. QED
  BY <1>3, <1>4, <1>5, <1>6

LEMMA GrownBy ==
    ASSUME NEW q, NEW e, NEW r, Grown(q, e, r)
    PROVE  /\ \A i \in DOMAIN r : \/ i \in DOMAIN q /\ r[i] = q[i]
                                  \/ i \notin DOMAIN q /\ r[i] = e
           /\ \A i, j \in DOMAIN r : i \notin DOMAIN q /\ j \notin DOMAIN q => i = j
           /\ \A i \in DOMAIN q : i \in DOMAIN r /\ r[i] = q[i]
           /\ \E i \in DOMAIN r : r[i] = e
<1> DEFINE n == Len(q)
<1>1. /\ n \in Nat /\ DOMAIN q = 1..n /\ DOMAIN r = 1..n + 1
      /\ \A i \in DOMAIN q : r[i] = q[i]
      /\ r[n + 1] = e
  BY DEF Grown
<1> HIDE DEF n
<1>2. \A i \in 1..n + 1 : (i \in 1..n /\ i # n + 1) \/ (i = n + 1 /\ i \notin 1..n)
  BY <1>1
<1>3. n + 1 \in DOMAIN r
  BY <1>1
<1>4. \A i \in DOMAIN q : i \in DOMAIN r
  BY <1>1
<1>5. QED
  BY <1>1, <1>2, <1>3, <1>4

\* One more message: if it is a call it must be one that nothing else carries.
LEMMA WritesCall ==
    ASSUME NEW q, NEW e, NEW r, Grown(q, e, r)
    PROVE  /\ \A last, notices :
                 /\ CallsIn(q, last, notices)
                 /\ e.call = "Notify" => e.sender \in Senders /\ e.shape \in Shapes
                                         /\ e.replaces \in (0..last) \ notices
                 => CallsIn(r, last, notices)
           /\ /\ OnceIn(q)
              /\ e.call = "Notify" =>
                    \A i \in DOMAIN q : q[i].call = "Notify" => q[i].token # e.token
              => OnceIn(r)
           /\ \A loop, pend :
                 /\ TakenIn(q, loop, pend)
                 /\ e.call = "Notify" => /\ e.token \in DOMAIN pend /\ pend[e.token] = e.sender
                                         /\ \A j \in DOMAIN loop : ~Answers(loop, j, e.token)
                 => TakenIn(r, loop, pend)
           /\ \A s : /\ ApartIn(q, s)
                     /\ e.call = "Notify" =>
                           \A i \in DOMAIN s : s[i].call = "Notify" => s[i].token # e.token
                     => ApartIn(r, s)
           /\ \A s : /\ ApartIn(s, q)
                     /\ e.call = "Notify" =>
                           \A i \in DOMAIN s : s[i].call = "Notify" => s[i].token # e.token
                     => ApartIn(s, r)
           /\ \A pend, ans : /\ FreshIn(q, pend, ans)
                             /\ e.call = "Notify" => e.token \notin DOMAIN pend \cup DOMAIN ans
                             => FreshIn(r, pend, ans)
<1>1. /\ \A i \in DOMAIN r : \/ i \in DOMAIN q /\ r[i] = q[i]
                             \/ i \notin DOMAIN q /\ r[i] = e
      /\ \A i, j \in DOMAIN r : i \notin DOMAIN q /\ j \notin DOMAIN q => i = j
  BY GrownBy
<1>2. ASSUME NEW last, NEW notices, CallsIn(q, last, notices),
             e.call = "Notify" => e.sender \in Senders /\ e.shape \in Shapes
                                  /\ e.replaces \in (0..last) \ notices
      PROVE  CallsIn(r, last, notices)
  BY <1>1, <1>2 DEF CallsIn
<1>3. ASSUME OnceIn(q),
             e.call = "Notify" =>
                \A i \in DOMAIN q : q[i].call = "Notify" => q[i].token # e.token
      PROVE  OnceIn(r)
  BY <1>1, <1>3 DEF OnceIn
<1>4. ASSUME NEW loop, NEW pend, TakenIn(q, loop, pend),
             e.call = "Notify" => /\ e.token \in DOMAIN pend /\ pend[e.token] = e.sender
                                  /\ \A j \in DOMAIN loop : ~Answers(loop, j, e.token)
      PROVE  TakenIn(r, loop, pend)
  BY <1>1, <1>4 DEF TakenIn
<1>5. ASSUME NEW s,
             e.call = "Notify" =>
                \A i \in DOMAIN s : s[i].call = "Notify" => s[i].token # e.token
      PROVE  /\ ApartIn(q, s) => ApartIn(r, s)
             /\ ApartIn(s, q) => ApartIn(s, r)
  BY <1>1, <1>5 DEF ApartIn
<1>6. ASSUME NEW pend, NEW ans, FreshIn(q, pend, ans),
             e.call = "Notify" => e.token \notin DOMAIN pend \cup DOMAIN ans
      PROVE  FreshIn(r, pend, ans)
  BY <1>1, <1>6 DEF FreshIn
<1>7. QED
  BY <1>2, <1>3, <1>4, <1>5, <1>6

\* No answer is in r that was not in q, at the same place.
SameAnswers(q, r) == \A i \in DOMAIN r : r[i].request = "result" => i \in DOMAIN q /\ r[i] = q[i]

LEMMA NothingAnswered ==
    ASSUME NEW q, NEW r, SameAnswers(q, r), NEW new, NEW kept, NEW sent, NEW pend, NEW ans,
           TicketsOf(new, kept, sent, q, pend, ans)
    PROVE  TicketsOf(new, kept, sent, r, pend, ans)
<1>1. \A i, token : Answers(r, i, token) => Answers(q, i, token)
  BY DEF SameAnswers, Answers
<1>2. TakenIn(kept, r, pend) /\ TakenIn(sent, r, pend)
  BY <1>1 DEF TicketsOf, TakenIn, Answers
<1>3. AnswersOnce(r, pend, ans)
  BY <1>1 DEF TicketsOf, AnswersOnce, SameAnswers, Answers
<1>4. QED
  BY <1>2, <1>3 DEF TicketsOf

\* The loop takes the first call of its channel, and passes it on or keeps it.
LEMMA TakesCall ==
    ASSUME NEW new, NEW kept, NEW sent, NEW loop, NEW pend, NEW ans,
           TicketsOf(new, kept, sent, loop, pend, ans),
           NEW new2, Shifted(new, new2), NEW e, e = new[1],
           NEW pend2,
           e.call = "Notify" => pend2 = With(pend, e.token, e.sender),
           e.call # "Notify" => pend2 = pend,
           NEW kept2, NEW sent2,
           \/ Grown(kept, e, kept2) /\ sent2 = sent
           \/ Grown(sent, e, sent2) /\ kept2 = kept
    PROVE  TicketsOf(new2, kept2, sent2, loop, pend2, ans)
<1>1. /\ OnceIn(new) /\ OnceIn(kept) /\ OnceIn(sent) /\ ApartIn(kept, sent)
      /\ FreshIn(new, pend, ans) /\ TakenIn(kept, loop, pend) /\ TakenIn(sent, loop, pend)
      /\ AnswersOnce(loop, pend, ans)
  BY DEF TicketsOf
<1>2. OnceIn(new2) /\ FreshIn(new2, pend, ans)
  BY <1>1, ReadsCall
<1>3. CASE e.call # "Notify"
  <2>1. \A q, r : Grown(q, e, r) =>
           /\ OnceIn(q) => OnceIn(r)
           /\ TakenIn(q, loop, pend) => TakenIn(r, loop, pend)
           /\ \A s : ApartIn(q, s) => ApartIn(r, s)
           /\ \A s : ApartIn(s, q) => ApartIn(s, r)
    BY <1>3, WritesCall
  <2>2. QED
    BY <1>1, <1>2, <1>3, <2>1 DEF TicketsOf
<1>4. CASE e.call = "Notify"
  <2>1. 1 \in DOMAIN new /\ e.token \notin DOMAIN pend /\ e.token \notin DOMAIN ans
    <3>1. 1 \in DOMAIN new
      BY DEF Shifted
    <3>2. QED
      BY <1>1, <1>4, <3>1 DEF FreshIn
  <2>2. /\ DOMAIN pend2 = DOMAIN pend \cup {e.token} /\ pend2[e.token] = e.sender
        /\ \A t \in DOMAIN pend : pend2[t] = pend[t]
    BY <1>4, <2>1 DEF With
  <2>3. FreshIn(new2, pend2, ans)
    <3>1. \A i \in DOMAIN new2 : new2[i].call = "Notify" => new2[i].token # e.token
      BY <1>1, <1>4, ReadsCall
    <3>2. QED
      BY <1>2, <2>2, <3>1 DEF FreshIn
  <2>4. /\ \A i \in DOMAIN kept : kept[i].call = "Notify" => kept[i].token # e.token
        /\ \A i \in DOMAIN sent : sent[i].call = "Notify" => sent[i].token # e.token
    BY <1>1, <2>1 DEF TakenIn
  <2>5. TakenIn(kept, loop, pend2) /\ TakenIn(sent, loop, pend2)
    BY <1>1, <2>2 DEF TakenIn
  <2>6. AnswersOnce(loop, pend2, ans)
    BY <1>1, <2>1, <2>2 DEF AnswersOnce
  <2>7. \A j \in DOMAIN loop : ~Answers(loop, j, e.token)
    BY <1>1, <2>1 DEF AnswersOnce, Answers
  <2>8. CASE Grown(kept, e, kept2) /\ sent2 = sent
    <3>1. OnceIn(kept2) /\ TakenIn(kept2, loop, pend2) /\ ApartIn(kept2, sent2)
      BY <1>1, <2>2, <2>4, <2>5, <2>7, <2>8, WritesCall
    <3>2. QED
      BY <1>1, <1>2, <2>3, <2>5, <2>6, <2>8, <3>1 DEF TicketsOf
  <2>9. CASE Grown(sent, e, sent2) /\ kept2 = kept
    <3>1. OnceIn(sent2) /\ TakenIn(sent2, loop, pend2) /\ ApartIn(kept2, sent2)
      BY <1>1, <2>2, <2>4, <2>5, <2>7, <2>9, WritesCall
    <3>2. QED
      BY <1>1, <1>2, <2>3, <2>5, <2>6, <2>9, <3>1 DEF TicketsOf
  <2>10. QED
    BY <2>8, <2>9
<1>5. QED
  BY <1>3, <1>4

\* The shell reads a call, and answers it if it is one to answer.
LEMMA AnswersCall ==
    ASSUME NEW new, NEW kept, NEW sent, NEW loop, NEW pend, NEW ans,
           TicketsOf(new, kept, sent, loop, pend, ans),
           NEW sent2, Shifted(sent, sent2), NEW e, e = sent[1], e.call = "Notify",
           NEW a, a.request = "result", a.call = e.token, NEW loop2, Grown(loop, a, loop2)
    PROVE  /\ TicketsOf(new, kept, sent2, loop2, pend, ans)
           /\ e.token \in DOMAIN pend /\ pend[e.token] = e.sender
<1>1. /\ OnceIn(new) /\ OnceIn(kept) /\ OnceIn(sent) /\ ApartIn(kept, sent)
      /\ FreshIn(new, pend, ans) /\ TakenIn(kept, loop, pend) /\ TakenIn(sent, loop, pend)
      /\ AnswersOnce(loop, pend, ans)
  BY DEF TicketsOf
<1>2. OnceIn(sent2) /\ ApartIn(kept, sent2) /\ TakenIn(sent2, loop, pend)
  BY <1>1, ReadsCall
<1>3. 1 \in DOMAIN sent
  BY DEF Shifted
<1>4. /\ e.token \in DOMAIN pend /\ pend[e.token] = e.sender
      /\ \A j \in DOMAIN loop : ~Answers(loop, j, e.token)
  BY <1>1, <1>3 DEF TakenIn
<1>5. /\ \A i \in DOMAIN sent2 : sent2[i].call = "Notify" => sent2[i].token # e.token
      /\ \A i \in DOMAIN kept : kept[i].call = "Notify" => kept[i].token # e.token
  <2>1. \A i \in DOMAIN sent2 : sent2[i].call = "Notify" => sent2[i].token # e.token
    BY <1>1, ReadsCall
  <2>2. \A i \in DOMAIN kept : kept[i].call = "Notify" => kept[i].token # e.token
    BY <1>1, <1>3 DEF ApartIn
  <2>3. QED
    BY <2>1, <2>2
<1>6. /\ \A i \in DOMAIN loop2 : \/ i \in DOMAIN loop /\ loop2[i] = loop[i]
                                 \/ i \notin DOMAIN loop /\ loop2[i] = a
      /\ \A i, j \in DOMAIN loop2 : i \notin DOMAIN loop /\ j \notin DOMAIN loop => i = j
  BY GrownBy
<1>7. \A i, t : Answers(loop2, i, t) => Answers(loop, i, t) \/ (i \notin DOMAIN loop /\ t = e.token)
  BY <1>6 DEF Answers
<1>8. TakenIn(sent2, loop2, pend) /\ TakenIn(kept, loop2, pend)
  <2>1. \A i, t : Answers(loop2, i, t) /\ t # e.token => i \in DOMAIN loop /\ Answers(loop, i, t)
    BY <1>7 DEF Answers
  <2>2. QED
    BY <1>1, <1>2, <1>5, <2>1 DEF TakenIn
<1>9. AnswersOnce(loop2, pend, ans)
  <2>1. ASSUME NEW i \in DOMAIN loop2, loop2[i].request = "result"
        PROVE  /\ loop2[i].call \in DOMAIN pend
               /\ \A j \in DOMAIN loop2 : Answers(loop2, j, loop2[i].call) => j = i
    <3>1. CASE i \in DOMAIN loop /\ loop2[i] = loop[i]
      <4>1. Answers(loop, i, loop2[i].call)
        BY <2>1, <3>1 DEF Answers
      <4>2. loop2[i].call # e.token
        BY <1>4, <3>1, <4>1
      <4>3. \A j \in DOMAIN loop2 : Answers(loop2, j, loop2[i].call) => Answers(loop, j, loop[i].call)
        BY <1>7, <3>1, <4>2
      <4>4. QED
        BY <1>1, <2>1, <3>1, <4>3 DEF AnswersOnce, Answers
    <3>2. CASE i \notin DOMAIN loop /\ loop2[i] = a
      <4>1. ASSUME NEW j \in DOMAIN loop2, Answers(loop2, j, e.token) PROVE j \notin DOMAIN loop
        BY <1>4, <1>7, <4>1 DEF Answers
      <4>2. QED
        BY <1>4, <1>6, <3>2, <4>1
    <3>3. QED
      BY <1>6, <3>1, <3>2
  <2>2. QED
    BY <1>1, <2>1 DEF AnswersOnce
<1>10. QED
  BY <1>1, <1>2, <1>4, <1>8, <1>9 DEF TicketsOf

\* An answer ends its call.
Ends(e, pend, pend2, ans, ans2) ==
    IF e.request = "result"
    THEN pend2 = Without(pend, {e.call}) /\ DOMAIN ans2 = DOMAIN ans \cup {e.call}
    ELSE pend2 = pend /\ ans2 = ans

\* The loop handles a request of the shell; an answer ends its call.
LEMMA EndsCall ==
    ASSUME NEW new, NEW kept, NEW sent, NEW loop, NEW pend, NEW ans,
           TicketsOf(new, kept, sent, loop, pend, ans),
           NEW loop2, Shifted(loop, loop2), NEW e, e = loop[1], NEW pend2, NEW ans2,
           Ends(e, pend, pend2, ans, ans2)
    PROVE  /\ TicketsOf(new, kept, sent, loop2, pend2, ans2)
           /\ StillWaiting(loop2, pend, pend2)
           /\ e.request = "result" => e.call \in DOMAIN pend /\ e.call \notin DOMAIN ans
<1>1. /\ OnceIn(new) /\ OnceIn(kept) /\ OnceIn(sent) /\ ApartIn(kept, sent)
      /\ FreshIn(new, pend, ans) /\ TakenIn(kept, loop, pend) /\ TakenIn(sent, loop, pend)
      /\ AnswersOnce(loop, pend, ans)
  BY DEF TicketsOf
<1>2. /\ Len(loop2) \in Nat
      /\ DOMAIN loop = 1..Len(loop2) + 1 /\ DOMAIN loop2 = 1..Len(loop2)
      /\ \A i \in DOMAIN loop2 : loop2[i] = loop[i + 1]
  BY DEF Shifted
<1>3. /\ 1 \in DOMAIN loop /\ \A i \in DOMAIN loop2 : i + 1 \in DOMAIN loop /\ i + 1 # 1
      /\ \A i, j \in DOMAIN loop2 : i + 1 = j + 1 => i = j
  BY <1>2
<1>4. \A i, t : Answers(loop2, i, t) => Answers(loop, i + 1, t)
  BY <1>2, <1>3 DEF Answers
<1>5. TakenIn(kept, loop2, pend) /\ TakenIn(sent, loop2, pend)
  <2>1. \A i, t : Answers(loop2, i, t) => i + 1 \in DOMAIN loop /\ Answers(loop, i + 1, t)
    BY <1>3, <1>4 DEF Answers
  <2>2. QED
    BY <1>1, <2>1 DEF TakenIn
<1>6. \A i \in DOMAIN loop2 : loop2[i].request = "result" =>
         /\ loop2[i].call \in DOMAIN pend
         /\ \A j \in DOMAIN loop2 : Answers(loop2, j, loop2[i].call) => j = i
         /\ e.request = "result" => loop2[i].call # e.call
  <2>1. ASSUME NEW i \in DOMAIN loop2, loop2[i].request = "result"
        PROVE  /\ loop2[i].call \in DOMAIN pend
               /\ \A j \in DOMAIN loop2 : Answers(loop2, j, loop2[i].call) => j = i
               /\ e.request = "result" => loop2[i].call # e.call
    <3>1. PICK k : k = i + 1
      OBVIOUS
    <3>2. k \in DOMAIN loop /\ k # 1 /\ loop[k] = loop2[i]
      BY <1>2, <1>3, <3>1
    <3>3. /\ loop2[i].call \in DOMAIN pend
          /\ \A j \in DOMAIN loop : Answers(loop, j, loop2[i].call) => j = k
      BY <1>1, <2>1, <3>2 DEF AnswersOnce
    <3>4. \A j \in DOMAIN loop2 : Answers(loop2, j, loop2[i].call) => j = i
      BY <1>3, <1>4, <3>1, <3>3
    <3>5. e.request = "result" => loop2[i].call # e.call
      BY <1>3, <3>2, <3>3 DEF Answers
    <3>6. QED
      BY <3>3, <3>4, <3>5
  <2>2. QED
    BY <2>1
<1>7. CASE e.request # "result"
  <2>1. pend2 = pend /\ ans2 = ans
    BY <1>7 DEF Ends
  <2>2. AnswersOnce(loop2, pend, ans)
    BY <1>1, <1>6 DEF AnswersOnce
  <2>3. QED
    BY <1>1, <1>5, <1>7, <2>1, <2>2 DEF TicketsOf, StillWaiting
<1>8. CASE e.request = "result"
  <2>1. /\ e.call \in DOMAIN pend /\ e.call \notin DOMAIN ans
    BY <1>1, <1>3, <1>8 DEF AnswersOnce
  <2>2. /\ DOMAIN pend2 = DOMAIN pend \ {e.call}
        /\ \A t \in DOMAIN pend2 : pend2[t] = pend[t]
        /\ DOMAIN ans2 = DOMAIN ans \cup {e.call}
    BY <1>8 DEF Without, Ends
  <2>3. FreshIn(new, pend2, ans2)
    BY <1>1, <2>1, <2>2 DEF FreshIn
  <2>4. ASSUME NEW q, TakenIn(q, loop, pend), TakenIn(q, loop2, pend) PROVE TakenIn(q, loop2, pend2)
    <3>1. Answers(loop, 1, e.call)
      BY <1>3, <1>8 DEF Answers
    <3>2. \A i \in DOMAIN q : q[i].call = "Notify" => q[i].token # e.call
      BY <1>3, <2>4, <3>1 DEF TakenIn
    <3>3. QED
      BY <2>2, <2>4, <3>2 DEF TakenIn
  <2>5. \A j \in DOMAIN loop2 : loop2[j].request = "result" =>
           loop2[j].call \in DOMAIN pend2 /\ pend2[loop2[j].call] = pend[loop2[j].call]
    BY <1>6, <1>8, <2>2
  <2>6. AnswersOnce(loop2, pend2, ans2)
    BY <1>1, <1>6, <2>2, <2>5 DEF AnswersOnce
  <2>7. QED
    BY <1>1, <1>2, <1>5, <2>1, <2>3, <2>4, <2>5, <2>6 DEF TicketsOf, StillWaiting
<1>9. QED
  BY <1>7, <1>8

----------------------------------------------------------------------------
(* The bus and the loop *)

LEMMA TokensGrown ==
    ASSUME NEW q, NEW e, NEW r, Grown(q, e, r)
    PROVE  TokensOf(r) = TokensOf(q) \cup (IF e.call = "Notify" THEN {e.token} ELSE {})
<1>1. /\ \A i \in DOMAIN r : \/ i \in DOMAIN q /\ r[i] = q[i]
                             \/ i \notin DOMAIN q /\ r[i] = e
      /\ \A i \in DOMAIN q : i \in DOMAIN r /\ r[i] = q[i]
      /\ \E i \in DOMAIN r : r[i] = e
  BY GrownBy
<1>2. ASSUME NEW t
      PROVE  t \in TokensOf(r) <=> t \in TokensOf(q) \/ (e.call = "Notify" /\ t = e.token)
  <2>1. t \in TokensOf(r) <=> \E i \in DOMAIN r : r[i].call = "Notify" /\ r[i].token = t
    BY DEF TokensOf
  <2>2. t \in TokensOf(q) <=> \E i \in DOMAIN q : q[i].call = "Notify" /\ q[i].token = t
    BY DEF TokensOf
  <2>3. QED
    BY <1>1, <2>1, <2>2
<1>3. QED
  BY <1>2

LEMMA TokensShifted ==
    ASSUME NEW q, NEW r, Shifted(q, r)
    PROVE  TokensOf(q) = TokensOf(r) \cup (IF q[1].call = "Notify" THEN {q[1].token} ELSE {})
<1>1. /\ Len(r) \in Nat /\ DOMAIN q = 1..Len(r) + 1 /\ DOMAIN r = 1..Len(r)
      /\ \A i \in DOMAIN r : r[i] = q[i + 1]
  BY DEF Shifted
<1>2. /\ 1 \in DOMAIN q
      /\ \A i \in DOMAIN r : i + 1 \in DOMAIN q /\ r[i] = q[i + 1]
      /\ \A i \in DOMAIN q : i # 1 => i - 1 \in DOMAIN r /\ r[i - 1] = q[i]
  BY <1>1
<1>3. ASSUME NEW t
      PROVE  t \in TokensOf(q) <=> t \in TokensOf(r) \/ (q[1].call = "Notify" /\ t = q[1].token)
  <2>1. t \in TokensOf(r) <=> \E i \in DOMAIN r : r[i].call = "Notify" /\ r[i].token = t
    BY DEF TokensOf
  <2>2. t \in TokensOf(q) <=> \E i \in DOMAIN q : q[i].call = "Notify" /\ q[i].token = t
    BY DEF TokensOf
  <2>3. QED
    BY <1>2, <2>1, <2>2
<1>4. QED
  BY <1>3

\* What only the shell writes, and the grants
shellHas == <<notificationMap, lastIndex, cards, popupChannels, attention, metaWindows>>

LEMMA ShellSame ==
    ASSUME NotificationInv, UNCHANGED shellHas
    PROVE  Entries' /\ Popups' /\ Demands'
<1>1. Entries' = Entries /\ Popups' = Popups
  BY DEF shellHas, Entries, Popups
<1>2. Demands' = Demands
  BY DEF shellHas, Demands
<1>3. QED
  BY <1>1, <1>2 DEF NotificationInv

\* What is known of the ids
LEMMA IdsKnown ==
    ASSUME NotificationInv
    PROVE  /\ lastIndex \in Nat
           /\ Range(answered) \subseteq 1..lastIndex
           /\ Range(answered) \cap NoticesIn(notificationMap) = {}
           /\ NoticesIn(notificationMap) \subseteq 1..lastIndex
           /\ LiveIn(notificationMap) \subseteq 1..lastIndex
           /\ DOMAIN OwnersIn(notificationMap) = LiveIn(notificationMap)
<1>1. lastIndex \in Nat /\ Range(answered) \subseteq 1..lastIndex
  BY DEF NotificationInv, Books, BooksOf, Bounded
<1>2. Range(answered) \cap NoticesIn(notificationMap) = {}
  BY DEF NotificationInv, Calls, CallsOf, Told
<1>3. /\ NoticesIn(notificationMap) \subseteq 1..lastIndex
      /\ LiveIn(notificationMap) \subseteq 1..lastIndex
  BY DEF NotificationInv, Entries, EntriesOf, NoticesIn, LiveIn
<1>4. QED
  BY <1>1, <1>2, <1>3 DEF OwnersIn

LEMMA IssuedNow ==
    ASSUME NotificationInv
    PROVE  /\ CallTokens = DOMAIN pending_notify \cup DOMAIN answered \cup TokensOf(calls)
           /\ \E n \in Nat : CallTokens = 1..n /\ Cardinality(CallTokens) = n
<1>1. CallTokens = DOMAIN pending_notify \cup DOMAIN answered \cup TokensOf(calls)
  BY DEF CallTokens, TokensOf
<1>2. PICK n \in Nat : CallTokens = 1..n
  BY <1>1 DEF NotificationInv, Issued, IssuedOf
<1>3. Cardinality(1..n) = n
  BY FS_Interval
<1>4. QED
  BY <1>1, <1>2, <1>3

\* A call that is accepted: of Notify with a token of its own.
LEMMA Accepted ==
    ASSUME NotificationInv, NEW c, calls' = Append(calls, c),
           c.call = "Notify" => /\ c.sender \in Senders /\ c.shape \in Shapes
                                /\ c.replaces \in {0} \cup Range(answered)
                                /\ c.token = Cardinality(CallTokens) + 1,
           UNCHANGED <<pending_notify, notification_senders, queued_outgoing, toShell, toLoop,
                       shellHas, saidVars>>
    PROVE  NotificationInv'
<1>1. Grown(calls, c, calls') /\ Sequential(calls')
  BY Growing DEF NotificationInv, Queues, Grown
<1>2. PICK n \in Nat : CallTokens = 1..n /\ Cardinality(CallTokens) = n
  BY IssuedNow
<1>3. PICK m : m = n + 1
  OBVIOUS
<1>4. 1..m = 1..n \cup {m} /\ m \notin 1..n /\ m \in Nat
  BY <1>3
<1>5. c.call = "Notify" => c.token = m /\ c.token \notin CallTokens
  BY <1>2, <1>3, <1>4
<1>6. CallTokens = DOMAIN pending_notify \cup DOMAIN answered \cup TokensOf(calls)
  BY IssuedNow
<1>7. Issued'
  <2>1. TokensOf(calls') = TokensOf(calls) \cup (IF c.call = "Notify" THEN {c.token} ELSE {})
    BY <1>1, TokensGrown
  <2>2. \/ DOMAIN pending_notify \cup DOMAIN answered \cup TokensOf(calls') = 1..n
        \/ DOMAIN pending_notify \cup DOMAIN answered \cup TokensOf(calls') = 1..m
    BY <1>2, <1>4, <1>5, <1>6, <2>1
  <2>3. QED
    BY <1>4, <2>2 DEF Issued, IssuedOf, saidVars
<1>8. Queues'
  BY <1>1 DEF NotificationInv, Queues
<1>9. Tickets'
  <2>1. c.call = "Notify" => \A i \in DOMAIN calls : calls[i].call = "Notify" => calls[i].token # c.token
    BY <1>5, <1>6 DEF TokensOf
  <2>2. OnceIn(calls')
    BY <1>1, <2>1, WritesCall DEF NotificationInv, Tickets, TicketsOf
  <2>3. FreshIn(calls', pending_notify, answered)
    BY <1>1, <1>5, <1>6, WritesCall DEF NotificationInv, Tickets, TicketsOf
  <2>4. QED
    BY <2>2, <2>3 DEF NotificationInv, Tickets, TicketsOf, saidVars
<1>10. Calls'
  <2>1. c.call = "Notify" => c.replaces \in (0..lastIndex) \ NoticesIn(notificationMap)
    BY IdsKnown
  <2>2. CallsIn(calls', lastIndex, NoticesIn(notificationMap))
    BY <1>1, <2>1, WritesCall DEF NotificationInv, Calls, CallsOf
  <2>3. QED
    BY <2>2 DEF NotificationInv, Calls, CallsOf, shellHas, saidVars
<1>11. Books'
  BY DEF NotificationInv, Books, shellHas, saidVars
<1>12. Entries' /\ Popups' /\ Demands' /\ TokenToItsOwner'
  BY ShellSame DEF NotificationInv, TokenToItsOwner, saidVars
<1>13. QED
  BY <1>7, <1>8, <1>9, <1>10, <1>11, <1>12 DEF NotificationInv

LEMMA NotifyKeeps ==
    ASSUME NotificationInv, NEW sender \in Senders, Notify(sender) PROVE NotificationInv'
<1>1. PICK shape \in Shapes, replaces \in {0} \cup Range(answered) :
         calls' = Append(calls, NotifyCall(sender, replaces, shape))
  BY DEF Notify
<1>2. PICK c : c = NotifyCall(sender, replaces, shape)
  OBVIOUS
<1>3. /\ c.call = "Notify" /\ c.sender = sender /\ c.shape = shape /\ c.replaces = replaces
      /\ c.token = Cardinality(CallTokens) + 1
  BY <1>2 DEF NotifyCall
<1>4. UNCHANGED <<pending_notify, notification_senders, queued_outgoing, toShell, toLoop,
                  shellHas, saidVars>>
  BY DEF Notify, shellVars, worldVars, shellHas
<1>5. calls' = Append(calls, c)
  BY <1>1, <1>2
<1>6. QED
  BY <1>3, <1>4, <1>5, Accepted

LEMMA CloseNotificationKeeps ==
    ASSUME NotificationInv, CloseNotification PROVE NotificationInv'
<1>1. PICK id \in Range(answered) : calls' = Append(calls, [call |-> "Close", id |-> id])
  BY DEF CloseNotification
<1>2. PICK c : c = [call |-> "Close", id |-> id]
  OBVIOUS
<1>3. c.call = "Close" /\ calls' = Append(calls, c)
  BY <1>1, <1>2
<1>4. UNCHANGED <<pending_notify, notification_senders, queued_outgoing, toShell, toLoop,
                  shellHas, saidVars>>
  BY DEF CloseNotification, shellVars, worldVars, shellHas
<1>5. c.call # "Notify"
  BY <1>3
<1>6. QED
  BY <1>3, <1>4, <1>5, Accepted

LEMMA HandleNotificationCallKeeps ==
    ASSUME NotificationInv, HandleNotificationCall PROVE NotificationInv'
<1> DEFINE c == Head(calls)
<1>1. Sequential(calls) /\ calls # <<>> /\ calls' = Tail(calls)
  BY DEF HandleNotificationCall, NotificationInv, Queues
<1>2. Shifted(calls, calls') /\ Sequential(calls') /\ c = calls[1] /\ 1 \in DOMAIN calls
  BY <1>1, Shifting DEF Shifted
<1>3. pending_notify' = IF c.call = "Notify" THEN With(pending_notify, c.token, c.sender)
                        ELSE pending_notify
  BY DEF HandleNotificationCall
<1>4. \/ toShell' = Append(toShell, c) /\ queued_outgoing' = queued_outgoing
      \/ queued_outgoing' = Append(queued_outgoing, c) /\ toShell' = toShell
  BY DEF HandleNotificationCall, Deliver
<1>5. UNCHANGED <<notification_senders, toLoop, shellHas, saidVars>>
  BY DEF HandleNotificationCall, shellVars, worldVars, shellHas
<1> HIDE DEF c
<1>6. \/ Grown(toShell, c, toShell') /\ queued_outgoing' = queued_outgoing
      \/ Grown(queued_outgoing, c, queued_outgoing') /\ toShell' = toShell
  BY <1>4, Growing DEF NotificationInv, Queues
<1>7. Queues'
  BY <1>2, <1>5, <1>6 DEF NotificationInv, Queues, Grown
<1>8. Tickets'
  <2>1. TicketsOf(calls, queued_outgoing, toShell, toLoop, pending_notify, answered)
    BY DEF NotificationInv, Tickets
  <2>2. TicketsOf(calls', queued_outgoing', toShell', toLoop, pending_notify', answered)
    BY <1>2, <1>3, <1>6, <2>1, TakesCall
  <2>3. QED
    BY <1>5, <2>2 DEF Tickets, saidVars
<1>9. Issued'
  <2>1. TokensOf(calls) = TokensOf(calls') \cup (IF c.call = "Notify" THEN {c.token} ELSE {})
    BY <1>2, TokensShifted
  <2>2. DOMAIN pending_notify'
           = DOMAIN pending_notify \cup (IF c.call = "Notify" THEN {c.token} ELSE {})
    BY <1>3 DEF With
  <2>3. DOMAIN pending_notify \cup DOMAIN answered \cup TokensOf(calls)
           = DOMAIN pending_notify' \cup DOMAIN answered \cup TokensOf(calls')
    BY <2>1, <2>2
  <2>4. QED
    BY <1>5, <2>3 DEF NotificationInv, Issued, IssuedOf, saidVars
<1>10. Calls'
  <2>1. /\ CallsIn(calls, lastIndex, NoticesIn(notificationMap))
        /\ CallsIn(queued_outgoing, lastIndex, NoticesIn(notificationMap))
        /\ CallsIn(toShell, lastIndex, NoticesIn(notificationMap))
    BY DEF NotificationInv, Calls, CallsOf
  <2>2. CallsIn(calls', lastIndex, NoticesIn(notificationMap))
    BY <1>2, <2>1, ReadsCall
  <2>3. c.call = "Notify" => c.sender \in Senders /\ c.shape \in Shapes
                             /\ c.replaces \in (0..lastIndex) \ NoticesIn(notificationMap)
    BY <1>2, <2>1 DEF CallsIn
  <2>4. /\ CallsIn(queued_outgoing', lastIndex, NoticesIn(notificationMap))
        /\ CallsIn(toShell', lastIndex, NoticesIn(notificationMap))
    BY <1>6, <2>1, <2>3, WritesCall
  <2>5. QED
    BY <1>5, <2>2, <2>4 DEF NotificationInv, Calls, CallsOf, shellHas, saidVars
<1>11. Books'
  <2>1. \A i \in DOMAIN toLoop : toLoop[i].request = "result" =>
           pending_notify'[toLoop[i].call] = pending_notify[toLoop[i].call]
    <3>1. \A i \in DOMAIN toLoop : toLoop[i].request = "result" =>
             toLoop[i].call \in DOMAIN pending_notify
      BY DEF NotificationInv, Tickets, TicketsOf, AnswersOnce
    <3>2. c.call = "Notify" => c.token \notin DOMAIN pending_notify
      BY <1>2 DEF NotificationInv, Tickets, TicketsOf, FreshIn
    <3>3. QED
      BY <1>3, <3>1, <3>2 DEF With
  <2>2. Len(toLoop) \in Nat /\ DOMAIN toLoop = 1..Len(toLoop)
    BY Counted DEF NotificationInv, Queues
  <2>3. ASSUME NEW n \in 0..Len(toLoop), NEW id, NEW w,
               Owned(toLoop, pending_notify, notification_senders, id, w, n)
        PROVE  Owned(toLoop, pending_notify', notification_senders, id, w, n)
    <3>1. \A j \in 1..n : j \in DOMAIN toLoop
      BY <2>2
    <3>2. QED
      BY <2>1, <2>3, <3>1 DEF Owned
  <2>4. Len(toLoop) \in 0..Len(toLoop) /\ \A i \in DOMAIN toLoop : i - 1 \in 0..Len(toLoop)
    BY <2>2
  <2>5. Balanced(toLoop, pending_notify', notification_senders, OwnersIn(notificationMap), lastIndex)
    BY <2>3, <2>4 DEF NotificationInv, Books, BooksOf, Balanced
  <2>6. TokensOwned(toLoop, pending_notify', notification_senders)
    BY <2>3, <2>4 DEF NotificationInv, Books, BooksOf, TokensOwned
  <2>7. BooksOf(toLoop, pending_notify', notification_senders, closedSignals, answered,
                OwnersIn(notificationMap), lastIndex)
    BY <2>5, <2>6 DEF NotificationInv, Books, BooksOf
  <2>8. QED
    BY <1>5, <2>7 DEF Books, shellHas, saidVars
<1>12. Entries' /\ Popups' /\ Demands' /\ TokenToItsOwner'
  BY <1>5, ShellSame DEF NotificationInv, TokenToItsOwner, saidVars
<1>13. QED
  BY <1>7, <1>8, <1>9, <1>10, <1>11, <1>12 DEF NotificationInv

\* What a request of the shell leaves, once handled, of the books and the calls
RequestDone ==
    /\ Sequential(toLoop') /\ Entries' /\ Issued' /\ Books' /\ Popups' /\ Demands'
    /\ TicketsOf(calls, queued_outgoing, toShell, toLoop', pending_notify', answered')
    /\ Told(toLoop', answered') \cap NoticesIn(notificationMap) = {}

\* The loop handles the first request of the shell.
LEMMA LoopReads ==
    ASSUME NotificationInv, toLoop # <<>>, toLoop' = Tail(toLoop), NEW e, e = Head(toLoop),
           IF e.request = "result"
           THEN /\ pending_notify' = Without(pending_notify, {e.call})
                /\ notification_senders' = With(notification_senders, e.id, pending_notify[e.call])
                /\ answered' = With(answered, e.call, e.id)
           ELSE pending_notify' = pending_notify /\ answered' = answered,
           IF e.request = "closed"
           THEN /\ notification_senders' = Without(notification_senders, {e.id})
                /\ closedSignals' = With(closedSignals, e.id, Signals(e.id) + 1)
           ELSE closedSignals' = closedSignals,
           e.request \notin {"result", "closed"} => notification_senders' = notification_senders,
           UNCHANGED <<calls, shellHas>>
    PROVE  RequestDone
<1>1. Shifted(toLoop, toLoop') /\ Sequential(toLoop')
  BY Shifting DEF NotificationInv, Queues, Shifted
<1>2. e = toLoop[1] /\ 1 \in DOMAIN toLoop
  BY <1>1 DEF Shifted
<1>3. Entries' /\ Popups' /\ Demands'
  BY ShellSame
<1>4. e.request = "result" => DOMAIN answered' = DOMAIN answered \cup {e.call}
  BY DEF With
<1>5. /\ TicketsOf(calls, queued_outgoing, toShell, toLoop', pending_notify', answered')
      /\ StillWaiting(toLoop', pending_notify, pending_notify')
      /\ e.request = "result" => e.call \in DOMAIN pending_notify /\ e.call \notin DOMAIN answered
  <2>1. TicketsOf(calls, queued_outgoing, toShell, toLoop, pending_notify, answered)
    BY DEF NotificationInv, Tickets
  <2>2. /\ TicketsOf(calls, queued_outgoing, toShell, toLoop', pending_notify', answered')
        /\ StillWaiting(toLoop', pending_notify, pending_notify')
        /\ e.request = "result" => e.call \in DOMAIN pending_notify /\ e.call \notin DOMAIN answered
    <3>1. Ends(e, pending_notify, pending_notify', answered, answered')
      BY <1>4 DEF Ends
    <3>2. QED
      BY <1>1, <1>2, <2>1, <3>1, EndsCall
  <2>3. QED
    BY <2>2
<1>6. Issued'
  <2>1. DOMAIN pending_notify' \cup DOMAIN answered' = DOMAIN pending_notify \cup DOMAIN answered
    BY <1>4, <1>5 DEF Without
  <2>2. QED
    BY <2>1 DEF NotificationInv, Issued, IssuedOf
<1>7. e.request = "result" => Range(answered') = Range(answered) \cup {e.id}
  <2>1. ASSUME e.request = "result"
        PROVE  \A id : id \in Range(answered') <=> id \in Range(answered) \/ id = e.id
    <3>1. /\ DOMAIN answered' = DOMAIN answered \cup {e.call} /\ answered'[e.call] = e.id
          /\ e.call \notin DOMAIN answered
          /\ \A t \in DOMAIN answered : answered'[t] = answered[t]
      BY <1>5, <2>1 DEF With
    <3>2. \A id : /\ id \in Range(answered') <=> \E t \in DOMAIN answered' : answered'[t] = id
                  /\ id \in Range(answered) <=> \E t \in DOMAIN answered : answered[t] = id
      BY DEF Range
    <3>3. QED
      BY <3>1, <3>2
  <2>2. QED
    BY <2>1
<1>8. Told(toLoop', answered') \cap NoticesIn(notificationMap) = {}
  <2>1. \A id : id \in Told(toLoop', answered') => id \in Told(toLoop, answered)
    <3>1. /\ Len(toLoop') \in Nat /\ DOMAIN toLoop = 1..Len(toLoop') + 1
          /\ DOMAIN toLoop' = 1..Len(toLoop')
          /\ \A i \in DOMAIN toLoop' : toLoop'[i] = toLoop[i + 1]
      BY <1>1 DEF Shifted
    <3>2. \A i \in DOMAIN toLoop' : i + 1 \in DOMAIN toLoop
      BY <3>1
    <3>3. \A id : (\E t \in DOMAIN answered' : answered'[t] = id)
             => (\E t \in DOMAIN answered : answered[t] = id) \/ (e.request = "result" /\ e.id = id)
      BY <1>7 DEF Range
    <3>4. ASSUME NEW id, id \in Told(toLoop', answered') PROVE id \in Told(toLoop, answered)
      <4>1. \/ \E t \in DOMAIN answered' : answered'[t] = id
            \/ \E i \in DOMAIN toLoop' : toLoop'[i].request = "result" /\ toLoop'[i].id = id
        BY <3>4 DEF Told, Range
      <4>2. \/ \E t \in DOMAIN answered : answered[t] = id
            \/ \E i \in DOMAIN toLoop : toLoop[i].request = "result" /\ toLoop[i].id = id
        <5>1. CASE \E t \in DOMAIN answered' : answered'[t] = id
          BY <1>2, <3>3, <5>1
        <5>2. CASE \E i \in DOMAIN toLoop' :
                      toLoop'[i].request = "result" /\ toLoop'[i].id = id
          BY <3>1, <3>2, <5>2
        <5>3. QED
          BY <4>1, <5>1, <5>2
      <4>3. QED
        BY <4>2, ToldOf
    <3>5. QED
      BY <3>4
  <2>2. QED
    BY <2>1 DEF NotificationInv, Calls, CallsOf
<1>9. Books'
  <2>1. BooksOf(toLoop, pending_notify, notification_senders, closedSignals, answered,
                OwnersIn(notificationMap), lastIndex)
    BY DEF NotificationInv, Books
  <2>2. Applied(toLoop[1], pending_notify, notification_senders, notification_senders')
    BY <1>2 DEF Applied, Touches, With, Without
  <2>3. e.request \in {"result", "closed"} => e.id \in 1..lastIndex
    BY <1>2, <2>1 DEF BooksOf, Bounded
  <2>4. DOMAIN notification_senders' \subseteq 1..lastIndex
    BY <2>1, <2>3 DEF BooksOf, Bounded, With, Without
  <2>5. e.request = "closed" =>
           /\ DOMAIN closedSignals' = DOMAIN closedSignals \cup {e.id}
           /\ \A id \in DOMAIN closedSignals' : closedSignals'[id] = 1
    <3>1. ASSUME e.request = "closed"
          PROVE  /\ e.id \notin DOMAIN closedSignals
                 /\ \A id \in DOMAIN closedSignals : closedSignals[id] = 1
      BY <1>2, <2>1, <3>1 DEF BooksOf, ToldOnce
    <3>2. ASSUME e.request = "closed" PROVE Signals(e.id) + 1 = 1
      BY <3>1, <3>2 DEF Signals
    <3>3. QED
      BY <3>1, <3>2 DEF With
  <2>6. Said(toLoop[1], closedSignals, closedSignals', answered, answered')
    BY <1>2, <1>7, <2>5 DEF Said
  <2>7. BooksOf(toLoop', pending_notify', notification_senders', closedSignals', answered',
                OwnersIn(notificationMap), lastIndex)
    BY <1>1, <1>5, <2>1, <2>2, <2>4, <2>5, <2>6, LoopHandles
  <2>8. QED
    BY <2>7 DEF Books, shellHas
<1>10. QED
  BY <1>1, <1>3, <1>5, <1>6, <1>8, <1>9 DEF RequestDone

\* Nothing else changed for the calls.
LEMMA RequestAlone ==
    ASSUME NotificationInv, RequestDone, UNCHANGED <<calls, queued_outgoing, toShell, shellHas>>
    PROVE  Queues' /\ Entries' /\ Calls' /\ Tickets' /\ Issued' /\ Books' /\ Popups' /\ Demands'
<1>1. Queues'
  BY DEF NotificationInv, Queues, RequestDone
<1>2. Tickets'
  BY DEF Tickets, RequestDone
<1>3. Calls'
  BY DEF NotificationInv, Calls, CallsOf, RequestDone, shellHas
<1>4. QED
  BY <1>1, <1>2, <1>3 DEF RequestDone

\* What the calls are when the loop passes on those it kept.
LEMMA Flushing ==
    ASSUME NEW q, NEW s, NEW r, Joined(q, s, r)
    PROVE  /\ \A last, notices : CallsIn(q, last, notices) /\ CallsIn(s, last, notices)
                                    => CallsIn(r, last, notices)
           /\ OnceIn(q) /\ OnceIn(s) /\ ApartIn(s, q) => OnceIn(r)
           /\ \A loop, pend : TakenIn(q, loop, pend) /\ TakenIn(s, loop, pend) => TakenIn(r, loop, pend)
<1> DEFINE n == Len(q)
<1>1. /\ n \in Nat /\ Len(s) \in Nat /\ DOMAIN s = 1..Len(s) /\ DOMAIN r = 1..n + Len(s)
      /\ DOMAIN q = 1..n
      /\ \A i \in DOMAIN q : r[i] = q[i]
      /\ \A i \in DOMAIN r : i \in DOMAIN q \/ (i - n \in DOMAIN s /\ r[i] = s[i - n])
  BY DEF Joined
<1> HIDE DEF n
<1>2. /\ \A i \in DOMAIN r : \/ i \in DOMAIN q /\ r[i] = q[i]
                             \/ i - n \in DOMAIN s /\ r[i] = s[i - n]
      /\ \A i, j \in DOMAIN r : i - n = j - n => i = j
  BY <1>1
<1>3. \A last, notices : CallsIn(q, last, notices) /\ CallsIn(s, last, notices)
         => CallsIn(r, last, notices)
  BY <1>2 DEF CallsIn
<1>4. ASSUME OnceIn(q), OnceIn(s), ApartIn(s, q) PROVE OnceIn(r)
  BY <1>2, <1>4 DEF OnceIn, ApartIn
<1>5. \A loop, pend : TakenIn(q, loop, pend) /\ TakenIn(s, loop, pend) => TakenIn(r, loop, pend)
  BY <1>2 DEF TakenIn
<1>6. QED
  BY <1>3, <1>4, <1>5

LEMMA NothingKept ==
    /\ Sequential(<<>>) /\ OnceIn(<<>>)
    /\ \A last, notices : CallsIn(<<>>, last, notices)
    /\ \A loop, pend : TakenIn(<<>>, loop, pend)
    /\ \A s : ApartIn(<<>>, s)
BY EmptyIsSequential DEF OnceIn, CallsIn, TakenIn, ApartIn

LEMMA CompleteNotifyKeeps ==
    ASSUME NotificationInv, CompleteNotify PROVE NotificationInv'
<1> DEFINE e == Head(toLoop)
<1>1. toLoop # <<>> /\ e.request = "result" /\ toLoop' = Tail(toLoop)
  BY DEF CompleteNotify, Request
<1>2. e = toLoop[1] /\ 1 \in DOMAIN toLoop
  BY <1>1, Shifting DEF NotificationInv, Queues, Shifted
<1>3. e.call \in DOMAIN pending_notify
  BY <1>1, <1>2 DEF NotificationInv, Tickets, TicketsOf, AnswersOnce
<1>4. /\ pending_notify' = Without(pending_notify, {e.call})
      /\ notification_senders' = With(notification_senders, e.id, pending_notify[e.call])
      /\ answered' = With(answered, e.call, e.id)
  BY <1>3 DEF CompleteNotify, SenderRecorded
<1>5. closedSignals' = closedSignals /\ granted' = granted
      /\ UNCHANGED <<calls, queued_outgoing, toShell, shellHas>>
  BY DEF CompleteNotify, loopOnly, worldVars, shellHas
<1> HIDE DEF e
<1>6. e = Head(toLoop)
  BY DEF e
<1>7. Queues' /\ Entries' /\ Calls' /\ Tickets' /\ Issued' /\ Books' /\ Popups' /\ Demands'
  BY <1>1, <1>4, <1>5, <1>6, LoopReads, RequestAlone
<1>8. TokenToItsOwner'
  BY <1>5 DEF NotificationInv, TokenToItsOwner
<1>9. QED
  BY <1>7, <1>8 DEF NotificationInv

LEMMA EmitNotificationClosedKeeps ==
    ASSUME NotificationInv, EmitNotificationClosed PROVE NotificationInv'
<1> DEFINE e == Head(toLoop)
<1>1. toLoop # <<>> /\ e.request = "closed" /\ toLoop' = Tail(toLoop)
  BY DEF EmitNotificationClosed, Request
<1>2. /\ notification_senders' = Without(notification_senders, {e.id})
      /\ closedSignals' = With(closedSignals, e.id, Signals(e.id) + 1)
  BY DEF EmitNotificationClosed
<1>3. pending_notify' = pending_notify /\ answered' = answered /\ granted' = granted
      /\ UNCHANGED <<calls, queued_outgoing, toShell, shellHas>>
  BY DEF EmitNotificationClosed, loopOnly, worldVars, shellHas
<1> HIDE DEF e
<1>4. e = Head(toLoop)
  BY DEF e
<1>5. Queues' /\ Entries' /\ Calls' /\ Tickets' /\ Issued' /\ Books' /\ Popups' /\ Demands'
  BY <1>1, <1>2, <1>3, <1>4, LoopReads, RequestAlone
<1>6. TokenToItsOwner'
  BY <1>3 DEF NotificationInv, TokenToItsOwner
<1>7. QED
  BY <1>5, <1>6 DEF NotificationInv

\* A request that is about no id of a notification changes no books.
LEMMA OtherRequest ==
    ASSUME NotificationInv, toLoop # <<>>, toLoop' = Tail(toLoop),
           Head(toLoop).request \notin {"result", "closed"},
           UNCHANGED <<calls, pending_notify, notification_senders, shellHas, answered,
                       closedSignals>>
    PROVE  RequestDone
<1>1. PICK e : e = Head(toLoop)
  OBVIOUS
<1>2. e.request # "result" /\ e.request # "closed"
  BY <1>1
<1>3. QED
  BY <1>1, <1>2, LoopReads

LEMMA EmitActionInvokedKeeps ==
    ASSUME NotificationInv, EmitActionInvoked PROVE NotificationInv'
<1>1. toLoop # <<>> /\ Head(toLoop).request = "action" /\ toLoop' = Tail(toLoop)
  BY DEF EmitActionInvoked, Request
<1>2. /\ UNCHANGED <<calls, pending_notify, notification_senders, queued_outgoing, toShell,
                     shellHas, answered, closedSignals>>
      /\ granted' = granted
  BY DEF EmitActionInvoked, loopOnly, worldVars, saidVars, shellHas
<1>3. Queues' /\ Entries' /\ Calls' /\ Tickets' /\ Issued' /\ Books' /\ Popups' /\ Demands'
  BY <1>1, <1>2, OtherRequest, RequestAlone
<1>4. TokenToItsOwner'
  BY <1>2 DEF NotificationInv, TokenToItsOwner
<1>5. QED
  BY <1>3, <1>4 DEF NotificationInv

LEMMA EmitActivationTokenKeeps ==
    ASSUME NotificationInv, EmitActivationToken PROVE NotificationInv'
<1> DEFINE e == Head(toLoop)
<1>1. toLoop # <<>> /\ e.request = "token" /\ toLoop' = Tail(toLoop)
  BY DEF EmitActivationToken, Request
<1>2. UNCHANGED <<calls, pending_notify, notification_senders, queued_outgoing, toShell,
                  shellHas, answered, closedSignals>>
  BY DEF EmitActivationToken, loopOnly, worldVars, shellHas
<1>3. Queues' /\ Entries' /\ Calls' /\ Tickets' /\ Issued' /\ Books' /\ Popups' /\ Demands'
  BY <1>1, <1>2, OtherRequest, RequestAlone
<1>4. e = toLoop[1] /\ 1 \in DOMAIN toLoop
  BY <1>1, Shifting DEF NotificationInv, Queues, Shifted
<1>5. Owned(toLoop, pending_notify, notification_senders, e.id, e.window, 0)
  <2>1. Owned(toLoop, pending_notify, notification_senders, e.id, e.window, 1 - 1)
    BY <1>1, <1>4 DEF NotificationInv, Books, BooksOf, TokensOwned
  <2>2. 1 - 1 = 0
    OBVIOUS
  <2>3. QED
    BY <2>1, <2>2
<1>6. e.id \in DOMAIN notification_senders /\ WindowOf[notification_senders[e.id]] = e.window
  <2>1. \A j \in 1..0 : FALSE
    OBVIOUS
  <2>2. QED
    BY <1>5, <2>1 DEF Owned
<1>7. granted' = granted \cup [to : {notification_senders[e.id]}, window : {e.window}]
  BY <1>6 DEF EmitActivationToken
<1>8. TokenToItsOwner'
  <2>1. \A g \in [to : {notification_senders[e.id]}, window : {e.window}] :
           WindowOf[g.to] = g.window
    BY <1>6
  <2>2. QED
    BY <1>7, <2>1 DEF NotificationInv, TokenToItsOwner
<1>9. QED
  BY <1>3, <1>8 DEF NotificationInv

LEMMA MarkShellReadyKeeps ==
    ASSUME NotificationInv, MarkShellReady PROVE NotificationInv'
<1>1. toLoop # <<>> /\ Head(toLoop).request = "ready" /\ toLoop' = Tail(toLoop)
  BY DEF MarkShellReady, Request
<1>2. /\ queued_outgoing' = <<>> /\ toShell' = toShell \o queued_outgoing
      /\ UNCHANGED <<calls, pending_notify, notification_senders, shellHas, saidVars>>
  BY DEF MarkShellReady, Flushed, loopOnly, worldVars, shellHas
<1>3. RequestDone
  <2>1. UNCHANGED <<calls, pending_notify, notification_senders, shellHas, answered, closedSignals>>
    BY <1>2 DEF saidVars
  <2>2. QED
    BY <1>1, <2>1, OtherRequest
<1>4. Joined(toShell, queued_outgoing, toShell')
  BY <1>2, Joining DEF NotificationInv, Queues
<1>5. Queues'
  BY <1>2, <1>3, <1>4, NothingKept DEF NotificationInv, Queues, Joined, RequestDone
<1>6. Tickets'
  <2>1. /\ OnceIn(toShell) /\ OnceIn(queued_outgoing) /\ ApartIn(queued_outgoing, toShell)
        /\ TakenIn(toShell, toLoop', pending_notify')
        /\ TakenIn(queued_outgoing, toLoop', pending_notify')
    BY <1>3 DEF RequestDone, TicketsOf
  <2>2. OnceIn(toShell') /\ TakenIn(toShell', toLoop', pending_notify')
    BY <1>4, <2>1, Flushing
  <2>3. TicketsOf(calls, <<>>, toShell', toLoop', pending_notify', answered')
    BY <1>3, <2>2, NothingKept DEF RequestDone, TicketsOf
  <2>4. QED
    BY <1>2, <2>3 DEF Tickets
<1>7. Calls'
  <2>1. CallsIn(toShell', lastIndex, NoticesIn(notificationMap))
    BY <1>4, Flushing DEF NotificationInv, Calls, CallsOf
  <2>2. QED
    BY <1>2, <1>3, <2>1, NothingKept
    DEF NotificationInv, Calls, CallsOf, RequestDone, shellHas
<1>8. TokenToItsOwner'
  BY <1>2 DEF NotificationInv, TokenToItsOwner, saidVars
<1>9. QED
  BY <1>3, <1>5, <1>6, <1>7, <1>8 DEF NotificationInv, RequestDone

----------------------------------------------------------------------------
(* What every step of the shell owes *)

\* A step of the shell keeps its entries, its popups and the books; it answers no
\* call, and makes a notice of none but a new id.
ShellStep ==
    /\ Sequential(toLoop') /\ Entries' /\ Books' /\ Popups'
    /\ SameAnswers(toLoop, toLoop')
    /\ lastIndex' \in Nat /\ lastIndex <= lastIndex'
    /\ \A id \in NoticesIn(notificationMap') : id \in NoticesIn(notificationMap) \/ id > lastIndex

\* What the loop keeps for itself
loopHas == <<calls, pending_notify, notification_senders, queued_outgoing>>

LEMMA NoticesGrow ==
    ASSUME NEW last \in Nat, NEW last2 \in Nat, last <= last2, NEW notices, NEW notices2,
           \A id \in notices2 : id \in notices \/ id > last,
           NEW q, CallsIn(q, last, notices)
    PROVE  CallsIn(q, last2, notices2)
<1>1. \A id : id \in (0..last) \ notices => id \in (0..last2) \ notices2
  OBVIOUS
<1>2. QED
  BY <1>1 DEF CallsIn

LEMMA ShellKeeps ==
    ASSUME NotificationInv, ShellStep, Demands', UNCHANGED <<loopHas, saidVars>>,
           toShell' = toShell \/ (toShell # <<>> /\ toShell' = Tail(toShell))
    PROVE  NotificationInv'
<1>1. toShell' = toShell \/ Shifted(toShell, toShell')
  BY Shifting DEF NotificationInv, Queues
<1>2. Queues'
  BY <1>1 DEF NotificationInv, Queues, ShellStep, loopHas, Shifted
<1>3. Tickets'
  <2>1. TicketsOf(calls, queued_outgoing, toShell, toLoop', pending_notify, answered)
    BY NothingAnswered DEF NotificationInv, Tickets, ShellStep
  <2>2. /\ OnceIn(toShell) => OnceIn(toShell')
        /\ TakenIn(toShell, toLoop', pending_notify) => TakenIn(toShell', toLoop', pending_notify)
        /\ ApartIn(queued_outgoing, toShell) => ApartIn(queued_outgoing, toShell')
    <3>1. CASE toShell' = toShell
      BY <3>1
    <3>2. CASE Shifted(toShell, toShell')
      BY <3>2, ReadsCall
    <3>3. QED
      BY <1>1, <3>1, <3>2
  <2>3. TicketsOf(calls, queued_outgoing, toShell', toLoop', pending_notify, answered)
    BY <2>1, <2>2 DEF TicketsOf
  <2>4. QED
    BY <2>3 DEF Tickets, loopHas, saidVars
<1>4. Calls'
  <2>1. /\ CallsIn(calls, lastIndex, NoticesIn(notificationMap))
        /\ CallsIn(queued_outgoing, lastIndex, NoticesIn(notificationMap))
        /\ CallsIn(toShell, lastIndex, NoticesIn(notificationMap))
        /\ Told(toLoop, answered) \cap NoticesIn(notificationMap) = {}
    BY DEF NotificationInv, Calls, CallsOf
  <2>2. CallsIn(toShell', lastIndex, NoticesIn(notificationMap))
    <3>1. CASE toShell' = toShell
      BY <2>1, <3>1
    <3>2. CASE Shifted(toShell, toShell')
      BY <2>1, <3>2, ReadsCall
    <3>3. QED
      BY <1>1, <3>1, <3>2
  <2>3. lastIndex \in Nat
    BY IdsKnown
  <2>4. /\ CallsIn(calls, lastIndex', NoticesIn(notificationMap'))
        /\ CallsIn(queued_outgoing, lastIndex', NoticesIn(notificationMap'))
        /\ CallsIn(toShell', lastIndex', NoticesIn(notificationMap'))
    BY <2>1, <2>2, <2>3, NoticesGrow DEF ShellStep
  <2>5. Told(toLoop', answered) \cap NoticesIn(notificationMap') = {}
    <3>1. \A id : id \in Told(toLoop', answered) => id \in Told(toLoop, answered)
      BY DEF Told, ShellStep, SameAnswers
    <3>2. \A id : id \in Told(toLoop, answered) => id \in 1..lastIndex
      BY DEF NotificationInv, Books, BooksOf, Bounded, Told
    <3>3. \A id \in 1..lastIndex : ~(id > lastIndex)
      BY <2>3
    <3>4. QED
      BY <2>1, <3>1, <3>2, <3>3 DEF ShellStep
  <2>6. QED
    BY <2>4, <2>5 DEF Calls, CallsOf, loopHas, saidVars
<1>5. Issued'
  BY DEF NotificationInv, Issued, loopHas, saidVars
<1>6. TokenToItsOwner'
  BY DEF NotificationInv, TokenToItsOwner, saidVars
<1>7. QED
  BY <1>2, <1>3, <1>4, <1>5, <1>6 DEF NotificationInv, ShellStep

\* The entries are those they were.
LEMMA ShellIdle ==
    ASSUME NotificationInv, UNCHANGED <<notificationMap, lastIndex, cards, popupChannels>>,
           toLoop' = toLoop, UNCHANGED <<loopHas, saidVars>>
    PROVE  ShellStep
<1>1. Entries' /\ Popups' /\ Books' /\ Sequential(toLoop')
  BY DEF NotificationInv, Queues, Entries, Popups, Books, loopHas, saidVars
<1>2. SameAnswers(toLoop, toLoop')
  BY DEF SameAnswers
<1>3. lastIndex \in Nat
  BY IdsKnown
<1>4. QED
  BY <1>1, <1>2, <1>3 DEF ShellStep

\* The shell asks the loop something that is about no id, or a token for a live one.
LEMMA ShellAsks ==
    ASSUME NotificationInv, NEW e, toLoop' = Append(toLoop, e),
           e.request \notin {"result", "closed"},
           e.request = "token" => /\ e.id \in LiveIn(notificationMap)
                                  /\ notificationMap[e.id].window = e.window,
           Entries', Popups', lastIndex' = lastIndex,
           OwnersIn(notificationMap') = OwnersIn(notificationMap),
           NoticesIn(notificationMap') = NoticesIn(notificationMap),
           UNCHANGED <<loopHas, saidVars>>
    PROVE  ShellStep
<1>1. Grown(toLoop, e, toLoop') /\ Sequential(toLoop)
  BY Growing DEF NotificationInv, Queues
<1>2. SameAnswers(toLoop, toLoop')
  BY <1>1, GrownBy DEF SameAnswers
<1>3. e.request = "token" => /\ e.id \in DOMAIN OwnersIn(notificationMap)
                             /\ OwnersIn(notificationMap)[e.id] = e.window
  BY DEF OwnersIn
<1>4. BooksOf(toLoop', pending_notify, notification_senders, closedSignals, answered,
              OwnersIn(notificationMap), lastIndex)
  BY <1>1, <1>3, AsksLoop DEF NotificationInv, Books
<1>5. Books'
  BY <1>4 DEF Books, loopHas, saidVars
<1>6. lastIndex \in Nat
  BY IdsKnown
<1>7. QED
  BY <1>1, <1>2, <1>5, <1>6 DEF ShellStep, Grown

----------------------------------------------------------------------------
(* Closing *)

\* An entry that is closed keeps all but its flags.
LEMMA EntryClosed ==
    ASSUME NEW e \in EntrySet, NEW markRead \in BOOLEAN
    PROVE  /\ ClosedEntry(e, markRead) \in EntrySet
           /\ ClosedEntry(e, markRead).closed
           /\ ClosedEntry(e, markRead).synthetic = e.synthetic
           /\ ClosedEntry(e, markRead).window = e.window
           /\ ClosedEntry(e, markRead).shape = e.shape
BY DEF EntrySet, ClosedEntry

\* The signals of a set of ids, in their order
SignalsOf(told, task) ==
    [i \in 1..Cardinality(told) |-> [request |-> "closed", id |-> Nth(told, i), task |-> task]]

LEMMA SignalsList ==
    ASSUME NEW told \in SUBSET Nat, IsFiniteSet(told), NEW task, NEW s, s = SignalsOf(told, task)
    PROVE  Sequential(s) /\ TellsAll(s, told)
<1>1. /\ Cardinality(told) \in Nat
      /\ \A i \in 1..Cardinality(told) : Nth(told, i) \in told
      /\ \A i, j \in 1..Cardinality(told) : Nth(told, i) = Nth(told, j) => i = j
      /\ \A id \in told : \E i \in 1..Cardinality(told) : Nth(told, i) = id
  BY NthLists
<1>2. /\ DOMAIN s = 1..Cardinality(told)
      /\ \A i \in 1..Cardinality(told) : s[i].request = "closed" /\ s[i].id = Nth(told, i)
  BY DEF SignalsOf
<1>3. Sequential(s)
  <2>1. s \in [1..Cardinality(told) -> Range(s)]
    BY <1>2 DEF SignalsOf, Range
  <2>2. QED
    BY <1>1, <2>1, SeqDef DEF Sequential
<1>4. TellsAll(s, told)
  BY <1>1, <1>2 DEF TellsAll
<1>5. QED
  BY <1>3, <1>4

\* What closing a set of ids leaves
Closed(ids, told, gone, markRead, task) ==
    LET known == ids \cap DOMAIN notificationMap IN
    /\ gone \subseteq known /\ told \subseteq known
    /\ told = {id \in known : ~notificationMap[id].synthetic /\ ~notificationMap[id].closed}
    /\ notificationMap' = [id \in DOMAIN notificationMap \ gone |->
                              IF id \in known THEN ClosedEntry(notificationMap[id], markRead)
                              ELSE notificationMap[id]]
    /\ cards' = cards \ CardsOf(known)
    /\ popupChannels' = Without(popupChannels, known)
    /\ attention' = Without(attention, {w \in DOMAIN attention : attention[w] \in gone})
    /\ toLoop' = toLoop \o SignalsOf(told, task)

LEMMA ClosedKeeps ==
    ASSUME NotificationInv, NEW ids, NEW told, NEW gone, NEW markRead \in BOOLEAN, NEW task,
           Closed(ids, told, gone, markRead, task),
           lastIndex' = lastIndex, UNCHANGED <<loopHas, saidVars>>
    PROVE  ShellStep /\ DemandsOf(notificationMap', attention', metaWindows)
<1> DEFINE known == ids \cap DOMAIN notificationMap
           owners == OwnersIn(notificationMap)
           owners2 == OwnersIn(notificationMap')
<1>1. /\ gone \subseteq known /\ told \subseteq known
      /\ told = {id \in known : ~notificationMap[id].synthetic /\ ~notificationMap[id].closed}
      /\ DOMAIN notificationMap' = DOMAIN notificationMap \ gone
      /\ \A id \in DOMAIN notificationMap' :
            notificationMap'[id] = IF id \in known THEN ClosedEntry(notificationMap[id], markRead)
                                   ELSE notificationMap[id]
      /\ cards' = cards \ CardsOf(known)
      /\ popupChannels' = Without(popupChannels, known)
      /\ attention' = Without(attention, {w \in DOMAIN attention : attention[w] \in gone})
      /\ toLoop' = toLoop \o SignalsOf(told, task)
  BY DEF Closed
<1>2. /\ lastIndex \in Nat
      /\ \A id \in DOMAIN notificationMap :
            /\ id \in 1..lastIndex /\ notificationMap[id] \in EntrySet
            /\ notificationMap[id].synthetic => ~notificationMap[id].shape.default
  BY DEF NotificationInv, Entries, EntriesOf
<1>3. known \subseteq DOMAIN notificationMap
  OBVIOUS
<1>4. \A id \in known :
         /\ ClosedEntry(notificationMap[id], markRead) \in EntrySet
         /\ ClosedEntry(notificationMap[id], markRead).closed
         /\ ClosedEntry(notificationMap[id], markRead).synthetic = notificationMap[id].synthetic
         /\ ClosedEntry(notificationMap[id], markRead).window = notificationMap[id].window
         /\ ClosedEntry(notificationMap[id], markRead).shape = notificationMap[id].shape
  BY <1>2, <1>3, EntryClosed
<1> HIDE DEF known
<1>5. \A id \in DOMAIN notificationMap' :
         /\ id \in DOMAIN notificationMap /\ id \notin gone
         /\ notificationMap'[id] \in EntrySet
         /\ notificationMap'[id].synthetic = notificationMap[id].synthetic
         /\ notificationMap'[id].window = notificationMap[id].window
         /\ notificationMap'[id].shape = notificationMap[id].shape
         /\ id \in known => notificationMap'[id].closed
         /\ id \notin known => notificationMap'[id] = notificationMap[id]
  <2>1. ASSUME NEW id \in DOMAIN notificationMap'
        PROVE  /\ id \in DOMAIN notificationMap /\ id \notin gone
               /\ notificationMap'[id] \in EntrySet
               /\ notificationMap'[id].synthetic = notificationMap[id].synthetic
               /\ notificationMap'[id].window = notificationMap[id].window
               /\ notificationMap'[id].shape = notificationMap[id].shape
               /\ id \in known => notificationMap'[id].closed
               /\ id \notin known => notificationMap'[id] = notificationMap[id]
    <3>1. id \in DOMAIN notificationMap /\ id \notin gone
      BY <1>1
    <3>2. CASE id \in known
      BY <1>1, <1>4, <3>1, <3>2
    <3>3. CASE id \notin known
      BY <1>1, <1>2, <3>1, <3>3
    <3>4. QED
      BY <3>1, <3>2, <3>3
  <2>2. QED
    BY <2>1
<1>6. EntriesOf(notificationMap', lastIndex)
  BY <1>2, <1>5 DEF EntriesOf
<1>7. NoticesIn(notificationMap') \subseteq NoticesIn(notificationMap)
  BY <1>5 DEF NoticesIn
<1>8. /\ DOMAIN owners = LiveIn(notificationMap) /\ DOMAIN owners2 = LiveIn(notificationMap')
      /\ \A id \in DOMAIN owners : owners[id] = notificationMap[id].window
      /\ \A id \in DOMAIN owners2 : owners2[id] = notificationMap'[id].window
  BY DEF OwnersIn
<1>9. DOMAIN owners2 = DOMAIN owners \ told /\ \A id \in DOMAIN owners2 : owners2[id] = owners[id]
  <2>1. ASSUME NEW id \in LiveIn(notificationMap') PROVE id \in LiveIn(notificationMap) \ told
    <3>1. id \in DOMAIN notificationMap' /\ id \notin known
      BY <1>5 DEF LiveIn
    <3>2. QED
      BY <1>1, <1>5, <3>1 DEF LiveIn
  <2>2. ASSUME NEW id \in LiveIn(notificationMap) \ told PROVE id \in LiveIn(notificationMap')
    <3>1. id \in DOMAIN notificationMap /\ id \notin known
      BY <1>1 DEF LiveIn
    <3>2. id \in DOMAIN notificationMap' /\ notificationMap'[id] = notificationMap[id]
      BY <1>1, <1>5, <3>1
    <3>3. QED
      BY <3>2 DEF LiveIn
  <2>3. \A id \in LiveIn(notificationMap') :
           notificationMap'[id].window = notificationMap[id].window
    BY <1>5 DEF LiveIn
  <2>4. QED
    BY <1>8, <2>1, <2>2, <2>3
<1> HIDE DEF owners, owners2
<1>10. told \subseteq DOMAIN owners /\ told \in SUBSET Nat /\ IsFiniteSet(told)
  <2>1. told \subseteq DOMAIN owners
    BY <1>1, <1>3, <1>8 DEF LiveIn
  <2>2. told \in SUBSET (1..lastIndex)
    BY <1>1, <1>2, <1>3
  <2>3. IsFiniteSet(1..lastIndex)
    BY <1>2, FS_Interval
  <2>4. told \in SUBSET Nat
    BY <1>2, <2>2
  <2>5. QED
    BY <2>1, <2>2, <2>3, <2>4, FS_Subset
<1>11. PICK s : s = SignalsOf(told, task)
  OBVIOUS
<1>12. Sequential(s) /\ TellsAll(s, told)
  BY <1>10, <1>11, SignalsList
<1>13. Joined(toLoop, s, toLoop')
  BY <1>1, <1>11, <1>12, Joining DEF NotificationInv, Queues
<1>14. BooksOf(toLoop', pending_notify, notification_senders, closedSignals, answered, owners2,
               lastIndex)
  <2>1. BooksOf(toLoop, pending_notify, notification_senders, closedSignals, answered, owners,
                lastIndex)
    BY DEF NotificationInv, Books, owners
  <2>2. Sequential(toLoop)
    BY DEF NotificationInv, Queues
  <2>3. LiveNoMore(owners, told, owners2)
    BY <1>9, <1>10 DEF LiveNoMore
  <2>4. QED
    BY <1>12, <1>13, <2>1, <2>2, <2>3, TellsClosed
<1>15. Books'
  BY <1>14 DEF Books, owners2, loopHas, saidVars
<1>16. SameAnswers(toLoop, toLoop') /\ Sequential(toLoop')
  BY <1>12, <1>13 DEF SameAnswers, Joined, TellsAll
<1>17. CardsLive(notificationMap', cards', popupChannels')
  <2>1. ASSUME NEW card \in cards'
        PROVE  /\ card.id \in DOMAIN notificationMap' /\ ~notificationMap'[card.id].closed
               /\ card.id \in DOMAIN popupChannels'
               /\ popupChannels'[card.id] = card.channel
    <3>1. card \in cards /\ card \notin CardsOf(known)
      BY <1>1
    <3>2. /\ card.id \in DOMAIN notificationMap /\ ~notificationMap[card.id].closed
          /\ card.id \in DOMAIN popupChannels /\ popupChannels[card.id] = card.channel
      BY <3>1 DEF NotificationInv, Popups, CardsLive
    <3>3. card.id \notin known
      BY <3>1, <3>2 DEF CardsOf
    <3>4. card.id \in DOMAIN notificationMap' /\ notificationMap'[card.id] = notificationMap[card.id]
      BY <1>1, <1>5, <3>2, <3>3
    <3>5. QED
      BY <1>1, <3>2, <3>3, <3>4 DEF Without
  <2>2. QED
    BY <2>1 DEF CardsLive
<1>18. ShellStep
  BY <1>2, <1>6, <1>7, <1>15, <1>16, <1>17 DEF ShellStep, Entries, Popups
<1>19. DemandsOf(notificationMap', attention', metaWindows)
  <2>1. ASSUME NEW w \in DOMAIN attention'
        PROVE  /\ w \in metaWindows
               /\ attention'[w] \in NoticesIn(notificationMap')
               /\ notificationMap'[attention'[w]].window = w
    <3>1. w \in DOMAIN attention /\ attention'[w] = attention[w] /\ attention[w] \notin gone
      BY <1>1 DEF Without
    <3>2. /\ w \in metaWindows /\ attention[w] \in NoticesIn(notificationMap)
          /\ notificationMap[attention[w]].window = w
      BY <3>1 DEF NotificationInv, Demands, DemandsOf
    <3>3. attention[w] \in DOMAIN notificationMap'
      BY <1>1, <3>1, <3>2 DEF NoticesIn
    <3>4. QED
      BY <1>5, <3>1, <3>2, <3>3 DEF NoticesIn
  <2>2. QED
    BY <2>1 DEF NotificationInv, Demands, DemandsOf
<1>20. QED
  BY <1>18, <1>19

\* _closeNotification, whatever the reason.
LEMMA Closing ==
    ASSUME NotificationInv, NEW ids, NEW reason, NEW markRead \in BOOLEAN, NEW forget \in BOOLEAN,
           NEW task, Close(ids, reason, markRead, forget, task),
           lastIndex' = lastIndex, UNCHANGED <<loopHas, saidVars>>
    PROVE  /\ ShellStep /\ DemandsOf(notificationMap', attention', metaWindows)
           /\ reason # "expired" =>
                 \A w \in DOMAIN attention : attention[w] \in ids => w \notin DOMAIN attention'
<1> DEFINE known == ids \cap DOMAIN notificationMap
           notices == {id \in known : notificationMap[id].synthetic}
           told == {id \in known \ notices : ~notificationMap[id].closed}
           gone == (IF reason = "expired" THEN {} ELSE notices)
                      \cup (IF forget THEN known \ notices ELSE {})
<1>1. Closed(ids, told, gone, markRead, task)
  BY DEF Close, Closed, SignalsOf
<1>2. ASSUME reason # "expired", NEW w \in DOMAIN attention, attention[w] \in ids
      PROVE  w \notin DOMAIN attention'
  <2>1. attention[w] \in NoticesIn(notificationMap)
    BY DEF NotificationInv, Demands, DemandsOf
  <2>2. attention[w] \in gone
    BY <1>2, <2>1 DEF NoticesIn
  <2>3. QED
    BY <1>1, <2>2 DEF Closed, Without
<1> HIDE DEF told, gone
<1>3. ShellStep /\ DemandsOf(notificationMap', attention', metaWindows)
  BY <1>1, ClosedKeeps
<1>4. QED
  BY <1>2, <1>3

----------------------------------------------------------------------------
(* Steps that concern no notification *)

\* Nothing the invariant speaks of moves.
LEMMA Unmoved ==
    ASSUME NotificationInv, UNCHANGED <<loopHas, toShell, toLoop, shellHas, saidVars>>
    PROVE  NotificationInv'
<1>1. ShellStep
  BY ShellIdle DEF shellHas
<1>2. Demands'
  BY ShellSame
<1>3. QED
  BY <1>1, <1>2, ShellKeeps

\* The loop tells the shell something that is no call.
LEMMA TellsShell ==
    ASSUME NotificationInv, NEW e, e.call # "Notify", toShell' = Append(toShell, e),
           UNCHANGED <<loopHas, toLoop, shellHas, saidVars>>
    PROVE  NotificationInv'
<1>1. Grown(toShell, e, toShell')
  BY Growing DEF NotificationInv, Queues
<1>2. Queues'
  BY <1>1 DEF NotificationInv, Queues, loopHas, Grown
<1>3. Tickets'
  <2>1. /\ OnceIn(toShell) /\ ApartIn(queued_outgoing, toShell)
        /\ TakenIn(toShell, toLoop, pending_notify)
    BY DEF NotificationInv, Tickets, TicketsOf
  <2>2. /\ OnceIn(toShell') /\ ApartIn(queued_outgoing, toShell')
        /\ TakenIn(toShell', toLoop, pending_notify)
    BY <1>1, <2>1, WritesCall
  <2>3. TicketsOf(calls, queued_outgoing, toShell', toLoop, pending_notify, answered)
    BY <2>2 DEF NotificationInv, Tickets, TicketsOf
  <2>4. QED
    BY <2>3 DEF Tickets, loopHas, saidVars
<1>4. Calls'
  <2>1. CallsIn(toShell', lastIndex, NoticesIn(notificationMap))
    BY <1>1, WritesCall DEF NotificationInv, Calls, CallsOf
  <2>2. QED
    BY <2>1 DEF NotificationInv, Calls, CallsOf, loopHas, shellHas, saidVars
<1>5. Issued' /\ Books' /\ TokenToItsOwner'
  BY DEF NotificationInv, Issued, Books, TokenToItsOwner, loopHas, shellHas, saidVars
<1>6. Entries' /\ Popups' /\ Demands'
  BY ShellSame
<1>7. QED
  BY <1>2, <1>3, <1>4, <1>5, <1>6 DEF NotificationInv

LEMMA RequestActivationKeeps ==
    ASSUME NotificationInv, RequestActivation PROVE NotificationInv'
<1>1. UNCHANGED <<loopHas, toLoop, shellHas, saidVars>>
  BY DEF RequestActivation, busVars, shellVars, worldVars, loopHas, shellHas
<1>2. PICK token \in tokens :
         toShell' = IF token.window \in open
                    THEN Append(toShell, [call |-> "activate", window |-> token.window])
                    ELSE toShell
  BY DEF RequestActivation
<1>3. CASE toShell' = toShell
  BY <1>1, <1>3, Unmoved
<1>4. CASE toShell' # toShell
  <2>1. PICK e : e = [call |-> "activate", window |-> token.window]
    OBVIOUS
  <2>2. toShell' = Append(toShell, e) /\ e.call = "activate"
    BY <1>2, <1>4, <2>1
  <2>3. e.call # "Notify"
    BY <2>2
  <2>4. QED
    BY <1>1, <2>2, <2>3, TellsShell
<1>5. QED
  BY <1>3, <1>4

LEMMA WindowLeavesKeeps ==
    ASSUME NotificationInv, NEW window \in Windows, WindowLeaves(window) PROVE NotificationInv'
<1>1. UNCHANGED <<loopHas, toLoop, shellHas, saidVars>>
  BY DEF WindowLeaves, busVars, shellVars, loopHas, shellHas
<1>2. PICK e : e = [call |-> "left", window |-> window]
  OBVIOUS
<1>3. toShell' = Append(toShell, e) /\ e.call = "left"
  BY <1>2 DEF WindowLeaves
<1>4. e.call # "Notify"
  BY <1>3
<1>5. QED
  BY <1>1, <1>3, <1>4, TellsShell

LEMMA WindowDemandsKeeps ==
    ASSUME NotificationInv, NEW window \in Windows, WindowDemands(window) PROVE NotificationInv'
<1>1. UNCHANGED <<loopHas, toLoop, shellHas, saidVars>>
  BY DEF WindowDemands, busVars, shellVars, worldVars, loopHas, shellHas
<1>2. PICK call \in {"demand", "undemand"} :
         toShell' = Append(toShell, [call |-> call, window |-> window])
  BY DEF WindowDemands
<1>3. PICK e : e = [call |-> call, window |-> window]
  OBVIOUS
<1>4. toShell' = Append(toShell, e) /\ e.call = call
  BY <1>2, <1>3
<1>5. e.call # "Notify"
  BY <1>2, <1>4
<1>6. QED
  BY <1>1, <1>4, <1>5, TellsShell

LEMMA UserMovesKeeps ==
    ASSUME NotificationInv, NEW window \in Windows, UserMoves(window) PROVE NotificationInv'
<1>1. UNCHANGED <<loopHas, toShell, toLoop, shellHas, saidVars>>
  BY DEF UserMoves, busVars, shellVars, loopHas, shellHas
<1>2. QED
  BY <1>1, Unmoved

LEMMA ShellSubscribesKeeps ==
    ASSUME NotificationInv, ShellSubscribes PROVE NotificationInv'
<1>1. UNCHANGED <<loopHas, toShell, shellHas, saidVars>>
  BY DEF ShellSubscribes, outsideShell, busVars, shellVars, loopHas, shellHas
<1>2. Entries' /\ Popups' /\ Demands'
  BY <1>1, ShellSame
<1>3. PICK e : e = [request |-> "ready", task |-> 0]
  OBVIOUS
<1>4. toLoop' = Append(toLoop, e) /\ e.request = "ready"
  BY <1>3 DEF ShellSubscribes
<1>5. e.request \notin {"result", "closed"} /\ e.request # "token"
  BY <1>4
<1>6. ShellStep
  BY <1>1, <1>2, <1>4, <1>5, ShellAsks DEF shellHas
<1>7. QED
  BY <1>1, <1>2, <1>6, ShellKeeps

LEMMA OnActivationRequestedKeeps ==
    ASSUME NotificationInv, OnActivationRequested PROVE NotificationInv'
<1>1. UNCHANGED <<loopHas, toLoop, shellHas, saidVars>>
  BY DEF OnActivationRequested, outsideShell, busVars, shellVars, loopHas, shellHas
<1>2. toShell # <<>> /\ toShell' = Tail(toShell)
  BY DEF OnActivationRequested, Event
<1>3. ShellStep /\ Demands'
  BY <1>1, ShellIdle, ShellSame DEF shellHas
<1>4. QED
  BY <1>1, <1>2, <1>3, ShellKeeps

LEMMA OnAttentionRequestedKeeps ==
    ASSUME NotificationInv, OnAttentionRequested PROVE NotificationInv'
<1>1. /\ UNCHANGED <<loopHas, toLoop, saidVars, notificationMap, lastIndex, cards, popupChannels>>
      /\ metaWindows' = metaWindows
  BY DEF OnAttentionRequested, outsideShell, busVars, loopHas
<1>2. toShell # <<>> /\ toShell' = Tail(toShell)
  BY DEF OnAttentionRequested, Event
<1>3. ShellStep
  BY <1>1, ShellIdle
<1>4. attention' = attention \/ \E w : attention' = Without(attention, {w})
  BY DEF OnAttentionRequested
<1>5. \A w \in DOMAIN attention' : w \in DOMAIN attention /\ attention'[w] = attention[w]
  BY <1>4 DEF Without
<1>6. Demands'
  BY <1>1, <1>5 DEF NotificationInv, Demands, DemandsOf
<1>7. QED
  BY <1>1, <1>2, <1>3, <1>6, ShellKeeps

----------------------------------------------------------------------------
(* Steps that close *)

LEMMA ClosingKeeps ==
    ASSUME NotificationInv, NEW ids, NEW reason, NEW markRead \in BOOLEAN, NEW forget \in BOOLEAN,
           NEW task, Close(ids, reason, markRead, forget, task),
           UNCHANGED <<lastIndex, metaWindows, loopHas, saidVars>>,
           toShell' = toShell \/ (toShell # <<>> /\ toShell' = Tail(toShell))
    PROVE  NotificationInv'
<1>1. ShellStep /\ DemandsOf(notificationMap', attention', metaWindows)
  BY Closing
<1>2. Demands'
  BY <1>1 DEF Demands
<1>3. QED
  BY <1>1, <1>2, ShellKeeps

LEMMA OnCloseRequestedKeeps ==
    ASSUME NotificationInv, OnCloseRequested PROVE NotificationInv'
<1>1. /\ UNCHANGED <<lastIndex, metaWindows, loopHas, saidVars>>
      /\ toShell # <<>> /\ toShell' = Tail(toShell)
      /\ Close({Head(toShell).id}, "closedByCall", FALSE, FALSE, 0)
  BY DEF OnCloseRequested, Event, outsideShell, busVars, loopHas
<1>2. QED
  BY <1>1, ClosingKeeps

LEMMA OnWindowLeftKeeps ==
    ASSUME NotificationInv, OnWindowLeft PROVE NotificationInv'
<1> DEFINE window == Head(toShell).window
<1>1. /\ UNCHANGED <<lastIndex, loopHas, saidVars>>
      /\ toShell # <<>> /\ toShell' = Tail(toShell)
      /\ metaWindows' = metaWindows \ {window}
  BY DEF OnWindowLeft, Event, outsideShell, busVars, loopHas
<1>2. IF window \in DOMAIN attention
      THEN Close({attention[window]}, "dismissed", TRUE, FALSE, 0)
      ELSE NothingClosed
  BY DEF OnWindowLeft
<1> HIDE DEF window
<1>3. ShellStep /\ DemandsOf(notificationMap', attention', metaWindows) /\ window \notin DOMAIN attention'
  <2>1. CASE window \in DOMAIN attention
    <3>1. PICK ids, reason : ids = {attention[window]} /\ reason = "dismissed"
      OBVIOUS
    <3>2. Close(ids, reason, TRUE, FALSE, 0) /\ reason # "expired"
      BY <1>2, <2>1, <3>1
    <3>3. /\ ShellStep /\ DemandsOf(notificationMap', attention', metaWindows)
          /\ \A w \in DOMAIN attention : attention[w] \in ids => w \notin DOMAIN attention'
      BY <1>1, <3>2, Closing
    <3>4. QED
      BY <2>1, <3>1, <3>3
  <2>2. CASE window \notin DOMAIN attention
    <3>1. UNCHANGED <<notificationMap, cards, popupChannels, attention, toLoop>>
      BY <1>2, <2>2 DEF NothingClosed
    <3>2. ShellStep
      BY <1>1, <3>1, ShellIdle
    <3>3. QED
      BY <2>2, <3>1, <3>2 DEF NotificationInv, Demands
  <2>3. QED
    BY <2>1, <2>2
<1>4. Demands'
  BY <1>1, <1>3 DEF Demands, DemandsOf
<1>5. QED
  BY <1>1, <1>3, <1>4, ShellKeeps

LEMMA OnAttentionReleasedKeeps ==
    ASSUME NotificationInv, OnAttentionReleased PROVE NotificationInv'
<1> DEFINE window == Head(toShell).window
<1>1. /\ UNCHANGED <<lastIndex, metaWindows, loopHas, saidVars>>
      /\ toShell # <<>> /\ toShell' = Tail(toShell)
  BY DEF OnAttentionReleased, Event, outsideShell, busVars, loopHas
<1>2. IF window \notin DOMAIN attention THEN NothingClosed
      ELSE IF attention[window] \notin DOMAIN notificationMap
      THEN /\ attention' = Without(attention, {window})
           /\ UNCHANGED <<notificationMap, cards, popupChannels, toLoop>>
      ELSE Close({attention[window]}, "dismissed", TRUE, FALSE, 0)
  BY DEF OnAttentionReleased
<1> HIDE DEF window
<1>3. window \in DOMAIN attention => attention[window] \in DOMAIN notificationMap
  BY DEF NotificationInv, Demands, DemandsOf, NoticesIn
<1>4. CASE window \notin DOMAIN attention
  <2>1. UNCHANGED <<notificationMap, cards, popupChannels, attention, toLoop>>
    BY <1>2, <1>4 DEF NothingClosed
  <2>2. ShellStep
    BY <1>1, <2>1, ShellIdle
  <2>3. Demands'
    BY <1>1, <2>1 DEF NotificationInv, Demands
  <2>4. QED
    BY <1>1, <2>2, <2>3, ShellKeeps
<1>5. CASE window \in DOMAIN attention
  <2>1. Close({attention[window]}, "dismissed", TRUE, FALSE, 0)
    BY <1>2, <1>3, <1>5
  <2>2. QED
    BY <1>1, <2>1, ClosingKeeps
<1>6. QED
  BY <1>4, <1>5

LEMMA PopupExpiresKeeps ==
    ASSUME NotificationInv, PopupExpires PROVE NotificationInv'
<1>1. UNCHANGED <<lastIndex, metaWindows, loopHas, saidVars, toShell>>
  BY DEF PopupExpires, shellAlone, outsideShell, busVars, loopHas
<1>2. PICK card \in cards : Close({card.id}, "expired", FALSE, FALSE, 0)
  BY DEF PopupExpires
<1>3. QED
  BY <1>1, <1>2, ClosingKeeps

LEMMA RoutesRebuiltKeeps ==
    ASSUME NotificationInv, RoutesRebuilt PROVE NotificationInv'
<1>1. /\ UNCHANGED <<lastIndex, metaWindows, loopHas, saidVars, toShell>>
      /\ Close({id \in DOMAIN notificationMap : Seen(id)}, "dismissed", TRUE, FALSE, 0)
  BY DEF RoutesRebuilt, shellAlone, outsideShell, busVars, loopHas
<1>2. QED
  BY <1>1, ClosingKeeps

LEMMA DismissKeeps ==
    ASSUME NotificationInv, NEW id, Dismiss(id) PROVE NotificationInv'
<1>1. UNCHANGED <<lastIndex, metaWindows, loopHas, saidVars, toShell>>
  BY DEF Dismiss, userLeaves, busVars, loopHas
<1>2. PICK forget \in BOOLEAN : Close({id}, "dismissed", TRUE, forget, 0)
  BY DEF Dismiss
<1>3. QED
  BY <1>1, <1>2, ClosingKeeps

\* _dismissAllNotifications, as far as it goes at once
LEMMA ClearSomeKeeps ==
    ASSUME NotificationInv, NEW n, NEW ids, ClearSome(n, ids),
           UNCHANGED <<lastIndex, metaWindows, loopHas, saidVars, toShell>>
    PROVE  NotificationInv'
<1>1. PICK now : Close(now, "dismissed", TRUE, TRUE, n)
  BY DEF ClearSome
<1>2. QED
  BY <1>1, ClosingKeeps

LEMMA DismissAllKeeps ==
    ASSUME NotificationInv, DismissAll PROVE NotificationInv'
<1>1. /\ UNCHANGED <<lastIndex, metaWindows, loopHas, saidVars, toShell>>
      /\ ClearSome(NewTask, DOMAIN notificationMap)
  BY DEF DismissAll, userLeaves, busVars, loopHas
<1>2. QED
  BY <1>1, ClearSomeKeeps

----------------------------------------------------------------------------
(* What the user clicks *)

\* Two maps that differ in what has been read at most.
SameButRead(map, map2) ==
    /\ DOMAIN map2 = DOMAIN map
    /\ \A id \in DOMAIN map :
          /\ map2[id] \in EntrySet
          /\ map2[id].closed = map[id].closed /\ map2[id].synthetic = map[id].synthetic
          /\ map2[id].window = map[id].window /\ map2[id].shape = map[id].shape

LEMMA MarksRead ==
    ASSUME NotificationInv, NEW id \in DOMAIN notificationMap
    PROVE  SameButRead(notificationMap, [notificationMap EXCEPT ![id].read = TRUE])
<1> DEFINE map2 == [notificationMap EXCEPT ![id].read = TRUE]
<1>1. \A k \in DOMAIN notificationMap : notificationMap[k] \in EntrySet
  BY DEF NotificationInv, Entries, EntriesOf
<1>2. DOMAIN map2 = DOMAIN notificationMap
  OBVIOUS
<1>3. \A k \in DOMAIN notificationMap : k # id => map2[k] = notificationMap[k]
  OBVIOUS
<1>4. map2[id] = [notificationMap[id] EXCEPT !.read = TRUE]
  OBVIOUS
<1>5. /\ map2[id] \in EntrySet
      /\ map2[id].closed = notificationMap[id].closed
      /\ map2[id].synthetic = notificationMap[id].synthetic
      /\ map2[id].window = notificationMap[id].window
      /\ map2[id].shape = notificationMap[id].shape
  BY <1>1, <1>4 DEF EntrySet
<1> HIDE DEF map2
<1>6. SameButRead(notificationMap, map2)
  BY <1>1, <1>2, <1>3, <1>5 DEF SameButRead
<1>7. QED
  BY <1>6 DEF map2

LEMMA OnlyRead ==
    ASSUME NotificationInv, SameButRead(notificationMap, notificationMap'),
           UNCHANGED <<lastIndex, cards, popupChannels, attention, metaWindows>>
    PROVE  /\ Entries' /\ Popups' /\ Demands'
           /\ OwnersIn(notificationMap') = OwnersIn(notificationMap)
           /\ NoticesIn(notificationMap') = NoticesIn(notificationMap)
<1>1. /\ DOMAIN notificationMap' = DOMAIN notificationMap
      /\ \A id \in DOMAIN notificationMap :
            /\ notificationMap'[id] \in EntrySet
            /\ notificationMap'[id].closed = notificationMap[id].closed
            /\ notificationMap'[id].synthetic = notificationMap[id].synthetic
            /\ notificationMap'[id].window = notificationMap[id].window
            /\ notificationMap'[id].shape = notificationMap[id].shape
  BY DEF SameButRead
<1>2. Entries'
  BY <1>1 DEF NotificationInv, Entries, EntriesOf
<1>3. Popups'
  BY <1>1 DEF NotificationInv, Popups, CardsLive
<1>4. NoticesIn(notificationMap') = NoticesIn(notificationMap)
  BY <1>1 DEF NoticesIn
<1>5. Demands'
  BY <1>1, <1>4 DEF NotificationInv, Demands, DemandsOf, NoticesIn
<1>6. OwnersIn(notificationMap') = OwnersIn(notificationMap)
  <2>1. LiveIn(notificationMap') = LiveIn(notificationMap)
    BY <1>1 DEF LiveIn
  <2>2. \A id \in LiveIn(notificationMap) : notificationMap'[id].window = notificationMap[id].window
    BY <1>1 DEF LiveIn
  <2>3. QED
    BY <2>1, <2>2 DEF OwnersIn
<1>7. QED
  BY <1>2, <1>3, <1>4, <1>5, <1>6

\* The token of a live notification is asked for, or its action reported.
LEMMA AskNextKeeps ==
    ASSUME NotificationInv, NEW n, NEW id, NEW entry, NEW step, AskNext(n, id, entry, step),
           step = "token" => id \in LiveIn(notificationMap) /\ notificationMap[id].window = entry.window,
           notificationMap' = notificationMap \/ SameButRead(notificationMap, notificationMap'),
           UNCHANGED <<lastIndex, cards, popupChannels, attention, metaWindows, loopHas, saidVars,
                       toShell>>
    PROVE  NotificationInv'
<1>1. PICK e : e = IF step = "token"
                   THEN [request |-> "token", id |-> id, window |-> entry.window, task |-> n]
                   ELSE [request |-> "action", id |-> id, task |-> n]
  OBVIOUS
<1>2. toLoop' = Append(toLoop, e)
  BY <1>1 DEF AskNext
<1>3. /\ e.request \notin {"result", "closed"}
      /\ e.request = "token" => /\ e.id \in LiveIn(notificationMap)
                                /\ notificationMap[e.id].window = e.window
  <2>1. CASE step = "token"
    <3>1. e.request = "token" /\ e.id = id /\ e.window = entry.window
      BY <1>1, <2>1
    <3>2. QED
      BY <2>1, <3>1
  <2>2. CASE step # "token"
    <3>1. e.request = "action"
      BY <1>1, <2>2
    <3>2. QED
      BY <3>1
  <2>3. QED
    BY <2>1, <2>2
<1>4. /\ Entries' /\ Popups' /\ Demands'
      /\ OwnersIn(notificationMap') = OwnersIn(notificationMap)
      /\ NoticesIn(notificationMap') = NoticesIn(notificationMap)
  <2>1. CASE notificationMap' = notificationMap
    BY <2>1, ShellSame DEF shellHas
  <2>2. CASE SameButRead(notificationMap, notificationMap')
    BY <2>2, OnlyRead
  <2>3. QED
    BY <2>1, <2>2
<1>5. ShellStep
  BY <1>2, <1>3, <1>4, ShellAsks
<1>6. QED
  BY <1>4, <1>5, ShellKeeps

LEMMA InvokeActionKeeps ==
    ASSUME NotificationInv, NEW id, InvokeAction(id) PROVE NotificationInv'
<1> DEFINE entry == notificationMap[id]
<1>1. /\ id \in LiveIn(notificationMap) /\ id \in DOMAIN notificationMap
      /\ notificationMap' = [notificationMap EXCEPT ![id].read = TRUE]
      /\ AskNext(NewTask, id, entry, FirstStep(entry))
  BY DEF InvokeAction, Live, LiveIn
<1>2. UNCHANGED <<lastIndex, cards, popupChannels, attention, metaWindows, loopHas, saidVars, toShell>>
  BY DEF InvokeAction, userLeaves, busVars, loopHas
<1>3. SameButRead(notificationMap, notificationMap')
  BY <1>1, MarksRead
<1>4. QED
  BY <1>1, <1>2, <1>3, AskNextKeeps

\* The end of _openNotification and of _invokeAction
LEMMA ClosedUnlessResidentKeeps ==
    ASSUME NotificationInv, NEW id, NEW entry, NEW reads, ClosedUnlessResident(id, entry, reads),
           UNCHANGED <<lastIndex, metaWindows, loopHas, saidVars, toShell>>
    PROVE  NotificationInv'
<1>1. CASE ~entry.shape.resident
  <2>1. Close({id}, "dismissed", TRUE, FALSE, 0)
    BY <1>1 DEF ClosedUnlessResident
  <2>2. QED
    BY <2>1, ClosingKeeps
<1>2. CASE entry.shape.resident
  <2>1. /\ UNCHANGED <<cards, popupChannels, attention, toLoop>>
        /\ notificationMap' = IF reads /\ id \in DOMAIN notificationMap
                              THEN [notificationMap EXCEPT ![id].read = TRUE]
                              ELSE notificationMap
    BY <1>2 DEF ClosedUnlessResident
  <2>2. CASE notificationMap' = notificationMap
    <3>1. UNCHANGED <<loopHas, toShell, toLoop, shellHas, saidVars>>
      BY <2>1, <2>2 DEF shellHas
    <3>2. QED
      BY <3>1, Unmoved
  <2>3. CASE notificationMap' # notificationMap
    <3>1. SameButRead(notificationMap, notificationMap')
      BY <2>1, <2>3, MarksRead
    <3>2. /\ Entries' /\ Popups' /\ Demands'
          /\ OwnersIn(notificationMap') = OwnersIn(notificationMap)
          /\ NoticesIn(notificationMap') = NoticesIn(notificationMap)
      BY <2>1, <3>1, OnlyRead
    <3>3. Books' /\ Sequential(toLoop') /\ SameAnswers(toLoop, toLoop')
      BY <2>1, <3>2 DEF NotificationInv, Books, Queues, SameAnswers, loopHas, saidVars
    <3>4. lastIndex \in Nat
      BY IdsKnown
    <3>5. ShellStep
      BY <3>2, <3>3, <3>4 DEF ShellStep
    <3>6. QED
      BY <3>2, <3>5, ShellKeeps
  <2>4. QED
    BY <2>2, <2>3
<1>3. QED
  BY <1>1, <1>2

LEMMA OpenNotificationKeeps ==
    ASSUME NotificationInv, NEW id, OpenNotification(id) PROVE NotificationInv'
<1> DEFINE entry == notificationMap[id]
<1>1. /\ id \in DOMAIN notificationMap
      /\ UNCHANGED <<lastIndex, metaWindows, loopHas, saidVars, toShell>>
  BY DEF OpenNotification, userLeaves, busVars, loopHas
<1>2. CASE entry.shape.default /\ ~entry.closed
  <2>1. /\ AskNext(NewTask, id, entry, FirstStep(entry))
        /\ UNCHANGED <<notificationMap, cards, popupChannels, attention>>
    BY <1>2 DEF OpenNotification
  <2>2. id \in LiveIn(notificationMap)
    BY <1>1, <1>2 DEF NotificationInv, Entries, EntriesOf, LiveIn
  <2>3. QED
    BY <1>1, <2>1, <2>2, AskNextKeeps
<1>3. CASE ~(entry.shape.default /\ ~entry.closed)
  <2>1. ClosedUnlessResident(id, entry, TRUE)
    BY <1>3 DEF OpenNotification
  <2>2. QED
    BY <1>1, <2>1, ClosedUnlessResidentKeeps
<1>4. QED
  BY <1>2, <1>3

LEMMA TaskContinuesKeeps ==
    ASSUME NotificationInv, TaskContinues PROVE NotificationInv'
<1>1. UNCHANGED <<lastIndex, metaWindows, loopHas, saidVars, toShell>>
  BY DEF TaskContinues, userLeaves, busVars, loopHas
<1>2. \/ \E n, ids : ClearSome(n, ids)
      \/ \E n, id, entry : /\ AskNext(n, id, entry, "action")
                           /\ UNCHANGED <<notificationMap, cards, popupChannels, attention>>
      \/ \E id, entry, reads : ClosedUnlessResident(id, entry, reads)
  BY DEF TaskContinues
<1>3. CASE \E n, ids : ClearSome(n, ids)
  BY <1>1, <1>3, ClearSomeKeeps
<1>4. CASE \E n, id, entry : /\ AskNext(n, id, entry, "action")
                             /\ UNCHANGED <<notificationMap, cards, popupChannels, attention>>
  <2>1. PICK n, id, entry, step : /\ AskNext(n, id, entry, step) /\ step # "token"
                                  /\ UNCHANGED <<notificationMap, cards, popupChannels, attention>>
    BY <1>4
  <2>2. QED
    BY <1>1, <2>1, AskNextKeeps
<1>5. CASE \E id, entry, reads : ClosedUnlessResident(id, entry, reads)
  BY <1>1, <1>5, ClosedUnlessResidentKeeps
<1>6. QED
  BY <1>2, <1>3, <1>4, <1>5

----------------------------------------------------------------------------
(* New entries: a call is answered, a window asks for attention *)

\* An entry comes in, at a new id or in the place of another.
LEMMA EntryComes ==
    ASSUME NotificationInv, NEW id, NEW entry \in EntrySet,
           notificationMap' = With(notificationMap, id, entry),
           ~entry.closed, entry.synthetic => ~entry.shape.default,
           lastIndex' \in Nat, lastIndex <= lastIndex', id \in 1..lastIndex'
    PROVE  /\ Entries'
           /\ DOMAIN notificationMap' = DOMAIN notificationMap \cup {id}
           /\ notificationMap'[id] = entry
           /\ \A k \in DOMAIN notificationMap : k # id => notificationMap'[k] = notificationMap[k]
<1>1. /\ DOMAIN notificationMap' = DOMAIN notificationMap \cup {id}
      /\ notificationMap'[id] = entry
      /\ \A k \in DOMAIN notificationMap : k # id => notificationMap'[k] = notificationMap[k]
  BY DEF With
<1>2. lastIndex \in Nat /\ \A k \in 1..lastIndex : k \in 1..lastIndex'
  BY IdsKnown
<1>3. Entries'
  BY <1>1, <1>2 DEF NotificationInv, Entries, EntriesOf
<1>4. QED
  BY <1>1, <1>3

\* _showPopup, once no card of the id is left
LEMMA ShowsPopup ==
    ASSUME NotificationInv, NEW id, NEW entry, NEW shown, NEW channels,
           ShowPopup(id, entry, shown, channels),
           shown \subseteq cards, \A c \in shown : c.id # id,
           \A k \in DOMAIN popupChannels : k # id => k \in DOMAIN channels
                                                     /\ channels[k] = popupChannels[k],
           DOMAIN notificationMap' = DOMAIN notificationMap \cup {id}, ~notificationMap'[id].closed,
           \A k \in DOMAIN notificationMap : k # id => notificationMap'[k] = notificationMap[k]
    PROVE  Popups'
<1> DEFINE Standing(c, map, of) ==
              /\ c.id \in DOMAIN map /\ ~map[c.id].closed
              /\ c.id \in DOMAIN of /\ of[c.id] = c.channel
<1>1. \A c \in shown : Standing(c, notificationMap, popupChannels) /\ c.id # id
  BY DEF NotificationInv, Popups, CardsLive
<1>2. \A c \in shown : Standing(c, notificationMap', channels)
  BY <1>1
<1>3. CASE RouteOf(entry) = "displayed"
  <2>1. cards' = shown /\ popupChannels' = channels
    BY <1>3 DEF ShowPopup
  <2>2. QED
    BY <1>2, <2>1 DEF Popups, CardsLive
<1>4. CASE RouteOf(entry) # "displayed"
  <2>1. PICK channel : channel = ChannelFor(RouteOf(entry))
    OBVIOUS
  <2>2. PICK card : card = [id |-> id, channel |-> channel, timed |-> entry.shape.timed]
    OBVIOUS
  <2>3. /\ popupChannels' = With(channels, id, channel)
        /\ cards' = {c \in shown : c.id # id \/ c.channel # channel} \cup {card}
    BY <1>4, <2>1, <2>2 DEF ShowPopup
  <2>4. card.id = id /\ card.channel = channel
    BY <2>2
  <2>5. Standing(card, notificationMap', popupChannels')
    BY <2>3, <2>4 DEF With
  <2>6. \A c \in shown : Standing(c, notificationMap', popupChannels')
    BY <1>1, <1>2, <2>3 DEF With
  <2>7. \A c \in cards' : Standing(c, notificationMap', popupChannels')
    BY <2>3, <2>5, <2>6
  <2>8. QED
    BY <2>7 DEF Popups, CardsLive
<1>5. QED
  BY <1>3, <1>4

LEMMA AttentionNamedKeeps ==
    ASSUME NotificationInv, AttentionNamed PROVE NotificationInv'
<1>1. UNCHANGED <<loopHas, saidVars, toShell, toLoop, metaWindows>>
  BY DEF AttentionNamed, outsideShell, busVars, loopHas
<1>2. PICK window :
         IF window \in metaWindows
         THEN /\ lastIndex' = lastIndex + 1
              /\ notificationMap' = With(notificationMap, lastIndex + 1, Notice(window))
              /\ attention' = With(attention, window, lastIndex + 1)
              /\ ShowPopup(lastIndex + 1, Notice(window), cards, popupChannels)
         ELSE UNCHANGED <<lastIndex, notificationMap, attention, cards, popupChannels>>
  BY DEF AttentionNamed, WindowKnown
<1>3. CASE window \notin metaWindows
  <2>1. UNCHANGED <<loopHas, toShell, toLoop, shellHas, saidVars>>
    BY <1>1, <1>2, <1>3 DEF shellHas
  <2>2. QED
    BY <2>1, Unmoved
<1>4. CASE window \in metaWindows
  <2>1. PICK id, entry : id = lastIndex + 1 /\ entry = Notice(window)
    OBVIOUS
  <2>2. /\ lastIndex' = id /\ notificationMap' = With(notificationMap, id, entry)
        /\ attention' = With(attention, window, id)
        /\ ShowPopup(id, entry, cards, popupChannels)
    BY <1>2, <1>4, <2>1
  <2>3. /\ entry \in EntrySet /\ ~entry.closed /\ entry.synthetic /\ ~entry.shape.default
        /\ entry.window = window
    BY <1>4, <2>1 DEF Notice, EntrySet, NotificationInv, Demands, DemandsOf
  <2>4. /\ lastIndex \in Nat /\ id \in Nat /\ id > lastIndex /\ id \in 1..id
        /\ lastIndex <= id /\ id \notin 1..lastIndex
    BY <2>1, IdsKnown
  <2>5. id \notin DOMAIN notificationMap
    BY <2>4 DEF NotificationInv, Entries, EntriesOf
  <2>6. /\ Entries'
        /\ DOMAIN notificationMap' = DOMAIN notificationMap \cup {id}
        /\ notificationMap'[id] = entry
        /\ \A k \in DOMAIN notificationMap : notificationMap'[k] = notificationMap[k]
    BY <2>2, <2>3, <2>4, <2>5, EntryComes
  <2>7. Popups'
    <3>1. \A c \in cards : c.id # id
      BY <2>5 DEF NotificationInv, Popups, CardsLive
    <3>2. QED
      BY <2>2, <2>3, <2>6, <3>1, ShowsPopup
  <2>8. NoticesIn(notificationMap') = NoticesIn(notificationMap) \cup {id}
    BY <2>3, <2>6 DEF NoticesIn
  <2>9. OwnersIn(notificationMap') = OwnersIn(notificationMap)
    <3>1. LiveIn(notificationMap') = LiveIn(notificationMap)
      BY <2>3, <2>6 DEF LiveIn
    <3>2. \A k \in LiveIn(notificationMap) : notificationMap'[k].window = notificationMap[k].window
      BY <2>6 DEF LiveIn
    <3>3. QED
      BY <3>1, <3>2 DEF OwnersIn
  <2>10. Books'
    <3>1. BooksOf(toLoop, pending_notify, notification_senders, closedSignals, answered,
                  OwnersIn(notificationMap), lastIndex + 1)
      BY NewId DEF NotificationInv, Books, Queues
    <3>2. QED
      BY <1>1, <2>1, <2>2, <2>9, <3>1 DEF Books, loopHas, saidVars
  <2>11. ShellStep
    <3>1. Sequential(toLoop') /\ SameAnswers(toLoop, toLoop')
      BY <1>1 DEF NotificationInv, Queues, SameAnswers
    <3>2. QED
      BY <2>2, <2>4, <2>6, <2>7, <2>8, <2>10, <3>1 DEF ShellStep
  <2>12. Demands'
    <3>1. ASSUME NEW w \in DOMAIN attention'
          PROVE  /\ w \in metaWindows /\ attention'[w] \in NoticesIn(notificationMap')
                 /\ notificationMap'[attention'[w]].window = w
      <4>1. CASE w = window
        BY <1>4, <2>2, <2>3, <2>6, <2>8, <4>1 DEF With
      <4>2. CASE w # window
        <5>1. w \in DOMAIN attention /\ attention'[w] = attention[w]
          BY <2>2, <4>2 DEF With
        <5>2. /\ w \in metaWindows /\ attention[w] \in NoticesIn(notificationMap)
              /\ notificationMap[attention[w]].window = w
          BY <5>1 DEF NotificationInv, Demands, DemandsOf
        <5>3. attention[w] \in DOMAIN notificationMap
          BY <5>2 DEF NoticesIn
        <5>4. QED
          BY <2>6, <2>8, <5>1, <5>2, <5>3
      <4>3. QED
        BY <4>1, <4>2
    <3>2. metaWindows \subseteq Windows
      BY DEF NotificationInv, Demands, DemandsOf
    <3>3. QED
      BY <1>1, <3>1, <3>2 DEF Demands, DemandsOf
  <2>13. QED
    BY <1>1, <2>11, <2>12, ShellKeeps
<1>5. QED
  BY <1>3, <1>4

\* The id a call is given: that of the live notification it replaces, or a new one.
LEMMA IdGiven ==
    ASSUME NotificationInv, NEW replaces \in (0..lastIndex) \ NoticesIn(notificationMap),
           NEW id, id = IF Live(replaces) THEN replaces ELSE lastIndex + 1,
           NEW last, last = IF id > lastIndex THEN id ELSE lastIndex
    PROVE  /\ last \in Nat /\ lastIndex <= last /\ id \in 1..last
           /\ id \notin NoticesIn(notificationMap)
           /\ id \in DOMAIN notificationMap => Live(id)
           /\ id \notin DOMAIN closedSignals /\ \A i \in DOMAIN toLoop : ~ClosedAt(toLoop, i, id)
           /\ BooksOf(toLoop, pending_notify, notification_senders, closedSignals, answered,
                      OwnersIn(notificationMap), last)
<1>1. /\ lastIndex \in Nat /\ NoticesIn(notificationMap) \subseteq 1..lastIndex
      /\ DOMAIN notificationMap \subseteq 1..lastIndex
      /\ DOMAIN OwnersIn(notificationMap) = LiveIn(notificationMap)
  BY IdsKnown DEF NotificationInv, Entries, EntriesOf
<1>2. /\ Sequential(toLoop)
      /\ BooksOf(toLoop, pending_notify, notification_senders, closedSignals, answered,
                 OwnersIn(notificationMap), lastIndex)
  BY DEF NotificationInv, Queues, Books
<1>3. CASE Live(replaces)
  <2>1. id = replaces /\ id \in 1..lastIndex /\ id \notin NoticesIn(notificationMap)
    BY <1>1, <1>3 DEF Live
  <2>2. ~(id > lastIndex)
    BY <1>1, <2>1
  <2>3. last = lastIndex
    BY <2>2
  <2>4. id \in DOMAIN OwnersIn(notificationMap)
    BY <1>1, <1>3, <2>1 DEF Live, LiveIn, NoticesIn
  <2>5. id \notin DOMAIN closedSignals /\ \A i \in DOMAIN toLoop : ~ClosedAt(toLoop, i, id)
    BY <1>2, <2>4 DEF BooksOf, ToldOnce, ClosedAt
  <2>6. QED
    BY <1>1, <1>2, <1>3, <2>1, <2>3, <2>5
<1>4. CASE ~Live(replaces)
  <2>1. id = lastIndex + 1 /\ id > lastIndex /\ id \in 1..id /\ id \in Nat /\ id \notin 1..lastIndex
    BY <1>1, <1>4
  <2>2. last = lastIndex + 1 /\ last = id
    BY <2>1
  <2>3. id \notin DOMAIN closedSignals /\ \A i \in DOMAIN toLoop : ~ClosedAt(toLoop, i, id)
    BY <1>2, <2>1, NewId
  <2>4. BooksOf(toLoop, pending_notify, notification_senders, closedSignals, answered,
                OwnersIn(notificationMap), last)
    BY <1>2, <2>2, NewId
  <2>5. QED
    BY <1>1, <2>1, <2>2, <2>3, <2>4
<1>5. QED
  BY <1>3, <1>4

LEMMA OnNewNotificationKeeps ==
    ASSUME NotificationInv, OnNewNotification PROVE NotificationInv'
<1>1. /\ UNCHANGED <<loopHas, saidVars, attention, metaWindows>>
      /\ toShell # <<>> /\ Head(toShell).call = "Notify" /\ toShell' = Tail(toShell)
  BY DEF OnNewNotification, Event, outsideShell, busVars, loopHas
<1>2. PICK call, id, entry, a :
         /\ call = Head(toShell) /\ entry = Entry(call)
         /\ id = IF Live(call.replaces) THEN call.replaces ELSE lastIndex + 1
         /\ a = [request |-> "result", call |-> call.token, id |-> id, task |-> 0]
  OBVIOUS
<1>3. /\ notificationMap' = With(notificationMap, id, entry)
      /\ lastIndex' = IF id > lastIndex THEN id ELSE lastIndex
      /\ ShowPopup(id, entry, cards \ ReplacedCards(id), Without(popupChannels, {id}))
      /\ toLoop' = Append(toLoop, a)
  BY <1>2 DEF OnNewNotification
<1>4. a.request = "result" /\ a.call = call.token /\ a.id = id
  BY <1>2
<1>5. Shifted(toShell, toShell') /\ Grown(toLoop, a, toLoop')
  BY <1>1, <1>3, Shifting, Growing DEF NotificationInv, Queues
<1>6. call = toShell[1] /\ 1 \in DOMAIN toShell /\ call.call = "Notify"
  BY <1>1, <1>2, <1>5 DEF Shifted
<1>7. /\ call.sender \in Senders /\ call.shape \in Shapes
      /\ call.replaces \in (0..lastIndex) \ NoticesIn(notificationMap)
  BY <1>6 DEF NotificationInv, Calls, CallsOf, CallsIn
<1>8. /\ entry \in EntrySet /\ ~entry.closed /\ ~entry.synthetic
      /\ entry.window = WindowOf[call.sender]
  <2>1. WindowOf[call.sender] \in Windows
    BY <1>7, WindowAssumption DEF Windows, Range
  <2>2. call.shape \in [timed : BOOLEAN, resident : BOOLEAN, default : BOOLEAN]
    BY <1>7, ShapeAssumption
  <2>3. QED
    BY <1>2, <2>1, <2>2 DEF Entry, EntrySet
<1>9. /\ lastIndex' \in Nat /\ lastIndex <= lastIndex' /\ id \in 1..lastIndex'
      /\ id \notin NoticesIn(notificationMap)
      /\ id \in DOMAIN notificationMap => Live(id)
      /\ id \notin DOMAIN closedSignals /\ \A i \in DOMAIN toLoop : ~ClosedAt(toLoop, i, id)
      /\ BooksOf(toLoop, pending_notify, notification_senders, closedSignals, answered,
                 OwnersIn(notificationMap), lastIndex')
  <2>1. PICK replaces, last : replaces = call.replaces /\ last = lastIndex'
    OBVIOUS
  <2>2. id = (IF Live(replaces) THEN replaces ELSE lastIndex + 1)
        /\ last = IF id > lastIndex THEN id ELSE lastIndex
    BY <1>2, <1>3, <2>1
  <2>3. QED
    BY <1>7, <2>1, <2>2, IdGiven
<1>10. /\ Entries'
       /\ DOMAIN notificationMap' = DOMAIN notificationMap \cup {id}
       /\ notificationMap'[id] = entry
       /\ \A k \in DOMAIN notificationMap : k # id => notificationMap'[k] = notificationMap[k]
  BY <1>3, <1>8, <1>9, EntryComes
<1>11. Popups'
  <2>1. ASSUME NEW c \in cards \ ReplacedCards(id) PROVE c.id # id
    <3>1. /\ c.id \in DOMAIN notificationMap /\ ~notificationMap[c.id].closed
          /\ c.id \in DOMAIN popupChannels /\ popupChannels[c.id] = c.channel
      BY DEF NotificationInv, Popups, CardsLive
    <3>2. QED
      BY <3>1 DEF ReplacedCards, CardsOf, Live
  <2>2. PICK shown, channels :
           shown = cards \ ReplacedCards(id) /\ channels = Without(popupChannels, {id})
    OBVIOUS
  <2>3. /\ ShowPopup(id, entry, shown, channels) /\ shown \subseteq cards
        /\ \A c \in shown : c.id # id
    BY <1>3, <2>1, <2>2
  <2>4. \A k \in DOMAIN popupChannels : k # id => k \in DOMAIN channels
                                                  /\ channels[k] = popupChannels[k]
    BY <2>2 DEF Without
  <2>5. QED
    BY <1>8, <1>10, <2>3, <2>4, ShowsPopup
<1>12. NoticesIn(notificationMap') = NoticesIn(notificationMap)
  BY <1>8, <1>9, <1>10 DEF NoticesIn
<1>13. Demands'
  <2>1. ASSUME NEW w \in DOMAIN attention
        PROVE  /\ w \in metaWindows /\ attention[w] \in NoticesIn(notificationMap)
               /\ notificationMap'[attention[w]].window = w
    BY <1>9, <1>10 DEF NotificationInv, Demands, DemandsOf, NoticesIn
  <2>2. QED
    BY <1>1, <1>12, <2>1 DEF NotificationInv, Demands, DemandsOf
<1>14. /\ TicketsOf(calls, queued_outgoing, toShell', toLoop', pending_notify, answered)
       /\ pending_notify[call.token] = call.sender
  BY <1>4, <1>5, <1>6, AnswersCall DEF NotificationInv, Tickets
<1>15. BooksOf(toLoop', pending_notify, notification_senders, closedSignals, answered,
               OwnersIn(notificationMap'), lastIndex')
  <2>1. PICK ours, ours2, last, r : /\ ours = OwnersIn(notificationMap) /\ r = toLoop'
                                    /\ ours2 = OwnersIn(notificationMap') /\ last = lastIndex'
    OBVIOUS
  <2>2. LiveIn(notificationMap') = LiveIn(notificationMap) \cup {id}
    BY <1>8, <1>10 DEF LiveIn
  <2>3. \A k \in LiveIn(notificationMap) : k # id => notificationMap'[k].window = notificationMap[k].window
    BY <1>10 DEF LiveIn
  <2>4. /\ DOMAIN ours2 = DOMAIN ours \cup {id}
        /\ \A k \in DOMAIN ours : k # id => ours2[k] = ours[k]
        /\ ours2[id] = entry.window
    BY <1>10, <2>1, <2>2, <2>3 DEF OwnersIn
  <2>5. /\ DOMAIN ours2 = DOMAIN ours \cup {a.id}
        /\ \A k \in DOMAIN ours : k # a.id => ours2[k] = ours[k]
        /\ ours2[a.id] = WindowOf[pending_notify[a.call]]
        /\ a.id \in 1..last /\ a.id \notin DOMAIN closedSignals
        /\ \A i \in DOMAIN toLoop : ~ClosedAt(toLoop, i, a.id)
    BY <1>4, <1>8, <1>9, <1>14, <2>1, <2>4
  <2>6. /\ BooksOf(toLoop, pending_notify, notification_senders, closedSignals, answered, ours, last)
        /\ Sequential(toLoop) /\ Grown(toLoop, a, r)
    BY <1>5, <1>9, <2>1 DEF NotificationInv, Queues
  <2>7. BooksOf(r, pending_notify, notification_senders, closedSignals, answered, ours2, last)
    BY <1>4, <2>5, <2>6, TellsResult
  <2>8. QED
    BY <2>1, <2>7
<1>16. Queues'
  BY <1>1, <1>5 DEF NotificationInv, Queues, loopHas, Shifted, Grown
<1>17. Calls'
  <2>1. /\ CallsIn(calls, lastIndex, NoticesIn(notificationMap))
        /\ CallsIn(queued_outgoing, lastIndex, NoticesIn(notificationMap))
        /\ CallsIn(toShell', lastIndex, NoticesIn(notificationMap))
    BY <1>5, ReadsCall DEF NotificationInv, Calls, CallsOf
  <2>2. lastIndex \in Nat
    BY IdsKnown
  <2>3. /\ CallsIn(calls, lastIndex', NoticesIn(notificationMap'))
        /\ CallsIn(queued_outgoing, lastIndex', NoticesIn(notificationMap'))
        /\ CallsIn(toShell', lastIndex', NoticesIn(notificationMap'))
    BY <1>9, <1>12, <2>1, <2>2, NoticesGrow
  <2>4. Told(toLoop', answered) \cap NoticesIn(notificationMap') = {}
    <3>1. \A i \in DOMAIN toLoop' : \/ i \in DOMAIN toLoop /\ toLoop'[i] = toLoop[i]
                                    \/ toLoop'[i] = a
      BY <1>5, GrownBy
    <3>2. \A k \in Told(toLoop', answered) : k \in Told(toLoop, answered) \/ k = id
      BY <1>4, <3>1 DEF Told
    <3>3. QED
      BY <1>9, <1>12, <3>2 DEF NotificationInv, Calls, CallsOf
  <2>5. QED
    BY <1>1, <2>3, <2>4 DEF Calls, CallsOf, loopHas, saidVars
<1>18. Tickets' /\ Issued' /\ Books' /\ TokenToItsOwner'
  BY <1>1, <1>14, <1>15
  DEF NotificationInv, Tickets, Issued, Books, TokenToItsOwner, loopHas, saidVars
<1>19. QED
  BY <1>10, <1>11, <1>13, <1>16, <1>17, <1>18 DEF NotificationInv

----------------------------------------------------------------------------
(* The theorems *)

LEMMA NotificationStarts ==
    ASSUME NotificationInit PROVE NotificationInv
<1> USE DEF NotificationInit
<1>1. Queues
  BY EmptyIsSequential DEF Queues
<1>2. Entries /\ Popups
  BY EmptyIsSequential DEF Entries, EntriesOf, Popups, CardsLive
<1>3. Calls
  BY NothingKept, EmptyIsSequential DEF Calls, CallsOf, Told, Range
<1>4. Tickets
  BY NothingKept, EmptyIsSequential DEF Tickets, TicketsOf, FreshIn, AnswersOnce
<1>5. Issued
  <2>1. DOMAIN pending_notify \cup DOMAIN answered \cup TokensOf(calls) = 1..0
    BY EmptyIsSequential DEF TokensOf
  <2>2. QED
    BY <2>1 DEF Issued, IssuedOf
<1>6. Books
  <2>1. DOMAIN OwnersIn(notificationMap) = {} /\ 1..0 = {}
    BY EmptyIsSequential DEF OwnersIn, LiveIn
  <2>2. Bounded(toLoop, notification_senders, closedSignals, answered, OwnersIn(notificationMap),
                lastIndex)
    BY <2>1, EmptyIsSequential DEF Bounded, Range
  <2>3. Balanced(toLoop, pending_notify, notification_senders, OwnersIn(notificationMap), lastIndex)
    BY <2>1 DEF Balanced
  <2>4. TokensOwned(toLoop, pending_notify, notification_senders)
    BY EmptyIsSequential DEF TokensOwned
  <2>5. ToldOnce(toLoop, closedSignals, OwnersIn(notificationMap))
    BY <2>1, EmptyIsSequential DEF ToldOnce
  <2>6. Accounted(toLoop, closedSignals, answered, OwnersIn(notificationMap))
    BY <2>1, EmptyIsSequential DEF Accounted, Told, Range
  <2>7. QED
    BY <2>2, <2>3, <2>4, <2>5, <2>6 DEF Books, BooksOf
<1>7. Demands /\ TokenToItsOwner
  BY EmptyIsSequential DEF Demands, DemandsOf, TokenToItsOwner
<1>8. QED
  BY <1>1, <1>2, <1>3, <1>4, <1>5, <1>6, <1>7 DEF NotificationInv

LEMMA NotificationKept ==
    ASSUME NotificationInv, [NotificationNext]_vars PROVE NotificationInv'
<1>1. CASE Loop
  BY <1>1, HandleNotificationCallKeeps, MarkShellReadyKeeps, CompleteNotifyKeeps,
     EmitActivationTokenKeeps, EmitActionInvokedKeeps, EmitNotificationClosedKeeps DEF Loop
<1>2. CASE ShellReads
  BY <1>2, OnNewNotificationKeeps, OnCloseRequestedKeeps, OnActivationRequestedKeeps,
     OnWindowLeftKeeps, OnAttentionRequestedKeeps, OnAttentionReleasedKeeps DEF ShellReads
<1>3. CASE ShellWorks
  BY <1>3, ShellSubscribesKeeps, AttentionNamedKeeps, RoutesRebuiltKeeps, TaskContinuesKeeps
  DEF ShellWorks
<1>4. CASE Users
  BY <1>4, UserMovesKeeps, InvokeActionKeeps, OpenNotificationKeeps, DismissKeeps,
     DismissAllKeeps DEF Users
<1>5. CASE Clients
  BY <1>5, NotifyKeeps, CloseNotificationKeeps, RequestActivationKeeps, WindowDemandsKeeps,
     WindowLeavesKeeps DEF Clients
<1>6. CASE PopupExpires
  BY <1>6, PopupExpiresKeeps
<1>7. CASE UNCHANGED vars
  <2>1. UNCHANGED <<loopHas, toShell, toLoop, shellHas, saidVars>>
    BY <1>7 DEF vars, busVars, shellVars, worldVars, loopHas, shellHas
  <2>2. QED
    BY <2>1, Unmoved
<1>8. QED
  BY <1>1, <1>2, <1>3, <1>4, <1>5, <1>6, <1>7 DEF NotificationNext

LEMMA NotificationAlways == NotificationSpec => []NotificationInv
<1>1. NotificationInit => NotificationInv
  BY NotificationStarts
<1>2. NotificationInv /\ [NotificationNext]_vars => NotificationInv'
  BY NotificationKept
<1>3. QED
  BY <1>1, <1>2, PTL DEF NotificationSpec

\* NothingStale: no popup outlives its entry and no demand for attention its window,
\* through replacing, expiring, closing and forgetting (_showPopup,
\* _closeNotification, _pruneAttentionNotification).
THEOREM StaleNever == NotificationSpec => []NothingStale
<1>1. NotificationInv => NothingStale
  <2>1. ASSUME NotificationInv PROVE PopupsLive
    BY <2>1 DEF NotificationInv, Popups, CardsLive, PopupsLive, Live
  <2>2. ASSUME NotificationInv PROVE AttentionOfOpenWindows
    BY <2>2 DEF NotificationInv, Demands, DemandsOf, NoticesIn, AttentionOfOpenWindows
  <2>3. QED
    BY <2>1, <2>2 DEF NothingStale
<1>2. QED
  BY <1>1, NotificationAlways, PTL

\* TokenToItsOwner: an activation token of a window reaches the client that owns it
\* and nobody else, whoever replaced or closed the notification while the request
\* was under way (notification_activation_token).
THEOREM TokensReachOwners == NotificationSpec => []TokenToItsOwner
<1>1. NotificationInv => TokenToItsOwner
  BY DEF NotificationInv
<1>2. QED
  BY <1>1, NotificationAlways, PTL

\* BooksAgree: no id is told closed twice, and once nothing is under way the clients,
\* the compositor and the shell agree on which notifications are live
\* (complete_notify, notification_closed, forget_notification).
THEOREM BooksBalance == NotificationSpec => []BooksAgree
<1>1. ASSUME NotificationInv PROVE BooksAgree
  <2> DEFINE ours == OwnersIn(notificationMap)
             live == {id \in Range(answered) : Live(id)}
  <2>1. BooksOf(toLoop, pending_notify, notification_senders, closedSignals, answered, ours, lastIndex)
    BY <1>1 DEF NotificationInv, Books
  <2>2. \A id \in DOMAIN closedSignals : Signals(id) = 1
    BY <2>1 DEF BooksOf, ToldOnce, Signals
  <2>3. \A id : id \notin DOMAIN closedSignals => Signals(id) = 0
    BY DEF Signals
  <2>4. /\ DOMAIN ours = LiveIn(notificationMap)
        /\ Range(answered) \cap NoticesIn(notificationMap) = {}
    BY <1>1, IdsKnown
  <2>5. \A id \in Range(answered) : Live(id) <=> id \in DOMAIN ours
    BY <2>4 DEF Live, LiveIn, NoticesIn
  <2> HIDE DEF ours
  <2>6. ASSUME toLoop = <<>>
        PROVE  /\ \A id \in Range(answered) : Signals(id) = 1 <=> id \notin live
               /\ DOMAIN notification_senders = live
    <3>1. DOMAIN toLoop = {} /\ Len(toLoop) = 0
      BY <2>6, EmptyIsSequential
    <3>2. \A id : id \in Told(toLoop, answered) <=> id \in Range(answered)
      BY <3>1 DEF Told
    <3>3. \A id \in Range(answered) : id \in DOMAIN ours \/ id \in DOMAIN closedSignals
      BY <2>1, <3>1, <3>2 DEF BooksOf, Accounted
    <3>4. /\ DOMAIN ours \cap DOMAIN closedSignals = {}
          /\ DOMAIN ours \subseteq Range(answered)
      BY <2>1, <3>2 DEF BooksOf, ToldOnce, Accounted
    <3>5. \A id \in Range(answered) : Signals(id) = 1 <=> id \notin live
      <4>1. \A id \in Range(answered) : Signals(id) = 1 <=> id \in DOMAIN closedSignals
        BY <2>2, <2>3
      <4>2. QED
        BY <2>5, <3>3, <3>4, <4>1
    <3>6. \A j \in 1..0 : FALSE
      OBVIOUS
    <3>7. \A id \in 1..lastIndex : id \in DOMAIN notification_senders <=> id \in DOMAIN ours
      <4>1. ASSUME NEW id \in 1..lastIndex, id \in DOMAIN ours
            PROVE  id \in DOMAIN notification_senders
        <5>1. Owned(toLoop, pending_notify, notification_senders, id, ours[id], 0)
          BY <2>1, <3>1, <4>1 DEF BooksOf, Balanced
        <5>2. QED
          BY <3>6, <5>1 DEF Owned
      <4>2. ASSUME NEW id \in 1..lastIndex, id \notin DOMAIN ours
            PROVE  id \notin DOMAIN notification_senders
        <5>1. Unowned(toLoop, notification_senders, id, 0)
          BY <2>1, <3>1, <4>2 DEF BooksOf, Balanced
        <5>2. QED
          BY <3>6, <5>1 DEF Unowned
      <4>3. QED
        BY <4>1, <4>2
    <3>8. DOMAIN notification_senders = DOMAIN ours
      BY <2>1, <3>7 DEF BooksOf, Bounded
    <3>9. DOMAIN ours = live
      BY <2>5, <3>4
    <3>10. QED
      BY <3>5, <3>8, <3>9
  <2>7. QED
    BY <2>2, <2>6 DEF BooksAgree, Quiet
<1>2. NotificationInv => BooksAgree
  BY <1>1
<1>3. QED
  BY <1>2, NotificationAlways, PTL

=============================================================================
