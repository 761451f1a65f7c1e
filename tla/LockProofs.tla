---------------------------- MODULE LockProofs -----------------------------
(***************************************************************************)
(* Proofs about the session lock, for every value of its constants: about  *)
(* SessionLock, with an environment that may send any request at any time; *)
(* then that the lock with logind and its thread (LockSleep), and the lock *)
(* with the shell that draws it (LockScreen), are instances of it, so that *)
(* what is proved of the one holds of the others; and what they promise    *)
(* beside it.                                                              *)
(***************************************************************************)
EXTENDS LockSleep, LockScreen, FiniteSetTheorems, SequenceTheorems, TLAPS

(* Lemmas about the operators the handlers are built from *)

\* A PAM worker changes nothing but the thread table and the channel.
LEMMA WorkersFrame ==
    ASSUME Workers
    PROVE  UNCHANGED <<lockVars, promptVars, fingerVars, sleepVars, inputVars>>
BY DEF Workers, WorkerRuns, WorkerAsks, WorkerReceives, WorkerRefused, WorkerSpeaks,
       WorkerFinishes, WorkerStep

\* A client changes nothing but the input paths.
LEMMA ClientsFrame ==
    ASSUME Clients
    PROVE  UNCHANGED <<lockVars, promptVars, fingerVars, sleepVars, pamVars>>
BY DEF Clients, ActivateWindow, DeactivateWindow, CloseWindow, BeginGrab, EndGrab, InputStep

\* What start_password and start_fingerprint leave behind: every thread is what
\* it was, or was free and runs the one new transaction of its stack, tagged with
\* the generation and the lock of the next state.
Kept(t, threads) == workers'[t] = threads[t]
Began(t, source, threads) ==
    /\ threads[t] = None
    /\ workers'[t] = NewWorker(source, generation', locks')

LEMMA NewWorkerType ==
    ASSUME NEW source \in Sources, NEW gen \in Nat, NEW lock \in Nat
    PROVE  /\ NewWorker(source, gen, lock) \in Worker
           /\ NewWorker(source, gen, lock) # None
           /\ NewWorker(source, gen, lock).source = source
           /\ NewWorker(source, gen, lock).generation = gen
           /\ NewWorker(source, gen, lock).lock = lock
           /\ NewWorker(source, gen, lock).stage = "working"
<1>1. NewWorker(source, gen, lock) \in Worker
  BY DEF NewWorker, Worker
<1>2. QED
  BY <1>1, NoWorkerAssumption DEF NewWorker

LEMMA Started ==
    ASSUME NEW pw \in BOOLEAN, NEW fp \in BOOLEAN, NEW handle,
           NEW threads \in [Threads -> Worker \cup {None}],
           generation' \in Nat, locks' \in Nat,
           StartTransactions(pw, fp, threads, handle)
    PROVE  /\ workers' \in [Threads -> Worker \cup {None}]
           /\ pw => password' \in Threads \cup {Dead}
           /\ ~pw => password' = handle
           /\ passwordPrompted' = (passwordPrompted /\ ~pw)
           /\ \A t \in Threads : pw /\ password' = t => Began(t, "password", threads)
           /\ \A t \in Threads :
                 \/ Kept(t, threads)
                 \/ pw /\ password' = t /\ Began(t, "password", threads)
                 \/ fp /\ Began(t, "fingerprint", threads)
           /\ \A t, u \in Threads :
                 Began(t, "fingerprint", threads) /\ Began(u, "fingerprint", threads) => t = u
<1> DEFINE Password == NewWorker("password", generation', locks')
           Fingerprint == NewWorker("fingerprint", generation', locks')
<1>1. PICK p \in IF pw THEN Granted(FreeThreads(threads)) ELSE {None} :
           \E f \in IF fp THEN Granted(FreeThreads(threads) \ {p}) ELSE {None} :
               /\ workers' = [t \in Threads |->
                      IF t \in {p, f}
                      THEN NewWorker(IF t = p THEN "password" ELSE "fingerprint",
                                     generation', locks')
                      ELSE threads[t]]
               /\ password' = IF pw THEN p ELSE handle
               /\ passwordPrompted' = (passwordPrompted /\ ~pw)
  BY DEF StartTransactions
<1>2. PICK f \in IF fp THEN Granted(FreeThreads(threads) \ {p}) ELSE {None} :
               /\ workers' = [t \in Threads |->
                      IF t \in {p, f}
                      THEN NewWorker(IF t = p THEN "password" ELSE "fingerprint",
                                     generation', locks')
                      ELSE threads[t]]
               /\ password' = IF pw THEN p ELSE handle
               /\ passwordPrompted' = (passwordPrompted /\ ~pw)
  BY <1>1
<1>3. /\ pw => p \in FreeThreads(threads) \cup {Dead}
      /\ ~pw => p = None
      /\ fp => f \in (FreeThreads(threads) \ {p}) \cup {Dead}
      /\ ~fp => f = None
  BY DEF Granted
<1>4. \A t \in Threads : t # None /\ t # Dead
  BY NamesAssumption
<1>5. /\ Password \in Worker /\ Password # None /\ Password.source = "password"
      /\ Fingerprint \in Worker /\ Fingerprint # None /\ Fingerprint.source = "fingerprint"
  BY NewWorkerType DEF Sources
<1>6. \A t \in Threads : /\ t = p => pw /\ threads[t] = None
                         /\ t = f => fp /\ threads[t] = None /\ t # p
  BY <1>3, <1>4 DEF FreeThreads
<1>7. \A t \in Threads : workers'[t] = IF t = p THEN Password
                                       ELSE IF t = f THEN Fingerprint ELSE threads[t]
  BY <1>2
<1> HIDE DEF Password, Fingerprint
<1>8. workers' \in [Threads -> Worker \cup {None}]
  <2>1. \A t \in Threads : workers'[t] \in Worker \cup {None}
    BY <1>5, <1>7
  <2>2. workers' = [t \in Threads |-> workers'[t]]
    BY <1>2
  <2>3. QED
    BY <2>1, <2>2
<1>9. \A t \in Threads :
          \/ Kept(t, threads)
          \/ pw /\ password' = t /\ Began(t, "password", threads)
          \/ fp /\ Began(t, "fingerprint", threads)
  BY <1>2, <1>6, <1>7 DEF Kept, Began, Password, Fingerprint
<1>10. \A t \in Threads : Began(t, "fingerprint", threads) => t = f
  <2> SUFFICES ASSUME NEW t \in Threads, threads[t] = None, workers'[t] = Fingerprint
               PROVE  t = f
    BY DEF Began, Fingerprint
  <2>1. workers'[t] # Password /\ workers'[t] # None
    BY <1>5
  <2>2. QED
    BY <2>1, <1>7
<1>11. /\ pw => password' \in Threads \cup {Dead}
       /\ ~pw => password' = handle
       /\ passwordPrompted' = (passwordPrompted /\ ~pw)
  BY <1>2, <1>3 DEF FreeThreads
<1>12. \A t \in Threads : pw /\ password' = t => Began(t, "password", threads)
  BY <1>2, <1>6, <1>7 DEF Began, Password
<1>13. QED
  BY <1>8, <1>9, <1>10, <1>11, <1>12

----------------------------------------------------------------------------
(* The inductive invariant *)

\* A transaction, and every message it sent, of the generation the loop is in was
\* started in the lock the session is in.
TaggedThreads(threads) ==
    \A t \in Threads : threads[t] # None =>
        /\ threads[t].generation <= generation
        /\ locked /\ threads[t].generation = generation => threads[t].lock = locks
TaggedEvents ==
    \A i \in 1 .. Len(authEvents) :
        /\ authEvents[i].generation <= generation
        /\ locked /\ authEvents[i].generation = generation => authEvents[i].lock = locks
Tagged == TaggedThreads(workers) /\ TaggedEvents

\* A result in the channel is the last word of a transaction whose thread is kept
\* for it, and the only one.
ReportedIn(threads, events) ==
    /\ \A i \in 1 .. Len(events) : events[i].event \in Outcomes =>
          /\ threads[events[i].thread] # None
          /\ threads[events[i].thread].stage = "done"
          /\ threads[events[i].thread].source = events[i].source
          /\ threads[events[i].thread].generation = events[i].generation
    /\ \A i, j \in 1 .. Len(events) :
          /\ events[i].event \in Outcomes
          /\ events[j].event \in Outcomes
          /\ events[i].thread = events[j].thread
          => i = j
Reported == ReportedIn(workers, authEvents)

\* A handle held is that of a password transaction of this lock, and there is no
\* other one.
TypedIn(threads, t) ==
    /\ threads[t] # None
    /\ threads[t].source = "password"
    /\ threads[t].generation = generation
Handle ==
    /\ password \in Threads => locked /\ TypedIn(workers, password)
    /\ locked => \A t \in Threads : TypedIn(workers, t) => t = password

\* One fingerprint transaction of this lock at most, and the flag says so.
ReaderIn(threads, t) ==
    /\ threads[t] # None
    /\ threads[t].source = "fingerprint"
    /\ threads[t].generation = generation
Readers ==
    locked => \A t, u \in Threads :
        ReaderIn(workers, t) => fingerprintRunning /\ (ReaderIn(workers, u) => t = u)

\* A fingerprint transaction is one of the attempts not used up, on a machine
\* not known to have no reader.
Budgeted ==
    /\ fingerprintAvailable = "no" => ~fingerprintRunning
    /\ fingerprintFailures <= FingerprintAttempts
    /\ fingerprintRunning => fingerprintFailures < FingerprintAttempts

IInv == Types /\ Tagged /\ Reported /\ Handle /\ Readers /\ Budgeted

LEMMA InitIInv == Init => IInv
<1> SUFFICES ASSUME Init PROVE IInv
  OBVIOUS
<1> USE DEF Init
<1>1. Types
  <2>1. workers \in [Threads -> Worker \cup {None}]
    OBVIOUS
  <2>2. authEvents \in Seq(AuthMessage)
    OBVIOUS
  <2>3. alive \subseteq Windows /\ grabs \subseteq Grabs
    OBVIOUS
  <2>4. QED
    BY <2>1, <2>2, <2>3 DEF Types
<1>2. 1 .. Len(authEvents) = {}
  OBVIOUS
<1>3. Tagged /\ Reported
  BY <1>2 DEF Tagged, TaggedThreads, TaggedEvents, Reported, ReportedIn
<1>4. Handle /\ Readers /\ Budgeted
  BY AttemptsAssumption, NamesAssumption DEF Handle, Readers, Budgeted
<1>5. QED
  BY <1>1, <1>3, <1>4 DEF IInv

(* Reading a message *)

LEMMA MessageFields ==
    ASSUME NEW events \in Seq(AuthMessage), NEW i \in 1 .. Len(events)
    PROVE  /\ events[i].source \in Sources
           /\ events[i].generation \in Nat
           /\ events[i].lock \in Nat
           /\ events[i].thread \in Threads
<1>1. events[i] \in AuthMessage
  OBVIOUS
<1>2. QED
  BY <1>1 DEF AuthMessage

\* The head of a non-empty channel is a message, and the rest of it moves up by one.
LEMMA HeadFacts ==
    ASSUME Types, authEvents # <<>>
    PROVE  /\ Head(authEvents) \in AuthMessage
           /\ Head(authEvents) = authEvents[1]
           /\ Len(authEvents) \in Nat /\ Len(authEvents) > 0
           /\ Tail(authEvents) \in Seq(AuthMessage)
           /\ Len(Tail(authEvents)) = Len(authEvents) - 1
           /\ \A i \in 1 .. Len(Tail(authEvents)) :
                 /\ i + 1 \in 1 .. Len(authEvents)
                 /\ Tail(authEvents)[i] = authEvents[i + 1]
<1>1. authEvents \in Seq(AuthMessage)
  BY DEF Types
<1>2. QED
  BY <1>1

\* Once a message is read, the thread table still has what the channel needs.
LEMMA AfterReadingFacts ==
    ASSUME Types, Reported, authEvents # <<>>
    PROVE  /\ AfterReading(Head(authEvents)) \in [Threads -> Worker \cup {None}]
           /\ \A t \in Threads : \/ AfterReading(Head(authEvents))[t] = workers[t]
                                 \/ AfterReading(Head(authEvents))[t] = None
           /\ \A t \in Threads : t # Head(authEvents).thread
                 => AfterReading(Head(authEvents))[t] = workers[t]
           /\ Head(authEvents).event \in Outcomes
                 => AfterReading(Head(authEvents))[Head(authEvents).thread] = None
           /\ ReportedIn(AfterReading(Head(authEvents)), Tail(authEvents))
<1> DEFINE m == Head(authEvents)
<1>1. workers \in [Threads -> Worker \cup {None}] /\ m.thread \in Threads
  BY HeadFacts DEF Types, AuthMessage
<1>2. /\ AfterReading(m) \in [Threads -> Worker \cup {None}]
      /\ \A t \in Threads : AfterReading(m)[t] = workers[t] \/ AfterReading(m)[t] = None
      /\ \A t \in Threads : t # m.thread => AfterReading(m)[t] = workers[t]
      /\ m.event \in Outcomes => AfterReading(m)[m.thread] = None
      /\ m.event \notin Outcomes => AfterReading(m) = workers
  BY <1>1 DEF AfterReading
<1>3. ReportedIn(AfterReading(m), Tail(authEvents))
  <2> DEFINE rest == Tail(authEvents)
  <2>1. \A i \in 1 .. Len(rest) : /\ i + 1 \in 1 .. Len(authEvents)
                                  /\ rest[i] = authEvents[i + 1]
                                  /\ i + 1 # 1
    BY HeadFacts
  <2>2. 1 \in 1 .. Len(authEvents) /\ m = authEvents[1]
    BY HeadFacts
  <2>3. ASSUME NEW i \in 1 .. Len(rest), rest[i].event \in Outcomes
        PROVE  AfterReading(m)[rest[i].thread] = workers[rest[i].thread]
    <3>1. m.event \in Outcomes => rest[i].thread # m.thread
      BY <2>1, <2>2, <2>3 DEF Reported, ReportedIn
    <3>2. rest[i].thread \in Threads
      BY <2>3, HeadFacts, MessageFields
    <3>3. QED
      BY <1>2, <3>1, <3>2
  <2> HIDE DEF rest, m
  <2>4. ASSUME NEW i \in 1 .. Len(rest), rest[i].event \in Outcomes
        PROVE  /\ AfterReading(m)[rest[i].thread] # None
               /\ AfterReading(m)[rest[i].thread].stage = "done"
               /\ AfterReading(m)[rest[i].thread].source = rest[i].source
               /\ AfterReading(m)[rest[i].thread].generation = rest[i].generation
    BY <2>1, <2>3, <2>4 DEF Reported, ReportedIn
  <2>5. ASSUME NEW i \in 1 .. Len(rest), NEW j \in 1 .. Len(rest),
               rest[i].event \in Outcomes, rest[j].event \in Outcomes,
               rest[i].thread = rest[j].thread
        PROVE  i = j
    <3>1. /\ i + 1 \in 1 .. Len(authEvents) /\ rest[i] = authEvents[i + 1]
          /\ j + 1 \in 1 .. Len(authEvents) /\ rest[j] = authEvents[j + 1]
      BY <2>1
    <3>2. \A a, b \in 1 .. Len(authEvents) :
             /\ authEvents[a].event \in Outcomes /\ authEvents[b].event \in Outcomes
             /\ authEvents[a].thread = authEvents[b].thread
             => a = b
      BY DEF Reported, ReportedIn
    <3>3. i + 1 = j + 1
      BY <2>5, <3>1, <3>2
    <3>4. QED
      BY <3>3
  <2>6. QED
    BY <2>4, <2>5 DEF ReportedIn, rest, m
<1>4. QED
  BY <1>2, <1>3

\* Starting transactions in free threads takes no thread a result needs.
LEMMA ReportedKept ==
    ASSUME NEW old, NEW new, NEW events \in Seq(AuthMessage), ReportedIn(old, events),
           \A t \in Threads : new[t] = old[t] \/ old[t] = None
    PROVE  ReportedIn(new, events)
<1>1. \A i \in 1 .. Len(events) : events[i].thread \in Threads
  BY MessageFields
<1>2. QED
  BY <1>1 DEF ReportedIn

\* An answer changes nothing but the flag of the worker it is for.
LEMMA AnswerFacts ==
    ASSUME Types, Handle
    PROVE  /\ Answer(password) \in [Threads -> Worker \cup {None}]
           /\ \A t \in Threads :
                 \/ Answer(password)[t] = workers[t]
                 \/ /\ Answer(password)[t] # None
                    /\ workers[t] # None
                    /\ Answer(password)[t].stage = workers[t].stage
                    /\ Answer(password)[t].source = workers[t].source
                    /\ Answer(password)[t].generation = workers[t].generation
                    /\ Answer(password)[t].lock = workers[t].lock
<1>1. workers \in [Threads -> Worker \cup {None}]
  BY DEF Types
<1>2. CASE password \notin Threads
  BY <1>1, <1>2 DEF Answer
<1>3. CASE password \in Threads
  <2> DEFINE w == workers[password]
             a == [w EXCEPT !.answered = TRUE]
  <2>1. w \in Worker
    BY <1>1, <1>3 DEF Handle, TypedIn
  <2>2. /\ a \in Worker /\ a.stage = w.stage /\ a.source = w.source
        /\ a.generation = w.generation /\ a.lock = w.lock
    BY <2>1 DEF Worker
  <2>3. a # None /\ w # None
    BY <2>1, <2>2, NoWorkerAssumption
  <2>4. Answer(password) = [workers EXCEPT ![password] = a]
    BY <1>3 DEF Answer
  <2> HIDE DEF a
  <2>5. QED
    BY <1>1, <1>3, <2>2, <2>3, <2>4
<1>4. QED
  BY <1>2, <1>3

(* The two shapes of a handler's effect on the channel and the lock *)

\* The loop leaves the channel alone or reads its head.
Reads == \/ authEvents' = authEvents
         \/ authEvents # <<>> /\ authEvents' = Tail(authEvents)

\* The lock is left alone or moves to a generation never used.
Moves == \/ UNCHANGED lockVars
         \/ generation' = generation + 1 /\ locked' \in BOOLEAN /\ locks' \in Nat

\* What may become of a thread: its transaction ends, goes on, or a new one begins.
Continues(t) ==
    /\ workers[t] # None
    /\ workers'[t].source = workers[t].source
    /\ workers'[t].generation = workers[t].generation
    /\ workers'[t].lock = workers[t].lock
Follows(t) ==
    \/ workers'[t] = None
    \/ workers'[t] = workers[t]
    \/ Continues(t)
    \/ workers'[t].generation = generation' /\ workers'[t].lock = locks'

LEMMA TagsKept ==
    ASSUME Types, Tagged, Reads, Moves, \A t \in Threads : Follows(t)
    PROVE  Tagged'
<1>1. /\ generation \in Nat /\ locks \in Nat /\ authEvents \in Seq(AuthMessage)
      /\ workers \in [Threads -> Worker \cup {None}]
      /\ generation' \in Nat /\ generation <= generation'
      /\ locked' /\ generation' = generation => locked /\ locks' = locks
  BY DEF Types, Moves, lockVars
<1>2. ASSUME NEW t \in Threads, workers'[t] # None
      PROVE  /\ workers'[t].generation <= generation'
             /\ locked' /\ workers'[t].generation = generation' => workers'[t].lock = locks'
  <2>1. CASE workers'[t] = workers[t] \/ Continues(t)
    <3>1. workers[t] \in Worker /\ workers[t].generation \in Nat
      BY <1>1, <1>2, <2>1 DEF Continues, Worker
    <3>2. /\ workers[t].generation <= generation
          /\ locked /\ workers[t].generation = generation => workers[t].lock = locks
      BY <1>2, <2>1 DEF Tagged, TaggedThreads, Continues
    <3>3. /\ workers'[t].generation = workers[t].generation
          /\ workers'[t].lock = workers[t].lock
      BY <2>1 DEF Continues
    <3>4. QED
      BY <1>1, <3>1, <3>2, <3>3
  <2>2. CASE workers'[t].generation = generation' /\ workers'[t].lock = locks'
    BY <1>1, <2>2
  <2>3. QED
    BY <1>2, <2>1, <2>2 DEF Follows
<1>3. ASSUME NEW i \in 1 .. Len(authEvents')
      PROVE  /\ authEvents'[i].generation <= generation'
             /\ locked' /\ authEvents'[i].generation = generation' => authEvents'[i].lock = locks'
  <2>1. PICK j \in 1 .. Len(authEvents) : authEvents'[i] = authEvents[j]
    BY HeadFacts DEF Reads
  <2>2. authEvents[j].generation \in Nat
    BY <1>1, MessageFields
  <2>3. QED
    BY <1>1, <2>1, <2>2 DEF Tagged, TaggedEvents
<1>4. TaggedThreads(workers)'
  BY <1>2 DEF TaggedThreads
<1>5. QED
  BY <1>3, <1>4 DEF Tagged, TaggedEvents

----------------------------------------------------------------------------
(* Locking *)

LEMMA LockKeeps ==
    ASSUME IInv, NEW authenticate \in BOOLEAN, LockSession(authenticate),
           UNCHANGED authEvents, sleepPending' \in BOOLEAN, sleepRelease' \in BOOLEAN
    PROVE  IInv'
<1> DEFINE fp == authenticate
                   /\ StartsFingerprint(fingerprintAvailable, fingerprintRunning, 0)
<1> USE DEF IInv
<1>1. /\ generation \in Nat /\ locks \in Nat /\ ~locked
      /\ workers \in [Threads -> Worker \cup {None}]
      /\ generation' = generation + 1 /\ locks' = locks + 1 /\ locked' = TRUE
      /\ generation' \in Nat /\ locks' \in Nat
      /\ StartTransactions(authenticate, fp, workers, None)
      /\ fingerprintRunning' = (fingerprintRunning \/ fp)
  BY DEF LockSession, Types
<1>2. fp \in BOOLEAN /\ (fp => fingerprintAvailable # "no")
  BY FlagsAssumption DEF StartsFingerprint, FingerprintAllowed
<1> HIDE DEF fp
<1>3. /\ workers' \in [Threads -> Worker \cup {None}]
      /\ password' \in Threads \cup {None, Dead}
      /\ ~authenticate => password' = None
      /\ passwordPrompted' \in BOOLEAN
      /\ \A t \in Threads : authenticate /\ password' = t => Began(t, "password", workers)
      /\ \A t \in Threads : \/ workers'[t] = workers[t]
                            \/ /\ password' = t /\ workers[t] = None
                               /\ workers'[t] = NewWorker("password", generation', locks')
                            \/ /\ fp /\ workers[t] = None
                               /\ workers'[t] = NewWorker("fingerprint", generation', locks')
      /\ \A t, u \in Threads :
            Began(t, "fingerprint", workers) /\ Began(u, "fingerprint", workers) => t = u
  BY <1>1, <1>2, Started DEF Kept, Began, Types
<1>4. Types'
  BY <1>1, <1>2, <1>3 DEF Types, LockSession
<1>5. Tagged'
  <2>1. \A t \in Threads : Follows(t)
    BY <1>1, <1>3, NewWorkerType DEF Follows, Sources
  <2>2. QED
    BY <1>1, <2>1, TagsKept DEF Reads, Moves
<1>6. Reported'
  BY <1>3, ReportedKept DEF Reported, Types
<1>7. ASSUME NEW t \in Threads, workers[t] # None
      PROVE  workers[t].generation < generation'
  <2>1. workers[t] \in Worker /\ workers[t].generation \in Nat
    BY <1>1, <1>7 DEF Worker
  <2>2. QED
    BY <1>1, <1>7, <2>1 DEF Tagged, TaggedThreads
<1>8. Handle'
  <2>1. ASSUME NEW t \in Threads, TypedIn(workers, t)'
        PROVE  t = password'
    BY <1>1, <1>3, <1>7, <2>1, NewWorkerType DEF TypedIn, Sources
  <2>2. password' \in Threads => TypedIn(workers, password)'
    BY <1>1, <1>3, NewWorkerType, NamesAssumption DEF TypedIn, Began, Sources
  <2>3. QED
    BY <1>1, <2>1, <2>2 DEF Handle
<1>9. Readers'
  <2>1. ASSUME NEW t \in Threads, ReaderIn(workers, t)'
        PROVE  fp /\ Began(t, "fingerprint", workers)
    BY <1>1, <1>3, <1>7, <2>1, NewWorkerType DEF ReaderIn, Began, Sources
  <2>2. QED
    BY <1>1, <1>3, <2>1 DEF Readers
<1>10. Budgeted'
  <2>1. fingerprintFailures' = 0 /\ fingerprintAvailable' = fingerprintAvailable
    BY DEF LockSession
  <2>2. QED
    BY <1>1, <1>2, <2>1, AttemptsAssumption DEF Budgeted
<1>11. QED
  BY <1>4, <1>5, <1>6, <1>8, <1>9, <1>10

----------------------------------------------------------------------------
(* Reading a message, and unlocking *)

\* The loop has read a message: its channel and its thread table.
Read == /\ authEvents # <<>>
        /\ authEvents' = Tail(authEvents)
        /\ workers' = AfterReading(Head(authEvents))

LEMMA ReadKeeps ==
    ASSUME IInv, Moves, Read \/ UNCHANGED pamVars
    PROVE  /\ workers' \in [Threads -> Worker \cup {None}]
           /\ authEvents' \in Seq(AuthMessage)
           /\ \A t \in Threads : workers'[t] = workers[t] \/ workers'[t] = None
           /\ Tagged' /\ Reported'
<1> USE DEF IInv
<1>1. /\ workers' \in [Threads -> Worker \cup {None}]
      /\ authEvents' \in Seq(AuthMessage)
      /\ \A t \in Threads : workers'[t] = workers[t] \/ workers'[t] = None
      /\ ReportedIn(workers', authEvents')
  <2>1. CASE Read
    BY <2>1, AfterReadingFacts, HeadFacts DEF Read
  <2>2. CASE UNCHANGED pamVars
    BY <2>2 DEF pamVars, Types, Reported
  <2>3. QED
    BY <2>1, <2>2
<1>2. Tagged'
  BY <1>1, TagsKept DEF Follows, Reads, Read, pamVars
<1>3. QED
  BY <1>1, <1>2 DEF Reported, ReportedIn

LEMMA UnlockKeeps ==
    ASSUME IInv, UnlockSession, Read \/ UNCHANGED pamVars,
           fingerprintAvailable' \in {"unknown", "yes", "no"}
    PROVE  IInv'
<1> USE DEF IInv
<1>1. Moves /\ generation' \in Nat
  <2>1. generation' = generation + 1 /\ locked' = FALSE /\ locks' = locks
    BY DEF UnlockSession
  <2>2. generation \in Nat /\ locks \in Nat
    BY DEF Types
  <2>3. generation' \in Nat
    BY <2>1, <2>2
  <2>4. locked' \in BOOLEAN
    BY <2>1
  <2>5. QED
    BY <2>1, <2>2, <2>3, <2>4 DEF Moves
<1>2. Types'
  BY <1>1, ReadKeeps DEF UnlockSession, CancelSleepRelease, Types
<1>3. Handle' /\ Readers' /\ Budgeted'
  BY NamesAssumption DEF UnlockSession, Handle, Readers, Budgeted
<1>4. QED
  BY <1>1, <1>2, <1>3, ReadKeeps

\* A message dropped because it is of another lock takes no transaction of this
\* one with it.
LEMMA DropKeeps ==
    ASSUME IInv, DropStaleMessage
    PROVE  IInv'
<1> DEFINE m == Head(authEvents)
<1> USE DEF IInv
<1>1. Read /\ Moves /\ UNCHANGED <<lockVars, promptVars, fingerVars, sleepVars, inputVars>>
  BY DEF DropStaleMessage, Read, Moves
<1>2. ASSUME NEW t \in Threads, locked, workers[t] # None, workers[t].generation = generation
      PROVE  workers'[t] = workers[t]
  <2>1. m.event \in Outcomes => workers[m.thread].generation = m.generation
    BY <1>1, HeadFacts DEF Read, Reported, ReportedIn
  <2>2. m.event \in Outcomes => t # m.thread
    BY <1>2, <2>1 DEF DropStaleMessage, Stale
  <2>3. workers \in [Threads -> Worker \cup {None}]
    BY DEF Types
  <2>4. QED
    BY <1>1, <2>2, <2>3, AfterReadingFacts DEF Read, AfterReading
<1>3. Types'
  BY <1>1, ReadKeeps DEF Types, lockVars, promptVars, fingerVars, sleepVars, inputVars
<1>4. Handle'
  BY <1>1, <1>2, ReadKeeps DEF Handle, TypedIn, lockVars, promptVars
<1>5. Readers'
  BY <1>1, <1>2, ReadKeeps DEF Readers, ReaderIn, lockVars, fingerVars
<1>6. Budgeted'
  BY <1>1 DEF Budgeted, fingerVars
<1>7. QED
  BY <1>1, <1>3, <1>4, <1>5, <1>6, ReadKeeps

----------------------------------------------------------------------------
(* Starting transactions while locked *)

\* The thread table and the channel that start_password and start_fingerprint
\* find: those of the state, or those left by reading a result.
Base(threads) ==
    \/ threads = workers /\ UNCHANGED authEvents
    \/ /\ authEvents # <<>>
       /\ authEvents' = Tail(authEvents)
       /\ threads = AfterReading(Head(authEvents))

\* A password transaction is started over no other and a fingerprint transaction
\* only if none is left, so the invariant is kept.
LEMMA StartKeeps ==
    ASSUME IInv, locked, UNCHANGED lockVars, NEW threads, Base(threads),
           NEW pw \in BOOLEAN, NEW fp \in BOOLEAN, NEW handle \in Threads \cup {None, Dead},
           StartTransactions(pw, fp, threads, handle),
           handle \in Threads => handle = password /\ threads[handle] = workers[handle],
           \A t \in Threads : TypedIn(threads, t) => t = handle,
           pw => \A t \in Threads : ~TypedIn(threads, t),
           fp => \A t \in Threads : ~ReaderIn(threads, t),
           fp \/ (\E t \in Threads : ReaderIn(threads, t)) => fingerprintRunning'
    PROVE  /\ workers' \in [Threads -> Worker \cup {None}]
           /\ authEvents' \in Seq(AuthMessage)
           /\ password' \in Threads \cup {None, Dead}
           /\ passwordPrompted' \in BOOLEAN
           /\ Tagged' /\ Reported' /\ Handle' /\ Readers'
<1> USE DEF IInv
<1>1. /\ generation \in Nat /\ locks \in Nat /\ generation' = generation /\ locks' = locks
      /\ locked' /\ passwordPrompted \in BOOLEAN
      /\ workers \in [Threads -> Worker \cup {None}] /\ authEvents \in Seq(AuthMessage)
  BY DEF Types, lockVars
<1>2. /\ threads \in [Threads -> Worker \cup {None}]
      /\ \A t \in Threads : threads[t] = workers[t] \/ threads[t] = None
      /\ authEvents' \in Seq(AuthMessage)
      /\ ReportedIn(threads, authEvents')
      /\ Reads
  <2>1. CASE threads = workers /\ UNCHANGED authEvents
    BY <1>1, <2>1 DEF Reads, Reported
  <2>2. CASE ~(threads = workers /\ UNCHANGED authEvents)
    BY <2>2, AfterReadingFacts, HeadFacts DEF Base, Reads
  <2>3. QED
    BY <2>1, <2>2
<1>3. /\ workers' \in [Threads -> Worker \cup {None}]
      /\ pw => password' \in Threads \cup {Dead}
      /\ ~pw => password' = handle
      /\ passwordPrompted' = (passwordPrompted /\ ~pw)
      /\ \A t \in Threads : pw /\ password' = t => Began(t, "password", threads)
      /\ \A t \in Threads : \/ workers'[t] = threads[t]
                            \/ /\ pw /\ password' = t /\ threads[t] = None
                               /\ workers'[t] = NewWorker("password", generation', locks')
                            \/ /\ fp /\ threads[t] = None
                               /\ workers'[t] = NewWorker("fingerprint", generation', locks')
      /\ \A t, u \in Threads :
            Began(t, "fingerprint", threads) /\ Began(u, "fingerprint", threads) => t = u
  BY <1>1, <1>2, Started DEF Kept, Began
<1>4. Tagged'
  <2>1. \A t \in Threads : Follows(t)
    BY <1>1, <1>2, <1>3, NewWorkerType DEF Follows, Sources
  <2>2. QED
    BY <1>1, <1>2, <2>1, TagsKept DEF Moves
<1>5. Reported'
  <2>1. ReportedIn(workers', authEvents')
    BY <1>2, <1>3, ReportedKept
  <2>2. QED
    BY <2>1 DEF Reported, ReportedIn
<1>6. Handle'
  <2>1. ASSUME NEW t \in Threads, TypedIn(workers, t)'
        PROVE  t = password'
    <3>1. CASE workers'[t] = threads[t]
      <4>1. TypedIn(threads, t)
        BY <1>1, <2>1, <3>1 DEF TypedIn
      <4>2. QED
        BY <1>3, <4>1
    <3>2. CASE workers'[t] = NewWorker("fingerprint", generation', locks')
      <4>1. workers'[t].source = "fingerprint"
        BY <1>1, <3>2, NewWorkerType DEF Sources
      <4>2. QED
        BY <2>1, <4>1 DEF TypedIn
    <3>3. QED
      BY <1>3, <3>1, <3>2
  <2>2. ASSUME password' \in Threads
        PROVE  TypedIn(workers, password)'
    <3>1. CASE pw
      BY <1>1, <1>3, <2>2, <3>1, NewWorkerType, NamesAssumption DEF TypedIn, Began, Sources
    <3>2. CASE ~pw
      BY <1>1, <1>3, <2>2, <3>2 DEF Handle, TypedIn
    <3>3. QED
      BY <3>1, <3>2
  <2>3. QED
    BY <1>1, <2>1, <2>2 DEF Handle
<1>7. Readers'
  <2>1. ASSUME NEW t \in Threads, ReaderIn(workers, t)'
        PROVE  ReaderIn(threads, t) \/ (fp /\ Began(t, "fingerprint", threads))
    BY <1>1, <1>3, <2>1, NewWorkerType DEF ReaderIn, Began, Sources
  <2>2. \A t \in Threads : ReaderIn(threads, t) => ReaderIn(workers, t)
    BY <1>2 DEF ReaderIn
  <2>3. \A t, u \in Threads : ReaderIn(workers, t) /\ ReaderIn(workers, u) => t = u
    BY DEF Readers
  <2>4. QED
    BY <1>1, <1>3, <2>1, <2>2, <2>3 DEF Readers
<1>8. QED
  BY <1>1, <1>2, <1>3, <1>4, <1>5, <1>6, <1>7

----------------------------------------------------------------------------
(* Every step keeps the invariant *)

LEMMA StartsBoolean ==
    ASSUME NEW available, NEW running, NEW failures
    PROVE  StartsFingerprint(available, running, failures) \in BOOLEAN
BY FlagsAssumption DEF StartsFingerprint, FingerprintAllowed

\* A result just read belongs to a transaction of this lock, and no other
\* transaction of the same stack is left once the reader's is gone.
LEMMA ResultFacts ==
    ASSUME IInv, authEvents # <<>>, ~Stale(Head(authEvents)),
           Head(authEvents).event \in Outcomes
    PROVE  LET m == Head(authEvents) IN
           /\ m.thread \in Threads
           /\ workers[m.thread] # None
           /\ workers[m.thread].source = m.source
           /\ workers[m.thread].generation = generation
           /\ m.source = "fingerprint" =>
                 /\ fingerprintRunning
                 /\ \A t \in Threads : ~ReaderIn(AfterReading(m), t)
           /\ password \in Threads /\ m.source = "fingerprint" =>
                 AfterReading(m)[password] = workers[password]
           /\ m.source = "password" => \A t \in Threads : ~TypedIn(AfterReading(m), t)
<1> DEFINE m == Head(authEvents)
<1> USE DEF IInv
<1>1. /\ m.thread \in Threads
      /\ workers[m.thread] # None
      /\ workers[m.thread].source = m.source
      /\ workers[m.thread].generation = generation
      /\ locked
  <2>1. 1 \in 1 .. Len(authEvents) /\ m = authEvents[1] /\ authEvents \in Seq(AuthMessage)
    BY HeadFacts DEF Types
  <2>2. m.thread \in Threads
    BY <2>1, MessageFields
  <2>3. QED
    BY <2>1, <2>2 DEF Reported, ReportedIn, Stale
<1>2. /\ \A t \in Threads : \/ AfterReading(m)[t] = workers[t]
                            \/ AfterReading(m)[t] = None
      /\ \A t \in Threads : t # m.thread => AfterReading(m)[t] = workers[t]
      /\ AfterReading(m)[m.thread] = None
  BY AfterReadingFacts
<1> HIDE DEF m
<1>3. ASSUME m.source = "fingerprint"
      PROVE  fingerprintRunning /\ \A t \in Threads : ~ReaderIn(AfterReading(m), t)
  <2>1. ReaderIn(workers, m.thread)
    BY <1>1, <1>3 DEF ReaderIn
  <2>2. \A t \in Threads : ReaderIn(workers, t) => t = m.thread
    BY <1>1, <2>1 DEF Readers
  <2>3. \A t \in Threads : ReaderIn(AfterReading(m), t) => ReaderIn(workers, t)
    BY <1>2 DEF ReaderIn
  <2>4. QED
    BY <1>1, <1>2, <2>1, <2>2, <2>3 DEF Readers, ReaderIn
<1>4. ASSUME password \in Threads, m.source = "fingerprint"
      PROVE  AfterReading(m)[password] = workers[password]
  BY <1>1, <1>2, <1>4 DEF Handle, TypedIn
<1>5. ASSUME m.source = "password"
      PROVE  \A t \in Threads : ~TypedIn(AfterReading(m), t)
  <2>1. \A t \in Threads : TypedIn(AfterReading(m), t) => TypedIn(workers, t)
    BY <1>2 DEF TypedIn
  <2>2. TypedIn(workers, m.thread)
    BY <1>1, <1>5 DEF TypedIn
  <2>3. QED
    BY <1>1, <1>2, <2>1, <2>2 DEF Handle, TypedIn
<1>6. QED
  BY <1>1, <1>3, <1>4, <1>5 DEF m

LEMMA PasswordFailsKeeps ==
    ASSUME IInv, PasswordFails
    PROVE  IInv'
<1> DEFINE m == Head(authEvents)
           fp == StartsFingerprint(fingerprintAvailable, fingerprintRunning, 0)
<1> USE DEF IInv
<1>1. /\ authEvents # <<>> /\ ~Stale(m) /\ m.event \in Outcomes /\ m.source = "password"
      /\ authEvents' = Tail(authEvents) /\ locked
      /\ UNCHANGED lockVars
      /\ StartTransactions(passwordPrompted, fp, AfterReading(m), None)
      /\ fingerprintRunning' = (fingerprintRunning \/ fp)
      /\ passwordPrompted \in BOOLEAN /\ fp \in BOOLEAN
  BY StartsBoolean DEF PasswordFails, ReadAuth, Outcomes, Stale, Types
<1>2. \A t \in Threads : ReaderIn(AfterReading(m), t) => fingerprintRunning
  <2>1. \A t \in Threads : ReaderIn(AfterReading(m), t) => ReaderIn(workers, t)
    BY <1>1, AfterReadingFacts DEF ReaderIn
  <2>2. QED
    BY <1>1, <2>1 DEF Readers
<1>3. fp => ~fingerprintRunning /\ fingerprintAvailable # "no"
  BY DEF StartsFingerprint, FingerprintAllowed
<1> HIDE DEF fp
<1>4. /\ workers' \in [Threads -> Worker \cup {None}]
      /\ authEvents' \in Seq(AuthMessage)
      /\ password' \in Threads \cup {None, Dead}
      /\ passwordPrompted' \in BOOLEAN
      /\ Tagged' /\ Reported' /\ Handle' /\ Readers'
  <2>1. \A t \in Threads : ~TypedIn(AfterReading(m), t)
    BY <1>1, ResultFacts
  <2>2. QED
    BY <1>1, <1>2, <1>3, <2>1, StartKeeps, NamesAssumption DEF Base
<1>5. Types'
  BY <1>1, <1>4 DEF PasswordFails, Types, lockVars, sleepVars, inputVars
<1>6. Budgeted'
  <2>1. fingerprintFailures' = 0 /\ fingerprintAvailable' = fingerprintAvailable
    BY DEF PasswordFails
  <2>2. QED
    BY <1>1, <1>3, <2>1, AttemptsAssumption DEF Budgeted
<1>7. QED
  BY <1>4, <1>5, <1>6

LEMMA FingerprintFailsKeeps ==
    ASSUME IInv, FingerprintFails
    PROVE  IInv'
<1> DEFINE m == Head(authEvents)
           again == fingerprintFailures' < FingerprintAttempts
           fp == again /\ StartsFingerprint("yes", FALSE, fingerprintFailures')
<1> USE DEF IInv
<1>1. /\ authEvents # <<>> /\ ~Stale(m) /\ m.event \in Outcomes /\ m.source = "fingerprint"
      /\ authEvents' = Tail(authEvents) /\ locked
      /\ UNCHANGED lockVars
      /\ StartTransactions(FALSE, fp, AfterReading(m), password)
      /\ fingerprintRunning' = fp
      /\ fingerprintFailures' = fingerprintFailures + 1
      /\ fingerprintAvailable' = "yes"
      /\ password \in Threads \cup {None, Dead}
  BY DEF FingerprintFails, ReadAuth, Outcomes, Stale, Types
<1>2. fp \in BOOLEAN
  BY StartsBoolean
<1>3. /\ fingerprintRunning
      /\ \A t \in Threads : ~ReaderIn(AfterReading(m), t)
      /\ password \in Threads => AfterReading(m)[password] = workers[password]
  BY <1>1, ResultFacts
<1>4. Budgeted'
  <2>1. fp => fingerprintFailures' < FingerprintAttempts
    OBVIOUS
  <2> HIDE DEF fp
  <2>2. fingerprintFailures < FingerprintAttempts /\ fingerprintFailures \in Nat
    BY <1>3 DEF Budgeted, Types
  <2>3. QED
    BY <1>1, <2>1, <2>2, AttemptsAssumption DEF Budgeted
<1> HIDE DEF fp
<1>5. /\ workers' \in [Threads -> Worker \cup {None}]
      /\ authEvents' \in Seq(AuthMessage)
      /\ password' \in Threads \cup {None, Dead}
      /\ passwordPrompted' \in BOOLEAN
      /\ Tagged' /\ Reported' /\ Handle' /\ Readers'
  <2>1. \A t \in Threads : TypedIn(AfterReading(m), t) => t = password
    BY <1>1, AfterReadingFacts DEF Handle, TypedIn
  <2>2. QED
    BY <1>1, <1>2, <1>3, <2>1, StartKeeps DEF Base
<1>6. Types'
  BY <1>1, <1>2, <1>5 DEF FingerprintFails, Types, lockVars, sleepVars, inputVars
<1>7. QED
  BY <1>4, <1>5, <1>6

\* Reading a message, or answering a prompt, starts and ends no transaction.
LEMMA QuietKeeps ==
    ASSUME IInv, Reads, workers' = workers \/ workers' = Answer(password),
           UNCHANGED <<lockVars, password, fingerprintRunning, fingerprintFailures,
                       fingerprintAvailable>>
    PROVE  /\ workers' \in [Threads -> Worker \cup {None}]
           /\ authEvents' \in Seq(AuthMessage)
           /\ Tagged' /\ Reported' /\ Handle' /\ Readers' /\ Budgeted'
<1> USE DEF IInv
<1>1. /\ workers' \in [Threads -> Worker \cup {None}]
      /\ \A t \in Threads :
            \/ workers'[t] = workers[t]
            \/ /\ workers'[t] # None
               /\ workers[t] # None
               /\ workers'[t].stage = workers[t].stage
               /\ workers'[t].source = workers[t].source
               /\ workers'[t].generation = workers[t].generation
               /\ workers'[t].lock = workers[t].lock
  BY AnswerFacts DEF Types
<1>2. /\ authEvents' \in Seq(AuthMessage)
      /\ ReportedIn(workers, authEvents')
  <2>1. CASE authEvents' = authEvents
    BY <2>1 DEF Types, Reported
  <2>2. CASE authEvents # <<>> /\ authEvents' = Tail(authEvents)
    <3>1. /\ authEvents' \in Seq(AuthMessage)
          /\ \A i \in 1 .. Len(authEvents') : /\ i \in Nat /\ i + 1 \in 1 .. Len(authEvents)
                                              /\ authEvents'[i] = authEvents[i + 1]
      BY <2>2, HeadFacts
    <3>2. ASSUME NEW i \in 1 .. Len(authEvents'), NEW j \in 1 .. Len(authEvents'),
                 authEvents'[i].event \in Outcomes, authEvents'[j].event \in Outcomes,
                 authEvents'[i].thread = authEvents'[j].thread
          PROVE  i = j
      <4>1. /\ i + 1 \in 1 .. Len(authEvents) /\ j + 1 \in 1 .. Len(authEvents)
            /\ authEvents[i + 1].event \in Outcomes /\ authEvents[j + 1].event \in Outcomes
            /\ authEvents[i + 1].thread = authEvents[j + 1].thread
        BY <3>1, <3>2
      <4>2. i + 1 = j + 1
        BY <4>1 DEF Reported, ReportedIn
      <4>3. QED
        BY <4>2
    <3>3. QED
      BY <3>1, <3>2 DEF Reported, ReportedIn
  <2>3. QED
    BY <2>1, <2>2 DEF Reads
<1>3. Reported'
  <2>1. \A i \in 1 .. Len(authEvents') : authEvents'[i].thread \in Threads
    BY <1>2, MessageFields
  <2>2. ReportedIn(workers', authEvents')
    BY <1>1, <1>2, <2>1 DEF ReportedIn
  <2>3. QED
    BY <2>2 DEF Reported, ReportedIn
<1>4. Tagged'
  BY <1>1, TagsKept DEF Follows, Continues, Moves
<1>5. Handle'
  BY <1>1 DEF Handle, TypedIn, lockVars
<1>6. Readers'
  BY <1>1 DEF Readers, ReaderIn, lockVars
<1>7. QED
  BY <1>1, <1>2, <1>3, <1>4, <1>5, <1>6 DEF Budgeted

\* A worker's step keeps its tags, and only its last message is a result.
LEMMA WorkerKeeps ==
    ASSUME IInv, UNCHANGED <<lockVars, promptVars, fingerVars, sleepVars, inputVars>>,
           NEW t \in Threads, workers[t] # None, workers[t].stage # "done",
           NEW w \in Worker, workers' = [workers EXCEPT ![t] = w],
           w.source = workers[t].source, w.generation = workers[t].generation,
           w.lock = workers[t].lock,
           NEW event \in {"prompt", "info"} \cup Outcomes,
           event \in Outcomes => w.stage = "done",
           authEvents' = authEvents \/ authEvents' = Append(authEvents, Says(t, event))
    PROVE  IInv'
<1> DEFINE m == Says(t, event)
<1> USE DEF IInv
<1>1. /\ workers \in [Threads -> Worker \cup {None}] /\ workers[t] \in Worker
      /\ authEvents \in Seq(AuthMessage)
      /\ generation \in Nat /\ locks \in Nat
      /\ UNCHANGED <<locked, generation, locks, password, fingerprintRunning,
                     fingerprintFailures, fingerprintAvailable>>
  BY DEF Types, lockVars, promptVars, fingerVars
<1>2. /\ workers' \in [Threads -> Worker \cup {None}]
      /\ workers'[t] = w /\ w # None
      /\ \A u \in Threads : u # t => workers'[u] = workers[u]
  BY <1>1, NoWorkerAssumption
<1>3. /\ m \in AuthMessage
      /\ m.source = workers[t].source /\ m.generation = workers[t].generation
      /\ m.lock = workers[t].lock /\ m.thread = t /\ m.event = event
  BY <1>1 DEF Says, AuthMessage, Worker
<1> HIDE DEF m
<1>4. /\ authEvents' \in Seq(AuthMessage)
      /\ \A i \in 1 .. Len(authEvents') :
            \/ i \in 1 .. Len(authEvents) /\ authEvents'[i] = authEvents[i]
            \/ i = Len(authEvents) + 1 /\ authEvents'[i] = m
  BY <1>1, <1>3 DEF m
<1>5. Types'
  BY <1>2, <1>4 DEF Types, lockVars, promptVars, fingerVars, sleepVars, inputVars
<1>6. TaggedThreads(workers)'
  BY <1>1, <1>2 DEF Tagged, TaggedThreads
<1>7. TaggedEvents'
  BY <1>1, <1>3, <1>4 DEF Tagged, TaggedThreads, TaggedEvents
<1>8. \A i \in 1 .. Len(authEvents) : authEvents[i].event \in Outcomes
                                          => authEvents[i].thread # t
  BY DEF Reported, ReportedIn
<1>9. ASSUME NEW i \in 1 .. Len(authEvents'), authEvents'[i].event \in Outcomes
      PROVE  /\ workers'[authEvents'[i].thread] # None
             /\ workers'[authEvents'[i].thread].stage = "done"
             /\ workers'[authEvents'[i].thread].source = authEvents'[i].source
             /\ workers'[authEvents'[i].thread].generation = authEvents'[i].generation
  <2>1. CASE i \in 1 .. Len(authEvents) /\ authEvents'[i] = authEvents[i]
    <3>1. authEvents[i].thread \in Threads /\ authEvents[i].thread # t
      BY <1>1, <1>8, <1>9, <2>1, MessageFields
    <3>2. QED
      BY <1>2, <1>9, <2>1, <3>1 DEF Reported, ReportedIn
  <2>2. CASE authEvents'[i] = m
    BY <1>2, <1>3, <1>9, <2>2
  <2>3. QED
    BY <1>4, <2>1, <2>2
<1>10. ASSUME NEW i \in 1 .. Len(authEvents'), NEW j \in 1 .. Len(authEvents'),
              authEvents'[i].event \in Outcomes, authEvents'[j].event \in Outcomes,
              authEvents'[i].thread = authEvents'[j].thread
       PROVE  i = j
  BY <1>3, <1>4, <1>8, <1>10 DEF Reported, ReportedIn
<1>11. Reported'
  BY <1>9, <1>10 DEF Reported, ReportedIn
<1>12. Handle' /\ Budgeted'
  BY <1>1, <1>2 DEF Handle, TypedIn, Budgeted
<1>13. Readers'
  <2>1. \A u \in Threads : ReaderIn(workers, u)' => ReaderIn(workers, u)
    BY <1>1, <1>2 DEF ReaderIn
  <2>2. QED
    BY <1>1, <2>1 DEF Readers
<1>14. QED
  BY <1>5, <1>6, <1>7, <1>11, <1>12, <1>13 DEF Tagged

\* The variables keep their types if those a group of handlers writes do.
LEMMA PromptTypes ==
    ASSUME Types, UNCHANGED <<lockVars, fingerVars, sleepVars, inputVars>>,
           workers' \in [Threads -> Worker \cup {None}], authEvents' \in Seq(AuthMessage),
           password' \in Threads \cup {None, Dead},
           {passwordPrompted', pendingPrompt', queuedResponse'} \subseteq BOOLEAN
    PROVE  Types'
<1>1. /\ locked' = locked /\ generation' = generation /\ locks' = locks
      /\ fingerprintRunning' = fingerprintRunning
      /\ fingerprintFailures' = fingerprintFailures
      /\ fingerprintMessage' = fingerprintMessage
      /\ fingerprintAvailable' = fingerprintAvailable
      /\ shown' = shown /\ sleepPending' = sleepPending /\ sleepRelease' = sleepRelease
      /\ focus' = focus /\ savedFocus' = savedFocus /\ alive' = alive /\ grabs' = grabs
  BY DEF lockVars, fingerVars, sleepVars, inputVars
<1>2. QED
  BY <1>1, Zenon DEF Types

LEMMA SleepTypes ==
    ASSUME Types, UNCHANGED <<lockVars, promptVars, fingerVars, inputVars, pamVars>>,
           {shown', sleepPending', sleepRelease'} \subseteq BOOLEAN
    PROVE  Types'
<1>1. /\ locked' = locked /\ generation' = generation /\ locks' = locks
      /\ password' = password /\ passwordPrompted' = passwordPrompted
      /\ pendingPrompt' = pendingPrompt /\ queuedResponse' = queuedResponse
      /\ fingerprintRunning' = fingerprintRunning
      /\ fingerprintFailures' = fingerprintFailures
      /\ fingerprintMessage' = fingerprintMessage
      /\ fingerprintAvailable' = fingerprintAvailable
      /\ focus' = focus /\ savedFocus' = savedFocus /\ alive' = alive /\ grabs' = grabs
      /\ workers' = workers /\ authEvents' = authEvents
  BY DEF lockVars, promptVars, fingerVars, inputVars, pamVars
<1>2. QED
  BY <1>1, Zenon DEF Types

\* The same, for the handlers that change only what is typed.
LEMMA LoopReadsKeeps ==
    ASSUME IInv, LoopReadsAuth
    PROVE  IInv'
<1> USE DEF IInv
<1>1. CASE DropStaleMessage
  BY <1>1, DropKeeps
<1>2. CASE PasswordPrompts
  <2>1. /\ Reads
        /\ workers' = workers \/ workers' = Answer(password)
        /\ UNCHANGED <<lockVars, password, fingerprintRunning, fingerprintFailures,
                       fingerprintAvailable>>
    BY <1>2 DEF PasswordPrompts, ReadAuth, Reads, fingerVars
  <2>2. /\ workers' \in [Threads -> Worker \cup {None}]
        /\ authEvents' \in Seq(AuthMessage)
        /\ Tagged' /\ Reported' /\ Handle' /\ Readers' /\ Budgeted'
    BY <2>1, QuietKeeps
  <2>3. pendingPrompt' \in BOOLEAN
    BY <1>2 DEF PasswordPrompts, Types
  <2>4. Types'
    BY <1>2, <2>2, <2>3
       DEF PasswordPrompts, Types, lockVars, fingerVars, sleepVars, inputVars
  <2>5. QED
    BY <2>2, <2>4
<1>3. CASE PasswordSucceeds
  <2>1. UnlockSession /\ Read /\ fingerprintAvailable' = fingerprintAvailable
    BY <1>3 DEF PasswordSucceeds, ReadAuth, Read
  <2>2. QED
    BY <2>1, UnlockKeeps DEF Types
<1>4. CASE PasswordFails
  BY <1>4, PasswordFailsKeeps
<1>5. CASE FingerprintPrompts
  <2>1. /\ Reads /\ workers' = workers
        /\ UNCHANGED <<lockVars, password, fingerprintRunning, fingerprintFailures,
                       fingerprintAvailable>>
    BY <1>5 DEF FingerprintPrompts, ReadAuth, Reads, promptVars, fingerVars
  <2>2. Types'
    BY <1>5, <2>1, QuietKeeps
       DEF FingerprintPrompts, Types, lockVars, promptVars, fingerVars, sleepVars, inputVars
  <2>3. QED
    BY <2>1, <2>2, QuietKeeps
<1>6. CASE FingerprintSpeaks
  <2>1. /\ Reads /\ workers' = workers
        /\ UNCHANGED <<lockVars, password, fingerprintRunning, fingerprintFailures,
                       fingerprintAvailable>>
    BY <1>6 DEF FingerprintSpeaks, ReadAuth, Reads, promptVars
  <2>2. Types'
    BY <1>6, <2>1, QuietKeeps
       DEF FingerprintSpeaks, Types, lockVars, promptVars, sleepVars, inputVars
  <2>3. QED
    BY <2>1, <2>2, QuietKeeps
<1>7. CASE FingerprintSucceeds
  <2>1. UnlockSession /\ Read /\ fingerprintAvailable' = "yes"
    BY <1>7 DEF FingerprintSucceeds, ReadAuth, Read
  <2>2. QED
    BY <2>1, UnlockKeeps
<1>8. CASE FingerprintUnavailable
  <2>1. /\ authEvents # <<>> /\ ~Stale(Head(authEvents)) /\ Head(authEvents).event \in Outcomes
        /\ Head(authEvents).source = "fingerprint"
        /\ Read /\ Moves
    BY <1>8 DEF FingerprintUnavailable, ReadAuth, Read, Moves, Outcomes
  <2>2. Types'
    <3>1. /\ workers' \in [Threads -> Worker \cup {None}] /\ authEvents' \in Seq(AuthMessage)
      BY <2>1, ReadKeeps
    <3>2. /\ UNCHANGED <<lockVars, promptVars, sleepVars, inputVars>>
          /\ fingerprintRunning' = FALSE /\ fingerprintMessage' = FALSE
          /\ fingerprintAvailable' = "no" /\ fingerprintFailures' \in Nat
      BY <1>8, AttemptsAssumption DEF FingerprintUnavailable
    <3>3. QED
      BY <3>1, <3>2 DEF Types, lockVars, promptVars, sleepVars, inputVars
  <2>3. Handle'
    BY <1>8, <2>1, ResultFacts, ReadKeeps
       DEF Read, FingerprintUnavailable, Handle, TypedIn, lockVars, promptVars
  <2>4. Readers'
    BY <1>8, <2>1, ResultFacts
       DEF Read, FingerprintUnavailable, Readers, ReaderIn, lockVars
  <2>5. Budgeted'
    BY <1>8, AttemptsAssumption DEF FingerprintUnavailable, Budgeted
  <2>6. QED
    BY <2>1, <2>2, <2>3, <2>4, <2>5, ReadKeeps
<1>9. CASE FingerprintFails
  BY <1>9, FingerprintFailsKeeps
<1>10. QED
  BY <1>1, <1>2, <1>3, <1>4, <1>5, <1>6, <1>7, <1>8, <1>9 DEF LoopReadsAuth

\* A step that leaves the PAM stacks alone keeps what is said about them.
LEMMA StackKeeps ==
    ASSUME IInv,
           UNCHANGED <<lockVars, password, fingerprintRunning, fingerprintFailures,
                       fingerprintAvailable, pamVars>>
    PROVE  /\ workers' \in [Threads -> Worker \cup {None}]
           /\ authEvents' \in Seq(AuthMessage)
           /\ Tagged' /\ Reported' /\ Handle' /\ Readers' /\ Budgeted'
BY QuietKeeps DEF Reads, pamVars

LEMMA RequestsKeep ==
    ASSUME IInv, Requests
    PROVE  IInv'
<1> USE DEF IInv
<1>1. CASE LockRequested
  BY <1>1, LockKeeps DEF LockRequested, Types
<1>2. CASE UnlockRequested
  BY <1>2, UnlockKeeps DEF UnlockRequested, Types
<1>3. CASE RespondToPrompt
  <2>1. /\ Reads /\ workers' = Answer(password)
        /\ UNCHANGED <<lockVars, password, fingerprintRunning, fingerprintFailures,
                       fingerprintAvailable>>
    BY <1>3 DEF RespondToPrompt, Reads, fingerVars
  <2>2. /\ workers' \in [Threads -> Worker \cup {None}]
        /\ authEvents' \in Seq(AuthMessage)
        /\ Tagged' /\ Reported' /\ Handle' /\ Readers' /\ Budgeted'
    BY <2>1, QuietKeeps
  <2>3. Types'
    <3>1. /\ UNCHANGED <<lockVars, fingerVars, sleepVars, inputVars>>
          /\ password' \in Threads \cup {None, Dead}
          /\ {passwordPrompted', pendingPrompt', queuedResponse'} \subseteq BOOLEAN
      BY <1>3 DEF RespondToPrompt, Types
    <3>2. QED
      BY <2>2, <3>1, PromptTypes
  <2>4. QED
    BY <2>2, <2>3
<1>4. CASE RespondLater
  <2>1. /\ locked /\ UNCHANGED lockVars /\ Base(workers)
        /\ StartTransactions(NeedsPassword, FALSE, workers, password)
        /\ NeedsPassword \in BOOLEAN /\ password \in Threads \cup {None, Dead}
        /\ fingerprintRunning' = fingerprintRunning
        /\ fingerprintFailures' = fingerprintFailures
        /\ fingerprintAvailable' = fingerprintAvailable
    BY <1>4 DEF RespondLater, Base, NeedsPassword, Types, fingerVars
  <2>2. (\E t \in Threads : ReaderIn(workers, t)) => fingerprintRunning'
    BY <2>1 DEF ReaderIn, Readers, ReaderIn
  <2>3. /\ workers' \in [Threads -> Worker \cup {None}]
        /\ authEvents' \in Seq(AuthMessage)
        /\ password' \in Threads \cup {None, Dead}
        /\ passwordPrompted' \in BOOLEAN
        /\ Tagged' /\ Reported' /\ Handle' /\ Readers'
    <3>1. \A t \in Threads : t # None
      BY NamesAssumption
    <3>2. \A t \in Threads : TypedIn(workers, t) => t = password
      BY <2>1 DEF Handle
    <3>3. NeedsPassword => \A t \in Threads : ~TypedIn(workers, t)
      BY <3>1, <3>2 DEF NeedsPassword
    <3>4. QED
      BY <2>1, <2>2, <3>2, <3>3, StartKeeps
  <2>4. Types'
    <3>1. /\ UNCHANGED <<lockVars, fingerVars, sleepVars, inputVars>>
          /\ {pendingPrompt', queuedResponse'} \subseteq BOOLEAN
      BY <1>4 DEF RespondLater, Types
    <3>2. QED
      BY <2>3, <3>1, PromptTypes
  <2>5. QED
    BY <2>1, <2>3, <2>4 DEF Budgeted
<1>5. CASE LockScreenShown
  <2>1. Types'
    BY <1>5, SleepTypes DEF LockScreenShown, Types
  <2>2. QED
    BY <1>5, <2>1, StackKeeps DEF LockScreenShown, promptVars, fingerVars
<1>6. CASE ReplayToShell
  <2>1. Types'
    BY <1>6, SleepTypes DEF ReplayToShell, Types
  <2>2. QED
    BY <1>6, <2>1, StackKeeps DEF ReplayToShell, promptVars, fingerVars
<1>7. CASE PrepareShown
  <2>1. Types'
    BY <1>7, SleepTypes DEF PrepareShown, CancelSleepRelease, Types
  <2>2. QED
    BY <1>7, <2>1, StackKeeps DEF PrepareShown, promptVars, fingerVars
<1>8. CASE PrepareDraws
  <2>1. CASE locked
    <3>1. Types'
      BY <1>8, <2>1 DEF PrepareDraws, Types, lockVars, promptVars, fingerVars, inputVars
    <3>2. QED
      BY <1>8, <2>1, <3>1, StackKeeps DEF PrepareDraws, promptVars, fingerVars, pamVars
  <2>2. CASE ~locked
    BY <1>8, <2>2, LockKeeps DEF PrepareDraws
  <2>3. QED
    BY <2>1, <2>2
<1>9. CASE Resumed
  <2> DEFINE fp == StartsFingerprint(fingerprintAvailable, fingerprintRunning,
                                     fingerprintFailures)
  <2>1. CASE locked
    <3>1. /\ locked /\ UNCHANGED lockVars /\ Base(workers)
          /\ StartTransactions(NeedsPassword, fp, workers, password)
          /\ NeedsPassword \in BOOLEAN /\ password \in Threads \cup {None, Dead}
          /\ fp \in BOOLEAN
          /\ fingerprintRunning' = (fingerprintRunning \/ fp)
          /\ fingerprintFailures' = fingerprintFailures
          /\ fingerprintAvailable' = fingerprintAvailable
      BY <1>9, <2>1, StartsBoolean DEF Resumed, Base, NeedsPassword, Types
    <3>2. fp => /\ ~fingerprintRunning /\ fingerprintFailures < FingerprintAttempts
                /\ fingerprintAvailable # "no"
      BY DEF StartsFingerprint, FingerprintAllowed
    <3> HIDE DEF fp
    <3>3. \A t \in Threads : ReaderIn(workers, t) => fingerprintRunning
      BY <3>1 DEF ReaderIn, Readers, ReaderIn
    <3>4. /\ workers' \in [Threads -> Worker \cup {None}]
          /\ authEvents' \in Seq(AuthMessage)
          /\ password' \in Threads \cup {None, Dead}
          /\ passwordPrompted' \in BOOLEAN
          /\ Tagged' /\ Reported' /\ Handle' /\ Readers'
      <4>1. \A t \in Threads : t # None
        BY NamesAssumption
      <4>2. \A t \in Threads : TypedIn(workers, t) => t = password
        BY <3>1 DEF Handle
      <4>3. NeedsPassword => \A t \in Threads : ~TypedIn(workers, t)
        BY <4>1, <4>2 DEF NeedsPassword
      <4>4. QED
        BY <3>1, <3>2, <3>3, <4>2, <4>3, StartKeeps
    <3>5. Types'
      BY <1>9, <2>1, <3>1, <3>4
         DEF Resumed, CancelSleepRelease, Types, lockVars, inputVars
    <3>6. Budgeted'
      BY <3>1, <3>2 DEF Budgeted
    <3>7. QED
      BY <3>4, <3>5, <3>6
  <2>2. CASE ~locked
    <3>1. Types'
      BY <1>9, <2>2 DEF Resumed, CancelSleepRelease, Types, lockVars, inputVars
    <3>2. QED
      BY <1>9, <2>2, <3>1, StackKeeps DEF Resumed, pamVars
  <2>3. QED
    BY <2>1, <2>2
<1>10. QED
  BY <1>1, <1>2, <1>3, <1>4, <1>5, <1>6, <1>7, <1>8, <1>9 DEF Requests

LEMMA WorkersKeep ==
    ASSUME IInv, NEW t \in Threads, WorkerRuns(t)
    PROVE  IInv'
<1> DEFINE w(s) == [workers[t] EXCEPT !.stage = s]
<1>1. /\ workers[t] # None
      /\ workers[t].stage # "done"
      /\ UNCHANGED <<lockVars, promptVars, fingerVars, sleepVars, inputVars>>
  BY DEF WorkerRuns, WorkerAsks, WorkerReceives, WorkerRefused, WorkerSpeaks, WorkerFinishes,
         WorkerStep
<1>2. workers \in [Threads -> Worker \cup {None}] /\ workers[t] \in Worker
  BY <1>1 DEF IInv, Types
<1>3. \A s \in {"working", "asking", "refused", "done"} :
        /\ w(s) \in Worker
        /\ w(s).stage = s /\ w(s).source = workers[t].source
        /\ w(s).generation = workers[t].generation /\ w(s).lock = workers[t].lock
        /\ [workers EXCEPT ![t].stage = s] = [workers EXCEPT ![t] = w(s)]
  BY <1>2 DEF Worker
<1> HIDE DEF w
<1>4. CASE WorkerAsks(t)
  <2>1. /\ workers' = [workers EXCEPT ![t] = w("asking")]
        /\ authEvents' = Append(authEvents, Says(t, "prompt"))
    BY <1>3, <1>4 DEF WorkerAsks
  <2>2. "prompt" \notin Outcomes
    BY DEF Outcomes
  <2>3. QED
    BY <1>1, <1>3, <2>1, <2>2, WorkerKeeps
<1>5. CASE WorkerReceives(t)
  <2> DEFINE v == [workers[t] EXCEPT !.stage = "working", !.answered = FALSE]
  <2>1. /\ v \in Worker /\ v.source = workers[t].source
        /\ v.generation = workers[t].generation /\ v.lock = workers[t].lock
    BY <1>2 DEF Worker
  <2>2. workers' = [workers EXCEPT ![t] = v] /\ authEvents' = authEvents
    BY <1>2, <1>5 DEF WorkerReceives
  <2>3. "prompt" \notin Outcomes
    BY DEF Outcomes
  <2> HIDE DEF v
  <2>4. QED
    BY <1>1, <2>1, <2>2, <2>3, WorkerKeeps
<1>6. CASE WorkerRefused(t)
  <2>1. workers' = [workers EXCEPT ![t] = w("refused")] /\ authEvents' = authEvents
    BY <1>3, <1>6 DEF WorkerRefused
  <2>2. "prompt" \notin Outcomes
    BY DEF Outcomes
  <2>3. QED
    BY <1>1, <1>3, <2>1, <2>2, WorkerKeeps
<1>7. CASE WorkerSpeaks(t)
  <2> DEFINE v == [workers[t] EXCEPT !.spoke = TRUE]
  <2>1. /\ v \in Worker /\ v.source = workers[t].source
        /\ v.generation = workers[t].generation /\ v.lock = workers[t].lock
    BY <1>2 DEF Worker
  <2>2. /\ workers' = [workers EXCEPT ![t] = v]
        /\ authEvents' = Append(authEvents, Says(t, "info"))
    BY <1>2, <1>7 DEF WorkerSpeaks
  <2>3. "info" \notin Outcomes
    BY DEF Outcomes
  <2> HIDE DEF v
  <2>4. QED
    BY <1>1, <2>1, <2>2, <2>3, WorkerKeeps
<1>8. CASE \E outcome \in Outcomes : WorkerFinishes(t, outcome)
  <2>1. PICK outcome \in Outcomes : WorkerFinishes(t, outcome)
    BY <1>8
  <2>2. /\ workers' = [workers EXCEPT ![t] = w("done")]
        /\ authEvents' = Append(authEvents, Says(t, outcome))
    BY <1>3, <2>1 DEF WorkerFinishes
  <2>3. QED
    BY <1>1, <1>3, <2>2, WorkerKeeps
<1>9. QED
  BY <1>4, <1>5, <1>6, <1>7, <1>8 DEF WorkerRuns

LEMMA ClientsKeep ==
    ASSUME IInv, Clients
    PROVE  IInv'
<1> USE DEF IInv
<1>1. UNCHANGED <<lockVars, promptVars, fingerVars, sleepVars, pamVars>>
  BY ClientsFrame
<1>2. /\ focus' \in Windows \cup {None} /\ savedFocus' \in Windows \cup {None}
      /\ alive' \subseteq Windows /\ grabs' \subseteq Grabs
  <2>1. ASSUME NEW v \in Windows, ActivateWindow(v) \/ DeactivateWindow(v) \/ CloseWindow(v)
        PROVE  /\ focus' \in Windows \cup {None} /\ savedFocus' \in Windows \cup {None}
               /\ alive' \subseteq Windows /\ grabs' \subseteq Grabs
    BY <2>1 DEF ActivateWindow, DeactivateWindow, CloseWindow, SetKeyboardFocus, Types
  <2>2. ASSUME NEW g \in Grabs, BeginGrab(g) \/ EndGrab(g)
        PROVE  /\ focus' \in Windows \cup {None} /\ savedFocus' \in Windows \cup {None}
               /\ alive' \subseteq Windows /\ grabs' \subseteq Grabs
    BY <2>2 DEF BeginGrab, EndGrab, Types
  <2>3. QED
    BY <2>1, <2>2 DEF Clients
<1>3. Types'
  BY <1>1, <1>2 DEF Types, lockVars, promptVars, fingerVars, sleepVars, pamVars
<1>4. QED
  BY <1>1, <1>3, StackKeeps DEF promptVars, fingerVars

LEMMA NextIInv == IInv /\ [Next]_vars => IInv'
<1> SUFFICES ASSUME IInv, [Next]_vars
             PROVE  IInv'
  OBVIOUS
<1> USE DEF IInv
<1>1. CASE LoopReadsAuth
  BY <1>1, LoopReadsKeeps
<1>2. CASE Requests
  BY <1>2, RequestsKeep
<1>3. CASE SleepReleaseFires
  <2>1. Types'
    BY <1>3, SleepTypes DEF SleepReleaseFires, Types
  <2>2. QED
    BY <1>3, <2>1, StackKeeps DEF SleepReleaseFires, promptVars, fingerVars
<1>4. CASE Workers
  BY <1>4, WorkersKeep DEF Workers
<1>5. CASE Clients
  BY <1>5, ClientsKeep
<1>6. CASE UNCHANGED vars
  <2>1. Types'
    BY <1>6 DEF vars, Types, lockVars, promptVars, fingerVars, sleepVars, inputVars, pamVars
  <2>2. QED
    BY <1>6, <2>1, StackKeeps DEF vars, promptVars, fingerVars
<1>7. QED
  BY <1>1, <1>2, <1>3, <1>4, <1>5, <1>6 DEF Next

\* IInv, the invariant the properties below follow from, holds of every behaviour.
THEOREM Invariance == Spec => []IInv
BY InitIInv, NextIInv, PTL DEF Spec

----------------------------------------------------------------------------
(* What follows from the invariant *)

\* Every variable of LockState, of the thread table and of the channel keeps to
\* its type, and fingerprint_failures never passes the number of attempts.
THEOREM TypeCorrect == Spec => []TypeOK
<1>1. IInv => TypeOK
  BY DEF IInv, Budgeted, TypeOK
<1>2. QED
  BY <1>1, Invariance, PTL

\* The failures counted and the attempt running never exceed FINGERPRINT_ATTEMPTS,
\* in whatever order password failures, suspends and relocks meet the reader.
THEOREM WithinBudget == Spec => []FingerprintBudget
<1>1. IInv => FingerprintBudget
  <2> SUFFICES ASSUME IInv PROVE FingerprintBudget
    OBVIOUS
  <2>1. fingerprintFailures \in Nat /\ FingerprintAttempts \in Nat
    BY AttemptsAssumption DEF IInv, Types
  <2>2. QED
    BY <2>1 DEF IInv, Budgeted, FingerprintBudget
<1>2. QED
  BY <1>1, Invariance, PTL

\* In one lock each stack runs at most one transaction, and the loop knows of it:
\* respond, on_resume and a failed attempt never start a second one.
THEOREM OnePerStack == Spec => []OneTransactionPerStack
<1>1. IInv => OneTransactionPerStack
  <2> SUFFICES ASSUME IInv, locked PROVE OneTransactionPerStack
    BY DEF OneTransactionPerStack
  <2>1. Current("password") \subseteq {password}
    BY DEF IInv, Handle, TypedIn, Current
  <2>2. \A t \in Current("fingerprint") : t \in Threads /\ ReaderIn(workers, t)
    BY DEF Current, ReaderIn
  <2>3. Current("fingerprint") # {} => fingerprintRunning
    BY <2>2 DEF IInv, Readers
  <2>4. Cardinality(Current("fingerprint")) <= 1
    <3>1. CASE Current("fingerprint") = {}
      BY <3>1, FS_EmptySet
    <3>2. CASE Current("fingerprint") # {}
      <4>1. PICK t \in Current("fingerprint") : TRUE
        BY <3>2
      <4>2. Current("fingerprint") = {t}
        BY <2>2, <4>1 DEF IInv, Readers
      <4>3. QED
        BY <4>2, FS_Singleton
    <3>3. QED
      BY <3>1, <3>2
  <2>5. QED
    BY <2>1, <2>3, <2>4 DEF OneTransactionPerStack
<1>2. QED
  BY <1>1, Invariance, PTL

\* No suspend waits for the lock screen, and no release timer runs, on an open
\* session: unlock() ends both.
THEOREM ReleaseLocked == Spec => []ReleaseOnlyWhenLocked
<1>1. Init => ReleaseOnlyWhenLocked
  BY DEF Init, ReleaseOnlyWhenLocked
<1>2. ReleaseOnlyWhenLocked /\ [Next]_vars => ReleaseOnlyWhenLocked'
  <2> SUFFICES ASSUME ReleaseOnlyWhenLocked, [Next]_vars
               PROVE  ReleaseOnlyWhenLocked'
    OBVIOUS
  <2> USE DEF ReleaseOnlyWhenLocked
  <2>1. CASE LoopReadsAuth
    BY <2>1 DEF LoopReadsAuth, DropStaleMessage, PasswordPrompts, PasswordSucceeds,
       PasswordFails, FingerprintPrompts, FingerprintSpeaks, FingerprintSucceeds,
       FingerprintUnavailable, FingerprintFails, UnlockSession, CancelSleepRelease,
       lockVars, sleepVars
  <2>2. CASE Requests
    BY <2>2 DEF Requests, LockRequested, UnlockRequested, RespondToPrompt, RespondLater,
       LockScreenShown, ReplayToShell, PrepareShown, PrepareDraws, Resumed, LockSession,
       UnlockSession, CancelSleepRelease, lockVars, sleepVars
  <2>3. CASE SleepReleaseFires
    BY <2>3 DEF SleepReleaseFires, lockVars
  <2>4. CASE Workers
    BY <2>4, WorkersFrame DEF lockVars, sleepVars
  <2>5. CASE Clients
    BY <2>5, ClientsFrame DEF lockVars, sleepVars
  <2>6. CASE UNCHANGED vars
    BY <2>6 DEF vars, lockVars, sleepVars
  <2>7. QED
    BY <2>1, <2>2, <2>3, <2>4, <2>5, <2>6 DEF Next
<1>3. QED
  BY <1>1, <1>2, PTL DEF Spec

\* From the lock to the unlock no client has the keyboard, and no selection,
\* forwarded game key or withheld Super key is left: set_keyboard_focus and the
\* input handlers keep what lock() took.
THEOREM NoClientInput == Spec => []NoClientInputWhileLocked
<1>1. Init => NoClientInputWhileLocked
  BY DEF Init, NoClientInputWhileLocked
<1>2. NoClientInputWhileLocked /\ [Next]_vars => NoClientInputWhileLocked'
  <2> SUFFICES ASSUME NoClientInputWhileLocked, [Next]_vars
               PROVE  NoClientInputWhileLocked'
    OBVIOUS
  <2> USE DEF NoClientInputWhileLocked
  <2>1. CASE LoopReadsAuth
    BY <2>1 DEF LoopReadsAuth, DropStaleMessage, PasswordPrompts, PasswordSucceeds,
       PasswordFails, FingerprintPrompts, FingerprintSpeaks, FingerprintSucceeds,
       FingerprintUnavailable, FingerprintFails, UnlockSession, lockVars, inputVars
  <2>2. CASE Requests
    BY <2>2 DEF Requests, LockRequested, UnlockRequested, RespondToPrompt, RespondLater,
       LockScreenShown, ReplayToShell, PrepareShown, PrepareDraws, Resumed, LockSession,
       UnlockSession, lockVars, inputVars
  <2>3. CASE SleepReleaseFires
    BY <2>3 DEF SleepReleaseFires, lockVars, inputVars
  <2>4. CASE Workers
    BY <2>4, WorkersFrame DEF lockVars, inputVars
  <2>5. CASE Clients
    <3>1. ASSUME NEW w \in Windows, ActivateWindow(w) \/ DeactivateWindow(w) \/ CloseWindow(w)
          PROVE  NoClientInputWhileLocked'
      BY <3>1 DEF ActivateWindow, DeactivateWindow, CloseWindow, SetKeyboardFocus, InputStep,
         lockVars
    <3>2. ASSUME NEW g \in Grabs, BeginGrab(g) \/ EndGrab(g)
          PROVE  NoClientInputWhileLocked'
      BY <3>2 DEF BeginGrab, EndGrab, InputStep, lockVars
    <3>3. QED
      BY <2>5, <3>1, <3>2 DEF Clients
  <2>6. CASE UNCHANGED vars
    BY <2>6 DEF vars, lockVars, inputVars
  <2>7. QED
    BY <2>1, <2>2, <2>3, <2>4, <2>5, <2>6 DEF Next
<1>3. QED
  BY <1>1, <1>2, PTL DEF Spec

\* Only logind's Unlock, or the success of a transaction of this very lock, opens
\* the session: the generation tag tells a late result of an earlier lock.
THEOREM OnlyAuthorizedUnlock == Spec => UnlockAuthorized
<1> DEFINE Authorized ==
       locked /\ ~locked' =>
          \/ UNCHANGED pamVars
          \/ /\ authEvents # <<>> /\ authEvents' = Tail(authEvents)
             /\ Head(authEvents).event = "success"
             /\ Head(authEvents).lock = locks
<1>1. IInv /\ [Next]_vars => Authorized
  <2> SUFFICES ASSUME IInv, [Next]_vars, locked, ~locked'
               PROVE  Authorized
    OBVIOUS
  <2>1. CASE LoopReadsAuth
    <3>1. /\ ReadAuth("password", "success") \/ ReadAuth("fingerprint", "success")
          /\ authEvents' = Tail(authEvents)
      BY <2>1 DEF LoopReadsAuth, DropStaleMessage, PasswordPrompts, PasswordSucceeds,
         PasswordFails, FingerprintPrompts, FingerprintSpeaks, FingerprintSucceeds,
         FingerprintUnavailable, FingerprintFails, ReadAuth, lockVars
    <3>2. /\ authEvents # <<>> /\ Head(authEvents).event = "success"
          /\ Head(authEvents).generation = generation
      BY <3>1 DEF ReadAuth, Stale
    <3>3. Head(authEvents).lock = locks
      BY <3>2, HeadFacts DEF IInv, Tagged, TaggedEvents
    <3>4. QED
      BY <3>1, <3>2, <3>3
  <2>2. CASE Requests
    BY <2>2 DEF Requests, LockRequested, UnlockRequested, RespondToPrompt, RespondLater,
       LockScreenShown, ReplayToShell, PrepareShown, PrepareDraws, Resumed, LockSession, lockVars
  <2>3. CASE SleepReleaseFires \/ Workers \/ Clients \/ UNCHANGED vars
    BY <2>3, WorkersFrame, ClientsFrame DEF SleepReleaseFires, lockVars, vars
  <2>4. QED
    BY <2>1, <2>2, <2>3 DEF Next
<1>2. QED
  BY <1>1, Invariance, PTL DEF Spec, UnlockAuthorized

\* Once the reader is known to be missing, no handler starts the fingerprint stack.
LEMMA NoReaderStarts ==
    ASSUME NEW pw \in BOOLEAN, NEW handle, NEW threads \in [Threads -> Worker \cup {None}],
           StartTransactions(pw, FALSE, threads, handle), generation' \in Nat, locks' \in Nat,
           \A t \in Threads : threads[t] = workers[t] \/ threads[t] = None
    PROVE  \A t \in Threads : workers[t] = None /\ workers'[t] # None
                                  => workers'[t].source = "password"
<1>1. \A t \in Threads : Kept(t, threads) \/ Began(t, "password", threads)
  <2>1. FALSE \in BOOLEAN
    OBVIOUS
  <2>2. QED
    BY <2>1, Started
<1>2. QED
  BY <1>1, NewWorkerType DEF Kept, Began, Sources

\* A machine without a usable reader is remembered as one: no later lock, password
\* failure or resume starts the fingerprint stack again.
THEOREM MissingReaderStays == Spec => MissingReaderRemembered
<1> DEFINE Remembered ==
       fingerprintAvailable = "no" =>
          /\ fingerprintAvailable' = "no"
          /\ \A t \in Threads : workers[t] = None /\ workers'[t] # None
                 => workers'[t].source = "password"
<1>1. IInv /\ [Next]_vars => Remembered
  <2> SUFFICES ASSUME IInv, [Next]_vars, fingerprintAvailable = "no"
               PROVE  Remembered
    OBVIOUS
  <2>1. /\ ~fingerprintRunning
        /\ \A running, failures : StartsFingerprint("no", running, failures) = FALSE
        /\ workers \in [Threads -> Worker \cup {None}]
        /\ generation \in Nat /\ locks \in Nat /\ password \in Threads \cup {None, Dead}
        /\ passwordPrompted \in BOOLEAN /\ NeedsPassword \in BOOLEAN
    BY DEF IInv, Budgeted, Types, StartsFingerprint, FingerprintAllowed, NeedsPassword
  <2>2. IInv'
    BY NextIInv
  <2>3. generation' \in Nat /\ locks' \in Nat
    BY <2>2 DEF IInv, Types
  <2>4. CASE LoopReadsAuth
    <3>1. /\ authEvents # <<>>
          /\ AfterReading(Head(authEvents)) \in [Threads -> Worker \cup {None}]
          /\ \A t \in Threads : \/ AfterReading(Head(authEvents))[t] = workers[t]
                                \/ AfterReading(Head(authEvents))[t] = None
      BY <2>4, AfterReadingFacts DEF IInv, LoopReadsAuth, DropStaleMessage, PasswordPrompts,
         PasswordSucceeds, PasswordFails, FingerprintPrompts, FingerprintSpeaks,
         FingerprintSucceeds, FingerprintUnavailable, FingerprintFails, ReadAuth
    <3>2. CASE PasswordFails
      <4>1. StartTransactions(passwordPrompted, FALSE, AfterReading(Head(authEvents)), None)
        BY <2>1, <3>2 DEF PasswordFails
      <4>2. QED
        BY <2>1, <2>3, <3>1, <3>2, <4>1, NoReaderStarts DEF PasswordFails
    <3>3. CASE \E event \in Outcomes : ReadAuth("fingerprint", event)
      <4>1. ~Stale(Head(authEvents)) /\ Head(authEvents).event \in Outcomes
        BY <3>3 DEF ReadAuth
      <4>2. Head(authEvents).source = "fingerprint"
        BY <3>3 DEF ReadAuth
      <4>3. QED
        BY <2>1, <3>1, <4>1, <4>2, ResultFacts
    <3>4. CASE PasswordPrompts
      <4>1. workers' = workers \/ workers' = Answer(password)
        BY <3>4 DEF PasswordPrompts
      <4>2. \A t \in Threads : workers[t] = None => workers'[t] = None
        BY <2>1, <4>1, <3>4, AnswerFacts DEF IInv, PasswordPrompts, ReadAuth
      <4>3. QED
        BY <3>4, <4>2 DEF PasswordPrompts, fingerVars
    <3>5. CASE DropStaleMessage \/ PasswordSucceeds
      BY <3>1, <3>5 DEF DropStaleMessage, PasswordSucceeds, fingerVars
    <3>6. CASE FingerprintPrompts \/ FingerprintSpeaks
      BY <3>6 DEF FingerprintPrompts, FingerprintSpeaks, fingerVars
    <3>7. QED
      BY <2>4, <3>2, <3>3, <3>4, <3>5, <3>6
         DEF LoopReadsAuth, FingerprintSucceeds, FingerprintUnavailable, FingerprintFails, Outcomes
  <2>5. CASE Requests
    <3>1. ASSUME NEW authenticate \in BOOLEAN, LockSession(authenticate)
          PROVE  Remembered
      <4>1. StartTransactions(authenticate, FALSE, workers, None)
        BY <2>1, <3>1 DEF LockSession
      <4>2. QED
        BY <2>1, <2>3, <3>1, <4>1, NoReaderStarts DEF LockSession
    <3>2. CASE RespondLater
      <4>1. QED
        BY <2>1, <2>3, <3>2, NoReaderStarts DEF RespondLater, fingerVars
    <3>3. CASE Resumed /\ locked
      <4>1. StartTransactions(NeedsPassword, FALSE, workers, password)
        BY <2>1, <3>3 DEF Resumed
      <4>2. QED
        BY <2>1, <2>3, <3>3, <4>1, NoReaderStarts DEF Resumed
    <3>4. CASE RespondToPrompt
      <4>1. \A t \in Threads : workers[t] = None => workers'[t] = None
        BY <2>1, <3>4, AnswerFacts DEF IInv, RespondToPrompt
      <4>2. QED
        BY <3>4, <4>1 DEF RespondToPrompt, fingerVars
    <3>5. CASE LockRequested
      BY <3>1, <3>5 DEF LockRequested
    <3>6. CASE PrepareDraws
      BY <3>1, <3>6 DEF PrepareDraws, fingerVars
    <3>7. CASE \/ UnlockRequested \/ LockScreenShown \/ ReplayToShell \/ PrepareShown
               \/ Resumed /\ ~locked
      BY <3>7 DEF UnlockRequested, LockScreenShown, ReplayToShell, PrepareShown, Resumed,
         fingerVars, pamVars
    <3>8. QED
      BY <2>5, <3>2, <3>3, <3>4, <3>5, <3>6, <3>7 DEF Requests
  <2>6. CASE Workers
    <3>1. PICK t \in Threads : WorkerRuns(t)
      BY <2>6 DEF Workers
    <3>2. workers[t] # None
          /\ \A u \in Threads : u # t => workers'[u] = workers[u]
      BY <2>1, <3>1 DEF WorkerRuns, WorkerAsks, WorkerReceives, WorkerRefused, WorkerSpeaks,
         WorkerFinishes, WorkerStep
    <3>3. QED
      BY <2>6, <3>2, WorkersFrame DEF fingerVars
  <2>7. CASE SleepReleaseFires \/ Clients \/ UNCHANGED vars
    BY <2>7, ClientsFrame DEF SleepReleaseFires, fingerVars, pamVars, vars
  <2>8. QED
    BY <2>4, <2>5, <2>6, <2>7 DEF Next
<1>2. QED
  BY <1>1, Invariance, PTL DEF Spec, MissingReaderRemembered

-----------------------------------------------------------------------------
(***************************************************************************)
(* The prompt the lock screen shows has a PAM worker behind it.  The       *)
(* invariant above says which transactions there are; the one here adds    *)
(* where the prompts they sent are: unread in the channel, shown, or       *)
(* answered, and only ever in one of these places.                         *)
(***************************************************************************)

\* The worker of the password transaction of this lock is blocked in recv with
\* nothing to receive.
Waits(t) ==
    /\ locked
    /\ TypedIn(workers, t)
    /\ workers[t].stage = "asking"
    /\ ~workers[t].answered

\* A prompt of the password transaction of this lock that the loop has yet to read.
Unread(i) ==
    /\ locked
    /\ authEvents[i].source = "password"
    /\ authEvents[i].event = "prompt"
    /\ authEvents[i].generation = generation

UnreadWaits == \A i \in 1 .. Len(authEvents) :
    Unread(i) => ~pendingPrompt /\ authEvents[i].thread \in Threads /\ Waits(authEvents[i].thread)
UnreadOnce == \A i, j \in 1 .. Len(authEvents) : Unread(i) /\ Unread(j) => i = j
PendingWaits == pendingPrompt => password \in Threads /\ Waits(password)
\* Only a worker that asked has an answer to receive.
AnsweredAsks == \A t \in Threads :
    workers[t] # None /\ workers[t].answered => workers[t].stage = "asking"

Asked == UnreadWaits /\ UnreadOnce /\ PendingWaits /\ AnsweredAsks

LEMMA InitAsked == Init => Asked
<1> SUFFICES ASSUME Init PROVE Asked
  OBVIOUS
<1>1. 1 .. Len(authEvents) = {} /\ ~pendingPrompt /\ \A t \in Threads : workers[t] = None
  BY DEF Init
<1>2. QED
  BY <1>1 DEF Asked, UnreadWaits, UnreadOnce, PendingWaits, AnsweredAsks

\* A step that sends no message and disturbs no worker that waits moves prompts
\* nowhere, except that reading one may be part of it.
LEMMA Undisturbed ==
    ASSUME Types, Asked, UNCHANGED lockVars, Reads,
           \A t \in Threads : Waits(t) => workers'[t] = workers[t],
           pendingPrompt' => pendingPrompt /\ password' = password,
           AnsweredAsks'
    PROVE  Asked'
<1> USE DEF Asked
<1>1. \A t \in Threads : Waits(t) => Waits(t)'
  BY DEF Waits, TypedIn, lockVars
<1>2. PendingWaits'
  BY <1>1 DEF PendingWaits
<1>3. UnreadWaits' /\ UnreadOnce'
  <2>1. CASE authEvents' = authEvents
    BY <1>1, <2>1 DEF UnreadWaits, UnreadOnce, Unread, lockVars
  <2>2. CASE authEvents # <<>> /\ authEvents' = Tail(authEvents)
    <3>1. \A i \in 1 .. Len(authEvents') :
             /\ i \in Nat /\ i + 1 \in 1 .. Len(authEvents)
             /\ authEvents'[i] = authEvents[i + 1]
             /\ Unread(i)' => Unread(i + 1)
      BY <2>2, HeadFacts DEF Unread, lockVars
    <3>2. UnreadWaits'
      BY <1>1, <3>1 DEF UnreadWaits
    <3>3. ASSUME NEW i \in 1 .. Len(authEvents'), NEW j \in 1 .. Len(authEvents'),
                 Unread(i)', Unread(j)'
          PROVE  i = j
      <4>1. i + 1 = j + 1 /\ i \in Nat /\ j \in Nat
        BY <3>1, <3>3 DEF UnreadOnce
      <4>2. QED
        BY <4>1
    <3>4. QED
      BY <3>2, <3>3 DEF UnreadOnce
  <2>3. QED
    BY <2>1, <2>2 DEF Reads
<1>4. QED
  BY <1>2, <1>3

\* A new worker has nothing to receive, and takes the thread of none that waits.
LEMMA StartedAsks ==
    ASSUME NEW pw \in BOOLEAN, NEW fp \in BOOLEAN, NEW handle,
           NEW threads \in [Threads -> Worker \cup {None}],
           generation' \in Nat, locks' \in Nat,
           StartTransactions(pw, fp, threads, handle), AnsweredAsks,
           \A t \in Threads : threads[t] = workers[t] \/ threads[t] = None
    PROVE  /\ AnsweredAsks'
           /\ \A t \in Threads : threads[t] # None => workers'[t] = workers[t]
<1>1. \A t \in Threads : \/ Kept(t, threads)
                         \/ Began(t, "password", threads)
                         \/ Began(t, "fingerprint", threads)
  BY Started
<1>2. \A source \in Sources : /\ NewWorker(source, generation', locks') # None
                              /\ NewWorker(source, generation', locks').answered = FALSE
  BY NewWorkerType DEF NewWorker
<1>3. QED
  BY <1>1, <1>2 DEF Kept, Began, AnsweredAsks, Sources

\* A thread whose transaction ended, and only that one, is free once the message
\* is read; none that waits is.
LEMMA ReadingAsks ==
    ASSUME IInv, authEvents # <<>>
    PROVE  /\ AfterReading(Head(authEvents)) \in [Threads -> Worker \cup {None}]
           /\ \A t \in Threads : \/ AfterReading(Head(authEvents))[t] = workers[t]
                                 \/ AfterReading(Head(authEvents))[t] = None
           /\ \A t \in Threads : Waits(t) => AfterReading(Head(authEvents))[t] = workers[t]
<1> DEFINE m == Head(authEvents)
<1> USE DEF IInv
<1>1. /\ AfterReading(m) \in [Threads -> Worker \cup {None}]
      /\ \A t \in Threads : AfterReading(m)[t] = workers[t] \/ AfterReading(m)[t] = None
      /\ \A t \in Threads : t # m.thread => AfterReading(m)[t] = workers[t]
  BY AfterReadingFacts
<1>2. m.event \in Outcomes => workers[m.thread].stage = "done"
  BY HeadFacts DEF Reported, ReportedIn
<1>3. m.event \notin Outcomes => AfterReading(m) = workers
  BY DEF AfterReading
<1>4. QED
  BY <1>1, <1>2, <1>3 DEF Waits

LEMMA LockAsks ==
    ASSUME IInv, IInv', Asked, NEW authenticate \in BOOLEAN, LockSession(authenticate),
           authEvents' = authEvents
    PROVE  Asked'
<1> USE DEF IInv
<1> DEFINE fp == authenticate /\ StartsFingerprint(fingerprintAvailable, fingerprintRunning, 0)
<1>1. /\ generation' = generation + 1 /\ generation \in Nat /\ locks' \in Nat
      /\ ~pendingPrompt' /\ fp \in BOOLEAN
      /\ workers \in [Threads -> Worker \cup {None}]
      /\ StartTransactions(authenticate, fp, workers, None)
      /\ authEvents \in Seq(AuthMessage)
  BY StartsBoolean DEF LockSession, Types
<1> HIDE DEF fp
<1>2. AnsweredAsks'
  BY <1>1, StartedAsks DEF Asked
<1>3. \A i \in 1 .. Len(authEvents') : ~Unread(i)'
  <2> SUFFICES ASSUME NEW i \in 1 .. Len(authEvents) PROVE authEvents[i].generation # generation'
    BY DEF Unread
  <2>1. authEvents[i].generation <= generation /\ authEvents[i].generation \in Nat
    BY <1>1, MessageFields DEF Tagged, TaggedEvents
  <2>2. QED
    BY <1>1, <2>1
<1>4. QED
  BY <1>1, <1>2, <1>3 DEF Asked, UnreadWaits, UnreadOnce, PendingWaits

\* unlock(), and every other step that leaves the session open.
LEMMA OpenAsks ==
    ASSUME ~locked', ~pendingPrompt', AnsweredAsks'
    PROVE  Asked'
BY DEF Asked, UnreadWaits, UnreadOnce, PendingWaits, Unread

\* The answer goes to the worker that waits, once the prompt is neither shown nor
\* unread any more.
LEMMA AnswerAsks ==
    ASSUME IInv, Asked, UNCHANGED lockVars, password \in Threads, Waits(password),
           workers' = Answer(password), ~pendingPrompt',
           \A i \in 1 .. Len(authEvents') : ~Unread(i)'
    PROVE  Asked'
<1> USE DEF IInv
<1>1. /\ workers \in [Threads -> Worker \cup {None}]
      /\ workers' = [workers EXCEPT ![password].answered = TRUE]
      /\ workers[password] \in Worker /\ workers[password].stage = "asking"
  BY DEF Types, Answer, Waits, TypedIn
<1>2. AnsweredAsks'
  BY <1>1 DEF Asked, AnsweredAsks, Worker
<1>3. QED
  BY <1>2 DEF Asked, UnreadWaits, UnreadOnce, PendingWaits

\* A prompt read is handed an answer that waited for it, or shown: it was the only
\* one unread.
LEMMA PromptAsks ==
    ASSUME IInv, Asked, PasswordPrompts
    PROVE  Asked'
<1> USE DEF IInv
<1> DEFINE m == Head(authEvents)
<1>1. /\ locked /\ m.source = "password" /\ m.event = "prompt" /\ m.generation = generation
      /\ authEvents # <<>> /\ authEvents' = Tail(authEvents)
      /\ UNCHANGED lockVars /\ password' = password
  BY DEF PasswordPrompts, ReadAuth, Stale
<1>2. 1 \in 1 .. Len(authEvents) /\ m = authEvents[1]
  BY <1>1, HeadFacts
<1> HIDE DEF m
<1>3. Unread(1)
  BY <1>1, <1>2 DEF Unread
<1>4. ~pendingPrompt /\ password \in Threads /\ Waits(password)
  <2>1. ~pendingPrompt /\ m.thread \in Threads /\ Waits(m.thread)
    BY <1>2, <1>3 DEF Asked, UnreadWaits
  <2>2. m.thread = password
    BY <2>1 DEF Handle, Waits
  <2>3. QED
    BY <2>1, <2>2
<1>5. \A i \in 1 .. Len(authEvents') : ~Unread(i)'
  <2> SUFFICES ASSUME NEW i \in 1 .. Len(authEvents'), Unread(i)' PROVE FALSE
    OBVIOUS
  <2>1. /\ i \in Nat /\ i > 0 /\ i + 1 \in 1 .. Len(authEvents)
        /\ authEvents'[i] = authEvents[i + 1]
    BY <1>1, HeadFacts
  <2>2. Unread(i + 1)
    BY <1>1, <2>1 DEF Unread, lockVars
  <2>3. i + 1 = 1
    BY <1>2, <1>3, <2>1, <2>2 DEF Asked, UnreadOnce
  <2>4. QED
    BY <2>1, <2>3
<1>6. CASE queuedResponse
  <2>1. workers' = Answer(password) /\ ~pendingPrompt'
    BY <1>4, <1>6 DEF PasswordPrompts
  <2>2. QED
    BY <1>1, <1>4, <1>5, <2>1, AnswerAsks
<1>7. CASE ~queuedResponse
  <2>1. workers' = workers
    BY <1>7 DEF PasswordPrompts
  <2>2. PendingWaits' /\ AnsweredAsks'
    BY <1>1, <1>4, <2>1 DEF Asked, PendingWaits, AnsweredAsks, Waits, TypedIn, lockVars
  <2>3. QED
    BY <1>5, <2>2 DEF Asked, UnreadWaits, UnreadOnce
<1>8. QED
  BY <1>6, <1>7

\* A transaction ended, and others may have been started in free threads.
LEMMA EndedAsks ==
    ASSUME IInv, IInv', Asked, UNCHANGED lockVars, authEvents # <<>>,
           authEvents' = Tail(authEvents),
           NEW pw \in BOOLEAN, NEW fp \in BOOLEAN, NEW handle,
           StartTransactions(pw, fp, AfterReading(Head(authEvents)), handle),
           pendingPrompt' => pendingPrompt /\ password' = password
    PROVE  Asked'
<1> USE DEF IInv
<1>1. generation' \in Nat /\ locks' \in Nat
  BY DEF Types
<1>2. AnsweredAsks'
  BY <1>1, ReadingAsks, StartedAsks DEF Asked
<1>3. \A t \in Threads : Waits(t) => workers'[t] = workers[t]
  <2>1. \A t \in Threads : AfterReading(Head(authEvents))[t] # None
                              => workers'[t] = AfterReading(Head(authEvents))[t]
    BY <1>1, ReadingAsks, StartedAsks DEF Asked
  <2>2. QED
    BY <2>1, ReadingAsks DEF Waits, TypedIn
<1>4. QED
  BY <1>2, <1>3, Undisturbed DEF Reads

LEMMA LoopReadsAsks ==
    ASSUME IInv, IInv', Asked, LoopReadsAuth
    PROVE  Asked'
<1> USE DEF IInv
<1>1. CASE DropStaleMessage \/ FingerprintUnavailable
  <2>1. Read /\ UNCHANGED lockVars /\ UNCHANGED promptVars
    BY <1>1 DEF DropStaleMessage, FingerprintUnavailable, ReadAuth, Read
  <2>2. \A t \in Threads : Waits(t) => workers'[t] = workers[t]
    BY <2>1, ReadingAsks DEF Read
  <2>3. AnsweredAsks'
    BY <2>1, ReadingAsks DEF Read, Asked, AnsweredAsks
  <2>4. QED
    BY <2>1, <2>2, <2>3, Undisturbed DEF Read, Reads, promptVars
<1>2. CASE PasswordPrompts
  BY <1>2, PromptAsks
<1>3. CASE PasswordSucceeds \/ FingerprintSucceeds
  <2>1. Read /\ ~locked' /\ ~pendingPrompt'
    BY <1>3 DEF PasswordSucceeds, FingerprintSucceeds, ReadAuth, Read, UnlockSession
  <2>2. AnsweredAsks'
    BY <2>1, ReadingAsks DEF Read, Asked, AnsweredAsks
  <2>3. QED
    BY <2>1, <2>2, OpenAsks
<1>4. CASE PasswordFails
  <2> DEFINE fp == StartsFingerprint(fingerprintAvailable, fingerprintRunning, 0)
  <2>1. /\ authEvents # <<>> /\ authEvents' = Tail(authEvents)
        /\ UNCHANGED lockVars /\ ~pendingPrompt'
        /\ StartTransactions(passwordPrompted, fp, AfterReading(Head(authEvents)), None)
        /\ passwordPrompted \in BOOLEAN /\ fp \in BOOLEAN
    BY <1>4, StartsBoolean DEF PasswordFails, ReadAuth, Types
  <2> HIDE DEF fp
  <2>2. QED
    BY <2>1, EndedAsks
<1>5. CASE FingerprintPrompts \/ FingerprintSpeaks
  <2>1. /\ authEvents # <<>> /\ authEvents' = Tail(authEvents)
        /\ UNCHANGED lockVars /\ UNCHANGED promptVars /\ workers' = workers
    BY <1>5 DEF FingerprintPrompts, FingerprintSpeaks, ReadAuth
  <2>2. AnsweredAsks'
    BY <2>1 DEF Asked, AnsweredAsks
  <2>3. QED
    BY <2>1, <2>2, Undisturbed DEF Reads, promptVars
<1>6. CASE FingerprintFails
  <2> DEFINE fp == /\ fingerprintFailures' < FingerprintAttempts
                   /\ StartsFingerprint("yes", FALSE, fingerprintFailures')
  <2>1. /\ authEvents # <<>> /\ authEvents' = Tail(authEvents)
        /\ UNCHANGED lockVars /\ pendingPrompt' = pendingPrompt
        /\ StartTransactions(FALSE, fp, AfterReading(Head(authEvents)), password)
        /\ ~Stale(Head(authEvents)) /\ Head(authEvents).event \in Outcomes
    BY <1>6 DEF FingerprintFails, ReadAuth, Outcomes
  <2>2. fp \in BOOLEAN /\ FALSE \in BOOLEAN
    BY StartsBoolean
  <2> HIDE DEF fp
  <2>3. password' = password
    BY <2>1 DEF StartTransactions
  <2>4. QED
    BY <2>1, <2>2, <2>3, EndedAsks
<1>7. QED
  BY <1>1, <1>2, <1>3, <1>4, <1>5, <1>6 DEF LoopReadsAuth

LEMMA RequestsAsk ==
    ASSUME IInv, IInv', Asked, Requests
    PROVE  Asked'
<1> USE DEF IInv
<1>1. CASE LockRequested
  <2>1. TRUE \in BOOLEAN
    OBVIOUS
  <2>2. QED
    BY <1>1, <2>1, LockAsks DEF LockRequested
<1>2. CASE UnlockRequested
  <2>1. ~locked' /\ ~pendingPrompt' /\ workers' = workers
    BY <1>2 DEF UnlockRequested, UnlockSession, pamVars
  <2>2. AnsweredAsks'
    BY <2>1 DEF Asked, AnsweredAsks
  <2>3. QED
    BY <2>1, <2>2, OpenAsks
<1>3. CASE RespondToPrompt
  <2>1. /\ UNCHANGED lockVars /\ authEvents' = authEvents /\ ~pendingPrompt' /\ pendingPrompt
        /\ workers' = Answer(password) /\ password' = password
    BY <1>3 DEF RespondToPrompt
  <2>2. \A i \in 1 .. Len(authEvents') : ~Unread(i)'
    BY <2>1 DEF Asked, UnreadWaits, Unread, lockVars
  <2>3. QED
    BY <2>1, <2>2, AnswerAsks DEF Asked, PendingWaits
<1>4. ASSUME NEW fp \in BOOLEAN, StartTransactions(NeedsPassword, fp, workers, password),
             UNCHANGED lockVars, UNCHANGED authEvents,
             pendingPrompt' => pendingPrompt /\ ~NeedsPassword
      PROVE  Asked'
  <2>1. /\ generation' \in Nat /\ locks' \in Nat /\ NeedsPassword \in BOOLEAN
        /\ workers \in [Threads -> Worker \cup {None}]
    BY DEF Types, NeedsPassword
  <2>2. AnsweredAsks' /\ \A t \in Threads : workers[t] # None => workers'[t] = workers[t]
    BY <1>4, <2>1, StartedAsks DEF Asked
  <2>3. \A t \in Threads : Waits(t) => workers'[t] = workers[t]
    BY <2>2 DEF Waits, TypedIn
  <2>4. pendingPrompt' => pendingPrompt /\ password' = password
    BY <1>4 DEF StartTransactions
  <2>5. QED
    BY <1>4, <2>2, <2>3, <2>4, Undisturbed DEF Reads
<1>5. CASE RespondLater
  <2>1. FALSE \in BOOLEAN /\ ~pendingPrompt'
    BY <1>5 DEF RespondLater
  <2>2. QED
    BY <1>4, <1>5, <2>1 DEF RespondLater
<1>6. ASSUME UNCHANGED <<lockVars, promptVars, pamVars>>
      PROVE  Asked'
  <2>1. AnsweredAsks'
    BY <1>6 DEF Asked, AnsweredAsks, pamVars
  <2>2. QED
    BY <1>6, <2>1, Undisturbed DEF Reads, promptVars, pamVars
<1>7. CASE LockScreenShown \/ ReplayToShell \/ PrepareShown
  BY <1>6, <1>7 DEF LockScreenShown, ReplayToShell, PrepareShown
<1>8. CASE PrepareDraws
  <2>1. CASE locked
    BY <1>6, <1>8, <2>1 DEF PrepareDraws, pamVars
  <2>2. CASE ~locked
    <3>1. FALSE \in BOOLEAN /\ LockSession(FALSE) /\ authEvents' = authEvents
      BY <1>8, <2>2 DEF PrepareDraws
    <3>2. QED
      BY <3>1, LockAsks
  <2>3. QED
    BY <2>1, <2>2
<1>9. CASE Resumed
  <2>1. CASE locked
    <3> DEFINE fp == StartsFingerprint(fingerprintAvailable, fingerprintRunning,
                                       fingerprintFailures)
    <3>1. /\ StartTransactions(NeedsPassword, fp, workers, password)
          /\ UNCHANGED lockVars /\ UNCHANGED authEvents
          /\ pendingPrompt' => pendingPrompt /\ ~NeedsPassword
      BY <1>9, <2>1 DEF Resumed
    <3>2. fp \in BOOLEAN
      BY StartsBoolean
    <3> HIDE DEF fp
    <3>3. QED
      BY <1>4, <3>1, <3>2
  <2>2. CASE ~locked
    <3>1. UNCHANGED <<lockVars, password, pendingPrompt, workers, authEvents>>
      BY <1>9, <2>2 DEF Resumed
    <3>2. AnsweredAsks'
      BY <3>1 DEF Asked, AnsweredAsks
    <3>3. QED
      BY <3>1, <3>2, Undisturbed DEF Reads
  <2>3. QED
    BY <2>1, <2>2
<1>10. QED
  BY <1>1, <1>2, <1>3, <1>5, <1>7, <1>8, <1>9 DEF Requests

\* A worker that sends no prompt moves none: it does not wait, or keeps waiting.
LEMMA SilentWorkerAsks ==
    ASSUME IInv, IInv', Asked, NEW t \in Threads,
           UNCHANGED <<lockVars, promptVars, fingerVars, sleepVars, inputVars>>,
           \A u \in Threads : u # t => workers'[u] = workers[u],
           workers[t] # None, ~Waits(t), workers'[t].answered => workers'[t].stage = "asking",
           NEW event \in {"info"} \cup Outcomes,
           authEvents' = authEvents \/ authEvents' = Append(authEvents, Says(t, event))
    PROVE  Asked'
<1> USE DEF IInv
<1>1. /\ authEvents \in Seq(AuthMessage)
      /\ UNCHANGED <<locked, generation, locks, password, pendingPrompt>>
  BY DEF Types, lockVars, promptVars
<1>2. AnsweredAsks'
  BY DEF Asked, AnsweredAsks
<1>3. \A u \in Threads : Waits(u) => Waits(u)'
  BY <1>1 DEF Waits, TypedIn
<1>4. Says(t, event).event # "prompt"
  BY DEF Says, Outcomes
<1>5. \A i \in 1 .. Len(authEvents') : Unread(i)' =>
         i \in 1 .. Len(authEvents) /\ authEvents'[i] = authEvents[i] /\ Unread(i)
  BY <1>1, <1>4 DEF Unread
<1>6. QED
  BY <1>1, <1>2, <1>3, <1>5 DEF Asked, UnreadWaits, UnreadOnce, PendingWaits

\* A prompt sent by the password transaction of this lock is the only one there is.
LEMMA AskingAsks ==
    ASSUME IInv, IInv', Asked, NEW t \in Threads, WorkerAsks(t)
    PROVE  Asked'
<1> USE DEF IInv
<1> DEFINE m == Says(t, "prompt")
<1>1. /\ authEvents \in Seq(AuthMessage)
      /\ UNCHANGED <<locked, generation, locks, password, pendingPrompt>>
      /\ workers \in [Threads -> Worker \cup {None}]
      /\ workers[t] # None /\ workers[t].stage = "working"
      /\ workers' = [workers EXCEPT ![t].stage = "asking"]
      /\ authEvents' = Append(authEvents, m)
  BY DEF Types, WorkerAsks, WorkerStep, lockVars, promptVars
<1>2. /\ workers[t] \in Worker /\ ~workers[t].answered
      /\ workers'[t] = [workers[t] EXCEPT !.stage = "asking"]
      /\ \A u \in Threads : u # t => workers'[u] = workers[u]
  BY <1>1 DEF Asked, AnsweredAsks
<1>3. /\ workers'[t] # None /\ workers'[t].stage = "asking" /\ ~workers'[t].answered
      /\ workers'[t].source = workers[t].source
      /\ workers'[t].generation = workers[t].generation
  <2>1. workers'[t] \in Worker
    BY <1>2 DEF Worker
  <2>2. QED
    BY <1>2, <2>1, NoWorkerAssumption DEF Worker
<1>4. \A u \in Threads : Waits(u) => u # t /\ Waits(u)'
  BY <1>1, <1>2 DEF Waits, TypedIn
<1>5. AnsweredAsks'
  BY <1>2, <1>3 DEF Asked, AnsweredAsks
<1>6. PendingWaits'
  BY <1>1, <1>4 DEF Asked, PendingWaits
<1>7. m.source = workers[t].source /\ m.generation = workers[t].generation /\ m.thread = t
  BY DEF Says
<1> HIDE DEF m
<1>8. \A i \in 1 .. Len(authEvents') :
         \/ i \in 1 .. Len(authEvents) /\ authEvents'[i] = authEvents[i]
                                       /\ (Unread(i)' => Unread(i))
         \/ i = Len(authEvents) + 1 /\ authEvents'[i] = m
  BY <1>1 DEF Unread
<1>9. ASSUME NEW i \in 1 .. Len(authEvents'), Unread(i)', authEvents'[i] = m
      PROVE  /\ locked /\ TypedIn(workers, t) /\ t = password
             /\ ~pendingPrompt
             /\ \A j \in 1 .. Len(authEvents) : ~Unread(j)
  <2>1. locked /\ TypedIn(workers, t) /\ t = password
    BY <1>1, <1>7, <1>9 DEF Unread, TypedIn, Handle
  <2>2. ~Waits(t)
    BY <1>4
  <2>3. ~pendingPrompt
    BY <2>1, <2>2 DEF Asked, PendingWaits
  <2>4. \A u \in Threads : Waits(u) => u = password
    BY DEF Waits, Handle
  <2>5. \A j \in 1 .. Len(authEvents) : ~Unread(j)
    BY <2>1, <2>2, <2>4 DEF Asked, UnreadWaits
  <2>6. QED
    BY <2>1, <2>3, <2>5
<1>10. UnreadWaits'
  <2>1. ASSUME NEW i \in 1 .. Len(authEvents'), Unread(i)'
        PROVE  \E u \in Threads : authEvents'[i].thread = u /\ ~pendingPrompt' /\ Waits(u)'
    <3>1. CASE /\ i \in 1 .. Len(authEvents)
               /\ authEvents'[i] = authEvents[i]
               /\ Unread(i)' => Unread(i)
      BY <1>1, <1>4, <2>1, <3>1 DEF Asked, UnreadWaits
    <3>2. CASE authEvents'[i] = m
      <4>1. Waits(t)'
        BY <1>1, <1>3, <1>9, <2>1, <3>2 DEF Waits, TypedIn
      <4>2. QED
        BY <1>1, <1>7, <1>9, <2>1, <3>2, <4>1
    <3>3. QED
      BY <1>8, <3>1, <3>2
  <2>2. QED
    BY <2>1 DEF UnreadWaits, Waits, TypedIn
<1>11. UnreadOnce'
  BY <1>1, <1>8, <1>9 DEF Asked, UnreadOnce
<1>12. QED
  BY <1>5, <1>6, <1>10, <1>11 DEF Asked

LEMMA WorkersAsk ==
    ASSUME IInv, IInv', Asked, NEW t \in Threads, WorkerRuns(t)
    PROVE  Asked'
<1>1. /\ workers[t] # None
      /\ UNCHANGED <<lockVars, promptVars, fingerVars, sleepVars, inputVars>>
      /\ workers \in [Threads -> Worker \cup {None}]
  BY DEF WorkerRuns, WorkerAsks, WorkerReceives, WorkerRefused, WorkerSpeaks, WorkerFinishes,
         WorkerStep, IInv, Types
<1>2. workers[t] \in Worker
  BY <1>1
<1>3. CASE WorkerAsks(t)
  BY <1>3, AskingAsks
<1>4. CASE WorkerReceives(t)
  <2>1. /\ ~Waits(t) /\ authEvents' = authEvents /\ ~workers'[t].answered
        /\ \A u \in Threads : u # t => workers'[u] = workers[u]
    BY <1>1, <1>2, <1>4 DEF WorkerReceives, Waits, Worker
  <2>2. "info" \in {"info"} \cup Outcomes
    OBVIOUS
  <2>3. QED
    BY <1>1, <2>1, <2>2, SilentWorkerAsks
<1>5. CASE WorkerRefused(t)
  <2>1. ~Waits(t)
    BY <1>5 DEF WorkerRefused, Disconnected, Waits, IInv, Handle
  <2>2. /\ authEvents' = authEvents /\ ~workers'[t].answered
        /\ \A u \in Threads : u # t => workers'[u] = workers[u]
    BY <1>1, <1>2, <1>5 DEF WorkerRefused, Worker
  <2>3. "info" \in {"info"} \cup Outcomes
    OBVIOUS
  <2>4. QED
    BY <1>1, <2>1, <2>2, <2>3, SilentWorkerAsks
<1>6. CASE WorkerSpeaks(t)
  <2>1. /\ ~Waits(t) /\ authEvents' = Append(authEvents, Says(t, "info"))
        /\ workers'[t].answered = workers[t].answered
        /\ workers'[t].stage = workers[t].stage
        /\ \A u \in Threads : u # t => workers'[u] = workers[u]
    BY <1>1, <1>2, <1>6 DEF WorkerSpeaks, WorkerStep, Waits, Worker
  <2>2. workers'[t].answered => workers'[t].stage = "asking"
    BY <1>1, <2>1 DEF Asked, AnsweredAsks
  <2>3. "info" \in {"info"} \cup Outcomes
    OBVIOUS
  <2>4. QED
    BY <1>1, <2>1, <2>2, <2>3, SilentWorkerAsks
<1>7. CASE \E outcome \in Outcomes : WorkerFinishes(t, outcome)
  <2>1. PICK outcome \in Outcomes : WorkerFinishes(t, outcome)
    BY <1>7
  <2>2. /\ ~Waits(t) /\ authEvents' = Append(authEvents, Says(t, outcome))
        /\ workers[t].stage # "asking"
        /\ workers'[t].answered = workers[t].answered
        /\ \A u \in Threads : u # t => workers'[u] = workers[u]
    BY <1>1, <1>2, <2>1 DEF WorkerFinishes, WorkerStep, Waits, Worker
  <2>3. ~workers'[t].answered
    BY <1>1, <2>2 DEF Asked, AnsweredAsks
  <2>4. outcome \in {"info"} \cup Outcomes
    BY <2>1
  <2>5. QED
    BY <1>1, <2>2, <2>3, <2>4, SilentWorkerAsks
<1>8. QED
  BY <1>3, <1>4, <1>5, <1>6, <1>7 DEF WorkerRuns

LEMMA NextAsked == IInv /\ Asked /\ [Next]_vars => Asked'
<1> SUFFICES ASSUME IInv, Asked, [Next]_vars
             PROVE  Asked'
  OBVIOUS
<1>1. IInv'
  BY NextIInv
<1>2. CASE LoopReadsAuth
  BY <1>1, <1>2, LoopReadsAsks
<1>3. CASE Requests
  BY <1>1, <1>3, RequestsAsk
<1>4. CASE Workers
  BY <1>1, <1>4, WorkersAsk DEF Workers
<1>5. CASE SleepReleaseFires \/ Clients \/ UNCHANGED vars
  <2>1. UNCHANGED <<lockVars, promptVars, pamVars>>
    BY <1>5, ClientsFrame DEF SleepReleaseFires, vars
  <2>2. AnsweredAsks'
    BY <2>1 DEF Asked, AnsweredAsks, pamVars
  <2>3. QED
    BY <2>1, <2>2, Undisturbed DEF IInv, Reads, promptVars, pamVars
<1>6. QED
  BY <1>2, <1>3, <1>4, <1>5 DEF Next

\* A prompt on the lock screen always has a worker of this very lock blocked on it
\* with no answer yet, so respond() may hand the answer over without looking.
THEOREM PromptHasWorker == Spec => []PromptReachesWorker
<1>1. IInv /\ Asked => PromptReachesWorker
  BY DEF Asked, PendingWaits, Waits, TypedIn, PromptReachesWorker, Current
<1>2. Spec => [](IInv /\ Asked)
  <2>1. Init => IInv /\ Asked
    BY InitIInv, InitAsked
  <2>2. IInv /\ Asked /\ [Next]_vars => IInv' /\ Asked'
    BY NextIInv, NextAsked
  <2>3. QED
    BY <2>1, <2>2, PTL DEF Spec
<1>3. QED
  BY <1>1, <1>2, PTL

-----------------------------------------------------------------------------
(***************************************************************************)
(* The lock with logind and its thread is an instance of the lock in the   *)
(* environment SessionLock leaves open: what is proved there holds here,   *)
(* of an impatient or refusing logind too.                                 *)
(***************************************************************************)

\* A handler the loop runs for logind, its timer, PAM or the shell is one of the lock's.
LEMMA LoopStepsAreLockSteps ==
    ASSUME LoopReadsLogind \/ TimerFires \/ LoopCommandsAuth \/ ShellRequests
    PROVE  Next
<1>1. CASE LoopReadsLogind
  BY <1>1 DEF LoopReadsLogind, Next, Requests
<1>2. CASE TimerFires
  BY <1>2 DEF TimerFires, Next
<1>3. CASE LoopCommandsAuth
  BY <1>3 DEF LoopCommandsAuth, Next
<1>4. CASE ShellRequests
  BY <1>4 DEF ShellRequests, Next, Requests
<1>5. QED
  BY <1>1, <1>2, <1>3, <1>4

\* The thread, logind and what the loop ignores leave the lock alone.
LEMMA OthersLeaveLock ==
    ASSUME \/ LoopIgnoresLogind
           \/ ThreadLocks \/ ThreadUnlocks \/ ThreadPrepares \/ ThreadResumes
           \/ ThreadReleases \/ ThreadPublishes
           \/ LogindPrepares \/ LogindSuspends \/ LogindResumes
    PROVE  UNCHANGED vars
BY DEF LoopIgnoresLogind, ThreadForwards, ThreadLocks, ThreadUnlocks, ThreadPrepares,
       ThreadResumes, ThreadReleases, ThreadPublishes, LogindPrepares, LogindSuspends,
       LogindResumes, PowerStep

\* The lock behind lock/dbus.rs and logind is the lock in its environment: no signal,
\* inhibitor, hint or suspend does to it what Spec does not allow.
THEOREM SleepImplementsLock == SleepSpec => Spec
<1>1. SleepInit => Init
  BY DEF SleepInit
<1>2. [SleepNext]_sleepWorldVars => [Next]_vars
  <2> SUFFICES ASSUME [SleepNext]_sleepWorldVars PROVE [Next]_vars
    OBVIOUS
  <2>1. CASE UNCHANGED sleepWorldVars
    BY <2>1 DEF sleepWorldVars
  <2>2. CASE Elsewhere
    BY <2>2 DEF Elsewhere, Next
  <2>3. CASE SleepNext /\ ~Elsewhere
    BY <2>3, LoopStepsAreLockSteps, OthersLeaveLock DEF SleepNext
  <2>4. QED
    BY <2>1, <2>2, <2>3
<1>3. QED
  BY <1>1, <1>2, PTL DEF SleepSpec, Spec

\* A prompt on the screen has its worker, whatever logind does meanwhile.
THEOREM SleepPromptHasWorker == SleepSpec => []PromptReachesWorker
BY SleepImplementsLock, PromptHasWorker, PTL

\* No suspend, resume or signal gives a stack a second transaction.
THEOREM SleepOnePerStack == SleepSpec => []OneTransactionPerStack
BY SleepImplementsLock, OnePerStack, PTL

\* A session locked by logind, or for a suspend, lets no input through either.
THEOREM SleepNoClientInput == SleepSpec => []NoClientInputWhileLocked
BY SleepImplementsLock, NoClientInput, PTL

\* A result of before a suspend opens no later lock.
THEOREM SleepOnlyAuthorizedUnlock == SleepSpec => UnlockAuthorized
BY SleepImplementsLock, OnlyAuthorizedUnlock, PTL

----------------------------------------------------------------------------
(* The inhibitor *)

No(seq, x)  == \A i \in 1 .. Len(seq) : seq[i] # x
One(seq, x) == \A i, j \in 1 .. Len(seq) : seq[i] = x /\ seq[j] = x => i = j

\* Reading takes the first, and with it the only one.
LEMMA TailFacts ==
    ASSUME NEW S, NEW seq \in Seq(S), seq # <<>>, NEW x
    PROVE  /\ Tail(seq) \in Seq(S)
           /\ No(seq, x) => No(Tail(seq), x) /\ Head(seq) # x
           /\ One(seq, x) => One(Tail(seq), x)
           /\ One(seq, x) /\ Head(seq) = x => No(Tail(seq), x)
<1>1. /\ Tail(seq) \in Seq(S) /\ Len(seq) \in Nat \ {0}
      /\ Len(Tail(seq)) = Len(seq) - 1 /\ Head(seq) = seq[1]
      /\ \A i \in 1 .. Len(Tail(seq)) : i + 1 \in 1 .. Len(seq) /\ Tail(seq)[i] = seq[i + 1]
  OBVIOUS
<1>2. No(seq, x) => No(Tail(seq), x) /\ Head(seq) # x
  BY <1>1 DEF No
<1>3. One(seq, x) => One(Tail(seq), x)
  <2> SUFFICES ASSUME One(seq, x), NEW i \in 1 .. Len(Tail(seq)), NEW j \in 1 .. Len(Tail(seq)),
                      Tail(seq)[i] = x, Tail(seq)[j] = x
               PROVE  i = j
    BY DEF One
  <2>1. i + 1 = j + 1
    BY <1>1 DEF One
  <2>2. QED
    BY <2>1, <1>1
<1>4. One(seq, x) /\ Head(seq) = x => No(Tail(seq), x)
  <2> SUFFICES ASSUME One(seq, x), Head(seq) = x, NEW i \in 1 .. Len(Tail(seq)),
                      Tail(seq)[i] = x
               PROVE  FALSE
    BY DEF No
  <2>1. i + 1 = 1
    BY <1>1 DEF One
  <2>2. QED
    BY <2>1, <1>1
<1>5. QED
  BY <1>1, <1>2, <1>3, <1>4

\* Sending something else adds none, and sending the first one there is makes it the
\* only one.
LEMMA AppendFacts ==
    ASSUME NEW S, NEW seq \in Seq(S), NEW y \in S, NEW x
    PROVE  /\ Append(seq, y) \in Seq(S) /\ seq \o <<y>> = Append(seq, y)
           /\ y # x => /\ No(seq, x) => No(Append(seq, y), x)
                       /\ One(seq, x) => One(Append(seq, y), x)
           /\ No(seq, x) => One(Append(seq, y), x)
<1>1. /\ Len(seq) \in Nat /\ Len(Append(seq, y)) = Len(seq) + 1
      /\ \A i \in 1 .. Len(seq) : Append(seq, y)[i] = seq[i]
      /\ Append(seq, y)[Len(seq) + 1] = y
  OBVIOUS
<1>2. Append(seq, y) \in Seq(S) /\ seq \o <<y>> = Append(seq, y)
  OBVIOUS
<1>3. \A i \in 1 .. Len(Append(seq, y)) : i \in 1 .. Len(seq) \/ i = Len(seq) + 1
  BY <1>1
<1>4. y # x /\ No(seq, x) => No(Append(seq, y), x)
  BY <1>1, <1>3 DEF No
<1>5. y # x /\ One(seq, x) => One(Append(seq, y), x)
  BY <1>1, <1>3 DEF One
<1>6. No(seq, x) => One(Append(seq, y), x)
  BY <1>1, <1>3 DEF No, One
<1>7. QED
  BY <1>2, <1>4, <1>5, <1>6

\* What the thread, the loop and logind send each other.
QueueTypes ==
    /\ lockEvents \in Seq(LockDbusEvent)
    /\ commands \in Seq(LockDbusCommand)

\* Nothing under way will release the inhibitor.
NothingUnderWay ==
    /\ No(lockEvents, "prepare")
    /\ ~sleepRelease
    /\ No(commands, "release")

\* The release of a suspend is in one place: announced to the loop, waited for by its
\* timer, commanded to the thread, or done.
OneRelease ==
    /\ One(lockEvents, "prepare") /\ One(commands, "release")
    /\ ~No(lockEvents, "prepare") => ~sleepRelease /\ No(commands, "release")
    /\ sleepRelease => No(commands, "release")
    /\ ~inhibitor => NothingUnderWay

\* A suspend runs its course, with nothing of the last one left in the next.
SuspendInv ==
    /\ QueueTypes
    /\ sleepPending => sleepRelease
    /\ \/ power = "awake" /\ signals = <<>> /\ inhibitor /\ NothingUnderWay
       \/ power = "preparing" /\ signals = <<TRUE>> /\ inhibitor /\ NothingUnderWay
       \/ power = "preparing" /\ signals = <<>> /\ OneRelease
       \/ power = "asleep" /\ signals = <<>> /\ ~inhibitor /\ NothingUnderWay
       \/ power = "awake" /\ signals = <<FALSE>> /\ ~inhibitor /\ NothingUnderWay

\* Of the loop's handlers PrepareDraws alone arms the timer: a lock screen that appears
\* restarts it at most.
LEMMA Disarming ==
    ASSUME sleepPending => sleepRelease,
           LoopReadsAuth \/ LockRequested \/ UnlockRequested \/ RespondToPrompt
             \/ RespondLater \/ LockScreenShown \/ ReplayToShell \/ Resumed
             \/ Workers \/ Clients
    PROVE  (sleepRelease' => sleepRelease) /\ (sleepPending' => sleepRelease')
<1> DEFINE Same == sleepPending' = sleepPending /\ sleepRelease' = sleepRelease
           Off  == sleepPending' = FALSE /\ sleepRelease' = FALSE
<1>1. CASE LoopReadsAuth
  <2>1. CASE DropStaleMessage
    BY <2>1 DEF DropStaleMessage, sleepVars
  <2>2. CASE PasswordPrompts \/ PasswordFails
    BY <2>2 DEF PasswordPrompts, PasswordFails, sleepVars
  <2>3. CASE PasswordSucceeds \/ FingerprintSucceeds
    <3>1. Off
      BY <2>3 DEF PasswordSucceeds, FingerprintSucceeds, UnlockSession, CancelSleepRelease
    <3>2. QED
      BY <3>1
  <2>4. CASE FingerprintPrompts \/ FingerprintSpeaks \/ FingerprintUnavailable \/ FingerprintFails
    <3>1. Same
      BY <2>4 DEF FingerprintPrompts, FingerprintSpeaks, FingerprintUnavailable,
                  FingerprintFails, sleepVars
    <3>2. QED
      BY <3>1
  <2>5. QED
    BY <1>1, <2>1, <2>2, <2>3, <2>4 DEF LoopReadsAuth
<1>2. CASE LockRequested \/ RespondToPrompt \/ RespondLater \/ ReplayToShell
  <2>1. Same
    BY <1>2 DEF LockRequested, RespondToPrompt, RespondLater, ReplayToShell, sleepVars
  <2>2. QED
    BY <2>1
<1>3. CASE UnlockRequested \/ Resumed
  <2>1. Off
    BY <1>3 DEF UnlockRequested, UnlockSession, Resumed, CancelSleepRelease
  <2>2. QED
    BY <2>1
<1>4. CASE LockScreenShown
  <2>1. sleepPending' = FALSE /\ sleepRelease' = (sleepRelease \/ sleepPending)
    BY <1>4 DEF LockScreenShown
  <2>2. QED
    BY <2>1
<1>5. CASE Workers
  <2>1. Same
    BY <1>5 DEF Workers, WorkerRuns, WorkerAsks, WorkerReceives, WorkerRefused, WorkerSpeaks,
                WorkerFinishes, WorkerStep, sleepVars
  <2>2. QED
    BY <2>1
<1>6. CASE Clients
  BY <1>6, ClientsFrame DEF sleepVars
<1>7. QED
  BY <1>1, <1>2, <1>3, <1>4, <1>5, <1>6

\* The hint is no release.
LEMMA HintCommands ==
    ASSUME QueueTypes, Command(PublishHint) \/ Command(<<>>)
    PROVE  /\ commands' \in Seq(LockDbusCommand)
           /\ No(commands, "release") => No(commands, "release")'
           /\ One(commands, "release") => One(commands, "release")'
<1>1. CASE commands' = commands
  BY <1>1 DEF QueueTypes, No, One
<1>2. ASSUME NEW c \in {"hintLocked", "hintUnlocked"}, commands' = commands \o <<c>>
      PROVE  /\ commands' \in Seq(LockDbusCommand)
             /\ No(commands, "release") => No(commands, "release")'
             /\ One(commands, "release") => One(commands, "release")'
  <2>1. c \in LockDbusCommand /\ c # "release"
    BY DEF LockDbusCommand
  <2>2. commands' = Append(commands, c)
    BY <1>2, <2>1, AppendFacts DEF QueueTypes
  <2>3. QED
    BY <2>1, <2>2, AppendFacts DEF QueueTypes, No, One
<1>3. commands \o <<>> = commands
  BY DEF QueueTypes
<1>4. QED
  BY <1>1, <1>2, <1>3 DEF Command, PublishHint

\* A step that sends no release, announces no suspend and arms no timer.
LEMMA QuietKeepsRelease ==
    ASSUME SuspendInv, QueueTypes', UNCHANGED <<power, signals, inhibitor>>,
           No(lockEvents, "prepare") => No(lockEvents, "prepare")',
           One(lockEvents, "prepare") => One(lockEvents, "prepare")',
           No(commands, "release") => No(commands, "release")',
           One(commands, "release") => One(commands, "release")',
           sleepRelease' => sleepRelease, sleepPending' => sleepRelease'
    PROVE  SuspendInv'
BY DEF SuspendInv, NothingUnderWay, OneRelease

\* Reading something else than the announcement.
LEMMA ReadQuietly ==
    ASSUME QueueTypes, NEW event, event # "prepare", ReadLogind(event)
    PROVE  /\ lockEvents' \in Seq(LockDbusEvent)
           /\ No(lockEvents, "prepare") => No(lockEvents', "prepare")
           /\ One(lockEvents, "prepare") => One(lockEvents', "prepare")
BY TailFacts DEF QueueTypes, ReadLogind

\* The announcement is read while nothing else of its suspend is under way.
LEMMA ReadPrepare ==
    ASSUME SuspendInv, ReadLogind("prepare")
    PROVE  /\ lockEvents' \in Seq(LockDbusEvent) /\ No(lockEvents', "prepare")
           /\ power = "preparing" /\ signals = <<>> /\ inhibitor
           /\ ~sleepRelease /\ No(commands, "release") /\ One(commands, "release")
<1>1. /\ lockEvents \in Seq(LockDbusEvent) /\ lockEvents # <<>> /\ Head(lockEvents) = "prepare"
      /\ lockEvents' = Tail(lockEvents)
  BY DEF SuspendInv, QueueTypes, ReadLogind
<1>2. ~No(lockEvents, "prepare")
  BY <1>1, TailFacts
<1>3. /\ power = "preparing" /\ signals = <<>> /\ OneRelease
  BY <1>2 DEF SuspendInv, NothingUnderWay
<1>4. One(lockEvents, "prepare") /\ One(commands, "release")
  BY <1>3 DEF OneRelease
<1>5. ~sleepRelease /\ No(commands, "release") /\ inhibitor
  BY <1>2, <1>3 DEF OneRelease, NothingUnderWay
<1>6. lockEvents' \in Seq(LockDbusEvent) /\ No(lockEvents', "prepare")
  BY <1>1, <1>4, TailFacts
<1>7. QED
  BY <1>3, <1>4, <1>5, <1>6

\* What follows the announcement: the release is commanded, or awaited, or (past the
\* bound on locks) not to come.
LEMMA AfterPrepare ==
    ASSUME lockEvents' \in Seq(LockDbusEvent), No(lockEvents', "prepare"),
           commands' \in Seq(LockDbusCommand), One(commands', "release"),
           sleepRelease' => No(commands', "release"), sleepPending' => sleepRelease',
           power' = "preparing", signals' = <<>>, inhibitor'
    PROVE  SuspendInv'
<1>1. One(lockEvents', "prepare")
  BY DEF No, One
<1>2. OneRelease'
  BY <1>1 DEF OneRelease
<1>3. QED
  BY <1>2 DEF SuspendInv, QueueTypes

\* A release commanded where there was none.
LEMMA ReleaseCommanded ==
    ASSUME QueueTypes, No(commands, "release"), Command(<<"release">>)
    PROVE  commands' \in Seq(LockDbusCommand) /\ One(commands', "release")
<1>1. commands' = commands \o <<"release">> /\ commands \in Seq(LockDbusCommand)
  BY DEF QueueTypes, Command
<1>2. "release" \in LockDbusCommand
  BY DEF LockDbusCommand
<1>3. QED
  BY <1>1, <1>2, AppendFacts

\* The loop handles what logind sent.
LEMMA LogindReadKeeps ==
    ASSUME SuspendInv, LoopReadsLogind
    PROVE  SuspendInv'
<1>0. QueueTypes /\ (sleepPending => sleepRelease)
  BY DEF SuspendInv
<1>1. UNCHANGED <<inhibitor, signals, power>>
  BY DEF LoopReadsLogind, logindVars
<1>2. ASSUME NEW event, event # "prepare", ReadLogind(event),
             LockRequested \/ UnlockRequested \/ Resumed,
             Command(PublishHint) \/ Command(<<>>)
      PROVE  SuspendInv'
  <2>1. (sleepRelease' => sleepRelease) /\ (sleepPending' => sleepRelease')
    BY <1>0, <1>2, Disarming
  <2>2. /\ commands' \in Seq(LockDbusCommand)
        /\ No(commands, "release") => No(commands, "release")'
        /\ One(commands, "release") => One(commands, "release")'
    BY <1>0, <1>2, HintCommands
  <2>3. /\ lockEvents' \in Seq(LockDbusEvent)
        /\ No(lockEvents, "prepare") => No(lockEvents, "prepare")'
        /\ One(lockEvents, "prepare") => One(lockEvents, "prepare")'
    BY <1>0, <1>2, ReadQuietly
  <2>4. QueueTypes'
    BY <2>2, <2>3 DEF QueueTypes
  <2>5. QED
    BY <1>1, <2>1, <2>2, <2>3, <2>4, QuietKeepsRelease
<1>3. CASE ReadLogind("prepare") /\ PrepareShown /\ Command(<<"release">>)
  <2>1. sleepPending' = FALSE /\ sleepRelease' = FALSE
    BY <1>3 DEF PrepareShown, CancelSleepRelease
  <2>2. commands' \in Seq(LockDbusCommand) /\ One(commands', "release")
    BY <1>0, <1>3, ReadPrepare, ReleaseCommanded
  <2>3. QED
    BY <1>1, <1>3, <2>1, <2>2, ReadPrepare, AfterPrepare
<1>4. CASE ReadLogind("prepare") /\ PrepareDraws /\ Command(PublishHint)
  <2>1. sleepPending' = TRUE /\ sleepRelease' = TRUE
    BY <1>4 DEF PrepareDraws
  <2>2. /\ commands' \in Seq(LockDbusCommand)
        /\ No(commands', "release") /\ One(commands', "release")
    BY <1>0, <1>4, ReadPrepare, HintCommands
  <2>3. QED
    BY <1>1, <1>4, <2>1, <2>2, ReadPrepare, AfterPrepare
<1>5. CASE \/ ReadLogind("lock") /\ LockRequested /\ Command(PublishHint)
           \/ ReadLogind("unlock") /\ UnlockRequested /\ Command(PublishHint)
           \/ ReadLogind("resumed") /\ Resumed /\ Command(<<>>)
  BY <1>2, <1>5
<1>6. QED
  BY <1>3, <1>4, <1>5 DEF LoopReadsLogind

\* The loop has nothing to do for what logind sent.
LEMMA LogindIgnoredKeeps ==
    ASSUME SuspendInv, LoopIgnoresLogind
    PROVE  SuspendInv'
<1>0. QueueTypes /\ (sleepPending => sleepRelease)
  BY DEF SuspendInv
<1>1. UNCHANGED <<commands, sleepRelease, sleepPending, inhibitor, signals, power>>
  BY DEF LoopIgnoresLogind, vars, sleepVars, logindVars
<1>2. CASE ReadLogind("prepare")
  <2>1. (sleepRelease' => No(commands', "release")) /\ (sleepPending' => sleepRelease')
    BY <1>0, <1>1, <1>2, ReadPrepare
  <2>2. commands' \in Seq(LockDbusCommand) /\ One(commands', "release")
    BY <1>0, <1>1, <1>2, ReadPrepare DEF QueueTypes
  <2>3. QED
    BY <1>1, <1>2, <2>1, <2>2, ReadPrepare, AfterPrepare
<1>3. CASE ReadLogind("lock") \/ ReadLogind("unlock")
  <2>1. /\ lockEvents' \in Seq(LockDbusEvent)
        /\ No(lockEvents, "prepare") => No(lockEvents, "prepare")'
        /\ One(lockEvents, "prepare") => One(lockEvents, "prepare")'
    BY <1>0, <1>3, ReadQuietly
  <2>2. QueueTypes'
    BY <1>0, <1>1, <2>1 DEF QueueTypes
  <2>3. /\ No(commands, "release") => No(commands, "release")'
        /\ One(commands, "release") => One(commands, "release")'
        /\ (sleepRelease' => sleepRelease) /\ (sleepPending' => sleepRelease')
    BY <1>0, <1>1
  <2>4. QED
    BY <1>1, <2>1, <2>2, <2>3, QuietKeepsRelease
<1>4. QED
  BY <1>2, <1>3 DEF LoopIgnoresLogind

\* What the loop does for PAM and the shell, and what happens outside it.
LEMMA OwnWorkKeeps ==
    ASSUME SuspendInv, LoopCommandsAuth \/ ShellRequests \/ Elsewhere
    PROVE  SuspendInv'
<1>0. QueueTypes /\ (sleepPending => sleepRelease)
  BY DEF SuspendInv
<1>1. UNCHANGED <<lockEvents, inhibitor, signals, power>>
  BY DEF LoopCommandsAuth, ShellRequests, Elsewhere, logindVars, threadVars
<1>2. (sleepRelease' => sleepRelease) /\ (sleepPending' => sleepRelease')
  BY <1>0, Disarming DEF LoopCommandsAuth, ShellRequests, Elsewhere
<1>3. /\ commands' \in Seq(LockDbusCommand)
      /\ No(commands, "release") => No(commands, "release")'
      /\ One(commands, "release") => One(commands, "release")'
  <2>1. CASE Command(PublishHint)
    BY <1>0, <2>1, HintCommands
  <2>2. CASE commands' = commands
    BY <1>0, <2>2 DEF QueueTypes
  <2>3. QED
    BY <2>1, <2>2 DEF LoopCommandsAuth, ShellRequests, Elsewhere, threadVars
<1>4. QueueTypes'
  BY <1>0, <1>1, <1>3 DEF QueueTypes
<1>5. /\ No(lockEvents, "prepare") => No(lockEvents, "prepare")'
      /\ One(lockEvents, "prepare") => One(lockEvents, "prepare")'
  BY <1>1
<1>6. QED
  BY <1>1, <1>2, <1>3, <1>4, <1>5, QuietKeepsRelease

\* The timer, and the thread that lets logind go on.
LEMMA ReleaseKeeps ==
    ASSUME SuspendInv, TimerFires \/ ThreadReleases
    PROVE  SuspendInv'
<1>0. QueueTypes /\ (sleepPending => sleepRelease)
  BY DEF SuspendInv
<1>1. UNCHANGED <<lockEvents, signals, power>>
  BY DEF TimerFires, ThreadReleases, logindVars
<1>2. CASE TimerFires
  <2>1. /\ sleepRelease /\ sleepRelease' = FALSE /\ sleepPending' = FALSE
        /\ Command(<<"release">>) /\ inhibitor' = inhibitor
    BY <1>2 DEF TimerFires, SleepReleaseFires
  <2>2. power = "preparing" /\ signals = <<>> /\ OneRelease
    BY <2>1 DEF SuspendInv, NothingUnderWay
  <2>3. /\ No(lockEvents, "prepare") /\ No(commands, "release") /\ inhibitor
    BY <2>1, <2>2 DEF OneRelease, NothingUnderWay
  <2>4. commands' \in Seq(LockDbusCommand) /\ One(commands', "release")
    BY <1>0, <2>1, <2>3, ReleaseCommanded
  <2>5. lockEvents' \in Seq(LockDbusEvent) /\ No(lockEvents', "prepare")
    BY <1>0, <1>1, <2>3 DEF QueueTypes
  <2>6. QED
    BY <1>1, <2>1, <2>2, <2>3, <2>4, <2>5, AfterPrepare
<1>3. CASE ThreadReleases
  <2>1. /\ commands # <<>> /\ Head(commands) = "release" /\ commands' = Tail(commands)
        /\ inhibitor' = FALSE /\ UNCHANGED <<sleepRelease, sleepPending>>
    BY <1>3 DEF ThreadReleases, vars, sleepVars
  <2>2. ~No(commands, "release")
    BY <1>0, <2>1, TailFacts DEF QueueTypes
  <2>3. power = "preparing" /\ signals = <<>> /\ OneRelease
    BY <2>2 DEF SuspendInv, NothingUnderWay
  <2>4. No(lockEvents, "prepare") /\ ~sleepRelease /\ One(commands, "release")
    BY <2>2, <2>3 DEF OneRelease
  <2>5. commands' \in Seq(LockDbusCommand) /\ No(commands', "release")
    BY <1>0, <2>1, <2>4, TailFacts DEF QueueTypes
  <2>6. One(commands', "release") /\ One(lockEvents', "prepare") /\ No(lockEvents', "prepare")
    BY <1>1, <2>4, <2>5 DEF No, One
  <2>7. NothingUnderWay'
    BY <2>1, <2>4, <2>5, <2>6 DEF NothingUnderWay
  <2>8. OneRelease'
    BY <2>6, <2>7 DEF OneRelease, NothingUnderWay
  <2>9. QueueTypes'
    BY <1>0, <1>1, <2>5 DEF QueueTypes
  <2>10. QED
    BY <1>0, <1>1, <2>1, <2>3, <2>4, <2>8, <2>9 DEF SuspendInv
<1>4. QED
  BY <1>2, <1>3

\* The thread announces a suspend or a resume to the loop.
LEMMA ThreadReadsKeeps ==
    ASSUME ~LogindMayRefuse, SuspendInv, ThreadPrepares \/ ThreadResumes
    PROVE  SuspendInv'
<1>0. QueueTypes /\ (sleepPending => sleepRelease)
  BY DEF SuspendInv
<1>1. UNCHANGED <<commands, power, sleepRelease, sleepPending>>
  BY DEF ThreadPrepares, ThreadResumes, ThreadForwards, vars, sleepVars
<1>2. "prepare" \in LockDbusEvent /\ "resumed" \in LockDbusEvent
  BY DEF LockDbusEvent
<1>3. /\ Head(<<TRUE>>) = TRUE /\ Tail(<<TRUE>>) = <<>>
      /\ Head(<<FALSE>>) = FALSE /\ Tail(<<FALSE>>) = <<>>
  <2>1. \A x : Head(<<x>>) = x /\ Tail(<<x>>) = <<>>
    OBVIOUS
  <2>2. QED
    BY <2>1, Zenon
<1>4. CASE ThreadPrepares
  <2>1. /\ signals # <<>> /\ Head(signals) /\ signals' = Tail(signals)
        /\ inhibitor' = inhibitor /\ lockEvents' = Append(lockEvents, "prepare")
    BY <1>4 DEF ThreadPrepares, ThreadForwards
  <2>2. power = "preparing" /\ signals = <<TRUE>> /\ inhibitor /\ NothingUnderWay
    BY <2>1, <1>3, Zenon DEF SuspendInv
  <2>3. signals' = <<>>
    BY <2>1, <2>2, <1>3, Zenon
  <2>4. lockEvents' \in Seq(LockDbusEvent) /\ One(lockEvents', "prepare")
    BY <1>0, <1>2, <2>1, <2>2, AppendFacts DEF QueueTypes, NothingUnderWay
  <2>5. No(commands', "release") /\ One(commands', "release") /\ ~sleepRelease' /\ inhibitor'
    BY <1>1, <2>1, <2>2 DEF NothingUnderWay, No, One
  <2>6. OneRelease'
    BY <2>4, <2>5 DEF OneRelease
  <2>7. QueueTypes'
    BY <1>0, <1>1, <2>4 DEF QueueTypes
  <2>8. QED
    BY <1>0, <1>1, <2>2, <2>3, <2>6, <2>7 DEF SuspendInv
<1>5. CASE ThreadResumes
  <2>1. /\ signals # <<>> /\ ~Head(signals) /\ signals' = Tail(signals)
        /\ inhibitor' = TRUE /\ lockEvents' = Append(lockEvents, "resumed")
    BY <1>5 DEF ThreadResumes, ThreadForwards
  <2>2. power = "awake" /\ signals = <<FALSE>> /\ NothingUnderWay
    BY <2>1, <1>3, Zenon DEF SuspendInv
  <2>3. signals' = <<>>
    BY <2>1, <2>2, <1>3, Zenon
  <2>4. lockEvents' \in Seq(LockDbusEvent) /\ No(lockEvents', "prepare")
    BY <1>0, <1>2, <2>1, <2>2, AppendFacts DEF QueueTypes, NothingUnderWay
  <2>5. NothingUnderWay'
    BY <1>1, <2>2, <2>4 DEF NothingUnderWay
  <2>6. QueueTypes'
    BY <1>0, <1>1, <2>4 DEF QueueTypes
  <2>7. QED
    BY <1>0, <1>1, <2>1, <2>2, <2>3, <2>5, <2>6 DEF SuspendInv
<1>6. QED
  BY <1>4, <1>5

\* The thread forwards what is no suspend, and publishes the hint.
LEMMA ThreadQuietKeeps ==
    ASSUME SuspendInv, ThreadLocks \/ ThreadUnlocks \/ ThreadPublishes
    PROVE  SuspendInv'
<1>0. QueueTypes /\ (sleepPending => sleepRelease)
  BY DEF SuspendInv
<1>1. UNCHANGED <<inhibitor, signals, power, sleepRelease, sleepPending>>
  BY DEF ThreadLocks, ThreadUnlocks, ThreadPublishes, ThreadForwards, vars, sleepVars, logindVars
<1>2. /\ lockEvents' \in Seq(LockDbusEvent)
      /\ No(lockEvents, "prepare") => No(lockEvents, "prepare")'
      /\ One(lockEvents, "prepare") => One(lockEvents, "prepare")'
  <2>1. ASSUME NEW event \in {"lock", "unlock"}, lockEvents' = Append(lockEvents, event)
        PROVE  /\ lockEvents' \in Seq(LockDbusEvent)
               /\ No(lockEvents, "prepare") => No(lockEvents', "prepare")
               /\ One(lockEvents, "prepare") => One(lockEvents', "prepare")
    <3>1. event \in LockDbusEvent /\ event # "prepare"
      BY DEF LockDbusEvent
    <3>2. QED
      BY <1>0, <2>1, <3>1, AppendFacts DEF QueueTypes
  <2>2. CASE lockEvents' = lockEvents
    BY <1>0, <2>2 DEF QueueTypes
  <2>3. QED
    BY <2>1, <2>2 DEF ThreadLocks, ThreadUnlocks, ThreadPublishes, ThreadForwards
<1>3. /\ commands' \in Seq(LockDbusCommand)
      /\ No(commands, "release") => No(commands, "release")'
      /\ One(commands, "release") => One(commands, "release")'
  <2>1. CASE commands # <<>> /\ commands' = Tail(commands)
    BY <1>0, <2>1, TailFacts DEF QueueTypes
  <2>2. CASE commands' = commands
    BY <1>0, <2>2 DEF QueueTypes
  <2>3. QED
    BY <2>1, <2>2 DEF ThreadLocks, ThreadUnlocks, ThreadPublishes, ThreadForwards
<1>4. QueueTypes'
  BY <1>2, <1>3 DEF QueueTypes
<1>5. (sleepRelease' => sleepRelease) /\ (sleepPending' => sleepRelease')
  BY <1>0, <1>1
<1>6. QED
  BY <1>1, <1>2, <1>3, <1>4, <1>5, QuietKeepsRelease

\* logind announces one suspend at a time, and waits for the inhibitor.
LEMMA PowerKeeps ==
    ASSUME ~LogindImpatient, SuspendInv, LogindPrepares \/ LogindSuspends \/ LogindResumes
    PROVE  SuspendInv'
<1>0. QueueTypes /\ (sleepPending => sleepRelease)
  BY DEF SuspendInv
<1>1. UNCHANGED <<lockEvents, commands, inhibitor, sleepRelease, sleepPending>>
  BY DEF LogindPrepares, LogindSuspends, LogindResumes, PowerStep, threadVars, vars, sleepVars
<1>2. QueueTypes' /\ (sleepPending' => sleepRelease') /\ (NothingUnderWay => NothingUnderWay')
  BY <1>0, <1>1 DEF QueueTypes, NothingUnderWay
<1>3. CASE LogindPrepares
  <2>1. /\ signals = <<>> /\ power = "awake" /\ power' = "preparing"
        /\ signals' = Append(signals, TRUE)
    BY <1>3 DEF LogindPrepares, PowerStep
  <2>2. inhibitor /\ NothingUnderWay
    BY <2>1 DEF SuspendInv
  <2>3. signals' = <<TRUE>>
    BY <2>1
  <2>4. QED
    BY <1>1, <1>2, <2>1, <2>2, <2>3 DEF SuspendInv
<1>4. CASE LogindSuspends
  <2>1. ~inhibitor /\ power = "preparing" /\ power' = "asleep" /\ signals' = signals
    BY <1>4 DEF LogindSuspends, PowerStep
  <2>2. signals = <<>> /\ NothingUnderWay
    BY <2>1 DEF SuspendInv, OneRelease
  <2>3. QED
    BY <1>1, <1>2, <2>1, <2>2 DEF SuspendInv
<1>5. CASE LogindResumes
  <2>1. power = "asleep" /\ power' = "awake" /\ signals' = Append(signals, FALSE)
    BY <1>5 DEF LogindResumes, PowerStep
  <2>2. signals = <<>> /\ ~inhibitor /\ NothingUnderWay
    BY <2>1 DEF SuspendInv
  <2>3. signals' = <<FALSE>>
    BY <2>1, <2>2
  <2>4. QED
    BY <1>1, <1>2, <2>1, <2>2, <2>3 DEF SuspendInv
<1>6. QED
  BY <1>3, <1>4, <1>5

\* While logind waits for the inhibitor and grants a new one, a machine that is up holds
\* it for the next suspend: dbus::run releases it once per suspend, whatever the loop,
\* its timer and the shell do in between.
THEOREM InhibitorComesBack ==
    ASSUME ~LogindImpatient, ~LogindMayRefuse
    PROVE  SleepSpec => []InhibitorRearmed
<1>1. SleepInit => SuspendInv
  BY DEF SleepInit, Init, SuspendInv, QueueTypes, NothingUnderWay, No
<1>2. SuspendInv /\ [SleepNext]_sleepWorldVars => SuspendInv'
  <2> SUFFICES ASSUME SuspendInv, [SleepNext]_sleepWorldVars PROVE SuspendInv'
    OBVIOUS
  <2>1. CASE UNCHANGED sleepWorldVars
    BY <2>1 DEF sleepWorldVars, vars, sleepVars, threadVars, logindVars,
                SuspendInv, QueueTypes, OneRelease, NothingUnderWay
  <2>2. CASE SleepNext
    BY <2>2, LogindReadKeeps, LogindIgnoredKeeps, OwnWorkKeeps, ReleaseKeeps,
       ThreadReadsKeeps, ThreadQuietKeeps, PowerKeeps DEF SleepNext
  <2>3. QED
    BY <2>1, <2>2
<1>3. SuspendInv => InhibitorRearmed
  BY DEF SuspendInv, InhibitorRearmed
<1>4. QED
  BY <1>1, <1>2, <1>3, PTL DEF SleepSpec

----------------------------------------------------------------------------
(***************************************************************************)
(* The lock with the shell that draws it is an instance of SessionLock;    *)
(* and the shell shows what the lock holds, for any number of threads,     *)
(* locks, reloads, and messages under way in either direction.             *)
(*                                                                         *)
(* The inductive invariant says of each queue what its messages will make  *)
(* of the shell: the last announcement in it is the lock state, the last   *)
(* message about the reader is the reader's, and a field that takes no     *)
(* input has an answer, a message or a transaction to wait for.  Each      *)
(* handler is shown to append exactly the messages that make this true     *)
(* again (Telling), which is what a handler that forgets one breaks.       *)
(***************************************************************************)

\* What the loop does for PAM, its timer, logind and the shell's requests is the lock's
\* doing; the shell itself leaves the lock alone.
LEMMA ScreenSteps == [ScreenNext]_screenVars => [Next]_vars
<1> SUFFICES ASSUME [ScreenNext]_screenVars PROVE [Next]_vars
  OBVIOUS
<1>1. CASE LoopTellsAuth
  BY <1>1 DEF LoopTellsAuth, LoopReadsAuth, Next
<1>2. CASE LoopTellsSystem \/ LoopReadsShell
  BY <1>2 DEF LoopTellsSystem, LoopReadsShell, Requests, Next
<1>3. CASE LoopIgnoresShell \/ ShellReceives \/ ShellFrame \/ ShellSubmits
           \/ ShellAsksLock \/ ShellRestarts
  BY <1>3 DEF LoopIgnoresShell, ShellReceives, ShellFrame, ShellSubmits, ShellAsksLock,
     ShellRestarts
<1>4. CASE BesideShell \/ UNCHANGED screenVars
  BY <1>4 DEF BesideShell, Next, screenVars
<1>5. QED
  BY <1>1, <1>2, <1>3, <1>4 DEF ScreenNext

\* The lock with its shell and both directions of the platform channel is the lock that
\* holds against any environment.
THEOREM ScreenImplementsLock == ScreenSpec => Spec
<1>1. ScreenInit => Init
  BY DEF ScreenInit
<1>2. QED
  BY <1>1, ScreenSteps, PTL DEF ScreenSpec, Spec

----------------------------------------------------------------------------
(* What is under way in the lock itself *)

\* An answer is queued only while a transaction runs that has asked for none.
QueuedHeld == queuedResponse => password # None /\ ~pendingPrompt

\* A thread that is done has its result in the channel.
DoneReports ==
    \A t \in Threads : workers[t] # None /\ workers[t].stage = "done" =>
        \E i \in 1 .. Len(authEvents) :
            authEvents[i].thread = t /\ authEvents[i].event \in Outcomes

\* The prompt of a worker that waits is shown, or is in the channel.
PromptSomewhere ==
    \A t \in Threads : Waits(t) =>
        \/ pendingPrompt
        \/ \E i \in 1 .. Len(authEvents) : Unread(i) /\ authEvents[i].thread = t

MessageOfLock == fingerprintMessage => locked

UnderWay == QueuedHeld /\ DoneReports /\ PromptSomewhere /\ MessageOfLock

----------------------------------------------------------------------------
(* What is under way to the shell *)

ScreenTypes ==
    /\ shell \in Shell
    /\ ~shell.locked => ~shell.checking /\ ~shell.notice
    /\ toShell \in Seq(ShellMessage) /\ fromShell \in Seq(ShellRequest)

\* Message i of a queue is of certain kinds, the last one that is; some message is.
OfKind(seq, i, kinds) == i \in 1 .. Len(seq) /\ seq[i].kind \in kinds
LastIn(seq, i, kinds) == /\ OfKind(seq, i, kinds)
                         /\ \A j \in 1 .. Len(seq) : OfKind(seq, j, kinds) => j <= i
SomeIn(seq, kinds)    == \E i \in 1 .. Len(seq) : OfKind(seq, i, kinds)

Announces == {"state"}
Notices   == {"state", "notice", "unavailable"}
Frees     == {"state", "prompt", "failed"}

\* A shell that was reloaded during the lock has yet to be told of it.
Reloaded == InTransit("ready") /\ locked

LockTold ==
    /\ \A i \in 1 .. Len(toShell) : LastIn(toShell, i, Announces) => toShell[i].locked = locked
    /\ ~SomeIn(toShell, Announces) => shell.locked = locked
NoticeTold ==
    /\ \A i \in 1 .. Len(toShell) :
          LastIn(toShell, i, Notices) => (toShell[i].kind = "notice" <=> fingerprintMessage)
    /\ ~SomeIn(toShell, Notices) => shell.notice = fingerprintMessage

\* A field that takes no input waits for something: its answer, a message that frees it,
\* or a transaction that has not asked.
CheckingSettles ==
    shell.checking => \/ InTransit("respond") \/ SomeIn(toShell, Frees)
                      \/ password # None /\ ~pendingPrompt

ScreenInv ==
    /\ ScreenTypes
    /\ ~Reloaded => LockTold /\ NoticeTold
    /\ CheckingSettles

----------------------------------------------------------------------------
(* What is under way in the lock is kept track of *)

LEMMA InitUnderWay == Init => UnderWay
<1> SUFFICES ASSUME Init PROVE UnderWay
  OBVIOUS
<1>1. ~queuedResponse /\ ~fingerprintMessage /\ \A t \in Threads : workers[t] = None
  BY DEF Init
<1>2. QED
  BY <1>1 DEF UnderWay, QueuedHeld, DoneReports, PromptSomewhere, MessageOfLock, Waits, TypedIn

\* What a transaction started for an answer, or none, leaves as the handle.
LEMMA HandleHeld ==
    ASSUME NEW fp, NEW threads, StartTransactions(NeedsPassword, fp, threads, password)
    PROVE  password' # None
<1>1. CASE NeedsPassword
  <2>1. password' \in Granted(FreeThreads(threads))
    BY <1>1 DEF StartTransactions
  <2>2. QED
    BY <2>1, NamesAssumption DEF Granted, FreeThreads
<1>2. CASE ~NeedsPassword
  BY <1>2 DEF StartTransactions, NeedsPassword
<1>3. QED
  BY <1>1, <1>2

LEMMA HandleKept ==
    ASSUME NEW fp, NEW threads, NEW handle, StartTransactions(FALSE, fp, threads, handle)
    PROVE  password' = handle
BY DEF StartTransactions

LEMMA QueuedKept ==
    ASSUME QueuedHeld, MessageOfLock, [Next]_vars
    PROVE  QueuedHeld' /\ MessageOfLock'
<1> USE DEF QueuedHeld, MessageOfLock
<1>1. CASE LoopReadsAuth
  <2>1. CASE DropStaleMessage \/ FingerprintPrompts \/ FingerprintUnavailable
    BY <2>1 DEF DropStaleMessage, FingerprintPrompts, FingerprintUnavailable, lockVars, promptVars,
       fingerVars
  <2>2. CASE FingerprintSpeaks
    BY <2>2 DEF FingerprintSpeaks, ReadAuth, Stale, lockVars, promptVars
  <2>3. CASE PasswordPrompts \/ PasswordFails
    BY <2>3 DEF PasswordPrompts, PasswordFails, lockVars, fingerVars
  <2>4. CASE PasswordSucceeds \/ FingerprintSucceeds
    BY <2>4 DEF PasswordSucceeds, FingerprintSucceeds, UnlockSession
  <2>5. CASE FingerprintFails
    BY <2>5, HandleKept DEF FingerprintFails, lockVars
  <2>6. QED
    BY <1>1, <2>1, <2>2, <2>3, <2>4, <2>5 DEF LoopReadsAuth
<1>2. CASE Requests
  <2>1. CASE LockRequested \/ UnlockRequested
    BY <2>1 DEF LockRequested, LockSession, UnlockRequested, UnlockSession
  <2>2. CASE RespondToPrompt
    BY <2>2 DEF RespondToPrompt, lockVars, fingerVars
  <2>3. CASE RespondLater
    BY <2>3, HandleHeld DEF RespondLater, lockVars, fingerVars
  <2>4. CASE LockScreenShown \/ ReplayToShell \/ PrepareShown
    BY <2>4 DEF LockScreenShown, ReplayToShell, PrepareShown, lockVars, promptVars, fingerVars
  <2>5. CASE PrepareDraws
    BY <2>5 DEF PrepareDraws, LockSession, lockVars, promptVars, fingerVars
  <2>6. CASE Resumed
    <3>1. UNCHANGED <<locked, queuedResponse, fingerprintMessage>>
      BY <2>6 DEF Resumed, lockVars
    <3>2. locked => password' # None /\ (pendingPrompt' => pendingPrompt)
      BY <2>6, HandleHeld DEF Resumed
    <3>3. ~locked => UNCHANGED <<password, pendingPrompt>>
      BY <2>6 DEF Resumed
    <3>4. QED
      BY <3>1, <3>2, <3>3
  <2>7. QED
    BY <1>2, <2>1, <2>2, <2>3, <2>4, <2>5, <2>6 DEF Requests
<1>3. CASE SleepReleaseFires \/ Workers \/ Clients \/ UNCHANGED vars
  <2>1. UNCHANGED <<lockVars, promptVars, fingerVars>>
    BY <1>3, WorkersFrame, ClientsFrame DEF SleepReleaseFires, vars
  <2>2. QED
    BY <2>1 DEF lockVars, promptVars, fingerVars
<1>4. QED
  BY <1>1, <1>2, <1>3 DEF Next

\* What the loop makes of a thread: it is free, goes on, begins, or has its answer.
Goes(t) ==
    \/ workers'[t] = None \/ workers'[t] = workers[t] \/ workers'[t].stage = "working"
    \/ /\ workers[t] # None
       /\ workers'[t].stage = workers[t].stage /\ workers'[t].answered
\* The loop sends PAM no message, and frees the thread whose result it reads.
Reaps(m) == m.event \in Outcomes => workers'[m.thread] = None \/ workers'[m.thread].stage = "working"
LoopStep ==
    /\ \A t \in Threads : Goes(t)
    /\ \/ authEvents' = authEvents
       \/ authEvents # <<>> /\ authEvents' = Tail(authEvents) /\ Reaps(Head(authEvents))

LEMMA StartedGoes ==
    ASSUME IInv, IInv', NEW pw \in BOOLEAN, NEW fp \in BOOLEAN, NEW handle,
           NEW threads \in [Threads -> Worker \cup {None}],
           StartTransactions(pw, fp, threads, handle)
    PROVE  \A t \in Threads : workers'[t] = threads[t] \/ workers'[t].stage = "working"
<1>1. generation' \in Nat /\ locks' \in Nat
  BY DEF IInv, Types
<1>2. \A t \in Threads : \/ Kept(t, threads)
                         \/ Began(t, "password", threads)
                         \/ Began(t, "fingerprint", threads)
  BY <1>1, Started
<1>3. QED
  BY <1>2 DEF Kept, Began, NewWorker

LEMMA AnsweredGoes ==
    ASSUME IInv, workers' = Answer(password)
    PROVE  /\ \A t \in Threads : Goes(t)
           /\ password \in Threads => workers'[password] # None /\ workers'[password].answered
<1>1. /\ workers \in [Threads -> Worker \cup {None}]
      /\ password \in Threads => workers[password] # None
  BY DEF IInv, Types, Handle, TypedIn
<1>2. CASE password \notin Threads
  BY <1>2 DEF Answer, Goes
<1>3. CASE password \in Threads
  <2>1. workers[password] \in Worker /\ workers' = [workers EXCEPT ![password].answered = TRUE]
    BY <1>1, <1>3 DEF Answer
  <2>2. /\ workers'[password] \in Worker /\ workers'[password].stage = workers[password].stage
        /\ workers'[password].answered
    <3> DEFINE w == [workers[password] EXCEPT !.answered = TRUE]
    <3>1. w \in Worker /\ w.stage = workers[password].stage /\ w.answered
      BY <2>1 DEF Worker
    <3>2. workers'[password] = w
      BY <1>1, <1>3, <2>1
    <3> HIDE DEF w
    <3>3. QED
      BY <3>1, <3>2
  <2>3. \A t \in Threads : t # password => workers'[t] = workers[t]
    BY <1>1, <2>1
  <2>4. QED
    BY <1>1, <1>3, <2>2, <2>3, NoWorkerAssumption DEF Goes
<1>4. QED
  BY <1>2, <1>3

LEMMA ReadFrees ==
    ASSUME IInv, authEvents # <<>>
    PROVE  /\ AfterReading(Head(authEvents)) \in [Threads -> Worker \cup {None}]
           /\ \A t \in Threads : \/ AfterReading(Head(authEvents))[t] = workers[t]
                                 \/ AfterReading(Head(authEvents))[t] = None
           /\ Head(authEvents).thread \in Threads
           /\ Head(authEvents).event \in Outcomes
                 => AfterReading(Head(authEvents))[Head(authEvents).thread] = None
BY AfterReadingFacts, HeadFacts DEF IInv, AuthMessage

LEMMA EndedGoes ==
    ASSUME IInv, IInv', NEW pw \in BOOLEAN, NEW fp \in BOOLEAN, NEW handle,
           authEvents # <<>>, authEvents' = Tail(authEvents),
           StartTransactions(pw, fp, AfterReading(Head(authEvents)), handle)
    PROVE  LoopStep
BY ReadFrees, StartedGoes DEF LoopStep, Goes, Reaps

LEMMA LoopGoes ==
    ASSUME IInv, IInv', LoopReadsAuth
    PROVE  LoopStep
<1>1. CASE DropStaleMessage \/ PasswordSucceeds \/ FingerprintSucceeds \/ FingerprintUnavailable
  <2>1. Read
    BY <1>1 DEF DropStaleMessage, PasswordSucceeds, FingerprintSucceeds, FingerprintUnavailable,
       ReadAuth, Read
  <2>2. QED
    BY <2>1, ReadFrees DEF Read, LoopStep, Goes, Reaps
<1>2. CASE PasswordPrompts \/ FingerprintPrompts \/ FingerprintSpeaks
  <2>1. /\ authEvents # <<>> /\ authEvents' = Tail(authEvents)
        /\ Head(authEvents).event \notin Outcomes
        /\ workers' = workers \/ workers' = Answer(password)
    BY <1>2 DEF PasswordPrompts, FingerprintPrompts, FingerprintSpeaks, ReadAuth, Outcomes
  <2>2. QED
    BY <2>1, AnsweredGoes DEF LoopStep, Goes, Reaps
<1>3. CASE PasswordFails
  <2> DEFINE fp == StartsFingerprint(fingerprintAvailable, fingerprintRunning, 0)
  <2>1. /\ authEvents # <<>> /\ authEvents' = Tail(authEvents)
        /\ StartTransactions(passwordPrompted, fp, AfterReading(Head(authEvents)), None)
        /\ passwordPrompted \in BOOLEAN /\ fp \in BOOLEAN
    BY <1>3, StartsBoolean DEF PasswordFails, ReadAuth, IInv, Types
  <2> HIDE DEF fp
  <2>2. QED
    BY <2>1, EndedGoes
<1>4. CASE FingerprintFails
  <2> DEFINE fp == /\ fingerprintFailures' < FingerprintAttempts
                   /\ StartsFingerprint("yes", FALSE, fingerprintFailures')
  <2>1. /\ authEvents # <<>> /\ authEvents' = Tail(authEvents)
        /\ StartTransactions(FALSE, fp, AfterReading(Head(authEvents)), password)
    BY <1>4 DEF FingerprintFails, ReadAuth
  <2>2. fp \in BOOLEAN /\ FALSE \in BOOLEAN
    BY StartsBoolean
  <2> HIDE DEF fp
  <2>3. QED
    BY <2>1, <2>2, EndedGoes
<1>5. QED
  BY <1>1, <1>2, <1>3, <1>4 DEF LoopReadsAuth

LEMMA RequestGoes ==
    ASSUME IInv, IInv', Requests \/ SleepReleaseFires
    PROVE  LoopStep
<1>1. workers \in [Threads -> Worker \cup {None}]
  BY DEF IInv, Types
<1>2. ASSUME NEW authenticate \in BOOLEAN, LockSession(authenticate), authEvents' = authEvents
      PROVE  LoopStep
  <2> DEFINE fp == authenticate /\ StartsFingerprint(fingerprintAvailable, fingerprintRunning, 0)
  <2>1. StartTransactions(authenticate, fp, workers, None) /\ fp \in BOOLEAN
    BY <1>2, StartsBoolean DEF LockSession
  <2> HIDE DEF fp
  <2>2. QED
    BY <1>1, <1>2, <2>1, StartedGoes DEF LoopStep, Goes
<1>3. TRUE \in BOOLEAN /\ FALSE \in BOOLEAN /\ NeedsPassword \in BOOLEAN
  BY DEF NeedsPassword
<1>4. CASE LockRequested
  BY <1>2, <1>3, <1>4 DEF LockRequested
<1>5. CASE RespondToPrompt
  BY <1>5, AnsweredGoes DEF RespondToPrompt, LoopStep
<1>6. CASE RespondLater
  BY <1>1, <1>3, <1>6, StartedGoes DEF RespondLater, LoopStep, Goes
<1>7. CASE PrepareDraws
  BY <1>2, <1>3, <1>7 DEF PrepareDraws, LoopStep, Goes
<1>8. CASE Resumed
  <2> DEFINE fp == StartsFingerprint(fingerprintAvailable, fingerprintRunning, fingerprintFailures)
  <2>1. /\ authEvents' = authEvents /\ fp \in BOOLEAN
        /\ locked => StartTransactions(NeedsPassword, fp, workers, password)
        /\ ~locked => workers' = workers
    BY <1>8, StartsBoolean DEF Resumed
  <2> HIDE DEF fp
  <2>2. QED
    BY <1>1, <1>3, <2>1, StartedGoes DEF LoopStep, Goes
<1>9. CASE UnlockRequested \/ LockScreenShown \/ ReplayToShell \/ PrepareShown \/ SleepReleaseFires
  <2>1. UNCHANGED pamVars
    BY <1>9 DEF UnlockRequested, LockScreenShown, ReplayToShell, PrepareShown, SleepReleaseFires
  <2>2. QED
    BY <2>1 DEF pamVars, LoopStep, Goes
<1>10. QED
  BY <1>4, <1>5, <1>6, <1>7, <1>8, <1>9 DEF Requests

LEMMA ChannelFacts ==
    ASSUME IInv
    PROVE  /\ workers \in [Threads -> Worker \cup {None}] /\ authEvents \in Seq(AuthMessage)
           /\ Len(authEvents) \in Nat
BY DEF IInv, Types

LEMMA LoopReports ==
    ASSUME IInv, DoneReports, LoopStep
    PROVE  DoneReports'
<1> SUFFICES ASSUME NEW t \in Threads, workers'[t] # None, workers'[t].stage = "done"
             PROVE  \E i \in 1 .. Len(authEvents') :
                        authEvents'[i].thread = t /\ authEvents'[i].event \in Outcomes
  BY DEF DoneReports
<1>1. workers[t] # None /\ workers[t].stage = "done"
  BY DEF LoopStep, Goes
<1>2. PICK i \in 1 .. Len(authEvents) : authEvents[i].thread = t /\ authEvents[i].event \in Outcomes
  BY <1>1 DEF DoneReports
<1>3. CASE authEvents' = authEvents
  BY <1>2, <1>3
<1>4. CASE authEvents # <<>> /\ authEvents' = Tail(authEvents) /\ Reaps(Head(authEvents))
  <2>1. Head(authEvents) = authEvents[1] /\ Len(Tail(authEvents)) = Len(authEvents) - 1
    BY <1>4, HeadFacts DEF IInv
  <2>2. i # 1
    BY <1>2, <1>4, <2>1 DEF Reaps
  <2>3. i - 1 \in 1 .. Len(authEvents') /\ (i - 1) + 1 = i
    BY <1>4, <2>1, <2>2, ChannelFacts
  <2>4. authEvents'[i - 1] = authEvents[i]
    BY <1>4, <2>3, HeadFacts DEF IInv
  <2>5. QED
    BY <1>2, <2>3, <2>4
<1>5. QED
  BY <1>3, <1>4 DEF LoopStep

LEMMA WorkerReports ==
    ASSUME IInv, DoneReports, NEW t \in Threads, WorkerRuns(t)
    PROVE  DoneReports'
<1>1. /\ authEvents \in Seq(AuthMessage) /\ Len(authEvents) \in Nat
      /\ workers \in [Threads -> Worker \cup {None}] /\ workers[t] # None
  BY ChannelFacts DEF WorkerRuns, WorkerAsks, WorkerReceives, WorkerRefused, WorkerSpeaks,
     WorkerFinishes, WorkerStep
<1>2. workers[t] \in Worker
  BY <1>1
<1>3. ASSUME workers'[t].stage # "done", \A u \in Threads : u # t => workers'[u] = workers[u],
             authEvents' = authEvents \/ \E m : authEvents' = Append(authEvents, m)
      PROVE  DoneReports'
  <2>1. \A i \in 1 .. Len(authEvents) : i \in 1 .. Len(authEvents') /\ authEvents'[i] = authEvents[i]
    BY <1>1, <1>3
  <2>2. QED
    BY <1>3, <2>1 DEF DoneReports
<1>4. CASE WorkerAsks(t)
  BY <1>1, <1>2, <1>3, <1>4 DEF WorkerAsks, WorkerStep, Worker
<1>5. CASE WorkerReceives(t) \/ WorkerRefused(t)
  BY <1>1, <1>2, <1>3, <1>5 DEF WorkerReceives, WorkerRefused, WorkerStep, Worker
<1>6. CASE WorkerSpeaks(t)
  BY <1>1, <1>2, <1>3, <1>6 DEF WorkerSpeaks, WorkerStep, Worker
<1>7. ASSUME NEW outcome \in Outcomes, WorkerFinishes(t, outcome)
      PROVE  DoneReports'
  <2> DEFINE m == Says(t, outcome)
  <2>1. m.thread = t /\ m.event \in Outcomes
    BY DEF Says
  <2>2. authEvents' = Append(authEvents, m) /\ workers' = [workers EXCEPT ![t].stage = "done"]
    BY <1>7 DEF WorkerFinishes
  <2> HIDE DEF m
  <2>3. /\ \A i \in 1 .. Len(authEvents) : i \in 1 .. Len(authEvents') /\ authEvents'[i] = authEvents[i]
        /\ Len(authEvents') = Len(authEvents) + 1 /\ authEvents'[Len(authEvents')] = m
        /\ \A u \in Threads : u # t => workers'[u] = workers[u]
    BY <1>1, <2>2
  <2>4. Len(authEvents') \in 1 .. Len(authEvents')
    BY <1>1, <2>3
  <2>5. QED
    BY <2>1, <2>3, <2>4 DEF DoneReports
<1>8. QED
  BY <1>4, <1>5, <1>6, <1>7 DEF WorkerRuns

\* A worker that waits after a step of the loop waited before it, in the same lock.
LEMMA LoopWaits ==
    ASSUME IInv, IInv', LoopStep, LoopReadsAuth \/ Requests \/ SleepReleaseFires,
           NEW t \in Threads, Waits(t)'
    PROVE  /\ UNCHANGED lockVars /\ Waits(t) /\ workers'[t] = workers[t]
           /\ t = password /\ t = password'
<1>1. workers'[t] = workers[t]
  BY DEF LoopStep, Goes, Waits, TypedIn
<1>2. CASE UNCHANGED lockVars
  BY <1>1, <1>2 DEF lockVars, Waits, TypedIn, IInv, Handle
<1>3. CASE ~locked'
  BY <1>3 DEF Waits
<1>4. CASE generation' = generation + 1
  <2>1. workers[t].generation <= generation /\ generation \in Nat /\ workers[t].generation \in Nat
    BY <1>1, ChannelFacts DEF Waits, TypedIn, IInv, Tagged, TaggedThreads, Types, Worker
  <2>2. workers[t].generation = generation'
    BY <1>1 DEF Waits, TypedIn
  <2>3. QED
    BY <1>4, <2>1, <2>2
<1>5. UNCHANGED lockVars \/ ~locked' \/ generation' = generation + 1
  BY DEF LoopReadsAuth, DropStaleMessage, PasswordPrompts, PasswordSucceeds, PasswordFails,
     FingerprintPrompts, FingerprintSpeaks, FingerprintSucceeds, FingerprintUnavailable,
     FingerprintFails, Requests, LockRequested, UnlockRequested, RespondToPrompt, RespondLater,
     LockScreenShown, ReplayToShell, PrepareShown, PrepareDraws, Resumed, SleepReleaseFires,
     LockSession, UnlockSession
<1>6. QED
  BY <1>2, <1>3, <1>4, <1>5

\* A prompt that is shown stays so while its worker waits.
LEMMA PendingStays ==
    ASSUME IInv, IInv', Asked, pendingPrompt, LoopReadsAuth \/ Requests \/ SleepReleaseFires,
           NEW t \in Threads, Waits(t), UNCHANGED lockVars, workers'[t] = workers[t]
    PROVE  pendingPrompt'
<1>1. locked /\ t = password /\ password \in Threads
  BY DEF Waits, IInv, Handle
<1>2. ~NeedsPassword
  BY <1>1, NamesAssumption DEF NeedsPassword
<1>3. CASE PasswordPrompts
  BY <1>3 DEF PasswordPrompts
<1>4. CASE PasswordFails
  <2>1. authEvents # <<>> /\ ~Stale(Head(authEvents)) /\ Head(authEvents).source = "password"
        /\ Head(authEvents).event \in Outcomes
    BY <1>4 DEF PasswordFails, ReadAuth, Outcomes
  <2>2. TypedIn(workers, Head(authEvents).thread) /\ Head(authEvents).thread \in Threads
    BY <2>1, ResultFacts DEF TypedIn
  <2>3. Head(authEvents).thread = t
    BY <1>1, <2>2 DEF IInv, Handle
  <2>4. workers[t].stage = "done"
    BY <2>1, <2>3, HeadFacts DEF IInv, Reported, ReportedIn
  <2>5. QED
    BY <2>4 DEF Waits
<1>5. CASE RespondToPrompt
  <2>1. workers'[t].answered
    BY <1>1, <1>5, AnsweredGoes DEF RespondToPrompt
  <2>2. QED
    BY <2>1 DEF Waits
<1>6. CASE PasswordSucceeds \/ FingerprintSucceeds \/ UnlockRequested \/ LockRequested
  BY <1>1, <1>6 DEF PasswordSucceeds, FingerprintSucceeds, UnlockRequested, LockRequested,
     UnlockSession, LockSession, lockVars
<1>7. CASE Resumed
  BY <1>1, <1>2, <1>7 DEF Resumed
<1>8. CASE DropStaleMessage \/ FingerprintPrompts \/ FingerprintSpeaks \/ FingerprintUnavailable
           \/ FingerprintFails
  BY <1>8 DEF DropStaleMessage, FingerprintPrompts, FingerprintSpeaks, FingerprintUnavailable,
     FingerprintFails, promptVars
<1>9. CASE RespondLater \/ LockScreenShown \/ ReplayToShell \/ PrepareShown \/ PrepareDraws
           \/ SleepReleaseFires
  BY <1>1, <1>9 DEF RespondLater, LockScreenShown, ReplayToShell, PrepareShown, PrepareDraws,
     SleepReleaseFires, promptVars
<1>10. QED
  BY <1>3, <1>4, <1>5, <1>6, <1>7, <1>8, <1>9 DEF LoopReadsAuth, Requests

\* A prompt that is read is shown, or answered at once.
LEMMA PromptShown ==
    ASSUME IInv, IInv', LoopStep, LoopReadsAuth, authEvents # <<>>, Unread(1),
           NEW t \in Threads, Waits(t)', authEvents[1].thread = t
    PROVE  pendingPrompt'
<1>1. /\ locked /\ Head(authEvents) = authEvents[1] /\ ~Stale(Head(authEvents))
      /\ authEvents[1].source = "password" /\ authEvents[1].event = "prompt"
  BY HeadFacts DEF Unread, Stale, IInv
<1>2. PasswordPrompts
  BY <1>1 DEF LoopReadsAuth, DropStaleMessage, PasswordSucceeds, PasswordFails, FingerprintPrompts,
     FingerprintSpeaks, FingerprintSucceeds, FingerprintUnavailable, FingerprintFails, ReadAuth
<1>3. CASE queuedResponse
  <2>1. t = password
    BY LoopWaits
  <2>2. workers'[t].answered
    BY <1>2, <1>3, <2>1, AnsweredGoes DEF PasswordPrompts
  <2>3. QED
    BY <2>2 DEF Waits
<1>4. CASE ~queuedResponse
  BY <1>2, <1>4 DEF PasswordPrompts
<1>5. QED
  BY <1>3, <1>4

LEMMA LoopPrompts ==
    ASSUME IInv, IInv', Asked, PromptSomewhere, LoopReadsAuth \/ Requests \/ SleepReleaseFires
    PROVE  PromptSomewhere'
<1>0. LoopStep
  BY LoopGoes, RequestGoes
<1> SUFFICES ASSUME NEW t \in Threads, Waits(t)', ~pendingPrompt'
             PROVE  \E i \in 1 .. Len(authEvents') : Unread(i)' /\ authEvents'[i].thread = t
  BY DEF PromptSomewhere
<1>1. UNCHANGED lockVars /\ Waits(t) /\ workers'[t] = workers[t]
  BY <1>0, LoopWaits
<1>2. ~pendingPrompt
  BY <1>1, PendingStays
<1>3. PICK i \in 1 .. Len(authEvents) : Unread(i) /\ authEvents[i].thread = t
  BY <1>1, <1>2 DEF PromptSomewhere
<1>4. CASE authEvents' = authEvents
  BY <1>1, <1>3, <1>4 DEF Unread, lockVars
<1>5. CASE authEvents # <<>> /\ authEvents' = Tail(authEvents) /\ authEvents' # authEvents
  <2>1. LoopReadsAuth
    <3>1. ~(LockRequested \/ UnlockRequested \/ RespondToPrompt \/ RespondLater)
      BY <1>5 DEF LockRequested, UnlockRequested, RespondToPrompt, RespondLater, pamVars
    <3>2. ~(LockScreenShown \/ ReplayToShell \/ PrepareShown \/ PrepareDraws)
      BY <1>5 DEF LockScreenShown, ReplayToShell, PrepareShown, PrepareDraws, pamVars
    <3>3. ~(Resumed \/ SleepReleaseFires)
      BY <1>5 DEF Resumed, SleepReleaseFires, pamVars
    <3>4. QED
      BY <3>1, <3>2, <3>3 DEF Requests
  <2>2. i # 1
    BY <1>0, <1>3, <1>5, <2>1, PromptShown
  <2>3. Len(authEvents') = Len(authEvents) - 1 /\ Len(authEvents) \in Nat
    BY <1>5, HeadFacts DEF IInv
  <2>4. i - 1 \in 1 .. Len(authEvents') /\ (i - 1) + 1 = i
    BY <2>2, <2>3
  <2>5. authEvents'[i - 1] = authEvents[i]
    BY <1>5, <2>4, HeadFacts DEF IInv
  <2>6. Unread(i - 1)'
    BY <1>1, <1>3, <2>5 DEF Unread, lockVars
  <2>7. QED
    BY <1>3, <2>4, <2>5, <2>6
<1>6. QED
  BY <1>0, <1>4, <1>5 DEF LoopStep

\* The prompt of a worker that begins to wait is in the channel.
LEMMA WorkerPrompts ==
    ASSUME IInv, PromptSomewhere, NEW t \in Threads, WorkerRuns(t)
    PROVE  PromptSomewhere'
<1>1. /\ authEvents \in Seq(AuthMessage) /\ Len(authEvents) \in Nat
      /\ workers \in [Threads -> Worker \cup {None}] /\ workers[t] # None
      /\ UNCHANGED <<lockVars, promptVars>>
  BY ChannelFacts DEF WorkerRuns, WorkerAsks, WorkerReceives, WorkerRefused, WorkerSpeaks,
     WorkerFinishes, WorkerStep
<1>2. workers[t] \in Worker
  BY <1>1
<1>3. /\ \A u \in Threads : u # t => workers'[u] = workers[u]
      /\ authEvents' = authEvents \/ \E m : authEvents' = Append(authEvents, m)
  <2>1. CASE WorkerAsks(t) \/ WorkerSpeaks(t)
    BY <1>1, <2>1 DEF WorkerAsks, WorkerSpeaks
  <2>2. CASE WorkerReceives(t) \/ WorkerRefused(t)
    BY <1>1, <2>2 DEF WorkerReceives, WorkerRefused
  <2>3. CASE \E outcome \in Outcomes : WorkerFinishes(t, outcome)
    BY <1>1, <2>3 DEF WorkerFinishes
  <2>4. QED
    BY <2>1, <2>2, <2>3 DEF WorkerRuns
<1>4. \A i \in 1 .. Len(authEvents) : i \in 1 .. Len(authEvents') /\ authEvents'[i] = authEvents[i]
  BY <1>1, <1>3
<1>5. \A u \in Threads : u # t /\ Waits(u)' => Waits(u)
  BY <1>1, <1>3 DEF Waits, TypedIn, lockVars
<1>6. CASE ~Waits(t)'
  <2> SUFFICES ASSUME NEW u \in Threads, Waits(u)', ~pendingPrompt'
               PROVE  \E i \in 1 .. Len(authEvents') : Unread(i)' /\ authEvents'[i].thread = u
    BY DEF PromptSomewhere
  <2>1. Waits(u) /\ ~pendingPrompt
    BY <1>1, <1>5, <1>6 DEF promptVars
  <2>2. PICK i \in 1 .. Len(authEvents) : Unread(i) /\ authEvents[i].thread = u
    BY <2>1 DEF PromptSomewhere
  <2>3. QED
    BY <1>1, <1>4, <2>2 DEF Unread, lockVars
<1>7. CASE Waits(t)'
  <2>1. WorkerAsks(t)
    <3>1. ~WorkerReceives(t) /\ ~WorkerRefused(t)
      BY <1>1, <1>2, <1>7 DEF WorkerReceives, WorkerRefused, Waits, Worker
    <3>2. ~WorkerSpeaks(t)
      BY <1>1, <1>2, <1>7 DEF WorkerSpeaks, WorkerStep, Waits, Worker
    <3>3. \A outcome \in Outcomes : ~WorkerFinishes(t, outcome)
      BY <1>1, <1>2, <1>7 DEF WorkerFinishes, Waits, Worker
    <3>4. QED
      BY <3>1, <3>2, <3>3 DEF WorkerRuns
  <2> DEFINE m == Says(t, "prompt")
  <2>2. authEvents' = Append(authEvents, m) /\ workers' = [workers EXCEPT ![t].stage = "asking"]
    BY <2>1 DEF WorkerAsks
  <2>3. /\ m.thread = t /\ m.event = "prompt"
        /\ m.source = workers[t].source /\ m.generation = workers[t].generation
    BY DEF Says
  <2>4. workers'[t].source = workers[t].source /\ workers'[t].generation = workers[t].generation
    BY <1>1, <1>2, <2>2 DEF Worker
  <2> HIDE DEF m
  <2>5. authEvents'[Len(authEvents')] = m /\ Len(authEvents') \in 1 .. Len(authEvents')
    BY <1>1, <2>2
  <2>6. PICK i \in 1 .. Len(authEvents') : authEvents'[i] = m
    BY <2>5
  <2>7. Unread(i)' /\ authEvents'[i].thread = t
    <3>1. /\ locked' /\ workers'[t].source = "password" /\ workers'[t].generation = generation'
      BY <1>7 DEF Waits, TypedIn
    <3>2. m.source = "password" /\ m.event = "prompt" /\ m.generation = generation'
      BY <2>3, <2>4, <3>1
    <3>3. QED
      BY <2>3, <2>6, <3>1, <3>2 DEF Unread
  <2> SUFFICES ASSUME NEW u \in Threads, Waits(u)', ~pendingPrompt', u # t
               PROVE  \E j \in 1 .. Len(authEvents') : Unread(j)' /\ authEvents'[j].thread = u
    BY <2>7 DEF PromptSomewhere
  <2>8. Waits(u) /\ ~pendingPrompt
    BY <1>1, <1>5 DEF promptVars
  <2>9. PICK j \in 1 .. Len(authEvents) : Unread(j) /\ authEvents[j].thread = u
    BY <2>8 DEF PromptSomewhere
  <2>10. QED
    BY <1>1, <1>4, <2>9 DEF Unread, lockVars
<1>8. QED
  BY <1>6, <1>7

LEMMA NextUnderWay ==
    ASSUME IInv, IInv', Asked, UnderWay, [Next]_vars
    PROVE  UnderWay'
<1> USE DEF UnderWay
<1>1. QueuedHeld' /\ MessageOfLock'
  BY QueuedKept
<1>2. CASE LoopReadsAuth \/ Requests \/ SleepReleaseFires
  BY <1>1, <1>2, LoopGoes, RequestGoes, LoopReports, LoopPrompts
<1>3. CASE Workers
  BY <1>1, <1>3, WorkerReports, WorkerPrompts DEF Workers
<1>4. CASE Clients \/ UNCHANGED vars
  <2>1. UNCHANGED <<lockVars, promptVars, pamVars>>
    BY <1>4, ClientsFrame DEF vars
  <2>2. QED
    BY <1>1, <2>1 DEF DoneReports, PromptSomewhere, Waits, TypedIn, Unread, lockVars, promptVars, pamVars
<1>5. QED
  BY <1>2, <1>3, <1>4 DEF Next

----------------------------------------------------------------------------
(* What a queue of messages holds after one was read, or some were sent *)

\* The messages `es` come after those of `seq` in `new`.
Follow(seq, es, new, kinds) ==
    /\ SomeIn(new, kinds) <=> SomeIn(seq, kinds) \/ SomeIn(es, kinds)
    /\ \A i \in 1 .. Len(new) : LastIn(new, i, kinds) =>
          \/ \E j \in 1 .. Len(es) : LastIn(es, j, kinds) /\ new[i] = es[j]
          \/ /\ ~SomeIn(es, kinds) /\ i \in 1 .. Len(seq)
             /\ LastIn(seq, i, kinds) /\ new[i] = seq[i]

LEMMA Sent ==
    ASSUME NEW S, NEW seq \in Seq(S), NEW es \in Seq(S), NEW new, new = seq \o es, NEW kinds
    PROVE  Follow(seq, es, new, kinds)
<1> DEFINE n == Len(seq)
<1>1. /\ new \in Seq(S) /\ n \in Nat /\ Len(es) \in Nat /\ Len(new) = n + Len(es)
      /\ \A i \in 1 .. n : new[i] = seq[i]
      /\ \A j \in 1 .. Len(es) : new[n + j] = es[j]
  OBVIOUS
<1>2. \A i \in 1 .. n : i \in 1 .. Len(new) /\ (OfKind(seq, i, kinds) <=> OfKind(new, i, kinds))
  BY <1>1 DEF OfKind
<1>3. \A j \in 1 .. Len(es) : n + j \in 1 .. Len(new) /\ (OfKind(es, j, kinds) <=> OfKind(new, n + j, kinds))
  BY <1>1 DEF OfKind
<1>4. \A i \in 1 .. Len(new) : i \in 1 .. n \/ \E j \in 1 .. Len(es) : i = n + j
  <2> SUFFICES ASSUME NEW i \in 1 .. Len(new), i \notin 1 .. n
               PROVE  \E j \in 1 .. Len(es) : i = n + j
    OBVIOUS
  <2>1. i - n \in 1 .. Len(es) /\ i = n + (i - n)
    BY <1>1
  <2>2. QED
    BY <2>1
<1> HIDE DEF n
<1>5. SomeIn(new, kinds) <=> SomeIn(seq, kinds) \/ SomeIn(es, kinds)
  BY <1>2, <1>3, <1>4 DEF SomeIn, n
<1>6. ASSUME NEW i \in 1 .. Len(new), LastIn(new, i, kinds)
      PROVE  \/ \E j \in 1 .. Len(es) : LastIn(es, j, kinds) /\ new[i] = es[j]
             \/ /\ ~SomeIn(es, kinds) /\ i \in 1 .. Len(seq)
                /\ LastIn(seq, i, kinds) /\ new[i] = seq[i]
  <2>1. CASE i \in 1 .. n
    <3>1. OfKind(seq, i, kinds) /\ new[i] = seq[i]
      BY <1>1, <1>2, <1>6, <2>1 DEF LastIn
    <3>2. \A j \in 1 .. Len(seq) : OfKind(seq, j, kinds) => j <= i
      BY <1>2, <1>6 DEF LastIn, n
    <3>3. ~SomeIn(es, kinds)
      <4> SUFFICES ASSUME NEW j \in 1 .. Len(es), OfKind(es, j, kinds) PROVE FALSE
        BY DEF SomeIn
      <4>1. n + j <= i
        BY <1>3, <1>6 DEF LastIn
      <4>2. QED
        BY <1>1, <2>1, <4>1
    <3>4. QED
      BY <2>1, <3>1, <3>2, <3>3 DEF LastIn, n
  <2>2. ASSUME NEW j \in 1 .. Len(es), i = n + j
        PROVE  LastIn(es, j, kinds) /\ new[i] = es[j]
    <3>1. OfKind(es, j, kinds) /\ new[i] = es[j]
      BY <1>1, <1>3, <1>6, <2>2 DEF LastIn
    <3>2. ASSUME NEW k \in 1 .. Len(es), OfKind(es, k, kinds) PROVE k <= j
      <4>1. n + k <= n + j
        BY <1>3, <1>6, <2>2, <3>2 DEF LastIn
      <4>2. QED
        BY <1>1, <4>1
    <3>3. QED
      BY <3>1, <3>2 DEF LastIn
  <2>3. QED
    BY <1>4, <2>1, <2>2
<1>7. QED
  BY <1>5, <1>6 DEF Follow

\* The message m is read off `seq`, and `rest` is left.
Leaves(seq, m, rest, kinds) ==
    /\ \A i \in 1 .. Len(rest) : LastIn(rest, i, kinds) =>
          /\ i + 1 \in 1 .. Len(seq)
          /\ LastIn(seq, i + 1, kinds) /\ rest[i] = seq[i + 1]
    /\ m.kind \notin kinds => (SomeIn(seq, kinds) => SomeIn(rest, kinds))
    /\ m.kind \in kinds /\ ~SomeIn(rest, kinds) =>
          1 \in 1 .. Len(seq) /\ LastIn(seq, 1, kinds) /\ m = seq[1]

LEMMA ReadFirst ==
    ASSUME NEW S, NEW seq \in Seq(S), seq # <<>>, NEW kinds
    PROVE  Leaves(seq, Head(seq), Tail(seq), kinds)
<1> DEFINE new == Tail(seq)
<1>1. /\ new \in Seq(S) /\ Head(seq) = seq[1] /\ Head(seq) \in S
      /\ Len(seq) \in Nat \ {0} /\ Len(new) = Len(seq) - 1
      /\ \A i \in 1 .. Len(new) : i + 1 \in 1 .. Len(seq) /\ new[i] = seq[i + 1]
  OBVIOUS
<1> HIDE DEF new
<1>2. \A i \in 1 .. Len(new) : OfKind(new, i, kinds) <=> OfKind(seq, i + 1, kinds)
  BY <1>1 DEF OfKind
<1>3. \A i \in 1 .. Len(seq) : i = 1 \/ \E j \in 1 .. Len(new) : i = j + 1
  <2> SUFFICES ASSUME NEW i \in 1 .. Len(seq), i # 1 PROVE \E j \in 1 .. Len(new) : i = j + 1
    OBVIOUS
  <2>1. i - 1 \in 1 .. Len(new) /\ i = (i - 1) + 1
    BY <1>1
  <2>2. QED
    BY <2>1
<1>4. OfKind(seq, 1, kinds) <=> Head(seq).kind \in kinds
  BY <1>1 DEF OfKind
<1>5. ASSUME NEW i \in 1 .. Len(new), LastIn(new, i, kinds)
      PROVE  i + 1 \in 1 .. Len(seq) /\ LastIn(seq, i + 1, kinds) /\ new[i] = seq[i + 1]
  <2>1. OfKind(seq, i + 1, kinds)
    BY <1>2, <1>5 DEF LastIn
  <2>2. ASSUME NEW k \in 1 .. Len(seq), OfKind(seq, k, kinds) PROVE k <= i + 1
    <3>1. CASE k = 1
      BY <3>1
    <3>2. ASSUME NEW j \in 1 .. Len(new), k = j + 1 PROVE k <= i + 1
      <4>1. j <= i
        BY <1>2, <1>5, <2>2, <3>2 DEF LastIn
      <4>2. QED
        BY <3>2, <4>1
    <3>3. QED
      BY <1>3, <3>1, <3>2
  <2>3. QED
    BY <1>1, <2>1, <2>2 DEF LastIn
<1>6. SomeIn(seq, kinds) <=> Head(seq).kind \in kinds \/ SomeIn(new, kinds)
  <2>1. 1 \in 1 .. Len(seq)
    BY <1>1
  <2>2. QED
    BY <1>1, <1>2, <1>3, <1>4, <2>1 DEF SomeIn
<1>7. ASSUME Head(seq).kind \in kinds, ~SomeIn(new, kinds)
      PROVE  1 \in 1 .. Len(seq) /\ LastIn(seq, 1, kinds) /\ Head(seq) = seq[1]
  <2>1. \A k \in 1 .. Len(seq) : OfKind(seq, k, kinds) => k = 1
    BY <1>2, <1>3, <1>7 DEF SomeIn
  <2>2. 1 \in 1 .. Len(seq)
    BY <1>1
  <2>3. QED
    BY <1>1, <1>4, <1>7, <2>1, <2>2 DEF LastIn
<1>8. QED
  BY <1>5, <1>6, <1>7 DEF new, Leaves

----------------------------------------------------------------------------
(* What the loop sends *)

MessageKinds == {"state", "prompt", "failed", "notice", "unavailable"}

\* The messages es tell the shell what the step changes.
Telling(es) ==
    /\ \A j \in 1 .. Len(es) : OfKind(es, j, Announces) => es[j].locked = locked'
    /\ \A j \in 1 .. Len(es) :
          LastIn(es, j, Notices) => (es[j].kind = "notice" <=> fingerprintMessage')
    /\ SomeIn(es, Announces) \/ locked' = locked
    /\ SomeIn(es, Notices) \/ fingerprintMessage' = fingerprintMessage
    /\ \/ SomeIn(es, Frees)
       \/ password # None /\ ~pendingPrompt => password' # None /\ ~pendingPrompt'
Tells == \E es \in Seq(ShellMessage) : toShell' = toShell \o es /\ Telling(es)

\* They also make good what reading a request takes away.
Answers == \E es \in Seq(ShellMessage) :
    /\ toShell' = toShell \o es /\ Telling(es)
    /\ Reloaded => Reloaded' \/ SomeIn(es, Announces)
    /\ \/ InTransit("respond") => InTransit("respond")'
       \/ ~locked
       \/ password' # None /\ ~pendingPrompt'

LEMMA AnswersKeep ==
    ASSUME ScreenInv, locked' \in BOOLEAN, UNCHANGED shell, fromShell' \in Seq(ShellRequest), Answers
    PROVE  ScreenInv'
<1>1. PICK es \in Seq(ShellMessage) :
         /\ toShell' = toShell \o es /\ Telling(es)
         /\ Reloaded => Reloaded' \/ SomeIn(es, Announces)
         /\ \/ InTransit("respond") => InTransit("respond")'
            \/ ~locked
            \/ password' # None /\ ~pendingPrompt'
  BY DEF Answers
<1>2. toShell \in Seq(ShellMessage)
  BY DEF ScreenInv, ScreenTypes
<1>3. /\ toShell' \in Seq(ShellMessage)
      /\ \A kinds : Follow(toShell, es, toShell', kinds)
  <2>1. ASSUME NEW new, new = toShell \o es, NEW kinds
        PROVE  Follow(toShell, es, new, kinds)
    BY <1>2, <2>1, Sent
  <2>2. toShell' \in Seq(ShellMessage)
    BY <1>1, <1>2
  <2>3. QED
    BY <1>1, <2>1, <2>2
<1>4. ScreenTypes'
  BY <1>3 DEF ScreenInv, ScreenTypes
<1>5. ASSUME ~Reloaded' PROVE LockTold' /\ NoticeTold'
  <2>1. SomeIn(es, Announces) \/ (LockTold /\ locked' = locked)
    BY <1>1, <1>5 DEF Telling, ScreenInv
  <2>2. SomeIn(es, Notices) \/ (NoticeTold /\ fingerprintMessage' = fingerprintMessage)
    <3>1. SomeIn(es, Announces) => SomeIn(es, Notices)
      BY DEF SomeIn, OfKind, Announces, Notices
    <3>2. QED
      BY <1>1, <1>5, <3>1 DEF Telling, ScreenInv
  <2>3. LockTold'
    <3>1. ASSUME NEW i \in 1 .. Len(toShell'), LastIn(toShell', i, Announces)
          PROVE  toShell'[i].locked = locked'
      <4>1. CASE \E j \in 1 .. Len(es) : LastIn(es, j, Announces) /\ toShell'[i] = es[j]
        BY <1>1, <4>1 DEF Telling, LastIn
      <4>2. CASE /\ ~SomeIn(es, Announces) /\ i \in 1 .. Len(toShell)
                 /\ LastIn(toShell, i, Announces) /\ toShell'[i] = toShell[i]
        BY <2>1, <4>2 DEF LockTold
      <4>3. QED
        BY <1>3, <3>1, <4>1, <4>2 DEF Follow
    <3>2. ASSUME ~SomeIn(toShell', Announces) PROVE shell'.locked = locked'
      <4>1. ~SomeIn(toShell, Announces) /\ ~SomeIn(es, Announces)
        BY <1>3, <3>2 DEF Follow
      <4>2. QED
        BY <2>1, <4>1 DEF LockTold
    <3>3. QED
      BY <3>1, <3>2 DEF LockTold
  <2>4. NoticeTold'
    <3>1. ASSUME NEW i \in 1 .. Len(toShell'), LastIn(toShell', i, Notices)
          PROVE  toShell'[i].kind = "notice" <=> fingerprintMessage'
      <4>1. CASE \E j \in 1 .. Len(es) : LastIn(es, j, Notices) /\ toShell'[i] = es[j]
        BY <1>1, <4>1 DEF Telling
      <4>2. CASE /\ ~SomeIn(es, Notices) /\ i \in 1 .. Len(toShell)
                 /\ LastIn(toShell, i, Notices) /\ toShell'[i] = toShell[i]
        BY <2>2, <4>2 DEF NoticeTold
      <4>3. QED
        BY <1>3, <3>1, <4>1, <4>2 DEF Follow
    <3>2. ASSUME ~SomeIn(toShell', Notices) PROVE shell'.notice = fingerprintMessage'
      <4>1. ~SomeIn(toShell, Notices) /\ ~SomeIn(es, Notices)
        BY <1>3, <3>2 DEF Follow
      <4>2. QED
        BY <2>2, <4>1 DEF NoticeTold
    <3>3. QED
      BY <3>1, <3>2 DEF NoticeTold
  <2>5. QED
    BY <2>3, <2>4
<1>6. CheckingSettles'
  <2> SUFFICES ASSUME shell.checking, ~SomeIn(toShell', Frees), ~InTransit("respond")'
               PROVE  password' # None /\ ~pendingPrompt'
    BY DEF CheckingSettles
  <2>1. ~SomeIn(toShell, Frees) /\ ~SomeIn(es, Frees)
    BY <1>3 DEF Follow
  <2>2. InTransit("respond") \/ (password # None /\ ~pendingPrompt)
    <3>1. CheckingSettles
      BY DEF ScreenInv
    <3>2. QED
      BY <2>1, <3>1 DEF CheckingSettles
  <2>3. locked
    <3>1. ~SomeIn(toShell, Announces)
      BY <2>1 DEF SomeIn, OfKind, Announces, Frees
    <3>2. shell.locked
      BY DEF ScreenInv, ScreenTypes
    <3>3. CASE Reloaded
      BY <3>3 DEF Reloaded
    <3>4. CASE ~Reloaded
      BY <3>1, <3>2, <3>4 DEF ScreenInv, LockTold
    <3>5. QED
      BY <3>3, <3>4
  <2>4. QED
    BY <1>1, <2>1, <2>2, <2>3 DEF Telling
<1>7. QED
  BY <1>4, <1>5, <1>6 DEF ScreenInv

LEMMA ListOf ==
    ASSUME NEW S, NEW n \in Nat, NEW f \in [1 .. n -> S]
    PROVE  f \in Seq(S) /\ Len(f) = n
OBVIOUS

LEMMA Lists ==
    ASSUME NEW a, NEW b, NEW c
    PROVE  /\ (<<a>> \o <<>>) \o <<>> = <<a>> /\ (<<a>> \o <<b>>) \o <<>> = <<a, b>>
           /\ (<<a>> \o <<>>) \o <<c>> = <<a, c>> /\ (<<a>> \o <<b>>) \o <<c>> = <<a, b, c>>
<1> DEFINE S == {a, b, c}
<1>1. /\ <<a>> \in Seq(S) /\ <<b>> \in Seq(S) /\ <<c>> \in Seq(S)
      /\ <<a, b>> \in Seq(S) /\ <<a, c>> \in Seq(S) /\ <<a, b, c>> \in Seq(S)
  OBVIOUS
<1> HIDE DEF S
<1>2. ASSUME NEW s \in Seq(S), NEW t \in Seq(S), NEW u \in Seq(S), Len(u) = Len(s) + Len(t),
             \A i \in 1 .. Len(u) : u[i] = IF i <= Len(s) THEN s[i] ELSE t[i - Len(s)]
      PROVE  s \o t = u
  BY <1>2, ConcatProperties, SeqEqual
<1>3. <<a>> \o <<>> = <<a>> /\ <<a, b>> \o <<>> = <<a, b>>
  BY <1>1, ConcatEmptySeq
<1>4. <<a>> \o <<b>> = <<a, b>>
  <2>1. /\ Len(<<a, b>>) = Len(<<a>>) + Len(<<b>>)
        /\ \A i \in 1 .. Len(<<a, b>>) :
              <<a, b>>[i] = IF i <= Len(<<a>>) THEN <<a>>[i] ELSE <<b>>[i - Len(<<a>>)]
    OBVIOUS
  <2>2. QED
    BY <1>1, <1>2, <2>1
<1>5. <<a>> \o <<c>> = <<a, c>>
  <2>1. /\ Len(<<a, c>>) = Len(<<a>>) + Len(<<c>>)
        /\ \A i \in 1 .. Len(<<a, c>>) :
              <<a, c>>[i] = IF i <= Len(<<a>>) THEN <<a>>[i] ELSE <<c>>[i - Len(<<a>>)]
    OBVIOUS
  <2>2. QED
    BY <1>1, <1>2, <2>1
<1>6. <<a, b>> \o <<c>> = <<a, b, c>>
  <2>1. /\ Len(<<a, b, c>>) = Len(<<a, b>>) + Len(<<c>>)
        /\ \A i \in 1 .. Len(<<a, b, c>>) :
              <<a, b, c>>[i] = IF i <= Len(<<a, b>>) THEN <<a, b>>[i] ELSE <<c>>[i - Len(<<a, b>>)]
    OBVIOUS
  <2>2. QED
    BY <1>1, <1>2, <2>1
<1>7. QED
  BY <1>3, <1>4, <1>5, <1>6

\* A list of kinds of send_auth_message tells the shell the same.
LEMMA TellsKinds ==
    ASSUME ScreenTypes, generation \in Nat, NEW kinds \in Seq(MessageKinds), Tell(kinds),
           \A j \in 1 .. Len(kinds) : kinds[j] = "state" => locked' = TRUE,
           \A j \in 1 .. Len(kinds) :
              kinds[j] \in Notices /\ (\A k \in 1 .. Len(kinds) : kinds[k] \in Notices => k <= j)
                 => (kinds[j] = "notice" <=> fingerprintMessage'),
           (\E j \in 1 .. Len(kinds) : kinds[j] = "state") \/ locked' = locked,
           \/ \E j \in 1 .. Len(kinds) : kinds[j] \in Notices
           \/ fingerprintMessage' = fingerprintMessage,
           \/ \E j \in 1 .. Len(kinds) : kinds[j] \in Frees
           \/ password # None /\ ~pendingPrompt => password' # None /\ ~pendingPrompt'
    PROVE  \E es \in Seq(ShellMessage) :
              /\ toShell' = toShell \o es /\ Telling(es)
              /\ (\E j \in 1 .. Len(kinds) : kinds[j] = "state") => SomeIn(es, Announces)
<1> DEFINE es == [i \in DOMAIN kinds |-> Message(kinds[i], TRUE, generation)]
<1>1. toShell' = toShell \o es
  BY DEF Tell
<1>2. es \in Seq(ShellMessage) /\ Len(es) = Len(kinds) /\ Len(kinds) \in Nat
  <2>1. Len(kinds) \in Nat /\ DOMAIN kinds = 1 .. Len(kinds)
    OBVIOUS
  <2>2. \A i \in 1 .. Len(kinds) : Message(kinds[i], TRUE, generation) \in ShellMessage
    BY DEF Message, ShellMessage, MessageKinds
  <2>3. es = [i \in 1 .. Len(kinds) |-> Message(kinds[i], TRUE, generation)]
    BY <2>1
  <2>4. es \in [1 .. Len(kinds) -> ShellMessage]
    BY <2>2, <2>3
  <2> HIDE DEF es
  <2>5. QED
    BY <2>1, <2>4, ListOf
<1>3. \A i \in 1 .. Len(kinds) : es[i].kind = kinds[i] /\ es[i].locked = TRUE
  BY DEF Message
<1> HIDE DEF es
<1>4. \A S, j : OfKind(es, j, S) <=> j \in 1 .. Len(kinds) /\ kinds[j] \in S
  BY <1>2, <1>3 DEF OfKind
<1>5. \A S : SomeIn(es, S) <=> \E j \in 1 .. Len(kinds) : kinds[j] \in S
  BY <1>2, <1>4 DEF SomeIn
<1>6. \A S : \A j \in 1 .. Len(es) : LastIn(es, j, S) <=>
         kinds[j] \in S /\ \A k \in 1 .. Len(kinds) : kinds[k] \in S => k <= j
  BY <1>2, <1>4 DEF LastIn
<1>7. Telling(es)
  <2>1. \A j \in 1 .. Len(es) : OfKind(es, j, Announces) => es[j].locked = locked'
    <3> SUFFICES ASSUME NEW j \in 1 .. Len(es), OfKind(es, j, Announces) PROVE es[j].locked = locked'
      OBVIOUS
    <3>1. j \in 1 .. Len(kinds) /\ kinds[j] = "state"
      BY <1>4 DEF Announces
    <3>2. QED
      BY <1>3, <3>1
  <2>2. \A j \in 1 .. Len(es) : LastIn(es, j, Notices) => (es[j].kind = "notice" <=> fingerprintMessage')
    BY <1>2, <1>3, <1>6
  <2>3. SomeIn(es, Announces) \/ locked' = locked
    BY <1>5 DEF Announces
  <2>4. SomeIn(es, Notices) \/ fingerprintMessage' = fingerprintMessage
    BY <1>5
  <2>5. \/ SomeIn(es, Frees)
        \/ password # None /\ ~pendingPrompt => password' # None /\ ~pendingPrompt'
    BY <1>5
  <2>6. QED
    BY <2>1, <2>2, <2>3, <2>4, <2>5 DEF Telling
<1>8. (\E j \in 1 .. Len(kinds) : kinds[j] = "state") => SomeIn(es, Announces)
  BY <1>5 DEF Announces
<1>9. QED
  BY <1>1, <1>2, <1>7, <1>8

\* Nothing is sent, when nothing the shell shows changes.
LEMMA TellsNothing ==
    ASSUME ScreenTypes, generation \in Nat, Tell(<<>>), locked' = locked,
           fingerprintMessage' = fingerprintMessage,
           password # None /\ ~pendingPrompt => password' # None /\ ~pendingPrompt'
    PROVE  Tells
<1>1. <<>> \in Seq(MessageKinds) /\ 1 .. Len(<<>>) = {}
  OBVIOUS
<1>2. QED
  BY <1>1, TellsKinds DEF Tells

\* One message is.
LEMMA TellsOne ==
    ASSUME ScreenTypes, generation \in Nat, NEW kind \in MessageKinds \ {"state"}, Tell(<<kind>>),
           locked' = locked,
           kind \in Notices => (kind = "notice" <=> fingerprintMessage'),
           kind \in Notices \/ fingerprintMessage' = fingerprintMessage,
           \/ kind \in Frees
           \/ password # None /\ ~pendingPrompt => password' # None /\ ~pendingPrompt'
    PROVE  Tells
<1> DEFINE kinds == <<kind>>
<1>1. kinds \in Seq(MessageKinds) /\ 1 .. Len(kinds) = {1} /\ kinds[1] = kind
  OBVIOUS
<1>2. Tell(kinds)
  OBVIOUS
<1> HIDE DEF kinds
<1>3. \A j \in 1 .. Len(kinds) : kinds[j] = kind
  BY <1>1
<1>4. \E j \in 1 .. Len(kinds) : kinds[j] = kind
  BY <1>1
<1>5. \A j \in 1 .. Len(kinds) : kinds[j] = "state" => locked' = TRUE
  BY <1>3
<1>6. QED
  BY <1>1, <1>2, <1>3, <1>4, <1>5, TellsKinds DEF Tells

\* The lock state is announced.
LEMMA TellsState ==
    ASSUME ScreenTypes, locked' \in BOOLEAN, generation' \in Nat, TellState, ~fingerprintMessage'
    PROVE  \E es \in Seq(ShellMessage) :
              toShell' = toShell \o es /\ Telling(es) /\ SomeIn(es, Announces)
<1> DEFINE m == Message("state", locked', generation')
<1>1. m \in ShellMessage /\ m.kind = "state" /\ m.locked = locked'
  BY DEF Message, ShellMessage
<1>2. toShell' = Append(toShell, m)
  BY DEF TellState
<1> HIDE DEF m
<1> DEFINE es == <<m>>
<1>3. toShell' = toShell \o es
  BY <1>1, <1>2 DEF ScreenTypes
<1>4. es \in Seq(ShellMessage) /\ 1 .. Len(es) = {1} /\ es[1] = m
  BY <1>1
<1> HIDE DEF es
<1>5. OfKind(es, 1, Announces) /\ OfKind(es, 1, Frees) /\ OfKind(es, 1, Notices)
  BY <1>1, <1>4 DEF OfKind, Announces, Frees, Notices
<1>6. Telling(es) /\ SomeIn(es, Announces)
  BY <1>1, <1>4, <1>5 DEF Telling, SomeIn
<1>7. QED
  BY <1>3, <1>4, <1>6

\* A reloaded shell is told the lock, the prompt that waits and the reader's message.
LEMMA TellsReplay ==
    ASSUME ScreenTypes, generation \in Nat, pendingPrompt \in BOOLEAN, fingerprintMessage \in BOOLEAN,
           Tell(Replay), locked = TRUE, locked' = TRUE, fingerprintMessage' = fingerprintMessage,
           UNCHANGED <<password, pendingPrompt>>
    PROVE  \E es \in Seq(ShellMessage) :
              toShell' = toShell \o es /\ Telling(es) /\ SomeIn(es, Announces)
<1> DEFINE kinds == Replay
           n == Len(kinds)
<1>1. /\ kinds \in Seq(MessageKinds) /\ n \in 1 .. 3 /\ kinds[1] = "state"
      /\ \A j \in 2 .. n : kinds[j] # "state"
      /\ fingerprintMessage <=> kinds[n] = "notice"
      /\ \A j \in 1 .. n : kinds[j] = "notice" => j = n
      /\ \A j \in 1 .. n : kinds[j] # "unavailable"
  <2>1. CASE ~pendingPrompt /\ ~fingerprintMessage
    <3>1. kinds = <<"state">>
      BY <2>1, Lists DEF Replay
    <3>2. QED
      BY <2>1, <3>1 DEF MessageKinds
  <2>2. CASE pendingPrompt /\ ~fingerprintMessage
    <3>1. kinds = <<"state", "prompt">>
      BY <2>2, Lists DEF Replay
    <3>2. QED
      BY <2>2, <3>1 DEF MessageKinds
  <2>3. CASE ~pendingPrompt /\ fingerprintMessage
    <3>1. kinds = <<"state", "notice">>
      BY <2>3, Lists DEF Replay
    <3>2. QED
      BY <2>3, <3>1 DEF MessageKinds
  <2>4. CASE pendingPrompt /\ fingerprintMessage
    <3>1. kinds = <<"state", "prompt", "notice">>
      BY <2>4, Lists DEF Replay
    <3>2. QED
      BY <2>4, <3>1 DEF MessageKinds
  <2>5. QED
    BY <2>1, <2>2, <2>3, <2>4
<1>2. Tell(kinds)
  OBVIOUS
<1> HIDE DEF kinds
<1>3. 1 \in 1 .. n /\ n \in 1 .. n /\ \A j \in 1 .. n : j = 1 \/ j \in 2 .. n
  BY <1>1
<1>4. ASSUME NEW j \in 1 .. n, kinds[j] \in Notices, \A k \in 1 .. n : kinds[k] \in Notices => k <= j
      PROVE  kinds[j] = "notice" <=> fingerprintMessage'
  <2>1. CASE fingerprintMessage
    <3>1. kinds[n] \in Notices
      BY <1>1, <2>1 DEF Notices
    <3>2. n <= j
      BY <1>3, <1>4, <3>1
    <3>3. j = n
      BY <1>1, <3>2
    <3>4. QED
      BY <1>1, <2>1, <3>3
  <2>2. CASE ~fingerprintMessage
    <3>1. kinds[j] # "notice"
      BY <1>1, <2>2
    <3>2. QED
      BY <2>2, <3>1
  <2>3. QED
    BY <2>1, <2>2
<1>5. \E j \in 1 .. n : kinds[j] = "state"
  BY <1>1, <1>3
<1>6. \E j \in 1 .. n : kinds[j] \in Notices
  BY <1>5 DEF Notices
<1>7. QED
  BY <1>1, <1>2, <1>4, <1>5, <1>6, TellsKinds

----------------------------------------------------------------------------
(* Each handler of the loop tells the shell what it changes *)

LEMMA ScreenFacts ==
    ASSUME IInv
    PROVE  /\ locked \in BOOLEAN /\ generation \in Nat
           /\ pendingPrompt \in BOOLEAN /\ fingerprintMessage \in BOOLEAN
BY DEF IInv, Types

LEMMA AuthTells ==
    ASSUME IInv, IInv', ScreenTypes, LoopTellsAuth
    PROVE  Tells
<1>1. /\ locked \in BOOLEAN /\ generation \in Nat /\ fingerprintMessage \in BOOLEAN
      /\ locked' \in BOOLEAN /\ generation' \in Nat /\ fingerprintMessage' \in BOOLEAN
  BY ScreenFacts DEF IInv, Types
<1>2. CASE (DropStaleMessage \/ FingerprintPrompts) /\ Tell(<<>>)
  BY <1>1, <1>2, TellsNothing
     DEF DropStaleMessage, FingerprintPrompts, lockVars, promptVars, fingerVars
<1>3. CASE PasswordPrompts /\ Tell(IF queuedResponse THEN <<>> ELSE <<"prompt">>)
  <2>1. /\ locked' = locked /\ fingerprintMessage' = fingerprintMessage /\ password' = password
        /\ queuedResponse => pendingPrompt' = pendingPrompt
    BY <1>3 DEF PasswordPrompts, lockVars, fingerVars
  <2>2. CASE queuedResponse
    BY <1>1, <1>3, <2>1, <2>2, TellsNothing
  <2>3. CASE ~queuedResponse
    <3>1. /\ "prompt" \in MessageKinds \ {"state"} /\ "prompt" \notin Notices
          /\ "prompt" \in Frees
      BY DEF MessageKinds, Notices, Frees
    <3>2. QED
      BY <1>1, <1>3, <2>1, <2>3, <3>1, TellsOne
  <2>4. QED
    BY <2>2, <2>3
<1>4. CASE (PasswordSucceeds \/ FingerprintSucceeds) /\ TellState
  <2>1. ~fingerprintMessage'
    BY <1>4 DEF PasswordSucceeds, FingerprintSucceeds, UnlockSession
  <2>2. QED
    BY <1>1, <1>4, <2>1, TellsState DEF Tells
<1>5. CASE PasswordFails /\ Tell(<<"failed">>)
  <2>1. locked' = locked /\ fingerprintMessage' = fingerprintMessage
    BY <1>5 DEF PasswordFails, lockVars
  <2>2. /\ "failed" \in MessageKinds \ {"state"} /\ "failed" \notin Notices
        /\ "failed" \in Frees
    BY DEF MessageKinds, Notices, Frees
  <2>3. QED
    BY <1>1, <1>5, <2>1, <2>2, TellsOne
<1>6. CASE FingerprintSpeaks /\ Tell(<<"notice">>)
  <2>1. locked' = locked /\ fingerprintMessage' /\ UNCHANGED <<password, pendingPrompt>>
    BY <1>6 DEF FingerprintSpeaks, lockVars, promptVars
  <2>2. "notice" \in MessageKinds \ {"state"} /\ "notice" \in Notices
    BY DEF MessageKinds, Notices
  <2>3. QED
    BY <1>1, <1>6, <2>1, <2>2, TellsOne
<1>7. ASSUME Tell(<<"unavailable">>), locked' = locked, ~fingerprintMessage',
             UNCHANGED <<password, pendingPrompt>>
      PROVE  Tells
  <2>1. "unavailable" \in MessageKinds \ {"state"} /\ "unavailable" \in Notices
    BY DEF MessageKinds, Notices
  <2>2. QED
    BY <1>1, <1>7, <2>1, TellsOne
<1>8. CASE FingerprintUnavailable /\ Tell(<<"unavailable">>)
  BY <1>7, <1>8 DEF FingerprintUnavailable, lockVars, promptVars
<1>9. CASE /\ FingerprintFails
           /\ Tell(IF fingerprintFailures' < FingerprintAttempts THEN <<>> ELSE <<"unavailable">>)
  <2>1. /\ locked' = locked /\ password' = password /\ pendingPrompt' = pendingPrompt
        /\ fingerprintMessage' =
              (fingerprintMessage /\ fingerprintFailures' < FingerprintAttempts)
    BY <1>9, HandleKept DEF FingerprintFails, lockVars
  <2>2. CASE fingerprintFailures' < FingerprintAttempts
    BY <1>1, <1>9, <2>1, <2>2, TellsNothing
  <2>3. CASE ~(fingerprintFailures' < FingerprintAttempts)
    BY <1>7, <1>9, <2>1, <2>3
  <2>4. QED
    BY <2>2, <2>3
<1>10. QED
  BY <1>2, <1>3, <1>4, <1>5, <1>6, <1>8, <1>9 DEF LoopTellsAuth

LEMMA LockTells ==
    ASSUME IInv', ScreenTypes, LockRequested \/ UnlockRequested, TellState
    PROVE  \E es \in Seq(ShellMessage) :
              toShell' = toShell \o es /\ Telling(es) /\ SomeIn(es, Announces)
<1>1. ~fingerprintMessage'
  BY DEF LockRequested, LockSession, UnlockRequested, UnlockSession
<1>2. locked' \in BOOLEAN /\ generation' \in Nat
  BY DEF IInv, Types
<1>3. QED
  BY <1>1, <1>2, TellsState

LEMMA SystemTells ==
    ASSUME IInv, IInv', ScreenTypes, LoopTellsSystem
    PROVE  Tells
<1>1. /\ locked \in BOOLEAN /\ generation \in Nat
      /\ locked' \in BOOLEAN /\ generation' \in Nat
  BY ScreenFacts DEF IInv, Types
<1>2. CASE (LockRequested \/ UnlockRequested) /\ TellState
  BY <1>2, LockTells DEF Tells
<1>3. CASE PrepareDraws /\ IF locked THEN Tell(<<>>) ELSE TellState
  <2>1. CASE locked
    BY <1>1, <1>3, <2>1, TellsNothing DEF PrepareDraws, lockVars, promptVars, fingerVars
  <2>2. CASE ~locked
    <3>1. ~fingerprintMessage' /\ TellState
      BY <1>3, <2>2 DEF PrepareDraws, LockSession
    <3>2. QED
      BY <1>1, <3>1, TellsState DEF Tells
  <2>3. QED
    BY <2>1, <2>2
<1>4. CASE Resumed /\ Tell(<<>>)
  <2>1. locked' = locked /\ fingerprintMessage' = fingerprintMessage
    BY <1>4 DEF Resumed, lockVars
  <2>2. ~pendingPrompt => ~pendingPrompt'
    BY <1>4 DEF Resumed
  <2>3. password # None => password' # None
    <3>1. CASE locked
      BY <1>4, <3>1, HandleHeld DEF Resumed
    <3>2. CASE ~locked
      BY <1>4, <3>2 DEF Resumed
    <3>3. QED
      BY <3>1, <3>2
  <2>4. QED
    BY <1>1, <1>4, <2>1, <2>2, <2>3, TellsNothing
<1>5. CASE (PrepareShown \/ SleepReleaseFires) /\ Tell(<<>>)
  BY <1>1, <1>5, TellsNothing
     DEF PrepareShown, SleepReleaseFires, lockVars, promptVars, fingerVars
<1>6. QED
  BY <1>2, <1>3, <1>4, <1>5 DEF LoopTellsSystem

\* A handler that reads nothing from the shell has no request to answer.
LEMMA TellsAnswers ==
    ASSUME Tells, UNCHANGED fromShell
    PROVE  Answers
<1>1. PICK es \in Seq(ShellMessage) : toShell' = toShell \o es /\ Telling(es)
  BY DEF Tells
<1>2. InTransit("ready")' = InTransit("ready") /\ InTransit("respond")' = InTransit("respond")
  BY DEF InTransit
<1>3. Reloaded => Reloaded' \/ SomeIn(es, Announces)
  BY <1>1, <1>2 DEF Telling, Reloaded
<1>4. QED
  BY <1>1, <1>2, <1>3 DEF Answers

\* Reading one request leaves the others under way.
LEMMA TransitKept ==
    ASSUME NEW seq \in Seq(ShellRequest), seq # <<>>, NEW other, Head(seq).kind # other
    PROVE  /\ Tail(seq) \in Seq(ShellRequest)
           /\ (\E i \in DOMAIN seq : seq[i].kind = other)
                 => \E i \in DOMAIN Tail(seq) : Tail(seq)[i].kind = other
<1>1. Tail(seq) \in Seq(ShellRequest)
  OBVIOUS
<1>2. ASSUME NEW i \in DOMAIN seq, seq[i].kind = other
      PROVE  \E j \in DOMAIN Tail(seq) : Tail(seq)[j].kind = other
  <2>1. i # 1
    BY <1>2
  <2>2. i - 1 \in DOMAIN Tail(seq) /\ Tail(seq)[i - 1] = seq[i]
    BY <2>1
  <2>3. QED
    BY <1>2, <2>2
<1>3. QED
  BY <1>1, <1>2

\* Reading one request leaves the others under way.
LEMMA RequestRead ==
    ASSUME ScreenTypes, NEW kind, ReadShell(kind)
    PROVE  /\ fromShell' \in Seq(ShellRequest)
           /\ kind # "ready" /\ InTransit("ready") => InTransit("ready")'
           /\ kind # "respond" /\ InTransit("respond") => InTransit("respond")'
<1>1. /\ fromShell \in Seq(ShellRequest) /\ fromShell # <<>> /\ Head(fromShell).kind = kind
      /\ fromShell' = Tail(fromShell)
  BY DEF ScreenTypes, ReadShell
<1>2. \A other : other # kind =>
         /\ Tail(fromShell) \in Seq(ShellRequest)
         /\ (\E i \in DOMAIN fromShell : fromShell[i].kind = other)
               => \E i \in DOMAIN Tail(fromShell) : Tail(fromShell)[i].kind = other
  BY <1>1, TransitKept
<1>3. fromShell' \in Seq(ShellRequest)
  BY <1>1
<1>4. kind # "ready" /\ InTransit("ready") => InTransit("ready")'
  BY <1>1, <1>2 DEF InTransit
<1>5. kind # "respond" /\ InTransit("respond") => InTransit("respond")'
  BY <1>1, <1>2 DEF InTransit
<1>6. QED
  BY <1>3, <1>4, <1>5

LEMMA RequestsTell ==
    ASSUME IInv, IInv', Asked, UnderWay, ScreenTypes, LoopReadsShell
    PROVE  Answers /\ UNCHANGED shell /\ fromShell' \in Seq(ShellRequest)
<1>1. /\ locked \in BOOLEAN /\ generation \in Nat
      /\ pendingPrompt \in BOOLEAN /\ fingerprintMessage \in BOOLEAN
  BY ScreenFacts
<1>2. CASE ReadShell("lock") /\ LockRequested /\ TellState
  <2>1. \E es \in Seq(ShellMessage) :
           toShell' = toShell \o es /\ Telling(es) /\ SomeIn(es, Announces)
    BY <1>2, LockTells
  <2>2. /\ InTransit("respond") => InTransit("respond")'
        /\ fromShell' \in Seq(ShellRequest) /\ UNCHANGED shell
    BY <1>2, RequestRead DEF ReadShell
  <2>3. QED
    BY <2>1, <2>2 DEF Answers
<1>3. CASE ReadShell("respond") /\ (RespondToPrompt \/ RespondLater) /\ Tell(<<>>)
  <2>1. locked' = locked /\ fingerprintMessage' = fingerprintMessage
    BY <1>3 DEF RespondToPrompt, RespondLater, lockVars, fingerVars
  <2>2. password' # None /\ ~pendingPrompt'
    <3>1. CASE RespondToPrompt
      <4>1. password \in Threads /\ password' = password /\ ~pendingPrompt'
        BY <3>1 DEF RespondToPrompt, Asked, PendingWaits
      <4>2. QED
        BY <4>1, NamesAssumption
    <3>2. CASE RespondLater
      BY <3>2, HandleHeld DEF RespondLater
    <3>3. QED
      BY <1>3, <3>1, <3>2
  <2>3. Tells
    BY <1>1, <1>3, <2>1, <2>2, TellsNothing
  <2>4. /\ InTransit("ready") => InTransit("ready")'
        /\ fromShell' \in Seq(ShellRequest) /\ UNCHANGED shell
    BY <1>3, RequestRead DEF ReadShell
  <2>5. Reloaded => Reloaded'
    BY <2>1, <2>4 DEF Reloaded
  <2>6. QED
    BY <2>2, <2>3, <2>4, <2>5 DEF Tells, Answers
<1>4. CASE ReadShell("shown") /\ LockScreenShown /\ Tell(<<>>)
  <2>1. UNCHANGED <<locked, fingerprintMessage, password, pendingPrompt>>
    BY <1>4 DEF LockScreenShown, lockVars, promptVars, fingerVars
  <2>2. Tells
    BY <1>1, <1>4, <2>1, TellsNothing
  <2>3. /\ InTransit("ready") => InTransit("ready")'
        /\ InTransit("respond") => InTransit("respond")'
        /\ fromShell' \in Seq(ShellRequest) /\ UNCHANGED shell
    BY <1>4, RequestRead DEF ReadShell
  <2>4. Reloaded => Reloaded'
    BY <2>1, <2>3 DEF Reloaded
  <2>5. QED
    BY <2>2, <2>3, <2>4 DEF Tells, Answers
<1>5. CASE ReadShell("ready") /\ ReplayToShell /\ Tell(Replay)
  <2>1. locked /\ UNCHANGED <<locked, fingerprintMessage, password, pendingPrompt>>
    BY <1>5 DEF ReplayToShell, lockVars, promptVars, fingerVars
  <2>2. \E es \in Seq(ShellMessage) :
           toShell' = toShell \o es /\ Telling(es) /\ SomeIn(es, Announces)
    BY <1>1, <1>5, <2>1, TellsReplay
  <2>3. /\ InTransit("respond") => InTransit("respond")'
        /\ fromShell' \in Seq(ShellRequest) /\ UNCHANGED shell
    BY <1>5, RequestRead DEF ReadShell
  <2>4. QED
    BY <2>2, <2>3 DEF Answers
<1>6. QED
  BY <1>2, <1>3, <1>4, <1>5 DEF LoopReadsShell

\* A request the loop drops had nothing to ask of the lock as it is.
LEMMA IgnoredAnswers ==
    ASSUME ScreenTypes, LoopIgnoresShell
    PROVE  Answers /\ UNCHANGED shell /\ fromShell' \in Seq(ShellRequest)
<1>1. UNCHANGED <<locked, fingerprintMessage, password, pendingPrompt, toShell>>
  BY DEF LoopIgnoresShell, vars, lockVars, promptVars, fingerVars
<1>2. <<>> \in Seq(ShellMessage) /\ toShell' = toShell \o <<>> /\ 1 .. Len(<<>>) = {}
  BY <1>1, ConcatEmptySeq DEF ScreenTypes
<1>3. Telling(<<>>)
  BY <1>1, <1>2 DEF Telling
<1>4. PICK kind : ReadShell(kind) /\ (~locked \/ kind = "lock")
  BY DEF LoopIgnoresShell
<1>5. /\ kind # "ready" /\ InTransit("ready") => InTransit("ready")'
      /\ kind # "respond" /\ InTransit("respond") => InTransit("respond")'
      /\ fromShell' \in Seq(ShellRequest) /\ UNCHANGED shell
  BY <1>4, RequestRead DEF ReadShell
<1>6. Reloaded => Reloaded'
  BY <1>1, <1>4, <1>5 DEF Reloaded
<1>7. ~locked \/ (InTransit("respond") => InTransit("respond")')
  BY <1>4, <1>5
<1>8. QED
  BY <1>2, <1>3, <1>5, <1>6, <1>7 DEF Answers

LEMMA LoopKeepsScreen ==
    ASSUME IInv, IInv', Asked, UnderWay, ScreenInv,
           LoopTellsAuth \/ LoopTellsSystem \/ LoopReadsShell \/ LoopIgnoresShell
    PROVE  ScreenInv'
<1>1. ScreenTypes /\ fromShell \in Seq(ShellRequest)
  BY DEF ScreenInv, ScreenTypes
<1>2. CASE LoopTellsAuth \/ LoopTellsSystem
  <2>1. Tells /\ UNCHANGED <<shell, fromShell>>
    BY <1>1, <1>2, AuthTells, SystemTells DEF LoopTellsAuth, LoopTellsSystem
  <2>2. Answers /\ UNCHANGED shell /\ fromShell' \in Seq(ShellRequest)
    BY <1>1, <2>1, TellsAnswers
  <2>3. QED
    BY <2>2, AnswersKeep, ScreenFacts DEF IInv, Types
<1>3. CASE LoopReadsShell \/ LoopIgnoresShell
  BY <1>1, <1>3, RequestsTell, IgnoredAnswers, AnswersKeep DEF IInv, Types
<1>4. QED
  BY <1>2, <1>3

----------------------------------------------------------------------------
(* What the shell does *)

\* A request the shell sends is under way beside those that were.
LEMMA RequestSent ==
    ASSUME ScreenTypes, NEW kind \in {"lock", "respond", "shown", "ready"}, NEW gen \in Nat,
           fromShell' = Append(fromShell, [kind |-> kind, generation |-> gen])
    PROVE  /\ fromShell' \in Seq(ShellRequest)
           /\ InTransit("ready")' <=> InTransit("ready") \/ kind = "ready"
           /\ InTransit("respond") \/ kind = "respond" => InTransit("respond")'
<1>1. [kind |-> kind, generation |-> gen] \in ShellRequest
  BY DEF ShellRequest
<1>2. fromShell' \in Seq(ShellRequest)
  BY <1>1 DEF ScreenTypes
<1>3. /\ fromShell \in Seq(ShellRequest) /\ Len(fromShell) \in Nat
      /\ DOMAIN fromShell = 1 .. Len(fromShell) /\ DOMAIN fromShell' = 1 .. Len(fromShell) + 1
      /\ \A i \in 1 .. Len(fromShell) : fromShell'[i] = fromShell[i]
      /\ fromShell'[Len(fromShell) + 1].kind = kind
  BY <1>1 DEF ScreenTypes
<1>4. \A i \in DOMAIN fromShell : i \in DOMAIN fromShell' /\ fromShell'[i] = fromShell[i]
  BY <1>3
<1>5. Len(fromShell) + 1 \in DOMAIN fromShell'
  BY <1>3
<1>6. \A i \in DOMAIN fromShell' : i \in DOMAIN fromShell \/ i = Len(fromShell) + 1
  BY <1>3
<1>7. InTransit("ready")' <=> InTransit("ready") \/ kind = "ready"
  BY <1>3, <1>4, <1>5, <1>6 DEF InTransit
<1>8. InTransit("respond") \/ kind = "respond" => InTransit("respond")'
  BY <1>3, <1>4, <1>5 DEF InTransit
<1>9. QED
  BY <1>2, <1>7, <1>8

\* A step of the shell that changes nothing of what it shows of the lock.
LEMMA ShellAlone ==
    ASSUME ScreenInv, UNCHANGED <<vars, toShell>>, shell' \in Shell,
           shell'.locked = shell.locked, shell'.notice = shell.notice,
           fromShell' \in Seq(ShellRequest), InTransit("ready")' <=> InTransit("ready"),
           shell'.checking => \/ shell.checking /\ (InTransit("respond") => InTransit("respond")')
                              \/ shell.locked /\ InTransit("respond")'
    PROVE  ScreenInv'
<1>1. UNCHANGED <<locked, fingerprintMessage, password, pendingPrompt, toShell>>
  BY DEF vars, lockVars, promptVars, fingerVars
<1>2. ScreenTypes'
  BY <1>1 DEF ScreenInv, ScreenTypes
<1>3. ~Reloaded' => LockTold' /\ NoticeTold'
  <2>1. Reloaded' <=> Reloaded
    BY <1>1 DEF Reloaded
  <2>2. /\ LockTold => LockTold'
        /\ NoticeTold => NoticeTold'
    BY <1>1 DEF LockTold, NoticeTold
  <2>3. QED
    BY <2>1, <2>2 DEF ScreenInv
<1>4. CheckingSettles'
  <2>1. CheckingSettles
    BY DEF ScreenInv
  <2>2. QED
    BY <1>1, <2>1 DEF CheckingSettles
<1>5. QED
  BY <1>2, <1>3, <1>4 DEF ScreenInv

LEMMA ShellKeepsScreen ==
    ASSUME ScreenInv, ShellFrame \/ ShellSubmits \/ ShellAsksLock
    PROVE  ScreenInv'
<1>1. /\ ScreenTypes /\ shell \in Shell /\ shell.generation \in Nat
      /\ fromShell \in Seq(ShellRequest)
  BY DEF ScreenInv, ScreenTypes, Shell
<1>2. CASE ShellFrame
  <2>1. /\ UNCHANGED <<vars, toShell>> /\ shell' \in Shell
        /\ shell'.locked = shell.locked /\ shell'.notice = shell.notice
        /\ shell'.checking = shell.checking
    BY <1>1, <1>2 DEF ShellFrame, Shell
  <2>2. /\ fromShell' \in Seq(ShellRequest)
        /\ InTransit("ready")' <=> InTransit("ready")
        /\ InTransit("respond") => InTransit("respond")'
    <3>1. CASE FromShell("shown")
      BY <1>1, <3>1, RequestSent DEF FromShell
    <3>2. CASE UNCHANGED fromShell
      BY <1>1, <3>2 DEF InTransit
    <3>3. QED
      BY <1>2, <3>1, <3>2 DEF ShellFrame
  <2>3. QED
    BY <2>1, <2>2, ShellAlone
<1>3. CASE ShellSubmits
  <2>1. /\ UNCHANGED <<vars, toShell>> /\ shell' \in Shell /\ shell.locked
        /\ shell'.locked = shell.locked /\ shell'.notice = shell.notice
    BY <1>1, <1>3 DEF ShellSubmits, Shell
  <2>2. /\ fromShell' \in Seq(ShellRequest)
        /\ InTransit("ready")' <=> InTransit("ready")
        /\ InTransit("respond")'
    BY <1>1, <1>3, RequestSent DEF ShellSubmits, FromShell
  <2>3. QED
    BY <2>1, <2>2, ShellAlone
<1>4. CASE ShellAsksLock
  <2>1. UNCHANGED <<vars, toShell, shell>>
    BY <1>4 DEF ShellAsksLock
  <2>2. /\ fromShell' \in Seq(ShellRequest)
        /\ InTransit("ready")' <=> InTransit("ready")
        /\ InTransit("respond") => InTransit("respond")'
    BY <1>1, <1>4, RequestSent DEF ShellAsksLock, FromShell
  <2>3. QED
    BY <1>1, <2>1, <2>2, ShellAlone
<1>5. QED
  BY <1>2, <1>3, <1>4

LEMMA RestartKeepsScreen ==
    ASSUME ScreenInv, UnderWay, IInv, ShellRestarts
    PROVE  ScreenInv'
<1>1. ScreenTypes /\ toShell' = <<>> /\ shell' = FreshShell
  BY DEF ScreenInv, ShellRestarts
<1>2. UNCHANGED <<locked, fingerprintMessage>>
  BY DEF ShellRestarts, vars, lockVars, fingerVars
<1>3. fromShell' \in Seq(ShellRequest) /\ InTransit("ready")'
  BY <1>1, RequestSent DEF ShellRestarts
<1>4. FreshShell \in Shell /\ ~FreshShell.locked /\ ~FreshShell.checking /\ ~FreshShell.notice
      /\ FreshShell.locked = FALSE /\ FreshShell.notice = FALSE
  BY DEF FreshShell, Shell
<1>5. ScreenTypes'
  BY <1>1, <1>3, <1>4, EmptySeq DEF ScreenTypes
<1>6. ~Reloaded' => LockTold' /\ NoticeTold'
  <2>1. 1 .. Len(toShell') = {}
    BY <1>1
  <2>2. ~Reloaded' => locked' = FALSE /\ fingerprintMessage' = FALSE
    BY <1>2, <1>3, ScreenFacts DEF Reloaded, UnderWay, MessageOfLock
  <2>3. QED
    BY <1>1, <1>4, <2>1, <2>2 DEF LockTold, NoticeTold
<1>7. CheckingSettles'
  BY <1>1, <1>4 DEF CheckingSettles
<1>8. QED
  BY <1>5, <1>6, <1>7 DEF ScreenInv

\* What one message makes of the shell.
LEMMA ReceivedFacts ==
    ASSUME shell \in Shell, NEW m \in ShellMessage
    PROVE  /\ Received(m) \in Shell
           /\ m.kind = "state" => /\ Received(m).locked = m.locked
                                  /\ Received(m).notice = FALSE /\ Received(m).checking = FALSE
           /\ m.kind # "state" => Received(m).locked = shell.locked
           /\ m.kind # "state" /\ ~shell.locked => Received(m) = shell
           /\ m.kind \in {"prompt", "failed"} /\ shell.locked =>
                 Received(m).checking = FALSE /\ Received(m).notice = shell.notice
           /\ m.kind = "notice" /\ shell.locked =>
                 Received(m).notice = TRUE /\ Received(m).checking = shell.checking
           /\ m.kind = "unavailable" /\ shell.locked =>
                 Received(m).notice = FALSE /\ Received(m).checking = shell.checking
<1>1. CASE m.kind = "state"
  BY <1>1 DEF Received, AnnouncedState, FreshShell, Shell, ShellMessage
<1>2. CASE m.kind # "state" /\ ~shell.locked
  BY <1>2 DEF Received
<1>3. CASE m.kind # "state" /\ shell.locked
  <2>1. Received(m) = Reduce(m.kind)
    BY <1>3 DEF Received
  <2>2. CASE m.kind \in {"prompt", "failed"}
    <3>1. Received(m) = [shell EXCEPT !.checking = FALSE]
      BY <2>1, <2>2 DEF Reduce
    <3>2. QED
      BY <1>3, <2>2, <3>1 DEF Shell
  <2>3. CASE m.kind = "notice"
    <3>1. Received(m) = [shell EXCEPT !.notice = TRUE]
      BY <2>1, <2>3 DEF Reduce
    <3>2. QED
      BY <1>3, <2>3, <3>1 DEF Shell
  <2>4. CASE m.kind = "unavailable"
    <3>1. Received(m) = [shell EXCEPT !.notice = FALSE]
      BY <2>1, <2>4 DEF Reduce
    <3>2. QED
      BY <1>3, <2>4, <3>1 DEF Shell
  <2>5. QED
    BY <1>3, <2>2, <2>3, <2>4 DEF ShellMessage
<1>4. QED
  BY <1>1, <1>2, <1>3

LEMMA ReceiveKeepsScreen ==
    ASSUME IInv, MessageOfLock, ScreenInv, ShellReceives
    PROVE  ScreenInv'
<1> DEFINE m == Head(toShell)
           rest == Tail(toShell)
<1>1. ScreenTypes /\ shell \in Shell /\ toShell \in Seq(ShellMessage) /\ toShell # <<>>
  BY DEF ScreenInv, ScreenTypes, ShellReceives
<1>2. m \in ShellMessage /\ rest \in Seq(ShellMessage)
  BY <1>1
<1>3. toShell' = rest /\ shell' = Received(m) /\ UNCHANGED <<vars, fromShell>>
  BY DEF ShellReceives
<1>4. UNCHANGED <<locked, fingerprintMessage, password, pendingPrompt>>
  BY <1>3 DEF vars, lockVars, promptVars, fingerVars
<1>5. \A kinds : Leaves(toShell, m, rest, kinds)
  BY <1>1, ReadFirst
<1>6. locked \in BOOLEAN /\ fingerprintMessage \in BOOLEAN /\ m.locked \in BOOLEAN
  BY <1>2, ScreenFacts DEF ShellMessage
<1>7. ~SomeIn(rest, Notices) => ~SomeIn(rest, Announces)
  BY DEF SomeIn, OfKind, Notices, Announces
<1> HIDE DEF m, rest
<1>8. ScreenTypes'
  <2>1. shell' \in Shell /\ (~shell'.locked => ~shell'.checking /\ ~shell'.notice)
    BY <1>1, <1>2, <1>3, ReceivedFacts DEF ScreenTypes
  <2>2. QED
    BY <1>1, <1>2, <1>3, <2>1 DEF ScreenTypes
<1>9. ASSUME ~Reloaded PROVE LockTold' /\ NoticeTold'
  <2>1. LockTold /\ NoticeTold
    BY <1>9 DEF ScreenInv
  <2>2. \A i \in 1 .. Len(rest) : LastIn(rest, i, Announces) => rest[i].locked = locked
    BY <1>5, <2>1 DEF LockTold, Leaves
  <2>3. \A i \in 1 .. Len(rest) :
           LastIn(rest, i, Notices) => (rest[i].kind = "notice" <=> fingerprintMessage)
    BY <1>5, <2>1 DEF NoticeTold, Leaves
  <2>4. ASSUME ~SomeIn(rest, Announces) PROVE shell'.locked = locked
    <3>1. CASE m.kind \in Announces
      <4>1. m.locked = locked
        BY <1>5, <2>1, <2>4, <3>1 DEF LockTold, Leaves
      <4>2. QED
        BY <1>1, <1>2, <1>3, <3>1, <4>1, ReceivedFacts DEF Announces
    <3>2. CASE m.kind \notin Announces
      <4>1. shell.locked = locked
        BY <1>5, <2>1, <2>4, <3>2 DEF LockTold, Leaves
      <4>2. QED
        BY <1>1, <1>2, <1>3, <3>2, <4>1, ReceivedFacts DEF Announces
    <3>3. QED
      BY <3>1, <3>2
  <2>5. ASSUME ~SomeIn(rest, Notices) PROVE shell'.notice = fingerprintMessage
    <3>1. CASE m.kind \in Notices
      <4>1. m.kind = "notice" <=> fingerprintMessage
        BY <1>5, <2>1, <2>5, <3>1 DEF NoticeTold, Leaves
      <4>2. CASE m.kind = "state"
        BY <1>1, <1>2, <1>3, <1>6, <4>1, <4>2, ReceivedFacts
      <4>3. CASE m.kind = "notice"
        <5>1. locked
          BY <4>1, <4>3 DEF MessageOfLock
        <5>2. shell'.locked = locked /\ shell'.locked = shell.locked
          BY <1>1, <1>2, <1>3, <1>7, <2>4, <2>5, <4>3, ReceivedFacts
        <5>3. shell'.notice = TRUE
          BY <1>1, <1>2, <1>3, <4>3, <5>1, <5>2, ReceivedFacts
        <5>4. QED
          BY <1>6, <4>1, <4>3, <5>3
      <4>4. CASE m.kind = "unavailable"
        <5>1. shell'.notice = FALSE
          <6>1. CASE shell.locked
            BY <1>1, <1>2, <1>3, <4>4, <6>1, ReceivedFacts
          <6>2. CASE ~shell.locked
            <7>1. shell' = shell
              BY <1>1, <1>2, <1>3, <4>4, <6>2, ReceivedFacts
            <7>2. QED
              BY <1>1, <6>2, <7>1 DEF ScreenTypes, Shell
          <6>3. QED
            BY <6>1, <6>2
        <5>2. QED
          BY <1>6, <4>1, <4>4, <5>1
      <4>5. QED
        BY <3>1, <4>2, <4>3, <4>4 DEF Notices
    <3>2. CASE m.kind \notin Notices
      <4>1. shell.notice = fingerprintMessage
        BY <1>5, <2>1, <2>5, <3>2 DEF NoticeTold, Leaves
      <4>2. m.kind \in {"prompt", "failed"}
        BY <1>2, <3>2 DEF ShellMessage, Notices
      <4>3. shell'.notice = shell.notice
        BY <1>1, <1>2, <1>3, <4>2, ReceivedFacts
      <4>4. QED
        BY <4>1, <4>3
    <3>3. QED
      BY <3>1, <3>2
  <2>6. LockTold'
    BY <1>3, <1>4, <2>2, <2>4 DEF LockTold
  <2>7. NoticeTold'
    BY <1>3, <1>4, <2>3, <2>5 DEF NoticeTold
  <2>8. QED
    BY <2>6, <2>7
<1>10. Reloaded => Reloaded'
  BY <1>3, <1>4 DEF Reloaded, InTransit
<1>11. CheckingSettles'
  <2> SUFFICES ASSUME shell'.checking
               PROVE  \/ InTransit("respond")' \/ SomeIn(rest, Frees)
                      \/ password # None /\ ~pendingPrompt
    BY <1>3, <1>4 DEF CheckingSettles
  <2>1. shell.checking /\ m.kind \notin Frees
    <3>1. CASE ~shell.locked
      <4>1. ~shell.checking
        BY <1>1, <3>1 DEF ScreenTypes
      <4>2. m.kind = "state" => shell'.checking = FALSE
        BY <1>1, <1>2, <1>3, ReceivedFacts
      <4>3. m.kind # "state" => shell' = shell
        BY <1>1, <1>2, <1>3, <3>1, ReceivedFacts
      <4>4. QED
        BY <4>1, <4>2, <4>3
    <3>2. CASE shell.locked
      <4>1. m.kind \in Frees => shell'.checking = FALSE
        BY <1>1, <1>2, <1>3, <3>2, ReceivedFacts DEF Frees
      <4>2. m.kind \notin Frees => m.kind \in {"notice", "unavailable"}
        BY <1>2 DEF ShellMessage, Frees
      <4>3. m.kind \in {"notice", "unavailable"} => shell'.checking = shell.checking
        BY <1>1, <1>2, <1>3, <3>2, ReceivedFacts
      <4>4. QED
        BY <4>1, <4>2, <4>3
    <3>3. QED
      BY <3>1, <3>2
  <2>2. CheckingSettles
    BY DEF ScreenInv
  <2>3. InTransit("respond") => InTransit("respond")'
    BY <1>3 DEF InTransit
  <2>4. QED
    BY <1>5, <2>1, <2>2, <2>3 DEF CheckingSettles, Leaves
<1>12. QED
  BY <1>8, <1>9, <1>10, <1>11 DEF ScreenInv

----------------------------------------------------------------------------
(* The shell shows what the lock holds, and an answer is settled *)

LEMMA InitScreenInv == ScreenInit => ScreenInv
<1> SUFFICES ASSUME ScreenInit PROVE ScreenInv
  OBVIOUS
<1>1. /\ shell = FreshShell /\ toShell = <<>> /\ fromShell = <<>>
      /\ locked = FALSE /\ fingerprintMessage = FALSE
  BY DEF ScreenInit, Init
<1>2. FreshShell \in Shell /\ ~FreshShell.locked /\ ~FreshShell.checking /\ ~FreshShell.notice
      /\ FreshShell.locked = FALSE /\ FreshShell.notice = FALSE
  BY DEF FreshShell, Shell
<1>3. 1 .. Len(toShell) = {} /\ DOMAIN fromShell = {}
  BY <1>1
<1>4. QED
  <2>1. ScreenTypes
    BY <1>1, <1>2, EmptySeq, ShellBudgetAssumption DEF ScreenTypes
  <2>2. LockTold
    BY <1>1, <1>2, <1>3 DEF LockTold
  <2>3. NoticeTold
    BY <1>1, <1>2, <1>3 DEF NoticeTold
  <2>4. CheckingSettles
    BY <1>1, <1>2 DEF CheckingSettles
  <2>5. QED
    BY <2>1, <2>2, <2>3, <2>4 DEF ScreenInv

LEMMA NextScreenInv ==
    ASSUME IInv, IInv', Asked, UnderWay, ScreenInv, [ScreenNext]_screenVars
    PROVE  ScreenInv'
<1>1. CASE LoopTellsAuth \/ LoopTellsSystem \/ LoopReadsShell \/ LoopIgnoresShell
  BY <1>1, LoopKeepsScreen
<1>2. CASE ShellReceives
  BY <1>2, ReceiveKeepsScreen DEF UnderWay
<1>3. CASE ShellFrame \/ ShellSubmits \/ ShellAsksLock \/ ShellRestarts
  BY <1>3, ShellKeepsScreen, RestartKeepsScreen
<1>4. CASE BesideShell \/ UNCHANGED screenVars
  <2>1. UNCHANGED <<locked, fingerprintMessage, password, pendingPrompt, shell, toShell, fromShell>>
    <3>1. CASE BesideShell
      BY <3>1, WorkersFrame, ClientsFrame
         DEF BesideShell, shellVars, lockVars, promptVars, fingerVars
    <3>2. CASE UNCHANGED screenVars
      BY <3>2 DEF screenVars, vars, shellVars, lockVars, promptVars, fingerVars
    <3>3. QED
      BY <1>4, <3>1, <3>2
  <2>2. /\ InTransit("ready")' = InTransit("ready") /\ InTransit("respond")' = InTransit("respond")
        /\ ScreenTypes' = ScreenTypes /\ LockTold' = LockTold /\ NoticeTold' = NoticeTold
    BY <2>1 DEF InTransit, ScreenTypes, LockTold, NoticeTold
  <2>3. QED
    BY <2>1, <2>2 DEF ScreenInv, Reloaded, CheckingSettles
<1>5. QED
  BY <1>1, <1>2, <1>3, <1>4 DEF ScreenNext

\* The inductive invariant of the lock, of what is under way in it, and of what is under
\* way to its shell.
LEMMA ScreenInvariant == ScreenSpec => [](IInv /\ Asked /\ UnderWay /\ ScreenInv)
<1>1. ScreenInit => IInv /\ Asked /\ UnderWay /\ ScreenInv
  BY InitIInv, InitAsked, InitUnderWay, InitScreenInv DEF ScreenInit
<1>2. (IInv /\ Asked /\ UnderWay /\ ScreenInv) /\ [ScreenNext]_screenVars
         => (IInv /\ Asked /\ UnderWay /\ ScreenInv)'
  BY ScreenSteps, NextIInv, NextAsked, NextUnderWay, NextScreenInv
<1>3. QED
  BY <1>1, <1>2, PTL DEF ScreenSpec

\* Whatever is lost by a reload or is still to be read, a shell that has read everything
\* sent to it shows the lock and the reader's message as the lock holds them, and takes
\* input when a prompt waits that no answer is on its way to.
THEOREM ScreenMirrors == ScreenSpec => []ShellMirrors
<1>1. ASSUME ScreenInv PROVE ShellMirrors
  <2> SUFFICES ASSUME toShell = <<>>, ~InTransit("ready")
               PROVE  /\ shell.locked = locked /\ shell.notice = fingerprintMessage
                      /\ pendingPrompt /\ ~InTransit("respond") => ~shell.checking
    BY DEF ShellMirrors
  <2>1. ~SomeIn(toShell, Announces) /\ ~SomeIn(toShell, Notices) /\ ~SomeIn(toShell, Frees)
    BY DEF SomeIn
  <2>2. LockTold /\ NoticeTold /\ CheckingSettles
    BY <1>1 DEF ScreenInv, Reloaded
  <2>3. shell.locked = locked /\ shell.notice = fingerprintMessage
    BY <2>1, <2>2 DEF LockTold, NoticeTold
  <2>4. pendingPrompt /\ ~InTransit("respond") => ~shell.checking
    BY <2>1, <2>2 DEF CheckingSettles
  <2>5. QED
    BY <2>3, <2>4
<1>2. QED
  BY <1>1, ScreenInvariant, PTL

\* An answer that was typed is always settled: when no message is under way in any channel
\* and each password transaction waits for an answer, none is queued and the field is free.
THEOREM ScreenAnswerSettled == ScreenSpec => []AnswerSettled
<1>1. ASSUME IInv, Asked, UnderWay, ScreenInv PROVE AnswerSettled
  <2> SUFFICES ASSUME ~Underway, PasswordWaits, password # Dead,
                      shell.checking \/ queuedResponse
               PROVE  FALSE
    BY DEF AnswerSettled
  <2>1. toShell = <<>> /\ fromShell = <<>> /\ authEvents = <<>>
    BY DEF Underway
  <2>2. password # None /\ ~pendingPrompt
    <3>1. CASE shell.checking
      <4>1. ~SomeIn(toShell, Frees) /\ ~InTransit("respond")
        BY <2>1 DEF SomeIn, InTransit
      <4>2. CheckingSettles
        BY <1>1 DEF ScreenInv
      <4>3. QED
        BY <3>1, <4>1, <4>2 DEF CheckingSettles
    <3>2. CASE queuedResponse
      BY <1>1, <3>2 DEF UnderWay, QueuedHeld
    <3>3. QED
      BY <3>1, <3>2
  <2>3. password \in Threads
    BY <1>1, <2>2 DEF IInv, Types
  <2>4. locked /\ TypedIn(workers, password)
    BY <1>1, <2>3 DEF IInv, Handle
  <2>5. workers[password].stage # "done"
    <3>1. 1 .. Len(authEvents) = {}
      BY <2>1
    <3>2. QED
      BY <1>1, <2>3, <2>4, <3>1 DEF UnderWay, DoneReports, TypedIn
  <2>6. workers[password].stage = "asking" /\ ~workers[password].answered
    <3>1. Current("password") \cap {password} # {}
      BY <2>3, <2>4 DEF Current, TypedIn
    <3>2. QED
      BY <2>3, <2>5, <3>1 DEF PasswordWaits
  <2>7. Waits(password)
    BY <2>4, <2>6 DEF Waits
  <2>8. 1 .. Len(authEvents) = {}
    BY <2>1
  <2>9. QED
    BY <1>1, <2>2, <2>3, <2>7, <2>8 DEF UnderWay, PromptSomewhere
<1>2. QED
  BY <1>1, ScreenInvariant, PTL

=============================================================================
