------------------------- MODULE DurableRelay_proofs -------------------------
(* Proofs about DurableRelay and about CatchUp, what it is fed by, for every
   value of their constants. *)
EXTENDS DurableRelay, CatchUp, FiniteSetTheorems, TLAPS

-----------------------------------------------------------------------------
(* Sequences: what the operations on the queue do to the ids it holds.     *)

\* The queue after its head was taken.
LEMMA TailElements ==
  ASSUME NEW S, NEW q \in Seq(S), q # <<>>
  PROVE  /\ Tail(q) \in Seq(S)
         /\ Len(Tail(q)) = Len(q) - 1
         /\ Len(q) \in Nat \ {0}
         /\ Head(q) = q[1]
         /\ \A i \in 1..Len(Tail(q)) : Tail(q)[i] = q[i + 1]
  OBVIOUS

\* A prefix of an ordered enumeration, put behind a queue.
LEMMA ConcatElements ==
  ASSUME NEW S, NEW q \in Seq(S), NEW a \in Seq(S)
  PROVE  /\ q \o a \in Seq(S)
         /\ Len(q \o a) = Len(q) + Len(a)
         /\ \A i \in 1..Len(q) : (q \o a)[i] = q[i]
         /\ \A i \in 1..Len(a) : (q \o a)[Len(q) + i] = a[i]
  OBVIOUS

LEMMA PrefixElements ==
  ASSUME NEW S, NEW s \in Seq(S), NEW n \in Nat, n <= Len(s)
  PROVE  /\ SubSeq(s, 1, n) \in Seq(S)
         /\ Len(SubSeq(s, 1, n)) = n
         /\ \A i \in 1..n : SubSeq(s, 1, n)[i] = s[i]
  OBVIOUS

\* The batch of a recovery is enumerated by a sequence without repetition.
LEMMA InOrderElements ==
  ASSUME NEW S \in SUBSET Messages, NEW s \in InOrder(S)
  PROVE  /\ s \in Seq(S)
         /\ Len(s) = Cardinality(S)
         /\ \A i, j \in 1..Len(s) : s[i] = s[j] => i = j
<1>1. Cardinality(S) \in Nat
  BY MessagesAssumption, FS_Subset, FS_CardinalityType
<1>2. s \in Seq(S) /\ Len(s) = Cardinality(S)
  BY <1>1 DEF InOrder
<1>3. ASSUME NEW i \in 1..Len(s), NEW j \in 1..Len(s), s[i] = s[j]
      PROVE  i = j
  <2>1. s[i] \in Nat /\ s[j] \in Nat
    BY <1>1, <1>2, MessagesAssumption DEF InOrder
  <2>2. /\ i < j => s[i] < s[j]
        /\ j < i => s[j] < s[i]
    BY <1>1, <1>2 DEF InOrder
  <2> QED
    BY <2>1, <2>2, <1>1, <1>2, <1>3
<1> QED
  BY <1>2, <1>3

-----------------------------------------------------------------------------
(* Type correctness.                                                       *)

LEMMA InitTypeOK == Init => TypeOK
<1> SUFFICES ASSUME Init PROVE TypeOK
  OBVIOUS
<1>1. RowsTypeOK
  BY MessagesAssumption, BoundsAssumption DEF Init, RowsTypeOK, Status, Open, Settled, Code
<1>2. TasksTypeOK
  BY DEF Init, TasksTypeOK, HandlerState, WorkerState, RecoveryState, IdleHandler,
         IdleWorker, IdleRecovery, Busy
<1>3. QueueTypeOK
  BY BoundsAssumption DEF Init, QueueTypeOK
<1>4. CountersTypeOK
  BY BoundsAssumption DEF Init, CountersTypeOK
<1> QED
  BY <1>1, <1>2, <1>3, <1>4 DEF TypeOK

LEMMA NextRowsTypeOK == TypeOK /\ [Next]_vars => RowsTypeOK'
<1> SUFFICES ASSUME TypeOK, [Next]_vars
             PROVE  RowsTypeOK'
  OBVIOUS
<1> USE MessagesAssumption, BoundsAssumption
    DEF TypeOK, RowsTypeOK, Status, Open, Settled, Code, rows
<1>1. ASSUME NEW h \in Handlers, NEW m \in Messages, Receive(h, m)
      PROVE  RowsTypeOK'
  BY <1>1 DEF Receive, ReceiveNew, ReceiveDuplicate, ReceiveLegacy, ReceiveChanged,
              RecordPersisted, MarkContentMismatch
<1>2. ASSUME NEW h \in Handlers, Intake(h)
      PROVE  RowsTypeOK'
  BY <1>2, ZenonT(40) DEF Intake, Enqueue, DeferQueueFull
<1>3. ASSUME NEW w \in Workers, Claim(w)
      PROVE  RowsTypeOK'
  BY <1>3 DEF Claim, Recoverable, TasksTypeOK, Busy
<1>4. ASSUME NEW w \in Workers, Fail(w)
      PROVE  RowsTypeOK'
  BY <1>4 DEF Fail, TasksTypeOK, Busy
<1>5. ASSUME NEW w \in Workers, Complete(w)
      PROVE  RowsTypeOK'
  BY <1>5 DEF Complete
<1>6. ASSUME NEW w \in Workers,
             Take(w) \/ ClaimNothing(w) \/ RenewLease(w) \/ LinkDone(w) \/ WorkerDies(w)
      PROVE  RowsTypeOK'
  BY <1>6 DEF Take, ClaimNothing, RenewLease, LinkDone, WorkerDies
<1>7. CASE RecoverSelect
  BY <1>7 DEF RecoverSelect, Exhausted
<1>8. CASE RecoverEnqueue \/ RecoveryDies \/ Boot \/ Crash \/ UNCHANGED vars
  BY <1>8 DEF RecoverEnqueue, RecoveryDies, Boot, Crash, vars
<1>9. ASSUME NEW m \in Messages, Elapse(m)
      PROVE  RowsTypeOK'
  BY <1>9 DEF Elapse, LeaseExpires, BackoffElapses
<1> QED
  BY <1>1, <1>2, <1>3, <1>4, <1>5, <1>6, <1>7, <1>8, <1>9 DEF Next, Work, Recover

LEMMA NextTasksTypeOK == TypeOK /\ [Next]_vars => TasksTypeOK'
<1> SUFFICES ASSUME TypeOK, [Next]_vars
             PROVE  TasksTypeOK'
  OBVIOUS
<1> USE DEF TypeOK, TasksTypeOK, HandlerState, WorkerState, RecoveryState, IdleHandler,
            IdleWorker, DeadWorker, IdleRecovery, Busy, memory
<1>1. ASSUME NEW h \in Handlers, NEW m \in Messages, Receive(h, m)
      PROVE  TasksTypeOK'
  BY <1>1 DEF Receive, ReceiveNew, ReceiveDuplicate, ReceiveLegacy, ReceiveChanged,
              AwaitEnqueue
<1>2. ASSUME NEW h \in Handlers, Intake(h)
      PROVE  TasksTypeOK'
  BY <1>2, SMTT(30) DEF Intake, Enqueue, DeferQueueFull
<1>3. ASSUME NEW w \in Workers, Take(w)
      PROVE  TasksTypeOK'
  BY <1>3 DEF Take, QueueTypeOK
<1>4. ASSUME NEW w \in Workers, Claim(w)
      PROVE  TasksTypeOK'
  BY <1>4, MessagesAssumption, ZenonT(40) DEF Claim
<1>5. ASSUME NEW w \in Workers, RenewLease(w)
      PROVE  TasksTypeOK'
  BY <1>5 DEF RenewLease
<1>6. ASSUME NEW w \in Workers, LinkDone(w)
      PROVE  TasksTypeOK'
  BY <1>6 DEF LinkDone
<1>7. ASSUME NEW w \in Workers,
             ClaimNothing(w) \/ Fail(w) \/ Complete(w) \/ WorkerDies(w)
      PROVE  TasksTypeOK'
  <2>1. PICK next \in {IdleWorker, DeadWorker} : Release(w, next)
    BY <1>7 DEF ClaimNothing, Fail, Complete, WorkerDies
  <2>2. UNCHANGED <<handler, recovery>>
    BY <1>7 DEF ClaimNothing, Fail, Complete, WorkerDies
  <2> QED
    BY <2>1, <2>2 DEF Release
<1>8. CASE RecoverSelect
  BY <1>8 DEF RecoverSelect, Oldest
<1>9. CASE RecoverEnqueue \/ RecoveryDies \/ Boot \/ UNCHANGED vars
  BY <1>9 DEF RecoverEnqueue, RecoveryDies, Boot, vars
<1>10. CASE Crash
  BY <1>10 DEF Crash
<1>11. ASSUME NEW m \in Messages, Elapse(m)
       PROVE  TasksTypeOK'
  BY <1>11 DEF Elapse, LeaseExpires, BackoffElapses
<1> QED
  BY <1>1, <1>2, <1>3, <1>4, <1>5, <1>6, <1>7, <1>8, <1>9, <1>10, <1>11
     DEF Next, Work, Recover

\* What RecoverEnqueue puts behind the queue: part of its batch, each id once.
LEMMA RecoveredIds ==
  ASSUME TypeOK, RecoverEnqueue
  PROVE  \E added \in Seq(Messages) :
           /\ queue' = queue \o added
           /\ enqueued' = enqueued \cup {added[i] : i \in 1..Len(added)}
           /\ Len(queue) + Len(added) <= QueueMaxSize
           /\ \A i, j \in 1..Len(added) : added[i] = added[j] => i = j
           /\ \A i \in 1..Len(added) : added[i] \notin enqueued
<1> DEFINE fresh == recovery.batch \ enqueued
           room  == QueueMaxSize - Len(queue)
           cut(s) == IF Len(s) < room THEN Len(s) ELSE room
<1>1. PICK s \in InOrder(fresh) :
        /\ queue' = queue \o SubSeq(s, 1, cut(s))
        /\ enqueued' = enqueued \cup
             {SubSeq(s, 1, cut(s))[i] : i \in 1..Len(SubSeq(s, 1, cut(s)))}
  BY DEF RecoverEnqueue
<1>2. fresh \in SUBSET Messages
  BY DEF TypeOK, TasksTypeOK, RecoveryState
<1>3. /\ s \in Seq(fresh)
      /\ \A i, j \in 1..Len(s) : s[i] = s[j] => i = j
  BY <1>1, <1>2, InOrderElements
<1>4. Len(queue) \in Nat /\ room \in Nat
  BY BoundsAssumption DEF TypeOK, QueueTypeOK
<1>5. cut(s) \in Nat /\ cut(s) <= Len(s) /\ Len(queue) + cut(s) <= QueueMaxSize
  BY <1>3, <1>4, BoundsAssumption
<1> DEFINE added == SubSeq(s, 1, cut(s))
<1>6. /\ added \in Seq(fresh)
      /\ Len(added) = cut(s)
      /\ \A i \in 1..cut(s) : added[i] = s[i]
  <2> HIDE DEF cut, fresh
  <2> QED
    BY <1>3, <1>5, PrefixElements
<1>7. \A i, j \in 1..Len(added) : added[i] = added[j] => i = j
  <2> HIDE DEF cut, fresh, added
  <2> QED
    BY <1>3, <1>5, <1>6
<1>8. \A i \in 1..Len(added) : added[i] \in fresh
  <2> HIDE DEF cut, fresh, added
  <2> QED
    BY <1>6
<1>9. added \in Seq(Messages)
  <2> HIDE DEF cut, added
  <2> QED
    BY <1>2, <1>6
<1>10. /\ queue' = queue \o added
       /\ enqueued' = enqueued \cup {added[i] : i \in 1..Len(added)}
  BY <1>1
<1>11. \A i \in 1..Len(added) : added[i] \notin enqueued
  BY <1>8
<1>12. Len(queue) + Len(added) <= QueueMaxSize
  BY <1>5, <1>6
<1> HIDE DEF added
<1> QED
  BY <1>7, <1>9, <1>10, <1>11, <1>12

LEMMA NextQueueTypeOK == TypeOK /\ [Next]_vars => QueueTypeOK'
<1> SUFFICES ASSUME TypeOK, [Next]_vars
             PROVE  QueueTypeOK'
  OBVIOUS
<1> USE BoundsAssumption DEF TypeOK, QueueTypeOK
<1>1. ASSUME NEW h \in Handlers, Enqueue(h)
      PROVE  QueueTypeOK'
  <2> DEFINE m == handler[h].msg
  <2>1. handler[h].stage # "idle" /\ m \in Messages
    BY <1>1 DEF Enqueue, TasksTypeOK
  <2>2. CASE UNCHANGED <<queue, enqueued>>
    BY <2>2
  <2>3. CASE /\ Len(queue) < QueueMaxSize
             /\ queue' = Append(queue, m)
             /\ enqueued' = enqueued \cup {m}
    <3> HIDE DEF m
    <3>1. Append(queue, m) \in Seq(Messages) /\ Len(Append(queue, m)) = Len(queue) + 1
      BY <2>1
    <3> QED
      BY <2>1, <2>3, <3>1
  <2> QED
    BY <1>1, <2>2, <2>3 DEF Enqueue
<1>2. ASSUME NEW w \in Workers, Take(w)
      PROVE  QueueTypeOK'
  <2>1. /\ Tail(queue) \in Seq(Messages)
        /\ Len(Tail(queue)) = Len(queue) - 1
        /\ Len(queue) \in Nat
    BY <1>2, TailElements DEF Take
  <2> QED
    BY <1>2, <2>1 DEF Take
<1>3. ASSUME NEW w \in Workers,
             ClaimNothing(w) \/ Fail(w) \/ Complete(w) \/ WorkerDies(w)
      PROVE  QueueTypeOK'
  BY <1>3 DEF ClaimNothing, Fail, Complete, WorkerDies, Release
<1>4. CASE RecoverEnqueue
  <2>1. PICK added \in Seq(Messages) :
          /\ queue' = queue \o added
          /\ enqueued' = enqueued \cup {added[i] : i \in 1..Len(added)}
          /\ Len(queue) + Len(added) <= QueueMaxSize
    BY <1>4, RecoveredIds
  <2>2. queue' \in Seq(Messages) /\ Len(queue') = Len(queue) + Len(added)
    BY <2>1, ConcatElements
  <2>3. \A i \in 1..Len(added) : added[i] \in Messages
    OBVIOUS
  <2> QED
    BY <2>1, <2>2, <2>3
<1>5. CASE Crash
  BY <1>5 DEF Crash
<1>6. ASSUME UNCHANGED <<queue, enqueued>>
      PROVE  QueueTypeOK'
  BY <1>6
<1>7. ASSUME NEW h \in Handlers, NEW m \in Messages, Receive(h, m)
      PROVE  UNCHANGED <<queue, enqueued>>
  BY <1>7 DEF Receive, ReceiveNew, ReceiveDuplicate, ReceiveLegacy, ReceiveChanged
<1>8. ASSUME NEW h \in Handlers, DeferQueueFull(h)
      PROVE  UNCHANGED <<queue, enqueued>>
  BY <1>8 DEF DeferQueueFull
<1>9. ASSUME NEW w \in Workers, Claim(w) \/ RenewLease(w) \/ LinkDone(w)
      PROVE  UNCHANGED <<queue, enqueued>>
  BY <1>9 DEF Claim, RenewLease, LinkDone
<1>10. ASSUME RecoverSelect \/ RecoveryDies \/ Boot \/ UNCHANGED vars
       PROVE  UNCHANGED <<queue, enqueued>>
  <2>1. RecoverSelect \/ RecoveryDies => UNCHANGED <<queue, enqueued>>
    BY DEF RecoverSelect, RecoveryDies
  <2>2. Boot => UNCHANGED <<queue, enqueued>>
    BY DEF Boot
  <2>3. UNCHANGED vars => UNCHANGED <<queue, enqueued>>
    BY DEF vars, memory
  <2> QED
    BY <1>10, <2>1, <2>2, <2>3
<1>11. ASSUME NEW m \in Messages, Elapse(m)
       PROVE  UNCHANGED <<queue, enqueued>>
  BY <1>11 DEF Elapse, LeaseExpires, BackoffElapses, memory
<1> QED
  BY <1>1, <1>2, <1>3, <1>4, <1>5, <1>6, <1>7, <1>8, <1>9, <1>10, <1>11
     DEF Next, Intake, Work, Recover

LEMMA NextCountersTypeOK == TypeOK /\ [Next]_vars => CountersTypeOK'
<1> SUFFICES ASSUME TypeOK, [Next]_vars
             PROVE  CountersTypeOK'
  OBVIOUS
<1> USE BoundsAssumption DEF TypeOK, CountersTypeOK, bounds
<1>1. ASSUME NEW h \in Handlers, NEW m \in Messages, Receive(h, m)
      PROVE  CountersTypeOK'
  BY <1>1 DEF Receive, ReceiveNew, ReceiveDuplicate, ReceiveLegacy, ReceiveChanged,
              CanReceive
<1>2. ASSUME NEW h \in Handlers, Intake(h)
      PROVE  CountersTypeOK'
  BY <1>2 DEF Intake, Enqueue, DeferQueueFull
<1>3. ASSUME NEW w \in Workers, Work(w)
      PROVE  CountersTypeOK'
  BY <1>3 DEF Work, Take, Claim, ClaimNothing, RenewLease, LinkDone, Fail, Complete
<1>4. ASSUME NEW w \in Workers, WorkerDies(w)
      PROVE  CountersTypeOK'
  BY <1>4 DEF WorkerDies
<1>5. CASE Recover
  BY <1>5 DEF Recover, RecoverSelect, RecoverEnqueue
<1>7. CASE RecoveryDies \/ Boot \/ Crash
  BY <1>7 DEF RecoveryDies, Boot, Crash
<1>8. CASE UNCHANGED vars
  BY <1>8 DEF vars, memory
<1>6. ASSUME NEW m \in Messages, Elapse(m)
      PROVE  CountersTypeOK'
  BY <1>6 DEF Elapse, LeaseExpires, BackoffElapses, memory
<1> QED
  BY <1>1, <1>2, <1>3, <1>4, <1>5, <1>6, <1>7, <1>8 DEF Next

\* Every variable keeps its type for every value of the constants: no row is
\* claimed more often than processing_max_attempts, the queue keeps its limit.
THEOREM TypeCorrect == Spec => []TypeOK
<1>1. TypeOK /\ [Next]_vars => TypeOK'
  BY NextRowsTypeOK, NextTasksTypeOK, NextQueueTypeOK, NextCountersTypeOK DEF TypeOK
<1> QED
  BY <1>1, InitTypeOK, PTL DEF Spec

-----------------------------------------------------------------------------
(* One holder per message.                                                 *)

\* SingleHolder reads the queue, _enqueued, and which message each worker has.
LEMMA SameHolders ==
  ASSUME TypeOK, SingleHolder,
         UNCHANGED <<queue, enqueued>>,
         \A w \in Workers : Busy(w)' <=> Busy(w),
         \A w \in Workers : Busy(w) => worker'[w].msg = worker[w].msg
  PROVE  SingleHolder'
<1>1. \A m \in Messages : InQueue(m)' <=> InQueue(m)
  BY DEF InQueue
<1>2. EnqueuedIsQueuedOrHeld'
  BY <1>1 DEF SingleHolder, EnqueuedIsQueuedOrHeld
<1>3. \A w \in Workers : Busy(w)' => ~InQueue(worker[w].msg)'
  BY <1>1 DEF SingleHolder, OnePlace, TypeOK, TasksTypeOK
<1>4. OnePlace'
  BY <1>3 DEF SingleHolder, OnePlace, InQueue
<1> QED
  BY <1>2, <1>4 DEF SingleHolder

\* The finally clause gives up the one id the worker had.
LEMMA ReleasedHolder ==
  ASSUME TypeOK, SingleHolder, NEW w \in Workers, Busy(w),
         NEW next \in {IdleWorker, DeadWorker}, Release(w, next), UNCHANGED queue
  PROVE  SingleHolder'
<1>1. \A m \in Messages : InQueue(m)' <=> InQueue(m)
  BY DEF InQueue
<1>2. /\ ~Busy(w)'
      /\ \A v \in Workers \ {w} : worker'[v] = worker[v]
  BY DEF Release, Busy, IdleWorker, DeadWorker, TypeOK, TasksTypeOK
<1>3. \A v \in Workers \ {w} : Busy(v)' <=> Busy(v)
  BY <1>2 DEF Busy
<1>4. ASSUME NEW v \in Workers \ {w}, Busy(v)
      PROVE  worker[v].msg # worker[w].msg
  BY <1>4 DEF SingleHolder, OnePlace
<1>5. ~InQueue(worker[w].msg)
  BY DEF SingleHolder, OnePlace
<1>6. EnqueuedIsQueuedOrHeld'
  <2> SUFFICES ASSUME NEW m \in Messages
               PROVE  m \in enqueued' <=>
                        InQueue(m)' \/ \E v \in Workers : Busy(v)' /\ worker'[v].msg = m
    BY DEF EnqueuedIsQueuedOrHeld
  <2>1. CASE m = worker[w].msg
    BY <2>1, <1>1, <1>2, <1>3, <1>4, <1>5 DEF Release
  <2>2. CASE m # worker[w].msg
    <3>1. m \in enqueued' <=> m \in enqueued
      BY <2>2 DEF Release
    <3>2. (\E v \in Workers : Busy(v)' /\ worker'[v].msg = m)
            <=> \E v \in Workers : Busy(v) /\ worker[v].msg = m
      BY <2>2, <1>2, <1>3
    <3> QED
      BY <3>1, <3>2, <1>1 DEF SingleHolder, EnqueuedIsQueuedOrHeld
  <2> QED
    BY <2>1, <2>2
<1>7. OnePlace'
  <2>1. \A v \in Workers : Busy(v)' => ~InQueue(worker[v].msg)'
    BY <1>1, <1>2, <1>3 DEF SingleHolder, OnePlace, InQueue
  <2>2. \A u, v \in Workers :
          Busy(u)' /\ Busy(v)' /\ worker'[u].msg = worker'[v].msg => u = v
    BY <1>2, <1>3 DEF SingleHolder, OnePlace
  <2> QED
    BY <2>1, <2>2 DEF SingleHolder, OnePlace, InQueue
<1> QED
  BY <1>6, <1>7 DEF SingleHolder

\* Ids that are in no place yet, each once, are put at the end of the queue.
LEMMA GrownQueue ==
  ASSUME TypeOK, SingleHolder, NEW added \in Seq(Messages),
         queue' = queue \o added,
         enqueued' = enqueued \cup {added[i] : i \in 1..Len(added)},
         \A i, j \in 1..Len(added) : added[i] = added[j] => i = j,
         \A i \in 1..Len(added) : added[i] \notin enqueued,
         UNCHANGED worker
  PROVE  SingleHolder'
<1>1. /\ queue \in Seq(Messages) /\ Len(queue) \in Nat /\ Len(added) \in Nat
      /\ Len(queue') = Len(queue) + Len(added)
      /\ \A i \in 1..Len(queue) : queue'[i] = queue[i]
      /\ \A i \in 1..Len(added) : queue'[Len(queue) + i] = added[i]
  BY ConcatElements DEF TypeOK, QueueTypeOK
<1>2. \A k \in 1..Len(queue') : k \in 1..Len(queue) \/ k - Len(queue) \in 1..Len(added)
  BY <1>1
<1>3. \A k \in 1..Len(queue') : k \notin 1..Len(queue) => queue'[k] = added[k - Len(queue)]
  <2> TAKE k \in 1..Len(queue')
  <2> HAVE k \notin 1..Len(queue)
  <2>1. k - Len(queue) \in 1..Len(added) /\ Len(queue) + (k - Len(queue)) = k
    BY <1>1, <1>2
  <2> QED
    BY <2>1, <1>1
<1>4. \A m : InQueue(m)' <=> InQueue(m) \/ \E i \in 1..Len(added) : added[i] = m
  <2> TAKE m
  <2>1. InQueue(m) => InQueue(m)'
    BY <1>1 DEF InQueue
  <2>2. ASSUME NEW i \in 1..Len(added), added[i] = m PROVE InQueue(m)'
    <3>1. Len(queue) + i \in 1..Len(queue')
      BY <1>1
    <3> QED
      BY <1>1, <2>2, <3>1 DEF InQueue
  <2>3. ASSUME InQueue(m)' PROVE InQueue(m) \/ \E i \in 1..Len(added) : added[i] = m
    BY <1>1, <1>2, <1>3, <2>3 DEF InQueue
  <2> QED
    BY <2>1, <2>2, <2>3
<1>5. \A i \in 1..Len(queue) : queue[i] \in enqueued
  BY <1>1 DEF SingleHolder, EnqueuedIsQueuedOrHeld, InQueue
<1>6. \A w \in Workers : Busy(w)' <=> Busy(w)
  BY DEF Busy
<1>7. EnqueuedIsQueuedOrHeld'
  BY <1>4, <1>6 DEF SingleHolder, EnqueuedIsQueuedOrHeld
<1>8. \A w \in Workers : Busy(w) => ~InQueue(worker[w].msg)'
  BY <1>4 DEF SingleHolder, EnqueuedIsQueuedOrHeld, OnePlace, TypeOK, TasksTypeOK
<1>9. ASSUME NEW i \in 1..Len(queue'), NEW j \in 1..Len(queue'), queue'[i] = queue'[j]
      PROVE  i = j
  <2>1. CASE i \in 1..Len(queue) /\ j \in 1..Len(queue)
    BY <2>1, <1>1, <1>9 DEF SingleHolder, OnePlace
  <2>2. CASE i \notin 1..Len(queue) /\ j \notin 1..Len(queue)
    <3>1. i - Len(queue) = j - Len(queue)
      BY <2>2, <1>2, <1>3, <1>9
    <3> QED
      BY <3>1, <1>1
  <2>3. CASE i \in 1..Len(queue) /\ j \notin 1..Len(queue)
    BY <2>3, <1>1, <1>2, <1>3, <1>5, <1>9
  <2>4. CASE i \notin 1..Len(queue) /\ j \in 1..Len(queue)
    BY <2>4, <1>1, <1>2, <1>3, <1>5, <1>9
  <2> QED
    BY <2>1, <2>2, <2>3, <2>4
<1>10. OnePlace'
  <2>1. \A w \in Workers : Busy(w)' => ~InQueue(worker[w].msg)'
    BY <1>6, <1>8 DEF InQueue
  <2>2. \A v, w \in Workers :
          Busy(v)' /\ Busy(w)' /\ worker'[v].msg = worker'[w].msg => v = w
    BY <1>6 DEF SingleHolder, OnePlace
  <2> QED
    BY <1>9, <2>1, <2>2 DEF OnePlace, InQueue
<1> QED
  BY <1>7, <1>10 DEF SingleHolder

\* A worker takes the head of the queue; _enqueued does not change.
LEMMA TakenHolder ==
  ASSUME TypeOK, SingleHolder, NEW w \in Workers, Take(w)
  PROVE  SingleHolder'
<1>a. Head(queue) \in Messages
  BY DEF Take, TypeOK, QueueTypeOK
<1>b. PICK m \in Messages : m = Head(queue)
  BY <1>a
<1>1. /\ queue \in Seq(Messages) /\ Len(queue) \in Nat \ {0}
      /\ m = queue[1]
      /\ Len(queue') = Len(queue) - 1
      /\ \A i \in 1..Len(queue') : queue'[i] = queue[i + 1]
  BY <1>b, TailElements DEF Take, TypeOK, QueueTypeOK
<1>2. /\ Busy(w)' /\ worker'[w].msg = m /\ ~Busy(w)
      /\ \A v \in Workers \ {w} : worker'[v] = worker[v]
  BY <1>b DEF Take, Busy, TypeOK, TasksTypeOK
<1>3. \A v \in Workers \ {w} : Busy(v)' <=> Busy(v)
  BY <1>2 DEF Busy
<1>4. \A k : InQueue(k) <=> k = m \/ InQueue(k)'
  <2> TAKE k
  <2>1. InQueue(m)
    BY <1>1 DEF InQueue
  <2>2. ASSUME NEW i \in 1..Len(queue'), queue'[i] = k PROVE InQueue(k)
    <3>1. i + 1 \in 1..Len(queue)
      BY <1>1
    <3> QED
      BY <1>1, <2>2, <3>1 DEF InQueue
  <2>3. ASSUME NEW i \in 1..Len(queue), queue[i] = k, i # 1 PROVE InQueue(k)'
    <3>1. i - 1 \in 1..Len(queue') /\ (i - 1) + 1 = i
      BY <1>1, <2>3
    <3>2. queue'[i - 1] = k
      BY <1>1, <2>3, <3>1
    <3> QED
      BY <3>1, <3>2 DEF InQueue
  <2> QED
    BY <1>1, <2>1, <2>2, <2>3 DEF InQueue
<1>5. ASSUME NEW i \in 1..Len(queue'), NEW j \in 1..Len(queue'), queue'[i] = queue'[j]
      PROVE  i = j
  <2>1. i + 1 \in 1..Len(queue) /\ j + 1 \in 1..Len(queue)
    BY <1>1
  <2>2. i + 1 = j + 1
    BY <1>1, <1>5, <2>1 DEF SingleHolder, OnePlace
  <2> QED
    BY <2>2
<1>6. ~InQueue(m)'
  <2> SUFFICES ASSUME NEW i \in 1..Len(queue'), queue'[i] = m PROVE FALSE
    BY DEF InQueue
  <2>1. i + 1 \in 1..Len(queue) /\ 1 \in 1..Len(queue) /\ i + 1 # 1
    BY <1>1
  <2> QED
    BY <1>1, <2>1 DEF SingleHolder, OnePlace
<1>7. \A v \in Workers : Busy(v) => worker[v].msg # m
  BY <1>4 DEF SingleHolder, OnePlace
<1>8. EnqueuedIsQueuedOrHeld'
  <2> SUFFICES ASSUME NEW k \in Messages
               PROVE  k \in enqueued' <=>
                        InQueue(k)' \/ \E v \in Workers : Busy(v)' /\ worker'[v].msg = k
    BY DEF EnqueuedIsQueuedOrHeld
  <2>1. k \in enqueued' <=>
          InQueue(k) \/ \E v \in Workers : Busy(v) /\ worker[v].msg = k
    BY DEF Take, SingleHolder, EnqueuedIsQueuedOrHeld
  <2>2. (\E v \in Workers : Busy(v)' /\ worker'[v].msg = k)
          <=> k = m \/ \E v \in Workers : Busy(v) /\ worker[v].msg = k
    BY <1>2, <1>3
  <2> QED
    BY <1>4, <2>1, <2>2
<1>9. OnePlace'
  <2>1. \A v \in Workers : Busy(v)' => ~InQueue(worker[v].msg)'
    <3> SUFFICES ASSUME NEW v \in Workers, Busy(v)'
                 PROVE  ~InQueue(worker[v].msg)'
      OBVIOUS
    <3>1. CASE v = w
      BY <3>1, <1>2, <1>6 DEF InQueue
    <3>2. CASE v # w
      <4>1. ~InQueue(worker[v].msg)
        BY <3>2, <1>3 DEF SingleHolder, OnePlace
      <4>2. worker'[v] = worker[v]
        BY <3>2, <1>2
      <4>3. InQueue(worker[v].msg)' <=> \E i \in 1..Len(queue') : queue'[i] = worker[v].msg
        BY <4>2 DEF InQueue
      <4>4. ~\E i \in 1..Len(queue') : queue'[i] = worker[v].msg
        BY <4>1, <1>4 DEF InQueue
      <4> QED
        BY <4>3, <4>4
    <3> QED
      BY <3>1, <3>2
  <2>2. \A u, v \in Workers :
          Busy(u)' /\ Busy(v)' /\ worker'[u].msg = worker'[v].msg => u = v
    BY <1>2, <1>3, <1>7 DEF SingleHolder, OnePlace
  <2> QED
    BY <1>5, <2>1, <2>2 DEF OnePlace
<1> QED
  BY <1>8, <1>9 DEF SingleHolder

LEMMA InitSingleHolder == Init => SingleHolder
<1> SUFFICES ASSUME Init PROVE SingleHolder
  OBVIOUS
<1>1. Len(queue) = 0
  BY DEF Init
<1>2. \A w \in Workers : ~Busy(w)
  BY DEF Init, Busy, IdleWorker
<1> QED
  BY <1>1, <1>2 DEF Init, SingleHolder, EnqueuedIsQueuedOrHeld, OnePlace, InQueue

LEMMA NextSingleHolder == TypeOK /\ SingleHolder /\ [Next]_vars => SingleHolder'
<1> SUFFICES ASSUME TypeOK, SingleHolder, [Next]_vars
             PROVE  SingleHolder'
  OBVIOUS
<1>1. ASSUME UNCHANGED <<queue, enqueued, worker>>
      PROVE  SingleHolder'
  BY <1>1, SameHolders DEF Busy
<1>2. ASSUME NEW h \in Handlers, NEW m \in Messages, Receive(h, m)
      PROVE  UNCHANGED <<queue, enqueued, worker>>
  BY <1>2 DEF Receive, ReceiveNew, ReceiveDuplicate, ReceiveLegacy, ReceiveChanged
<1>3. ASSUME NEW h \in Handlers, Enqueue(h)
      PROVE  SingleHolder'
  <2> DEFINE m     == handler[h].msg
             added == <<m>>
  <2>1. m \in Messages /\ UNCHANGED worker
    BY <1>3 DEF Enqueue, TypeOK, TasksTypeOK
  <2>2. CASE UNCHANGED <<queue, enqueued>>
    BY <2>1, <2>2, <1>1
  <2>3. CASE m \notin enqueued /\ queue' = Append(queue, m) /\ enqueued' = enqueued \cup {m}
    <3> HIDE DEF m
    <3>1. added \in Seq(Messages) /\ Len(added) = 1 /\ added[1] = m
      BY <2>1
    <3>2. queue' = queue \o added
      BY <2>1, <2>3 DEF TypeOK, QueueTypeOK
    <3>3. \A i \in 1..Len(added) : i = 1
      BY <3>1
    <3>4. enqueued' = enqueued \cup {added[i] : i \in 1..Len(added)}
      BY <2>3, <3>1, <3>3
    <3> HIDE DEF added
    <3> QED
      BY <2>1, <2>3, <3>1, <3>2, <3>3, <3>4, GrownQueue
  <2> QED
    BY <1>3, <2>2, <2>3 DEF Enqueue
<1>4. ASSUME NEW h \in Handlers, DeferQueueFull(h)
      PROVE  UNCHANGED <<queue, enqueued, worker>>
  BY <1>4 DEF DeferQueueFull
<1>5. ASSUME NEW w \in Workers, Take(w)
      PROVE  SingleHolder'
  BY <1>5, TakenHolder
<1>6. ASSUME NEW w \in Workers, Claim(w) \/ RenewLease(w) \/ LinkDone(w)
      PROVE  SingleHolder'
  <2>1. UNCHANGED <<queue, enqueued>>
    BY <1>6 DEF Claim, RenewLease, LinkDone
  <2>2. /\ \A v \in Workers : Busy(v)' <=> Busy(v)
        /\ \A v \in Workers : Busy(v) => worker'[v].msg = worker[v].msg
    BY <1>6 DEF Claim, RenewLease, LinkDone, Busy, TypeOK, TasksTypeOK, WorkerState
  <2> QED
    BY <2>1, <2>2, SameHolders
<1>7. ASSUME NEW w \in Workers,
             ClaimNothing(w) \/ Fail(w) \/ Complete(w) \/ WorkerDies(w)
      PROVE  SingleHolder'
  <2>1. PICK next \in {IdleWorker, DeadWorker} : Release(w, next)
    BY <1>7 DEF ClaimNothing, Fail, Complete, WorkerDies
  <2>2. Busy(w) /\ UNCHANGED queue
    BY <1>7 DEF ClaimNothing, Fail, Complete, WorkerDies, Busy
  <2> QED
    BY <2>1, <2>2, ReleasedHolder
<1>8. CASE RecoverEnqueue
  <2>1. UNCHANGED worker
    BY <1>8 DEF RecoverEnqueue
  <2> QED
    BY <1>8, <2>1, RecoveredIds, GrownQueue
<1>9. CASE Crash
  <2>1. Len(queue') = 0 /\ enqueued' = {}
    BY <1>9 DEF Crash
  <2>2. \A w \in Workers : ~Busy(w)'
    BY <1>9 DEF Crash, Busy, IdleWorker
  <2> QED
    BY <2>1, <2>2 DEF SingleHolder, EnqueuedIsQueuedOrHeld, OnePlace, InQueue
<1>10. CASE RecoverSelect \/ RecoveryDies \/ Boot
  BY <1>1, <1>10 DEF RecoverSelect, RecoveryDies, Boot
<1>11. ASSUME NEW m \in Messages, Elapse(m)
       PROVE  UNCHANGED <<queue, enqueued, worker>>
  BY <1>11 DEF Elapse, LeaseExpires, BackoffElapses, memory
<1>12. CASE UNCHANGED vars
  BY <1>1, <1>12 DEF vars, memory
<1> QED
  BY <1>1, <1>2, <1>3, <1>4, <1>5, <1>6, <1>7, <1>8, <1>9, <1>10, <1>11, <1>12
     DEF Next, Intake, Work, Recover

\* However many workers, handlers and messages there are, an id is queued once
\* or held by one worker, and _enqueued says exactly which ids those are.
THEOREM SingleHolderHolds == Spec => []SingleHolder
<1> QED
  BY TypeCorrect, InitSingleHolder, NextSingleHolder, PTL DEF Spec

-----------------------------------------------------------------------------
(* What a claim guarantees.                                                *)

LEMMA NextClaimHeld ==
  TypeOK /\ SingleHolder /\ ClaimHeld /\ [Next]_vars => ClaimHeld'
<1> SUFFICES ASSUME TypeOK, SingleHolder, ClaimHeld, [Next]_vars,
                    NEW w \in Workers, NEW m \in Messages, Owns(w, m)'
             PROVE  \/ status'[m] = "PROCESSING"
                    \/ /\ status'[m] = "FAILED_PERMANENT"
                       /\ errorCode'[m] \in {"RETRY_EXHAUSTED", "CONTENT_HASH_MISMATCH"}
  BY DEF ClaimHeld
<1> DEFINE Held == \/ status[m] = "PROCESSING"
                   \/ /\ status[m] = "FAILED_PERMANENT"
                      /\ errorCode[m] \in {"RETRY_EXHAUSTED", "CONTENT_HASH_MISMATCH"}
<1>1. Owns(w, m) => Held
  BY DEF ClaimHeld
<1>2. ASSUME NEW h \in Handlers, NEW k \in Messages, Receive(h, k)
      PROVE  Held'
  <2>1. Owns(w, m)
    BY <1>2 DEF Receive, ReceiveNew, ReceiveDuplicate, ReceiveLegacy, ReceiveChanged, Owns
  <2> QED
    BY <1>1, <1>2, <2>1
       DEF Receive, ReceiveNew, ReceiveDuplicate, ReceiveLegacy, ReceiveChanged,
           MarkContentMismatch, rows, TypeOK, RowsTypeOK
<1>3. ASSUME NEW h \in Handlers, Intake(h)
      PROVE  Held'
  <2>1. Owns(w, m)
    BY <1>3 DEF Intake, Enqueue, DeferQueueFull, Owns
  <2>2. CASE Enqueue(h)
    BY <2>1, <2>2, <1>1 DEF Enqueue, rows
  <2>3. CASE DeferQueueFull(h)
    BY <2>1, <2>3, <1>1 DEF DeferQueueFull, TypeOK, RowsTypeOK
  <2> QED
    BY <1>3, <2>2, <2>3 DEF Intake
<1>4. ASSUME NEW v \in Workers, Work(v) \/ WorkerDies(v)
      PROVE  Held'
  <2>1. CASE v = w
    <3>1. CASE Claim(w)
      BY <3>1 DEF Claim, Owns, TypeOK, RowsTypeOK, TasksTypeOK, WorkerState, Busy
    <3>2. CASE RenewLease(w) \/ LinkDone(w)
      <4>1. Owns(w, m) /\ UNCHANGED <<status, errorCode>>
        BY <3>2 DEF RenewLease, LinkDone, Owns, rows, TypeOK, TasksTypeOK, WorkerState
      <4> QED
        BY <4>1, <1>1
    <3>3. CASE Take(w)
      BY <3>3 DEF Take, Owns, TypeOK, TasksTypeOK
    <3>4. CASE ClaimNothing(w) \/ Fail(w) \/ Complete(w) \/ WorkerDies(w)
      <4>1. PICK next \in {IdleWorker, DeadWorker} : Release(w, next)
        BY <3>4 DEF ClaimNothing, Fail, Complete, WorkerDies
      <4> QED
        BY <4>1 DEF Release, Owns, IdleWorker, DeadWorker, TypeOK, TasksTypeOK
    <3> QED
      BY <1>4, <2>1, <3>1, <3>2, <3>3, <3>4 DEF Work
  <2>2. CASE v # w
    <3>1. worker'[w] = worker[w]
      BY <2>2, <1>4 DEF Work, Take, Claim, ClaimNothing, RenewLease, LinkDone, Fail,
                        Complete, WorkerDies, Release, TypeOK, TasksTypeOK
    <3>2. Owns(w, m)
      BY <3>1 DEF Owns
    <3>3. Busy(v) => worker[v].msg # m
      BY <2>2, <3>2 DEF SingleHolder, OnePlace, Owns, Busy
    <3>4. status'[m] = status[m] /\ errorCode'[m] = errorCode[m]
      <4>1. CASE Take(v) \/ ClaimNothing(v) \/ RenewLease(v) \/ LinkDone(v) \/ WorkerDies(v)
        BY <4>1 DEF Take, ClaimNothing, RenewLease, LinkDone, WorkerDies, rows
      <4>2. CASE Claim(v)
        BY <4>2, <3>3 DEF Claim, Busy, TypeOK, RowsTypeOK
      <4>3. CASE Fail(v)
        BY <4>3, <3>3 DEF Fail, Busy, TypeOK, RowsTypeOK
      <4>4. CASE Complete(v)
        BY <4>4, <3>3 DEF Complete, Busy, TypeOK, RowsTypeOK
      <4> QED
        BY <1>4, <4>1, <4>2, <4>3, <4>4 DEF Work
    <3> QED
      BY <1>1, <3>2, <3>4
  <2> QED
    BY <2>1, <2>2
<1>5. CASE RecoverSelect
  BY <1>1, <1>5 DEF RecoverSelect, Exhausted, Open, Owns
<1>6. CASE RecoverEnqueue \/ RecoveryDies \/ Boot
  BY <1>1, <1>6 DEF RecoverEnqueue, RecoveryDies, Boot, rows, Owns
<1>7. CASE Crash
  BY <1>7 DEF Crash, Owns, IdleWorker
<1>8. ASSUME NEW k \in Messages, Elapse(k)
      PROVE  Held'
  BY <1>1, <1>8 DEF Elapse, LeaseExpires, BackoffElapses, memory, Owns
<1>9. CASE UNCHANGED vars
  BY <1>1, <1>9 DEF vars, rows, memory, Owns
<1> QED
  BY <1>2, <1>3, <1>4, <1>5, <1>6, <1>7, <1>8, <1>9 DEF Next, Recover

\* A row under a worker is PROCESSING until that worker ends it, except when
\* the budget was declared spent or the content changed under its identity.
THEOREM ClaimHeldHolds == Spec => []ClaimHeld
<1>1. Init => ClaimHeld
  BY DEF Init, ClaimHeld, Owns, IdleWorker
<1> QED
  BY <1>1, TypeCorrect, SingleHolderHolds, NextClaimHeld, PTL DEF Spec

LEMMA NextNoStrandedClaim ==
  TypeOK /\ NoStrandedClaim /\ [Next]_vars => NoStrandedClaim'
<1> SUFFICES ASSUME TypeOK, NoStrandedClaim, [Next]_vars
             PROVE  NoStrandedClaim'
  OBVIOUS
<1> USE DEF NoStrandedClaim, TypeOK, RowsTypeOK, rows
<1>1. ASSUME NEW h \in Handlers, NEW m \in Messages, Receive(h, m)
      PROVE  NoStrandedClaim'
  BY <1>1 DEF Receive, ReceiveNew, ReceiveDuplicate, ReceiveLegacy, ReceiveChanged,
              MarkContentMismatch
<1>2. ASSUME NEW h \in Handlers, Intake(h)
      PROVE  NoStrandedClaim'
  BY <1>2 DEF Intake, Enqueue, DeferQueueFull
<1>3. ASSUME NEW w \in Workers, Claim(w)
      PROVE  NoStrandedClaim'
  BY <1>3, BoundsAssumption DEF Claim
<1>4. ASSUME NEW w \in Workers, RenewLease(w)
      PROVE  NoStrandedClaim'
  BY <1>4 DEF RenewLease
<1>5. ASSUME NEW w \in Workers, Fail(w)
      PROVE  NoStrandedClaim'
  BY <1>5 DEF Fail
<1>6. ASSUME NEW w \in Workers, Complete(w)
      PROVE  NoStrandedClaim'
  BY <1>6 DEF Complete
<1>7. ASSUME NEW w \in Workers,
             Take(w) \/ ClaimNothing(w) \/ LinkDone(w) \/ WorkerDies(w)
      PROVE  NoStrandedClaim'
  BY <1>7 DEF Take, ClaimNothing, LinkDone, WorkerDies
<1>8. CASE RecoverSelect
  BY <1>8 DEF RecoverSelect, Exhausted, Open
<1>9. CASE RecoverEnqueue \/ RecoveryDies \/ Boot \/ Crash
  BY <1>9 DEF RecoverEnqueue, RecoveryDies, Boot, Crash
<1>10. ASSUME NEW m \in Messages, Elapse(m)
       PROVE  NoStrandedClaim'
  BY <1>10 DEF Elapse, LeaseExpires, BackoffElapses
<1>11. CASE UNCHANGED vars
  BY <1>11 DEF vars
<1> QED
  BY <1>1, <1>2, <1>3, <1>4, <1>5, <1>6, <1>7, <1>8, <1>9, <1>10, <1>11
     DEF Next, Work, Recover

\* A claim that a crash abandoned always carries a lease, so the recovery that
\* waits for leases to expire can find it, and no settled row carries one.
THEOREM NoStrandedClaimHolds == Spec => []NoStrandedClaim
<1>1. Init => NoStrandedClaim
  BY DEF Init, NoStrandedClaim
<1> QED
  BY <1>1, TypeCorrect, NextNoStrandedClaim, PTL DEF Spec

-----------------------------------------------------------------------------
(* What a settled row may still do.                                        *)

\* FAILED_PERMANENT with a spent budget is final, whoever is still busy.
THEOREM ExhaustedIsFinalHolds == Spec => ExhaustedIsFinal
<1> DEFINE Final == \A m \in Messages :
                      attempts[m] = MaxAttempts /\ status[m] = "FAILED_PERMANENT"
                        => status'[m] = "FAILED_PERMANENT"
<1>1. ASSUME TypeOK, [Next]_vars
      PROVE  Final
  <2> SUFFICES ASSUME NEW k \in Messages, attempts[k] = MaxAttempts,
                      status[k] = "FAILED_PERMANENT"
               PROVE  status'[k] = "FAILED_PERMANENT"
    OBVIOUS
  <2> USE <1>1, BoundsAssumption DEF TypeOK, RowsTypeOK, rows
  <2>1. ASSUME NEW h \in Handlers, NEW m \in Messages, Receive(h, m)
        PROVE  status'[k] = "FAILED_PERMANENT"
    BY <2>1 DEF Receive, ReceiveNew, ReceiveDuplicate, ReceiveLegacy, ReceiveChanged,
                MarkContentMismatch
  <2>2. ASSUME NEW w \in Workers, Work(w)
        PROVE  status'[k] = "FAILED_PERMANENT"
    <3>1. CASE Claim(w)
      BY <3>1 DEF Claim, Recoverable
    <3>2. CASE Fail(w)
      BY <3>2 DEF Fail
    <3>3. CASE Complete(w)
      BY <3>3 DEF Complete
    <3> QED
      BY <2>2, <3>1, <3>2, <3>3 DEF Work, Take, ClaimNothing, RenewLease, LinkDone
  <2>3. CASE RecoverSelect
    BY <2>3 DEF RecoverSelect
  <2>4. ASSUME \/ \E h \in Handlers : Intake(h)
               \/ \E w \in Workers : WorkerDies(w)
               \/ RecoverEnqueue \/ RecoveryDies \/ Boot \/ Crash
               \/ \E m \in Messages : Elapse(m)
        PROVE  status' = status
    BY <2>4 DEF Intake, Enqueue, DeferQueueFull, WorkerDies, RecoverEnqueue, RecoveryDies,
                Boot, Crash, Elapse, LeaseExpires, BackoffElapses
  <2>5. CASE UNCHANGED vars
    BY <2>5 DEF vars
  <2> QED
    BY <2>1, <2>2, <2>3, <2>4, <2>5 DEF Next, Recover
<1> QED
  BY <1>1, TypeCorrect, PTL DEF Spec, ExhaustedIsFinal

\* COMPLETED is left only when other content arrives under the identity: the
\* unconditional update of fail never meets a completed row.
THEOREM CompletedLeavesByMismatchOnlyHolds == Spec => CompletedLeavesByMismatchOnly
<1> DEFINE Kept == \A m \in Messages :
                     status[m] = "COMPLETED" /\ status'[m] # "COMPLETED"
                       => errorCode'[m] = "CONTENT_HASH_MISMATCH"
<1>1. ASSUME TypeOK, ClaimHeld, [Next]_vars
      PROVE  Kept
  <2> SUFFICES ASSUME NEW k \in Messages, status[k] = "COMPLETED",
                      status'[k] # "COMPLETED"
               PROVE  errorCode'[k] = "CONTENT_HASH_MISMATCH"
    OBVIOUS
  <2> USE <1>1 DEF TypeOK, RowsTypeOK, rows
  <2>1. ASSUME NEW h \in Handlers, NEW m \in Messages, Receive(h, m)
        PROVE  errorCode'[k] = "CONTENT_HASH_MISMATCH"
    BY <2>1 DEF Receive, ReceiveNew, ReceiveDuplicate, ReceiveLegacy, ReceiveChanged,
                MarkContentMismatch
  <2>2. ASSUME NEW w \in Workers, Work(w)
        PROVE  status'[k] = "COMPLETED"
    <3>1. CASE Claim(w)
      BY <3>1 DEF Claim, Recoverable
    <3>2. CASE Fail(w)
      <4>1. Owns(w, worker[w].msg) /\ worker[w].msg \in Messages
        BY <3>2 DEF Fail, Owns, TasksTypeOK, Busy
      <4>2. worker[w].msg # k
        BY <4>1 DEF ClaimHeld
      <4> QED
        BY <3>2, <4>2 DEF Fail
    <3>3. CASE Complete(w)
      BY <3>3 DEF Complete
    <3> QED
      BY <2>2, <3>1, <3>2, <3>3 DEF Work, Take, ClaimNothing, RenewLease, LinkDone
  <2>3. CASE RecoverSelect
    BY <2>3 DEF RecoverSelect, Exhausted, Open
  <2>4. ASSUME \/ \E h \in Handlers : Intake(h)
               \/ \E w \in Workers : WorkerDies(w)
               \/ RecoverEnqueue \/ RecoveryDies \/ Boot \/ Crash
               \/ \E m \in Messages : Elapse(m)
        PROVE  status' = status
    BY <2>4 DEF Intake, Enqueue, DeferQueueFull, WorkerDies, RecoverEnqueue, RecoveryDies,
                Boot, Crash, Elapse, LeaseExpires, BackoffElapses
  <2>5. CASE UNCHANGED vars
    BY <2>5 DEF vars
  <2> QED
    BY <2>1, <2>2, <2>3, <2>4, <2>5 DEF Next, Recover
<1> QED
  BY <1>1, TypeCorrect, ClaimHeldHolds, PTL DEF Spec, CompletedLeavesByMismatchOnly

-----------------------------------------------------------------------------
(* CatchUp: the passes over the history beside the handlers of events.       *)

\* The selection is persisted from its oldest message on, so whatever lies
\* below a selected message is covered or selected as well.
BatchInv == \A k \in batch : \A m \in 1..k : Covered(m) \/ m \in batch

\* From the second selection on nothing is out of sight: what is not covered
\* is selected, in the hands of a handler, or was dropped by one.
BridgeInv ==
  (stage = "bridge" /\ step = "persist") \/ stage = "listening" =>
    \A m \in 1..posted : Covered(m) \/ m \in batch \cup inFlight \cup dropped

\* Nothing is selected except by a pass that persists.
PassInv ==
  /\ batch # {} => stage \in {"catchup", "bridge"} /\ step = "persist"
  /\ stage \in {"down", "catchup"} => inFlight = {}
  /\ newestLive <= lastPersisted

PassesInv == CatchUpTypeOK /\ CheckpointIsNewest /\ OnlyLiveEventsOvertake
             /\ BatchInv /\ BridgeInv /\ PassInv

LEMMA InitPassesInv == CatchUpInit => PassesInv
BY CatchUpAssumption
  
      DEF CatchUpInit, PassesInv, CatchUpTypeOK, CheckpointIsNewest,
          OnlyLiveEventsOvertake, BatchInv,
       BridgeInv, PassInv, Covered, Excused

\* What is covered stays covered: time passes, messages are posted, rows are
\* never deleted.
LEMMA CoveredStays ==
  ASSUME CatchUpTypeOK, CatchUpTypeOK', posted' >= posted, oldest' >= oldest,
         stored \subseteq stored', newestLive' >= newestLive, NEW m \in Nat, Covered(m)
  PROVE  Covered(m)'
BY CatchUpAssumption DEF CatchUpTypeOK, Covered, Excused

-----------------------------------------------------------------------------
LEMMA NextCatchUpTypeOK == CatchUpTypeOK /\ [CatchUpNext]_catchUpVars => CatchUpTypeOK'
<1> SUFFICES ASSUME CatchUpTypeOK, [CatchUpNext]_catchUpVars
             PROVE  CatchUpTypeOK'
  OBVIOUS
<1> USE CatchUpAssumption DEF CatchUpTypeOK, channel, tables, pass, events
<1>1. CASE Post
  <2>1. posted' \in 0..MaxPosted /\ posted' = posted + 1
    BY <1>1 DEF Post
  <2>2. inFlight' \subseteq 1..posted'
    BY <1>1, <2>1 DEF Post
  <2> QED
    BY <1>1, <2>1, <2>2 DEF Post
<1>11. CASE Age
  BY <1>11 DEF Age
<1>2. CASE Start \/ Register \/ Listen
  BY <1>2 DEF Start, Register, Listen
<1>12. CASE ReadCheckpoint
  BY <1>12 DEF ReadCheckpoint
<1>3. CASE Fetch
  BY <1>3 DEF Fetch, Select
<1>4. CASE PersistNext
  BY <1>4 DEF PersistNext, Store, KeepNewest
<1>5. ASSUME NEW m \in 1..MaxPosted, HandlerPersists(m)
      PROVE  CatchUpTypeOK'
  BY <1>5 DEF HandlerPersists, Store, KeepNewest
<1>6. ASSUME NEW m \in 1..MaxPosted, HandlerFails(m)
      PROVE  CatchUpTypeOK'
  BY <1>6 DEF HandlerFails
<1>7. CASE Stop
  BY <1>7 DEF Stop
<1>8. CASE UNCHANGED catchUpVars
  BY <1>8 DEF catchUpVars
<1> QED
  BY <1>1, <1>2, <1>3, <1>4, <1>5, <1>6, <1>7, <1>8, <1>11, <1>12 DEF CatchUpNext, Pass

\* A stored message moves the checkpoint to the newest stored one.
LEMMA StoreKeepsCheckpoint ==
  ASSUME CatchUpTypeOK, CheckpointIsNewest, NEW m \in 1..posted, Store(m)
  PROVE  CheckpointIsNewest'
BY DEF CatchUpTypeOK, CheckpointIsNewest, Store, KeepNewest

\* The steps that store nothing.
LEMMA QuietKeepsCheckpoint ==
  ASSUME CheckpointIsNewest, UNCHANGED tables
  PROVE  CheckpointIsNewest'
BY DEF CheckpointIsNewest, tables

LEMMA NextPassesInv == PassesInv /\ [CatchUpNext]_catchUpVars => PassesInv'
<1> SUFFICES ASSUME PassesInv, [CatchUpNext]_catchUpVars
             PROVE  PassesInv'
  OBVIOUS
<1> USE CatchUpAssumption DEF channel, tables, pass, events
<1>0. CatchUpTypeOK /\ CatchUpTypeOK'
  BY NextCatchUpTypeOK DEF PassesInv
<1>1. \A m \in Nat : Covered(m) => Covered(m)'
  <2>1. posted' >= posted /\ oldest' >= oldest /\ stored \subseteq stored'
        /\ newestLive' >= newestLive
    BY <1>0
       DEF CatchUpNext, Pass, catchUpVars, CatchUpTypeOK, Post, Age, Start,
           ReadCheckpoint, Fetch,
                PersistNext, Register, Listen, HandlerPersists, HandlerFails, Stop, Store
  <2> QED
    BY <1>0, <2>1, CoveredStays
<1>2. CASE Post
  <2>1. CheckpointIsNewest' /\ PassInv'
    BY <1>2, QuietKeepsCheckpoint DEF Post, PassesInv, PassInv, Registered
  <2>2. OnlyLiveEventsOvertake' /\ BatchInv'
    BY <1>0, <1>1, <1>2 DEF Post, PassesInv, OnlyLiveEventsOvertake, BatchInv, CatchUpTypeOK
  <2>3. BridgeInv'
    BY <1>0, <1>1, <1>2 DEF Post, PassesInv, BridgeInv, CatchUpTypeOK, Registered
  <2> QED
    BY <1>0, <2>1, <2>2, <2>3 DEF PassesInv
<1>3. CASE Age \/ UNCHANGED catchUpVars
  <2>1. CheckpointIsNewest' /\ PassInv'
    BY <1>3, QuietKeepsCheckpoint DEF Age, catchUpVars, PassesInv, PassInv
  <2>2. OnlyLiveEventsOvertake' /\ BatchInv'
    BY <1>0, <1>1, <1>3
       DEF Age, catchUpVars, PassesInv, OnlyLiveEventsOvertake, BatchInv, CatchUpTypeOK
  <2>3. BridgeInv'
    BY <1>0, <1>1, <1>3 DEF Age, catchUpVars, PassesInv, BridgeInv, CatchUpTypeOK
  <2> QED
    BY <1>0, <2>1, <2>2, <2>3 DEF PassesInv
<1>4. CASE Start \/ ReadCheckpoint \/ Register
  <2>1. CheckpointIsNewest' /\ PassInv'
    BY <1>4, QuietKeepsCheckpoint DEF Start, ReadCheckpoint, Register, PassesInv, PassInv
  <2>2. OnlyLiveEventsOvertake' /\ BatchInv'
    BY <1>0, <1>1, <1>4
       DEF Start, ReadCheckpoint, Register, PassesInv, OnlyLiveEventsOvertake, BatchInv,
           CatchUpTypeOK
  <2>3. BridgeInv'
    BY <1>4 DEF Start, ReadCheckpoint, Register, BridgeInv
  <2> QED
    BY <1>0, <2>1, <2>2, <2>3 DEF PassesInv
<1>5. CASE Fetch
  <2>1. CheckpointIsNewest' /\ PassInv'
    BY <1>5, QuietKeepsCheckpoint DEF Fetch, PassesInv, PassInv
  <2>2. OnlyLiveEventsOvertake'
    BY <1>0, <1>1, <1>5 DEF Fetch, PassesInv, OnlyLiveEventsOvertake, CatchUpTypeOK
  <2>3. \A m \in 1..posted : Covered(m) \/ m \in Select
    BY <1>0 DEF PassesInv, OnlyLiveEventsOvertake, Select, Covered, Excused, CatchUpTypeOK
  <2>4. batch' = Select /\ posted' = posted
    BY <1>5 DEF Fetch
  <2>5. \A k \in batch' : k \in 1..posted
    BY <2>4 DEF Select
  <2>6. BatchInv'
    BY <1>0, <1>1, <2>3, <2>4, <2>5 DEF BatchInv, CatchUpTypeOK
  <2>7. BridgeInv'
    BY <1>0, <1>1, <2>3, <2>4 DEF BridgeInv, CatchUpTypeOK
  <2> QED
    BY <1>0, <2>1, <2>2, <2>6, <2>7 DEF PassesInv
<1>6. CASE PersistNext
  <2>1. PICK m \in batch : NextOf(m) /\ Store(m) /\ batch' = batch \ {m}
    BY <1>6 DEF PersistNext
  <2>2. m \in 1..posted /\ m \in stored' /\ Covered(m)'
    BY <1>0, <2>1 DEF CatchUpTypeOK, Store, Covered
  <2>3. CheckpointIsNewest'
    BY <1>0, <2>1, <2>2, StoreKeepsCheckpoint DEF PassesInv
  <2>4. PassInv'
    BY <1>0, <1>6, <2>1
       DEF PersistNext, PassesInv, PassInv, Store, KeepNewest, CatchUpTypeOK
  <2>5. \A k \in 1..m : Covered(k)'
    BY <1>0, <1>1, <2>1, <2>2 DEF PassesInv, BatchInv, NextOf, CatchUpTypeOK
  <2>6. OnlyLiveEventsOvertake'
    BY <1>0, <1>1, <2>1, <2>5
       DEF PassesInv, OnlyLiveEventsOvertake, Store, KeepNewest, CatchUpTypeOK
  <2>7. BatchInv'
    BY <1>0, <1>1, <2>1, <2>2 DEF PassesInv, BatchInv, CatchUpTypeOK
  <2>8. BridgeInv'
    BY <1>0, <1>1, <1>6, <2>1, <2>2 DEF PersistNext, PassesInv, BridgeInv, CatchUpTypeOK
  <2> QED
    BY <1>0, <2>3, <2>4, <2>6, <2>7, <2>8 DEF PassesInv
<1>7. CASE Listen
  <2>1. CheckpointIsNewest' /\ PassInv'
    BY <1>7, QuietKeepsCheckpoint DEF Listen, PassesInv, PassInv
  <2>2. OnlyLiveEventsOvertake' /\ BatchInv'
    BY <1>0, <1>1, <1>7
       DEF Listen, PassesInv, OnlyLiveEventsOvertake, BatchInv, CatchUpTypeOK
  <2>3. BridgeInv'
    BY <1>0, <1>1, <1>7 DEF Listen, PassesInv, BridgeInv, CatchUpTypeOK
  <2> QED
    BY <1>0, <2>1, <2>2, <2>3 DEF PassesInv
<1>8. ASSUME NEW m \in 1..MaxPosted, HandlerPersists(m)
      PROVE  PassesInv'
  <2>1. m \in 1..posted /\ Store(m) /\ m \in stored' /\ Covered(m)'
    BY <1>0, <1>8 DEF HandlerPersists, CatchUpTypeOK, Store, Covered
  <2>2. CheckpointIsNewest'
    BY <1>0, <2>1, StoreKeepsCheckpoint DEF PassesInv
  <2>3. PassInv'
    BY <1>0, <1>8 DEF HandlerPersists, Store, KeepNewest, PassesInv, PassInv, CatchUpTypeOK
  <2>4. \A k \in 1..m : Covered(k)'
    BY <1>0, <1>8, <2>1 DEF HandlerPersists, Covered, CatchUpTypeOK
  <2>5. OnlyLiveEventsOvertake'
    BY <1>0, <1>1, <2>1, <2>4
       DEF PassesInv, OnlyLiveEventsOvertake, Store, KeepNewest, CatchUpTypeOK
  <2>6. BatchInv'
    BY <1>0, <1>1, <1>8 DEF HandlerPersists, PassesInv, BatchInv, CatchUpTypeOK
  <2>7. BridgeInv'
    BY <1>0, <1>1, <1>8, <2>1 DEF HandlerPersists, PassesInv, BridgeInv, CatchUpTypeOK
  <2> QED
    BY <1>0, <2>2, <2>3, <2>5, <2>6, <2>7 DEF PassesInv
<1>9. ASSUME NEW m \in 1..MaxPosted, HandlerFails(m)
      PROVE  PassesInv'
  <2>1. CheckpointIsNewest' /\ PassInv'
    BY <1>9, QuietKeepsCheckpoint DEF HandlerFails, PassesInv, PassInv
  <2>2. OnlyLiveEventsOvertake' /\ BatchInv'
    BY <1>0, <1>1, <1>9
       DEF HandlerFails, PassesInv, OnlyLiveEventsOvertake, BatchInv, CatchUpTypeOK
  <2>3. BridgeInv'
    BY <1>0, <1>1, <1>9 DEF HandlerFails, PassesInv, BridgeInv, CatchUpTypeOK
  <2> QED
    BY <1>0, <2>1, <2>2, <2>3 DEF PassesInv
<1>10. CASE Stop
  <2>1. CheckpointIsNewest' /\ PassInv'
    BY <1>10, QuietKeepsCheckpoint DEF Stop, PassesInv, PassInv
  <2>2. OnlyLiveEventsOvertake' /\ BatchInv'
    BY <1>0, <1>1, <1>10
       DEF Stop, PassesInv, OnlyLiveEventsOvertake, BatchInv, CatchUpTypeOK
  <2>3. BridgeInv'
    BY <1>10 DEF Stop, BridgeInv
  <2> QED
    BY <1>0, <2>1, <2>2, <2>3 DEF PassesInv
<1> QED
  BY <1>2, <1>3, <1>4, <1>5, <1>6, <1>7, <1>8, <1>9, <1>10 DEF CatchUpNext, Pass

LEMMA PassesInvAlways == CatchUpSpec => []PassesInv
<1>1. CatchUpInit => PassesInv
  BY InitPassesInv
<1>2. PassesInv /\ [CatchUpNext]_catchUpVars => PassesInv'
  BY NextPassesInv
<1> QED
  BY <1>1, <1>2, PTL DEF CatchUpSpec

-----------------------------------------------------------------------------
\* Every reachable state is typed; no pass has read a checkpoint that is
\* larger than the stored one.
THEOREM CatchUpTypeCorrect == CatchUpSpec => []CatchUpTypeOK
BY PassesInvAlways, PTL DEF PassesInv

\* The checkpoint is the newest stored message in every interleaving of the
\* passes with the handlers.
THEOREM CheckpointIsNewestHolds == CatchUpSpec => []CheckpointIsNewest
BY PassesInvAlways, PTL DEF PassesInv

\* The two passes never skip a message they owe, wherever a run stops.
THEOREM OnlyLiveEventsOvertakeHolds == CatchUpSpec => []OnlyLiveEventsOvertake
BY PassesInvAlways, PTL DEF PassesInv

\* Once run listens, a message that is neither covered, nor with a handler,
\* nor dropped by one, does not exist.
THEOREM NothingLeftBehindHolds == CatchUpSpec => []NothingLeftBehind
<1>1. PassesInv => NothingLeftBehind
  BY DEF PassesInv, BridgeInv, PassInv, NothingLeftBehind
<1> QED
  BY <1>1, PassesInvAlways, PTL
=============================================================================
