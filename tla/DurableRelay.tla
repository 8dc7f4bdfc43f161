---------------------------- MODULE DurableRelay ----------------------------
(***************************************************************************)
(* The durable intake of the relay: rows of source_messages in SQLite, one *)
(* bounded in-memory queue in front of them, the intake handlers, the      *)
(* workers and the recovery task of one DurableRelayQueue                  *)
(* (relay/queue.py, relay/service.py, SourceMessageRepository).            *)
(*                                                                         *)
(* Every action is one database transaction together with the in-memory    *)
(* code that runs before the next await; rows survive Crash, everything    *)
(* else does not.  Wall-clock time is abstract: a lease is live until      *)
(* LeaseExpires, a backoff is pending until BackoffElapses.  Messages are  *)
(* their numeric Telegram ids in one channel, so occurred_at order, id     *)
(* order and < agree.  The outcome of the links of a message is not        *)
(* represented here, only how many there are.                              *)
(***************************************************************************)
EXTENDS Naturals, Sequences, FiniteSets

CONSTANTS
  Messages,           \* message ids that may ever be seen
  LegacyMessages,     \* those stored by a schema older than surface_metadata
  LinkCount,          \* number of links of each message
  Handlers,           \* concurrent calls of persist
  Workers,            \* worker tasks
  QueueMaxSize,       \* telegram_relay.queue_max_size
  RecoveryBatchSize,  \* telegram_relay.recovery_batch_size
  MaxAttempts,        \* telegram_relay.processing_max_attempts
  MaxReceives,        \* bound: deliveries by Telegram, first ones and repeats
  MaxCrashes,         \* bound: ends of the process
  MaxTaskDeaths,      \* bound: background tasks ended by a database error
  None                \* the absent message

ASSUME MessagesAssumption ==
  /\ Messages \subseteq Nat \ {0}
  /\ IsFiniteSet(Messages)
  /\ LegacyMessages \subseteq Messages
  /\ LinkCount \in [Messages -> Nat]
  /\ None \notin Messages

ASSUME BoundsAssumption ==
  /\ QueueMaxSize \in Nat \ {0}
  /\ RecoveryBatchSize \in Nat \ {0}
  /\ MaxAttempts \in Nat \ {0}
  /\ MaxReceives \in Nat
  /\ MaxCrashes \in Nat
  /\ MaxTaskDeaths \in Nat

VARIABLES
  \* rows of source_messages
  status,      \* processing_status, or "absent"
  attempts,    \* attempt_count
  lease,       \* processing_lease_until against the clock
  due,         \* next_attempt_at is null or has passed
  errorCode,   \* error_code
  \* row of telegram_channel_checkpoints
  checkpoint,  \* last_persisted_message_id, 0 for none
  \* memory of the process
  app,         \* life of the process
  queue,       \* asyncio.Queue
  enqueued,    \* the set _enqueued
  handler,     \* calls of persist between their awaits
  worker,      \* worker tasks between their awaits
  recovery,    \* recover_once, from start or from the recovery loop
  \* bounds
  receives, crashes, deaths

rows     == <<status, attempts, lease, due, errorCode>>
memory   == <<app, queue, enqueued, handler, worker, recovery>>
bounds   == <<receives, crashes, deaths>>
vars     == <<rows, checkpoint, memory, bounds>>

-----------------------------------------------------------------------------
Open    == {"RECEIVED", "PROCESSING", "FAILED_RETRYABLE"}
Settled == {"COMPLETED", "FAILED_PERMANENT"}
Status  == {"absent"} \cup Open \cup Settled
Code    == {"none", "QUEUE_CAPACITY_DEFERRED", "PROCESSING_ERROR",
            "RETRY_EXHAUSTED", "CONTENT_HASH_MISMATCH"}

HandlerState  == [stage : {"idle", "persisted", "full"},
                  msg   : Messages \cup {None}]
WorkerState   == [stage : {"idle", "taken", "claimed", "linking", "dead"},
                  msg   : Messages \cup {None},
                  left  : Nat]
RecoveryState == [stage : {"idle", "selected", "dead"},
                  batch : SUBSET Messages]

IdleHandler  == [stage |-> "idle", msg |-> None]
IdleWorker   == [stage |-> "idle", msg |-> None, left |-> 0]
DeadWorker   == [stage |-> "dead", msg |-> None, left |-> 0]
IdleRecovery == [stage |-> "idle", batch |-> {}]

\* A worker that took an id from the queue and has not yet discarded it.
Busy(w) == worker[w].stage \in {"taken", "claimed", "linking"}
\* A worker between a successful claim and its complete or fail.
Owns(w, m) == worker[w].stage \in {"claimed", "linking"} /\ worker[w].msg = m

InQueue(m) == \E i \in 1..Len(queue) : queue[i] = m

RowsTypeOK ==
  /\ status \in [Messages -> Status]
  /\ attempts \in [Messages -> 0..MaxAttempts]
  /\ lease \in [Messages -> {"none", "live", "expired"}]
  /\ due \in [Messages -> BOOLEAN]
  /\ errorCode \in [Messages -> Code]
  /\ checkpoint \in Messages \cup {0}

TasksTypeOK ==
  /\ handler \in [Handlers -> HandlerState]
  /\ \A h \in Handlers : handler[h].stage # "idle" => handler[h].msg \in Messages
  /\ worker \in [Workers -> WorkerState]
  /\ \A w \in Workers : Busy(w) => worker[w].msg \in Messages
  /\ recovery \in RecoveryState

QueueTypeOK ==
  /\ queue \in Seq(Messages)
  /\ Len(queue) <= QueueMaxSize
  /\ enqueued \subseteq Messages

CountersTypeOK ==
  /\ app \in {"down", "starting", "running"}
  /\ receives \in 0..MaxReceives
  /\ crashes \in 0..MaxCrashes
  /\ deaths \in 0..MaxTaskDeaths

TypeOK == RowsTypeOK /\ TasksTypeOK /\ QueueTypeOK /\ CountersTypeOK

\* A legacy row was stored by an earlier version and may have been completed.
Init ==
  /\ status \in {s \in [Messages -> {"absent", "RECEIVED", "COMPLETED"}] :
                   \A m \in Messages : s[m] = "absent" <=> m \notin LegacyMessages}
  /\ attempts = [m \in Messages |-> 0]
  /\ lease = [m \in Messages |-> "none"]
  /\ due = [m \in Messages |-> TRUE]
  /\ errorCode = [m \in Messages |-> "none"]
  /\ checkpoint = 0
  /\ app = "down"
  /\ queue = <<>>
  /\ enqueued = {}
  /\ handler = [h \in Handlers |-> IdleHandler]
  /\ worker = [w \in Workers |-> IdleWorker]
  /\ recovery = IdleRecovery
  /\ receives = 0
  /\ crashes = 0
  /\ deaths = 0

-----------------------------------------------------------------------------
(* Intake: persist_without_enqueue is one transaction, the put is later.   *)

\* TelegramCheckpointRepository.record_persisted: the newest id wins.
RecordPersisted(m) == checkpoint' = IF m > checkpoint THEN m ELSE checkpoint

CanReceive(h) ==
  /\ app = "running"
  /\ handler[h].stage = "idle"
  /\ receives < MaxReceives
  /\ receives' = receives + 1

\* persist goes on to _enqueue only when the transaction said queued.
AwaitEnqueue(h, m) ==
  handler' = [handler EXCEPT ![h] = [stage |-> "persisted", msg |-> m]]

\* First delivery: the row is inserted as RECEIVED.
ReceiveNew(h, m) ==
  /\ CanReceive(h)
  /\ status[m] = "absent"
  /\ status' = [status EXCEPT ![m] = "RECEIVED"]
  /\ RecordPersisted(m)
  /\ AwaitEnqueue(h, m)
  /\ UNCHANGED <<attempts, lease, due, errorCode, app, queue, enqueued, worker,
                 recovery, crashes, deaths>>

\* Mutant: an upsert in receive that resets the row of a known id.
ReceiveDuplicateUpsert(h, m) ==
  /\ CanReceive(h)
  /\ status[m] # "absent"
  /\ status' = [status EXCEPT ![m] = "RECEIVED"]
  /\ lease' = [lease EXCEPT ![m] = "none"]
  /\ RecordPersisted(m)
  /\ AwaitEnqueue(h, m)
  /\ UNCHANGED <<attempts, due, errorCode, app, queue, enqueued, worker, recovery,
                 crashes, deaths>>

\* Redelivery with the stored hash: a settled row is not queued again.
ReceiveDuplicate(h, m) ==
  /\ CanReceive(h)
  /\ status[m] # "absent"
  /\ m \notin LegacyMessages
  /\ RecordPersisted(m)
  /\ IF status[m] \in Settled THEN UNCHANGED handler ELSE AwaitEnqueue(h, m)
  /\ UNCHANGED <<rows, app, queue, enqueued, worker, recovery, crashes, deaths>>

\* Redelivery of a row that predates surface_metadata, with its old hash:
\* refused or known, and never queued by this path.
ReceiveLegacy(h, m) ==
  /\ CanReceive(h)
  /\ m \in LegacyMessages
  /\ RecordPersisted(m)
  /\ UNCHANGED <<rows, handler, app, queue, enqueued, worker, recovery, crashes,
                 deaths>>

\* mark_content_mismatch has no condition on the state of the row.
MarkContentMismatch(m) ==
  /\ status' = [status EXCEPT ![m] = "FAILED_PERMANENT"]
  /\ lease' = [lease EXCEPT ![m] = "none"]
  /\ due' = [due EXCEPT ![m] = TRUE]
  /\ errorCode' = [errorCode EXCEPT ![m] = "CONTENT_HASH_MISMATCH"]

\* Redelivery of a known id with other content.
ReceiveChanged(h, m) ==
  /\ CanReceive(h)
  /\ status[m] # "absent"
  /\ MarkContentMismatch(m)
  /\ RecordPersisted(m)
  /\ UNCHANGED <<attempts, handler, app, queue, enqueued, worker, recovery,
                 crashes, deaths>>

\* Mutant: _enqueue without its look at _enqueued.
EnqueueTwice(h) ==
  LET m == handler[h].msg IN
  /\ handler[h].stage = "persisted"
  /\ \/ /\ Len(queue) < QueueMaxSize
        /\ queue' = Append(queue, m)
        /\ enqueued' = enqueued \cup {m}
        /\ handler' = [handler EXCEPT ![h] = IdleHandler]
     \/ /\ Len(queue) >= QueueMaxSize
        /\ handler' = [handler EXCEPT ![h].stage = "full"]
        /\ UNCHANGED <<queue, enqueued>>
  /\ UNCHANGED <<rows, checkpoint, app, worker, recovery, bounds>>

\* _enqueue: an id already in _enqueued is not put twice, a full queue defers.
Enqueue(h) ==
  LET m == handler[h].msg IN
  /\ handler[h].stage = "persisted"
  /\ \/ /\ m \in enqueued
        /\ handler' = [handler EXCEPT ![h] = IdleHandler]
        /\ UNCHANGED <<queue, enqueued>>
     \/ /\ m \notin enqueued
        /\ Len(queue) < QueueMaxSize
        /\ queue' = Append(queue, m)
        /\ enqueued' = enqueued \cup {m}
        /\ handler' = [handler EXCEPT ![h] = IdleHandler]
     \/ /\ m \notin enqueued
        /\ Len(queue) >= QueueMaxSize
        /\ handler' = [handler EXCEPT ![h].stage = "full"]
        /\ UNCHANGED <<queue, enqueued>>
  /\ UNCHANGED <<rows, checkpoint, app, worker, recovery, bounds>>

\* defer_queue_full leaves a note on a row that is still RECEIVED.
DeferQueueFull(h) ==
  LET m == handler[h].msg IN
  /\ handler[h].stage = "full"
  /\ errorCode' = [errorCode EXCEPT
       ![m] = IF status[m] = "RECEIVED" THEN "QUEUE_CAPACITY_DEFERRED" ELSE @]
  /\ handler' = [handler EXCEPT ![h] = IdleHandler]
  /\ UNCHANGED <<status, attempts, lease, due, checkpoint, app, queue, enqueued,
                 worker, recovery, bounds>>

-----------------------------------------------------------------------------
(* Recovery: recover_once, called by start and by the recovery loop.       *)

\* Mutant: a claim that does not ask for an attempt that is left.
RecoverableWithoutBudget(m) ==
  \/ status[m] = "RECEIVED"
  \/ status[m] = "FAILED_RETRYABLE" /\ due[m]
  \/ status[m] = "PROCESSING" /\ lease[m] = "expired"

\* _recoverable_expression together with the attempt budget.
Recoverable(m) ==
  /\ attempts[m] < MaxAttempts
  /\ \/ status[m] = "RECEIVED"
     \/ status[m] = "FAILED_RETRYABLE" /\ due[m]
     \/ status[m] = "PROCESSING" /\ lease[m] = "expired"

\* mark_exhausted looks at the attempts and the status, not at the lease.
Exhausted(m) == attempts[m] >= MaxAttempts /\ status[m] \in Open

\* The first n of S in delivery order.
Oldest(S, n) == {m \in S : Cardinality({k \in S : k < m}) < n}

\* The enumerations of S in delivery order (there is exactly one).
InOrder(S) == {s \in [1..Cardinality(S) -> S] :
                 \A i, j \in 1..Cardinality(S) : i < j => s[i] < s[j]}

RecoverSelect ==
  /\ app \in {"starting", "running"}
  /\ recovery.stage = "idle"
  /\ status' = [m \in Messages |-> IF Exhausted(m) THEN "FAILED_PERMANENT" ELSE status[m]]
  /\ lease' = [m \in Messages |-> IF Exhausted(m) THEN "none" ELSE lease[m]]
  /\ due' = [m \in Messages |-> IF Exhausted(m) THEN TRUE ELSE due[m]]
  /\ errorCode' = [m \in Messages |->
                     IF Exhausted(m) THEN "RETRY_EXHAUSTED" ELSE errorCode[m]]
  /\ recovery' = [stage |-> "selected",
                  batch |-> Oldest({m \in Messages : Recoverable(m)},
                                   RecoveryBatchSize)]
  /\ UNCHANGED <<attempts, checkpoint, app, queue, enqueued, handler, worker, bounds>>

\* The selected rows are put in order until the queue is full.
RecoverEnqueue ==
  LET fresh == recovery.batch \ enqueued
      room  == QueueMaxSize - Len(queue)
  IN
  /\ recovery.stage = "selected"
  /\ \E s \in InOrder(fresh) :
       LET added == SubSeq(s, 1, IF Len(s) < room THEN Len(s) ELSE room) IN
       /\ queue' = queue \o added
       /\ enqueued' = enqueued \cup {added[i] : i \in 1..Len(added)}
  /\ recovery' = IdleRecovery
  /\ app' = "running"   \* start creates the workers after its own recover_once
  /\ UNCHANGED <<rows, checkpoint, handler, worker, bounds>>

-----------------------------------------------------------------------------
(* Workers: _worker and RelayProcessor.process.                            *)

\* Mutant: a worker that ends a message and does not discard its id.
ReleaseKeepsId(w, next) ==
  /\ UNCHANGED enqueued
  /\ worker' = [worker EXCEPT ![w] = next]

\* The finally clause of _worker.
Release(w, next) ==
  /\ enqueued' = enqueued \ {worker[w].msg}
  /\ worker' = [worker EXCEPT ![w] = next]

Take(w) ==
  /\ app = "running"
  /\ worker[w].stage = "idle"
  /\ queue # <<>>
  /\ worker' = [worker EXCEPT ![w] = [stage |-> "taken", msg |-> Head(queue), left |-> 0]]
  /\ queue' = Tail(queue)
  /\ UNCHANGED <<rows, checkpoint, app, enqueued, handler, recovery, bounds>>

\* SourceMessageRepository.claim.
Claim(w) ==
  LET m == worker[w].msg IN
  /\ worker[w].stage = "taken"
  /\ Recoverable(m)
  /\ status' = [status EXCEPT ![m] = "PROCESSING"]
  /\ attempts' = [attempts EXCEPT ![m] = @ + 1]
  /\ lease' = [lease EXCEPT ![m] = "live"]
  /\ due' = [due EXCEPT ![m] = TRUE]
  /\ errorCode' = [errorCode EXCEPT ![m] = "none"]
  /\ worker' = [worker EXCEPT ![w].stage = "claimed", ![w].left = LinkCount[m]]
  /\ UNCHANGED <<checkpoint, app, queue, enqueued, handler, recovery, bounds>>

ClaimNothing(w) ==
  /\ worker[w].stage = "taken"
  /\ ~Recoverable(worker[w].msg)
  /\ Release(w, IdleWorker)
  /\ UNCHANGED <<rows, checkpoint, app, queue, handler, recovery, bounds>>

\* renew_lease before each link: it asks for PROCESSING, not for an owner.
RenewLease(w) ==
  LET m == worker[w].msg IN
  /\ worker[w].stage = "claimed"
  /\ worker[w].left > 0
  /\ lease' = [lease EXCEPT ![m] = IF status[m] = "PROCESSING" THEN "live" ELSE @]
  /\ worker' = [worker EXCEPT ![w].stage = "linking"]
  /\ UNCHANGED <<status, attempts, due, errorCode, checkpoint, app, queue, enqueued,
                 handler, recovery, bounds>>

LinkDone(w) ==
  /\ worker[w].stage = "linking"
  /\ worker' = [worker EXCEPT ![w].stage = "claimed", ![w].left = @ - 1]
  /\ UNCHANGED <<rows, checkpoint, app, queue, enqueued, handler, recovery, bounds>>

\* Mutant: fail does not look at the attempts that were spent.
FailAlwaysRetryable(w) ==
  LET m == worker[w].msg IN
  /\ worker[w].stage = "linking"
  /\ status' = [status EXCEPT ![m] = "FAILED_RETRYABLE"]
  /\ lease' = [lease EXCEPT ![m] = "none"]
  /\ due' = [due EXCEPT ![m] = FALSE]
  /\ errorCode' = [errorCode EXCEPT ![m] = "PROCESSING_ERROR"]
  /\ Release(w, IdleWorker)
  /\ UNCHANGED <<attempts, checkpoint, app, queue, handler, recovery, bounds>>

\* fail: every failure of a link is retryable, and the row is overwritten
\* whatever its state is.
Fail(w) ==
  LET m         == worker[w].msg
      exhausted == attempts[m] >= MaxAttempts
  IN
  /\ worker[w].stage = "linking"
  /\ status' = [status EXCEPT
       ![m] = IF exhausted THEN "FAILED_PERMANENT" ELSE "FAILED_RETRYABLE"]
  /\ lease' = [lease EXCEPT ![m] = "none"]
  /\ due' = [due EXCEPT ![m] = exhausted]
  /\ errorCode' = [errorCode EXCEPT
       ![m] = IF exhausted THEN "RETRY_EXHAUSTED" ELSE "PROCESSING_ERROR"]
  /\ Release(w, IdleWorker)
  /\ UNCHANGED <<attempts, checkpoint, app, queue, handler, recovery, bounds>>

\* complete: only a row that is still PROCESSING changes.
Complete(w) ==
  LET m  == worker[w].msg
      ok == status[m] = "PROCESSING"
  IN
  /\ worker[w].stage = "claimed"
  /\ worker[w].left = 0
  /\ status' = [status EXCEPT ![m] = IF ok THEN "COMPLETED" ELSE @]
  /\ lease' = [lease EXCEPT ![m] = IF ok THEN "none" ELSE @]
  /\ due' = [due EXCEPT ![m] = IF ok THEN TRUE ELSE @]
  /\ errorCode' = [errorCode EXCEPT ![m] = IF ok THEN "none" ELSE @]
  /\ Release(w, IdleWorker)
  /\ UNCHANGED <<attempts, checkpoint, app, queue, handler, recovery, bounds>>

-----------------------------------------------------------------------------
(* Faults, the life of the process, and time.                              *)

\* A database error in the transaction of claim, complete or fail leaves
\* process, and nothing in _worker catches it: the task ends.
WorkerDies(w) ==
  /\ Busy(w)
  /\ deaths < MaxTaskDeaths
  /\ deaths' = deaths + 1
  /\ Release(w, DeadWorker)
  /\ UNCHANGED <<rows, checkpoint, app, queue, handler, recovery, receives, crashes>>

\* The same in recover_once ends the recovery loop.
RecoveryDies ==
  /\ app = "running"
  /\ recovery.stage = "idle"
  /\ deaths < MaxTaskDeaths
  /\ deaths' = deaths + 1
  /\ recovery' = [recovery EXCEPT !.stage = "dead"]
  /\ UNCHANGED <<rows, checkpoint, app, queue, enqueued, handler, worker, receives,
                 crashes>>

Boot ==
  /\ app = "down"
  /\ app' = "starting"
  /\ UNCHANGED <<rows, checkpoint, queue, enqueued, handler, worker, recovery, bounds>>

\* The end of the process, killed or stopped (stop cancels the tasks): a
\* claimed row keeps its lease and every id in memory is forgotten.
Crash ==
  /\ app # "down"
  /\ crashes < MaxCrashes
  /\ crashes' = crashes + 1
  /\ app' = "down"
  /\ queue' = <<>>
  /\ enqueued' = {}
  /\ handler' = [h \in Handlers |-> IdleHandler]
  /\ worker' = [w \in Workers |-> IdleWorker]
  /\ recovery' = IdleRecovery
  /\ UNCHANGED <<rows, checkpoint, receives, deaths>>

LeaseExpires(m) ==
  /\ lease[m] = "live"
  /\ lease' = [lease EXCEPT ![m] = "expired"]
  /\ UNCHANGED <<status, attempts, due, errorCode, checkpoint, memory, bounds>>

BackoffElapses(m) ==
  /\ ~due[m]
  /\ due' = [due EXCEPT ![m] = TRUE]
  /\ UNCHANGED <<status, attempts, lease, errorCode, checkpoint, memory, bounds>>

-----------------------------------------------------------------------------
Receive(h, m) == \/ ReceiveNew(h, m) \/ ReceiveDuplicate(h, m)
                 \/ ReceiveLegacy(h, m) \/ ReceiveChanged(h, m)

Intake(h) == Enqueue(h) \/ DeferQueueFull(h)

Work(w) == \/ Take(w) \/ Claim(w) \/ ClaimNothing(w) \/ RenewLease(w)
           \/ LinkDone(w) \/ Fail(w) \/ Complete(w)

Recover == RecoverSelect \/ RecoverEnqueue

Elapse(m) == LeaseExpires(m) \/ BackoffElapses(m)

Next ==
  \/ \E h \in Handlers, m \in Messages : Receive(h, m)
  \/ \E h \in Handlers : Intake(h)
  \/ \E w \in Workers : Work(w) \/ WorkerDies(w)
  \/ Recover \/ RecoveryDies
  \/ Boot \/ Crash
  \/ \E m \in Messages : Elapse(m)

Spec == Init /\ [][Next]_vars

\* A worker or a task that the event loop can resume is resumed, clocks
\* advance, and an operator restarts a process that went down.  Telegram
\* need not deliver anything and nothing forces a fault.
Fairness ==
  /\ \A h \in Handlers : WF_vars(Intake(h))
  /\ \A w \in Workers : WF_vars(Work(w))
  /\ WF_vars(Recover)
  /\ WF_vars(Boot)
  /\ \A m \in Messages : WF_vars(LeaseExpires(m)) /\ WF_vars(BackoffElapses(m))

FairSpec == Spec /\ Fairness

-----------------------------------------------------------------------------
(* Safety.                                                                 *)

\* _enqueued is exactly the queued ids together with the ids workers hold.
EnqueuedIsQueuedOrHeld ==
  \A m \in Messages :
    m \in enqueued <=> InQueue(m) \/ \E w \in Workers : Busy(w) /\ worker[w].msg = m

\* An id is in one place only: once in the queue, or with one worker.
OnePlace ==
  /\ \A i, j \in 1..Len(queue) : queue[i] = queue[j] => i = j
  /\ \A w \in Workers : Busy(w) => ~InQueue(worker[w].msg)
  /\ \A v, w \in Workers :
       Busy(v) /\ Busy(w) /\ worker[v].msg = worker[w].msg => v = w

\* The set _enqueued of DurableRelayQueue keeps every id in one place, so no
\* two workers process one message, whatever recovery, redelivery and lease
\* expiry ask the queue to take.
SingleHolder == EnqueuedIsQueuedOrHeld /\ OnePlace

\* While a worker processes a message, nothing but an exhausted budget or a
\* content mismatch takes the row away from PROCESSING: in particular the row
\* is not completed, not retryable and not claimed by anybody else.
ClaimHeld ==
  \A w \in Workers, m \in Messages :
    Owns(w, m) =>
      \/ status[m] = "PROCESSING"
      \/ /\ status[m] = "FAILED_PERMANENT"
         /\ errorCode[m] \in {"RETRY_EXHAUSTED", "CONTENT_HASH_MISMATCH"}

\* A PROCESSING row always has a lease that can expire and a spent attempt,
\* and no other row has a lease: recovery can reach every abandoned claim.
NoStrandedClaim ==
  \A m \in Messages :
    /\ status[m] = "PROCESSING" <=> lease[m] # "none"
    /\ status[m] = "PROCESSING" => attempts[m] >= 1

\* A message whose budget is spent and that ended FAILED_PERMANENT never
\* leaves it: neither recovery, nor redelivery, nor a worker that was still
\* busy with it when the budget ran out, opens it again.
ExhaustedIsFinal ==
  [][\A m \in Messages :
       attempts[m] = MaxAttempts /\ status[m] = "FAILED_PERMANENT"
         => status'[m] = "FAILED_PERMANENT"]_vars

\* A completed message stays completed unless other content arrives under its
\* identity (mark_content_mismatch): a late fail never takes the result back.
CompletedLeavesByMismatchOnly ==
  [][\A m \in Messages :
       status[m] = "COMPLETED" /\ status'[m] # "COMPLETED"
         => errorCode'[m] = "CONTENT_HASH_MISMATCH"]_vars

(* Liveness, under FairSpec without task deaths.                           *)

\* A message that was persisted is settled in the end, in spite of a full
\* queue, failing links, crashes between any two steps and redeliveries.
EventuallySettled ==
  \A m \in Messages : status[m] \in Open ~> status[m] \in Settled

=============================================================================
