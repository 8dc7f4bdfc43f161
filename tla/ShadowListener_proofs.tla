------------------------ MODULE ShadowListener_proofs ------------------------
(* Proofs about ShadowListener for every value of its constants.            *)
EXTENDS ShadowListener, FiniteSetTheorems, TLAPS

(* What is still to come.                                                   *)

\* Handlers that may give an outcome or leave it to the worker.
OpenHandlers == {e \in Events : handler[e] \in {"persisting", "enqueueing"}}

\* The worker is at a message, and goes on.
Working == worker.stage \notin {"none", "idle", "dead", "cancelled"}

\* Outcomes the worker may still give: a worker that ended takes nothing more.
OfWorker ==
  IF worker.stage \in {"none", "dead", "cancelled"} THEN 0
  ELSE Len(queue) + (IF Working THEN 1 ELSE 0)

ToCome == Cardinality(OpenHandlers) + OfWorker

\* An admitted event will have no outcome before the shutdown reconciles it.
Lost == count.terminal + ToCome < count.received

\* Whoever may record an outcome has an admitted event of its own for it; once
\* the outcomes are reconciled, nobody may.
ListenerInv ==
  /\ count.terminal + ToCome <= count.received
  /\ phase = "starting" => count.received = 0
  /\ phase \in {"cancelling", "joining", "stopping", "disconnecting", "off"} =>
       OpenHandlers = {}
  /\ phase = "stopping" => worker.stage \in {"none", "dead", "cancelled"}
  /\ phase \in {"disconnecting", "off"} => worker.stage \in {"none", "dead"}
  /\ phase \in {"stopping", "disconnecting"} /\ result # "raised" =>
       count.terminal = count.received

-----------------------------------------------------------------------------
(* What a run without failures leaves behind.                               *)

\* Nothing more is to be done for the row in this run.
Settled(m) ==
  \/ row[m] \in {"legacy", "COMPLETED", "FAILED_PERMANENT"}
  \/ row[m] = "PROCESSING" /\ claimedIn[m] < runs

InHand(m) ==
  \/ \E i \in 1..Len(queue) : queue[i] = m
  \/ Working /\ Mine = m

\* The first way through the run: the coroutine was not cancelled.
Running ==
  phase \in {"starting", "ready", "handlers", "cancelling", "joining"} /\ ~cancelled

\* A row the worker claimed is with the worker, until it ends.
ClaimsAreHeld ==
  \A m \in Messages : row[m] = "PROCESSING" /\ claimedIn[m] = runs =>
    \/ worker.stage \in {"none", "dead", "cancelled"}
    \/ /\ worker.stage \in {"relaying", "working", "recording", "refused", "failing"}
       /\ Mine = m

\* The row of the message the worker is at, by stage.
AtStage ==
  /\ worker.stage \in {"relaying", "working", "recording", "refused", "failing"} =>
       row[Mine] \in {"PROCESSING", "FAILED_PERMANENT"}
  /\ worker.stage \in {"converting", "delivering"} => Settled(Mine)

DoneIsCovered ==
  \A e \in Events : handler[e] = "done" =>
    Settled(MessageOf[e]) \/ InHand(MessageOf[e]) \/ Lost

RowsKnown ==
  /\ \A m \in Messages : claimedIn[m] <= runs
  /\ \A m \in Messages : InHand(m) => row[m] # "none"
  /\ \A e \in Events : handler[e] = "enqueueing" => row[MessageOf[e]] # "none"

WhileRunning ==
  /\ count.reconciled = 0
  /\ \A m \in enqueued : InHand(m)
  /\ count.failed = 0 => ClaimsAreHeld /\ AtStage /\ DoneIsCovered

\* What a clean run tells is true from the end of the join on.
Clean ==
  /\ count.reconciled = 0
  /\ Unfinished = 0 /\ Active = {}
  /\ count.failed = 0 => \A e \in Events : handler[e] = "done" => Settled(MessageOf[e])

CompleteInv ==
  /\ RowsKnown
  /\ Running => WhileRunning
  /\ phase = "cancelling" => error # "none"
  /\ phase = "joining" /\ ~cancelled /\ error = "none" => Active = {}
  /\ \/ phase \in {"stopping", "disconnecting"} /\ ~cancelled /\ error = "none" /\ result # "raised"
     \/ phase = "off" /\ result = "clean"
     => Clean
-----------------------------------------------------------------------------
(* Type correctness.                                                       *)

CountType == [{"received", "terminal", "failed", "reconciled"} -> Nat]

LEMMA ZeroType == Zero \in CountType /\ CountType = [DOMAIN Zero -> Nat]
BY DEF Zero, CountType

LEMMA NoWorkerType ==
  /\ NoWorker \in [stage : WorkerStage, message : Messages]
  /\ NoWorker.stage = "none"
  /\ \A s \in WorkerStage : [NoWorker EXCEPT !.stage = s] \in [stage : WorkerStage, message : Messages]
<1>1. (CHOOSE m \in Messages : TRUE) \in Messages
  BY ListenerAssumption
<1> QED
  BY <1>1 DEF NoWorker, WorkerStage

LEMMA Counters ==
  ASSUME TypeOK
  PROVE  /\ count \in CountType
         /\ count.received \in Nat /\ count.terminal \in Nat
         /\ count.failed \in Nat /\ count.reconciled \in Nat
         /\ Missing \in Nat
<1>1. count \in CountType
  BY ZeroType DEF TypeOK
<1>2. /\ count.received \in Nat /\ count.terminal \in Nat
      /\ count.failed \in Nat /\ count.reconciled \in Nat
  BY <1>1 DEF CountType
<1> QED
  BY <1>1, <1>2 DEF Missing

\* What the steps of the controller count.
LEMMA ProcessedCounts ==
  ASSUME TypeOK, RecordProcessed
  PROVE  /\ count' \in CountType
         /\ count'.terminal = count.terminal + 1
         /\ count'.received = count.received /\ count'.failed = count.failed
         /\ count'.reconciled = count.reconciled
BY Counters, ZeroType DEF RecordProcessed, CountType

LEMMA RejectedCounts ==
  ASSUME TypeOK, NEW f \in BOOLEAN, RecordRejected(f)
  PROVE  /\ count' \in CountType
         /\ count'.terminal = count.terminal + 1
         /\ count'.received = count.received
         /\ count'.failed = IF f THEN count.failed + 1 ELSE count.failed
         /\ count'.reconciled = count.reconciled
<1>1. PICK n \in Nat : n = IF f THEN count.failed + 1 ELSE count.failed
  BY Counters
<1>2. PICK t \in Nat : t = count.terminal + 1
  BY Counters
<1>3. count' = [count EXCEPT !.terminal = t, !.failed = n]
  BY <1>1, <1>2 DEF RecordRejected
<1>4. count' \in CountType
  BY <1>3, Counters DEF CountType
<1> QED
  BY <1>1, <1>2, <1>3, <1>4, Counters DEF CountType

LEMMA FailedCounts ==
  ASSUME TypeOK, RecordRejected(TRUE)
  PROVE  /\ count'.terminal = count.terminal + 1 /\ count'.received = count.received
         /\ count'.failed = count.failed + 1 /\ count'.reconciled = count.reconciled
<1>1. count' = [count EXCEPT !.terminal = @ + 1, !.failed = @ + 1]
  BY DEF RecordRejected
<1> QED
  BY <1>1, Counters DEF CountType

LEMMA OutcomeCounts ==
  ASSUME TypeOK, RecordProcessed \/ RecordRejected(TRUE) \/ RecordRejected(FALSE)
  PROVE  /\ count'.terminal = count.terminal + 1 /\ count'.received = count.received
         /\ count'.failed >= count.failed /\ count'.reconciled = count.reconciled
<1>0. count.failed \in Nat
  BY Counters
<1>1. CASE RecordProcessed
  <2>1. count'.failed = count.failed
    BY <1>1, ProcessedCounts
  <2> QED
    BY <1>0, <1>1, <2>1, ProcessedCounts
<1>2. CASE RecordRejected(TRUE)
  BY <1>0, <1>2, FailedCounts
<1>3. CASE RecordRejected(FALSE)
  <2>1. count' = [count EXCEPT !.terminal = @ + 1, !.failed = @]
    BY <1>3 DEF RecordRejected
  <2> QED
    BY <2>1, Counters DEF CountType
<1> QED
  BY <1>1, <1>2, <1>3

LEMMA ReconcileCounts ==
  ASSUME TypeOK, NEW e, ReconcileUnfinished(e)
  PROVE  /\ count' \in CountType
         /\ count'.terminal = count.terminal + Missing
         /\ count'.received = count.received
         /\ count'.failed = count.failed + Missing
         /\ count'.reconciled = count.reconciled + Missing
<1>1. PICK n \in Nat : n = Missing
  BY Counters
<1>2. count' = [count EXCEPT !.failed = @ + n, !.terminal = @ + n, !.reconciled = @ + n]
  BY <1>1 DEF ReconcileUnfinished
<1>3. /\ count \in CountType
      /\ count.failed + n \in Nat /\ count.terminal + n \in Nat /\ count.reconciled + n \in Nat
  BY Counters
<1>4. count' \in CountType
  BY <1>2, <1>3 DEF CountType
<1> QED
  BY <1>1, <1>2, <1>3, <1>4 DEF CountType

LEMMA InitTypeOK == Init => TypeOK
<1> SUFFICES ASSUME Init
             PROVE  TypeOK
  OBVIOUS
<1>1. queue \in Seq(Messages) /\ Len(queue) <= QueueMax /\ enqueued \subseteq Messages
  BY ListenerAssumption DEF Init
<1>2. worker \in [stage : WorkerStage, message : Messages] /\ count \in CountType
  BY ZeroType, NoWorkerType DEF Init, WorkerStage
<1>3. row \in [Messages -> RowState] /\ handler \in [Events -> HandlerState]
  BY DEF Init, RowState, HandlerState
<1>4. /\ claimedIn \in [Messages -> 0..MaxRuns] /\ stale \subseteq Messages
      /\ runs \in 0..MaxRuns
  BY ListenerAssumption DEF Init
<1>5. phase \in Phase /\ stop \in BOOLEAN /\ cancelled \in BOOLEAN
  BY DEF Init, Phase
<1>6. /\ error \in {"none", "failed", "timeout"}
      /\ result \in {"none", "clean", "shutdown_failed", "shutdown_timeout", "raised"}
  BY DEF Init
<1> QED
  BY <1>1, <1>2, <1>3, <1>4, <1>5, <1>6, ZeroType DEF TypeOK

LEMMA HandlerTypeOK ==
  ASSUME TypeOK, NEW e \in Events, Handler(e)
  PROVE  TypeOK'
<1> USE ZeroType DEF db, run, Set
<1>0. MessageOf[e] \in Messages
  BY ListenerAssumption
<1>1. \A s \in HandlerState : Set(e, s) => handler' \in [Events -> HandlerState]
  BY DEF TypeOK
<1>2. CASE Exclude(e) \/ Coalesce(e) \/ HandlerEnds(e)
  BY <1>2 DEF Exclude, Coalesce, HandlerEnds, TypeOK, HandlerState
<1>3. CASE Admit(e)
  <2>1. count' \in CountType
    BY <1>3, Counters DEF Admit, CountType
  <2> QED
    BY <1>3, <2>1 DEF Admit, TypeOK, HandlerState, RequestStop
<1>4. CASE Store(e)
  BY <1>0, <1>4 DEF Store, TypeOK, HandlerState, RowState
<1>5. CASE HandlerSettles(e)
  <2>1. count' \in CountType
    BY <1>5, ProcessedCounts, RejectedCounts DEF HandlerSettles
  <2>2. row' \in [Messages -> RowState]
    BY <1>0, <1>5 DEF HandlerSettles, TypeOK, RowState
  <2> QED
    BY <1>5, <2>1, <2>2 DEF HandlerSettles, TypeOK, HandlerState
<1>6. CASE Enqueue(e)
  <2>1. queue' \in Seq(Messages) /\ Len(queue') = Len(queue) + 1 /\ Len(queue) + 1 <= QueueMax
    BY <1>0, <1>6, ListenerAssumption DEF Enqueue, TypeOK
  <2> QED
    BY <1>0, <1>6, <2>1 DEF Enqueue, TypeOK, HandlerState
<1>7. CASE Defer(e)
  <2>1. count' \in CountType
    BY <1>7, RejectedCounts DEF Defer
  <2> QED
    BY <1>7, <2>1 DEF Defer, TypeOK, HandlerState
<1> QED
  BY <1>2, <1>3, <1>4, <1>5, <1>6, <1>7 DEF Handler

\* A step of the worker on the row, the counters, the stage and the limits.
LEMMA WorkerTypeOK ==
  ASSUME TypeOK, Worker
  PROVE  TypeOK'
<1> USE ZeroType DEF db, run
<1> DEFINE WorkerType == [stage : WorkerStage, message : Messages]
<1>0. worker \in WorkerType /\ Mine \in Messages
  BY DEF TypeOK, Mine
<1>1. \A s \in WorkerStage : To(s) => worker' \in WorkerType
  BY DEF TypeOK, To
<1>2. \A s \in WorkerStage : Release(s) =>
        /\ worker' \in WorkerType /\ enqueued' \subseteq Messages
        /\ UNCHANGED <<handler, queue>>
  BY NoWorkerType DEF TypeOK, Release
<1>3. MayReachLimit => stop' \in BOOLEAN /\ UNCHANGED <<phase, error, cancelled, result, runs>>
  BY DEF MayReachLimit, RequestStop, TypeOK
<1>4. Claim => /\ row' \in [Messages -> RowState]
               /\ claimedIn' \in [Messages -> 0..MaxRuns]
               /\ UNCHANGED stale
  BY <1>0 DEF Claim, TypeOK, RowState
<1>5. Complete \/ Fail => row' \in [Messages -> RowState]
  BY <1>0 DEF Complete, Fail, TypeOK, RowState
<1>6. \A failed \in BOOLEAN : RecordRejected(failed) => count' \in CountType
  BY RejectedCounts
<1>7. RecordProcessed => count' \in CountType
  BY ProcessedCounts
<1>8. {"idle", "taken", "relaying", "converting", "delivering", "working", "recording",
       "refused", "failing", "none", "dead"} \subseteq WorkerStage
  BY DEF WorkerStage
<1>9. CASE Take
  <2>1. Head(queue) \in Messages /\ Tail(queue) \in Seq(Messages) /\ Len(Tail(queue)) <= QueueMax
    BY <1>9, ListenerAssumption DEF Take, TypeOK
  <2> QED
    BY <1>9, <2>1 DEF Take, TypeOK, WorkerStage
<1>10. CASE RelayClaim \/ CoinClaim
  BY <1>1, <1>4, <1>8, <1>10 DEF RelayClaim, CoinClaim, TypeOK
<1>11. CASE RelayNothing \/ CoinCompleteFails
  BY <1>1, <1>8, <1>11 DEF RelayNothing, CoinCompleteFails, Continue, TypeOK
<1>12. CASE RelayEnd
  BY <1>1, <1>5, <1>8, <1>12 DEF RelayEnd, TypeOK
<1>13. CASE Convert \/ CoinWork
  <2>1. worker' \in WorkerType
    BY <1>1, <1>8, <1>13 DEF Convert, CoinWork
  <2> QED
    BY <1>3, <1>13, <2>1 DEF Convert, CoinWork, TypeOK
<1>14. CASE Delivered
  BY <1>2, <1>3, <1>7, <1>8, <1>14 DEF Delivered, TypeOK
<1>15. CASE CanonicalRejected
  BY <1>2, <1>3, <1>6, <1>8, <1>15 DEF CanonicalRejected, Reject, TypeOK
<1>16. CASE CoinSkip
  BY <1>2, <1>7, <1>8, <1>16 DEF CoinSkip, TypeOK
<1>17. CASE CoinComplete
  BY <1>2, <1>5, <1>7, <1>8, <1>17 DEF CoinComplete, TypeOK
<1>18. CASE CoinFail
  <2>1. Busy("failing") \in BOOLEAN
    BY DEF Busy
  <2> QED
    BY <1>2, <1>5, <1>6, <1>8, <1>18, <2>1 DEF CoinFail, TypeOK
<1>19. CASE WorkerDies
  BY <1>2, <1>8, <1>19 DEF WorkerDies, TypeOK
<1>20. CASE WorkerEnds
  <2>1. row' \in [Messages -> RowState]
    BY <1>5, <1>20 DEF WorkerEnds, TypeOK
  <2> QED
    BY <1>2, <1>8, <1>20, <2>1 DEF WorkerEnds, TypeOK
<1> QED
  BY <1>9, <1>10, <1>11, <1>12, <1>13, <1>14, <1>15, <1>16, <1>17, <1>18, <1>19, <1>20 DEF Worker

\* A cancelled worker waits for its end, or there is none.
LEMMA CancelWorkerType ==
  ASSUME TypeOK, CancelWorker
  PROVE  /\ worker' \in [stage : WorkerStage, message : Messages]
         /\ worker'.stage \in {"none", "dead", "cancelled"}
         /\ worker.stage \in {"none", "idle", "dead"} => worker'.stage \in {"none", "dead"}
<1>1. CASE Busy("idle")
  BY <1>1, NoWorkerType DEF CancelWorker, Busy
<1>2. CASE worker.stage \in {"none", "dead"}
  BY <1>2 DEF CancelWorker, Busy, TypeOK
<1>3. CASE worker.stage \notin {"none", "dead", "idle"}
  <2>1. To("cancelled")
    BY <1>3 DEF CancelWorker, Busy
  <2> QED
    BY <1>3, <2>1 DEF To, TypeOK, WorkerStage
<1> QED
  BY <1>1, <1>2, <1>3 DEF Busy

LEMMA RunTypeOK ==
  ASSUME TypeOK, Start \/ Ready \/ StartFails \/ Monitor \/ Cancel \/ CancelAgain \/ Crash
  PROVE  TypeOK'
<1> USE ZeroType DEF db, task
<1>1. CASE Start
  <2>1. runs + 1 \in 0..MaxRuns
    BY <1>1, ListenerAssumption DEF Start, TypeOK
  <2>2. [NoWorker EXCEPT !.stage = "idle"] \in [stage : WorkerStage, message : Messages]
    BY NoWorkerType DEF WorkerStage
  <2>3. Len(queue') <= QueueMax /\ queue' \in Seq(Messages)
    BY <1>1, ListenerAssumption DEF Start
  <2> QED
    BY <1>1, <2>1, <2>2, <2>3, ZeroType
    DEF Start, TypeOK, RowState, HandlerState, Phase
<1>2. CASE Ready
  BY <1>2 DEF Ready, TypeOK, Phase
<1>3. CASE StartFails
  BY <1>3, CancelWorkerType DEF StartFails, TypeOK, Phase
<1>4. CASE RunTimesOut \/ StopRequested \/ Cancel
  <2>1. Shutdown /\ stop' \in BOOLEAN /\ cancelled' \in BOOLEAN
    BY <1>4 DEF RunTimesOut, StopRequested, Cancel, RequestStop, TypeOK
  <2> QED
    BY <2>1 DEF Shutdown, TypeOK, Phase
<1>5. CASE HandlersDone \/ HandlersCancelled
  BY <1>5 DEF HandlersDone, HandlersCancelled, TypeOK, Phase
<1>6. CASE HandlersTimeOut
  BY <1>6 DEF HandlersTimeOut, TypeOK, Phase, HandlerState
<1>7. CASE Joined \/ JoinTimesOut
  <2>1. count' \in CountType
    BY <1>7, ReconcileCounts DEF Joined, JoinTimesOut
  <2>2. error' \in {"none", "failed", "timeout"}
    BY <1>7 DEF Joined, JoinTimesOut, ReconcileUnfinished, TypeOK
  <2> QED
    BY <1>7, <2>1, <2>2, CancelWorkerType DEF Joined, JoinTimesOut, TypeOK, Phase
<1>8. CASE Stopped
  BY <1>8 DEF Stopped, TypeOK, Phase
<1>9. CASE StopTimesOut
  BY <1>9, NoWorkerType DEF StopTimesOut, TypeOK, Phase
<1>10. CASE Disconnect
  <2>1. error' \in {"none", "failed", "timeout"}
    BY <1>10 DEF Disconnect, TypeOK
  <2>2. result' \in {"none", "clean", "shutdown_failed", "shutdown_timeout", "raised"}
    BY <1>10, <2>1 DEF Disconnect
  <2> QED
    BY <1>10, <2>1, <2>2 DEF Disconnect, TypeOK, Phase
<1>11. CASE Crash
  <2>1. Len(queue') <= QueueMax /\ queue' \in Seq(Messages)
    BY <1>11, ListenerAssumption DEF Crash
  <2> QED
    BY <1>11, <2>1, NoWorkerType DEF Crash, TypeOK, Phase, HandlerState
<1>12. CASE CancelAgain
  BY <1>12, CancelWorkerType DEF CancelAgain, TypeOK, Phase, HandlerState
<1> QED
  BY <1>1, <1>2, <1>3, <1>4, <1>5, <1>6, <1>7, <1>8, <1>9, <1>10, <1>11, <1>12 DEF Monitor

LEMMA NextTypeOK == TypeOK /\ [Next]_vars => TypeOK'
<1> SUFFICES ASSUME TypeOK, [Next]_vars
             PROVE  TypeOK'
  OBVIOUS
<1>1. ASSUME NEW m \in Messages, LeaseExpires(m)
      PROVE  TypeOK'
  BY <1>1 DEF LeaseExpires, TypeOK, task, run
<1>2. CASE UNCHANGED vars
  BY <1>2 DEF vars, db, task, run, TypeOK
<1> QED
  BY <1>1, <1>2, HandlerTypeOK, WorkerTypeOK, RunTypeOK DEF Next

\* Every reachable state is typed; the queue never holds more than its size.
THEOREM TypeCorrect == Spec => []TypeOK
BY InitTypeOK, NextTypeOK, PTL DEF Spec
-----------------------------------------------------------------------------
(* What a step does to the outcomes that are still to come.                *)

\* States in which the worker is at a message.
WorkStages == {"taken", "relaying", "converting", "delivering", "working", "recording",
               "refused", "failing"}

LEMMA ToComeType ==
  ASSUME TypeOK
  PROVE  /\ IsFiniteSet(OpenHandlers) /\ Cardinality(OpenHandlers) \in Nat
         /\ Cardinality(OpenHandlers) = 0 <=> OpenHandlers = {}
         /\ Len(queue) \in Nat /\ OfWorker \in Nat /\ ToCome \in Nat
         /\ Working => OfWorker = Len(queue) + 1
         /\ Working <=> worker.stage \in WorkStages
         /\ worker.stage = "idle" => OfWorker = Len(queue)
<1>1. OpenHandlers \subseteq Events
  BY DEF OpenHandlers
<1>2. IsFiniteSet(OpenHandlers)
  BY <1>1, FS_Subset, ListenerAssumption
<1>3. Cardinality(OpenHandlers) \in Nat /\ (Cardinality(OpenHandlers) = 0 <=> OpenHandlers = {})
  BY <1>2, FS_CardinalityType, FS_EmptySet
<1>4. Len(queue) \in Nat /\ worker.stage \in WorkerStage
  BY DEF TypeOK
<1>5. OfWorker \in Nat
  BY <1>4 DEF OfWorker
<1> QED
  BY <1>2, <1>3, <1>4, <1>5 DEF OfWorker, ToCome, Working, WorkStages, WorkerStage

\* A handler that opens, stays open or not, or closes.
LEMMA HandlerOpens ==
  ASSUME TypeOK, NEW e \in Events, NEW s \in HandlerState, Set(e, s)
  PROVE  /\ handler'[e] = s /\ \A f \in Events \ {e} : handler'[f] = handler[f]
         /\ s \in {"persisting", "enqueueing"} => OpenHandlers' = OpenHandlers \cup {e}
         /\ s \notin {"persisting", "enqueueing"} => OpenHandlers' = OpenHandlers \ {e}
<1>1. handler'[e] = s /\ \A f \in Events \ {e} : handler'[f] = handler[f]
  BY DEF Set, TypeOK
<1> QED
  BY <1>1 DEF OpenHandlers

LEMMA HandlerCounts ==
  ASSUME TypeOK, NEW e \in Events
  PROVE  /\ Cardinality(OpenHandlers \cup {e}) =
              Cardinality(OpenHandlers) + (IF e \in OpenHandlers THEN 0 ELSE 1)
         /\ Cardinality(OpenHandlers \ {e}) =
              Cardinality(OpenHandlers) - (IF e \in OpenHandlers THEN 1 ELSE 0)
<1>1. IsFiniteSet(OpenHandlers) /\ Cardinality(OpenHandlers) \in Nat
  BY ToComeType
<1>2. Cardinality(OpenHandlers \cup {e}) =
        IF e \in OpenHandlers THEN Cardinality(OpenHandlers) ELSE Cardinality(OpenHandlers) + 1
  BY <1>1, FS_AddElement
<1>3. Cardinality(OpenHandlers \ {e}) =
        IF e \in OpenHandlers THEN Cardinality(OpenHandlers) - 1 ELSE Cardinality(OpenHandlers)
  BY <1>1, FS_RemoveElement
<1> QED
  BY <1>1, <1>2, <1>3

\* An admitted event is an outcome to come, until one is recorded or lost.
Balance ==
  count.received + count'.terminal + ToCome' <= count'.received + count.terminal + ToCome

LEMMA HandlerBalance ==
  ASSUME TypeOK, NEW e \in Events, Handler(e)
  PROVE  /\ Balance
         /\ OpenHandlers' # {} => OpenHandlers # {} \/ phase = "ready"
         /\ OpenHandlers = {} /\ phase # "ready" => UNCHANGED count
         /\ phase # "ready" => UNCHANGED count.received
         /\ count'.reconciled = count.reconciled /\ count'.failed >= count.failed
         /\ UNCHANGED <<worker, phase, error, cancelled, result, runs>>
<1> USE DEF run
<1>0. /\ count.received \in Nat /\ count.terminal \in Nat /\ count.failed \in Nat
      /\ ToCome \in Nat /\ OfWorker \in Nat /\ Cardinality(OpenHandlers) \in Nat
  BY Counters, ToComeType
<1>1. UNCHANGED <<worker, phase, error, cancelled, result, runs>>
  BY DEF Handler, Exclude, Admit, Store, HandlerSettles, Enqueue, Coalesce, Defer, HandlerEnds
<1>2. ASSUME UNCHANGED <<queue, worker>>
      PROVE  OfWorker' = OfWorker
  BY <1>2 DEF OfWorker, Working
<1>3. CASE Exclude(e) \/ HandlerEnds(e)
  <2>1. OpenHandlers' = OpenHandlers \ {e} /\ e \notin OpenHandlers
    BY <1>3, HandlerOpens DEF Exclude, HandlerEnds, HandlerState, OpenHandlers
  <2>2. OpenHandlers' = OpenHandlers
    BY <2>1
  <2>3. OfWorker' = OfWorker /\ UNCHANGED count
    BY <1>2, <1>3 DEF Exclude, HandlerEnds
  <2> QED
    BY <1>0, <1>1, <2>2, <2>3 DEF Balance, ToCome
<1>4. CASE Admit(e)
  <2>1. OpenHandlers' = OpenHandlers \cup {e} /\ e \notin OpenHandlers
    BY <1>4, HandlerOpens DEF Admit, HandlerState, OpenHandlers
  <2>2. Cardinality(OpenHandlers)' = Cardinality(OpenHandlers) + 1
    BY <2>1, HandlerCounts
  <2>3. OfWorker' = OfWorker /\ phase = "ready"
    BY <1>2, <1>4 DEF Admit, Accepting
  <2>4. /\ count'.received = count.received + 1 /\ count'.terminal = count.terminal
        /\ count'.failed = count.failed /\ count'.reconciled = count.reconciled
    BY <1>4, Counters DEF Admit, CountType
  <2>5. OpenHandlers' # {} => phase = "ready"
    BY <2>3
  <2>6. Balance
    BY <1>0, <2>2, <2>3, <2>4 DEF Balance, ToCome
  <2> QED
    <3>1. count'.failed >= count.failed /\ count'.reconciled = count.reconciled
      BY <1>0, <2>4
    <3> QED
      BY <1>1, <2>3, <2>6, <3>1
<1>5. CASE Store(e)
  <2>1. OpenHandlers' = OpenHandlers \cup {e} /\ e \in OpenHandlers
    BY <1>5, HandlerOpens DEF Store, HandlerState, OpenHandlers
  <2>2. OpenHandlers' = OpenHandlers
    BY <2>1
  <2>3. OfWorker' = OfWorker /\ UNCHANGED count
    BY <1>2, <1>5 DEF Store
  <2>4. Balance
    BY <1>0, <2>2, <2>3 DEF Balance, ToCome
  <2> QED
    BY <1>0, <1>1, <2>2, <2>3, <2>4
<1>6. ASSUME handler[e] \in {"persisting", "enqueueing"}, Set(e, "done")
      PROVE  /\ Cardinality(OpenHandlers)' = Cardinality(OpenHandlers) - 1
             /\ OpenHandlers # {}
  <2>1. OpenHandlers' = OpenHandlers \ {e} /\ e \in OpenHandlers
    BY <1>6, HandlerOpens DEF HandlerState, OpenHandlers
  <2> QED
    BY <2>1, HandlerCounts
<1>7. CASE HandlerSettles(e) \/ Defer(e)
  <2>1. Cardinality(OpenHandlers)' = Cardinality(OpenHandlers) - 1 /\ OpenHandlers # {}
    BY <1>6, <1>7 DEF HandlerSettles, Defer
  <2>2. /\ count'.received = count.received /\ count'.terminal = count.terminal + 1
        /\ count'.failed >= count.failed /\ count'.reconciled = count.reconciled
    BY <1>7, OutcomeCounts DEF HandlerSettles, Defer
  <2>3. OfWorker' = OfWorker
    BY <1>2, <1>7 DEF HandlerSettles, Defer
  <2> QED
    BY <1>0, <1>1, <2>1, <2>2, <2>3 DEF Balance, ToCome
<1>8. CASE Enqueue(e) \/ Coalesce(e)
  <2>1. Cardinality(OpenHandlers)' = Cardinality(OpenHandlers) - 1 /\ OpenHandlers # {}
    BY <1>6, <1>8 DEF Enqueue, Coalesce
  <2>2. UNCHANGED <<count, worker>>
    BY <1>8 DEF Enqueue, Coalesce
  <2>3. Len(queue') \in Nat /\ Len(queue) \in Nat /\ Len(queue') <= Len(queue) + 1
    BY <1>8, ListenerAssumption DEF Enqueue, Coalesce, TypeOK
  <2>4. OfWorker' <= OfWorker + 1
    BY <2>2, <2>3 DEF OfWorker, Working
  <2>5. OfWorker' \in Nat
    BY <2>3 DEF OfWorker
  <2> QED
    BY <1>0, <1>1, <2>1, <2>2, <2>4, <2>5 DEF Balance, ToCome
<1> QED
  BY <1>3, <1>4, <1>5, <1>7, <1>8 DEF Handler
\* The kinds of steps the worker takes: it begins with a message, it goes on with
\* it, it gives its outcome, it dies of an error, or it ends once cancelled.
Begins == Take

GoesOn ==
  /\ Working /\ worker'.stage \in WorkStages /\ worker'.message = Mine
  /\ UNCHANGED <<handler, queue, enqueued, count>>

GivesOutcome ==
  /\ Working /\ Release("idle")
  /\ \/ RecordProcessed
     \/ RecordRejected(TRUE)
     \/ RecordRejected(FALSE) /\ worker.stage \in {"converting", "refused"}

Dies == Working /\ Release("dead") /\ UNCHANGED <<row, claimedIn, count>>

Ends == worker.stage = "cancelled" /\ Release("none") /\ UNCHANGED count

LEMMA WorkerKinds ==
  ASSUME TypeOK, Worker
  PROVE  /\ Begins \/ GoesOn \/ GivesOutcome \/ Dies \/ Ends
         /\ UNCHANGED <<handler, phase, error, cancelled, result, runs>>
<1> USE DEF run, Busy
<1>1. ASSUME NEW s \in WorkStages, To(s), Working, UNCHANGED <<handler, queue, enqueued, count>>
      PROVE  GoesOn
  BY <1>1 DEF GoesOn, To, Mine, TypeOK
<1>2. \A s : Release(s) => UNCHANGED <<handler, queue>>
  BY DEF Release
<1>3. \A s \in WorkStages : worker.stage = s => Working
  BY DEF WorkStages, Working
<1>4. CASE Take
  BY <1>4 DEF Take, Begins
<1>5. CASE RelayClaim \/ RelayNothing \/ RelayEnd \/ CoinClaim \/ CoinCompleteFails
  <2>1. \E s \in WorkStages : To(s)
    BY <1>5 DEF RelayClaim, RelayNothing, RelayEnd, CoinClaim, CoinCompleteFails, Continue, WorkStages
  <2>2. Working /\ UNCHANGED <<handler, queue, enqueued, count, run>>
    BY <1>3, <1>5
    DEF RelayClaim, RelayNothing, RelayEnd, CoinClaim, CoinCompleteFails, Continue, WorkStages
  <2> QED
    BY <1>1, <2>1, <2>2
<1>6. CASE Convert \/ CoinWork
  <2>1. \E s \in WorkStages : To(s)
    BY <1>6 DEF Convert, CoinWork, WorkStages
  <2>2. Working /\ UNCHANGED <<handler, queue, enqueued, count>>
    BY <1>3, <1>6 DEF Convert, CoinWork, WorkStages
  <2> QED
    BY <1>1, <1>6, <2>1, <2>2 DEF Convert, CoinWork, MayReachLimit
<1>7. CASE Delivered
  BY <1>2, <1>3, <1>7 DEF Delivered, GivesOutcome, MayReachLimit, WorkStages
<1>8. CASE CanonicalRejected
  <2>1. Working /\ Release("idle")
    BY <1>3, <1>8 DEF CanonicalRejected, Reject, WorkStages
  <2>2. \/ RecordRejected(TRUE)
        \/ RecordRejected(FALSE) /\ worker.stage = "converting"
    BY <1>8 DEF CanonicalRejected, Reject
  <2> QED
    BY <1>2, <1>8, <2>1, <2>2 DEF CanonicalRejected, MayReachLimit, GivesOutcome
<1>9. CASE CoinSkip
  BY <1>2, <1>3, <1>9 DEF CoinSkip, GivesOutcome, WorkStages
<1>10. CASE CoinComplete
  BY <1>2, <1>3, <1>10 DEF CoinComplete, GivesOutcome, WorkStages
<1>11. CASE CoinFail
  <2>1. Working
    BY <1>3, <1>11 DEF CoinFail, WorkStages
  <2>2. CASE worker.stage = "failing"
    BY <1>2, <1>11, <2>1, <2>2 DEF CoinFail, GivesOutcome
  <2>3. CASE worker.stage = "refused"
    <3>1. RecordRejected(FALSE)
      BY <1>11, <2>3 DEF CoinFail
    <3> QED
      BY <1>2, <1>11, <2>1, <2>3, <3>1 DEF CoinFail, GivesOutcome
  <2> QED
    BY <1>11, <2>2, <2>3 DEF CoinFail
<1>12. CASE WorkerDies
  BY <1>2, <1>3, <1>12 DEF WorkerDies, Dies, WorkStages, db
<1>13. CASE WorkerEnds
  BY <1>2, <1>13 DEF WorkerEnds, Ends
<1> QED
  BY <1>4, <1>5, <1>6, <1>7, <1>8, <1>9, <1>10, <1>11, <1>12, <1>13 DEF Worker

LEMMA WorkerBalance ==
  ASSUME TypeOK, Worker
  PROVE  /\ Balance /\ OpenHandlers' = OpenHandlers
         /\ Dies => Lost' \/ ~(count.terminal + ToCome <= count.received)
         /\ UNCHANGED count.received
         /\ count'.reconciled = count.reconciled /\ count'.failed >= count.failed
         /\ worker.stage \in {"none", "dead", "cancelled"} =>
              UNCHANGED count /\ worker'.stage \in {"none", "dead", "cancelled"}
         /\ worker.stage \notin {"none", "dead"}
<1>0. /\ count.received \in Nat /\ count.terminal \in Nat /\ count.failed \in Nat
      /\ ToCome \in Nat /\ OfWorker \in Nat /\ Cardinality(OpenHandlers) \in Nat
      /\ Len(queue) \in Nat
  BY Counters, ToComeType
<1>1. OpenHandlers' = OpenHandlers
  BY WorkerKinds DEF OpenHandlers
<1>2. ToCome = Cardinality(OpenHandlers) + OfWorker /\ ToCome' = Cardinality(OpenHandlers) + OfWorker'
  BY <1>1 DEF ToCome
<1>3. \A s \in WorkerStage : Release(s) => worker'.stage = s /\ queue' = queue
  BY NoWorkerType DEF Release, NoWorker
<1>4. CASE Begins
  <2>1. Len(queue') = Len(queue) - 1 /\ Len(queue) >= 1
    BY <1>4 DEF Begins, Take, TypeOK
  <2>2. worker.stage = "idle" /\ worker'.stage = "taken" /\ UNCHANGED count
    BY <1>4 DEF Begins, Take, Busy
  <2>3. OfWorker' = OfWorker
    BY <1>0, <2>1, <2>2 DEF OfWorker, Working
  <2> QED
    BY <1>0, <1>1, <1>2, <2>2, <2>3 DEF Balance, Dies, Working
<1>5. CASE GoesOn
  <2>1. OfWorker' = OfWorker /\ UNCHANGED count /\ Working
    BY <1>5 DEF GoesOn, OfWorker, Working, WorkStages
  <2>2. ~Dies
    BY <1>3, <1>5 DEF Dies, GoesOn, WorkStages, WorkerStage
  <2> QED
    BY <1>0, <1>1, <1>2, <2>1, <2>2 DEF Balance, Working
<1>6. CASE GivesOutcome
  <2>1. worker'.stage = "idle" /\ queue' = queue /\ Working
    BY <1>3, <1>6 DEF GivesOutcome, WorkerStage
  <2>2. OfWorker' = OfWorker - 1
    BY <1>0, <2>1 DEF OfWorker, Working
  <2>3. /\ count'.received = count.received /\ count'.terminal = count.terminal + 1
        /\ count'.failed >= count.failed /\ count'.reconciled = count.reconciled
    BY <1>6, OutcomeCounts DEF GivesOutcome
  <2>4. ~Dies
    BY <1>3, <2>1 DEF Dies, WorkerStage
  <2> QED
    BY <1>0, <1>1, <1>2, <2>1, <2>2, <2>3, <2>4, SMTT(30) DEF Balance, Working
<1>7. CASE Dies
  <2>1. worker'.stage = "dead" /\ UNCHANGED count /\ Working
    BY <1>3, <1>7 DEF Dies, WorkerStage
  <2>2. OfWorker' = 0 /\ OfWorker >= 1
    BY <1>0, <2>1 DEF OfWorker, Working
  <2> QED
    BY <1>0, <1>1, <1>2, <2>1, <2>2, SMTT(30) DEF Balance, Working, Lost
<1>8. CASE Ends
  <2>1. worker'.stage = "none" /\ UNCHANGED count /\ worker.stage = "cancelled"
    BY <1>3, <1>8 DEF Ends, WorkerStage
  <2>2. OfWorker' = 0
    BY <2>1 DEF OfWorker
  <2> QED
    BY <1>0, <1>1, <1>2, <2>1, <2>2 DEF Balance, Dies, Working
<1> QED
  BY <1>4, <1>5, <1>6, <1>7, <1>8, WorkerKinds
-----------------------------------------------------------------------------
(* The outcomes of the events.                                             *)

Gone == worker.stage \in {"none", "dead", "cancelled"}

LEMMA InitListenerInv == Init => ListenerInv
<1> SUFFICES ASSUME Init
             PROVE  ListenerInv
  OBVIOUS
<1>1. OpenHandlers = {} /\ worker.stage = "none" /\ phase = "off"
  BY NoWorkerType DEF Init, OpenHandlers
<1>2. ToCome = 0
  BY <1>1, FS_EmptySet DEF ToCome, OfWorker
<1>3. count.terminal = 0 /\ count.received = 0
  BY DEF Init, Zero
<1> QED
  BY <1>1, <1>2, <1>3 DEF ListenerInv

\* No open handler and no worker: nothing is to come.
LEMMA NothingToCome ==
  ASSUME OpenHandlers = {}, Gone
  PROVE  ToCome = 0
BY FS_EmptySet DEF ToCome, OfWorker, Gone

LEMMA HandlerListenerInv ==
  ASSUME TypeOK, ListenerInv, NEW e \in Events, Handler(e)
  PROVE  ListenerInv'
<1>0. /\ count.received \in Nat /\ count.terminal \in Nat /\ ToCome \in Nat
      /\ count'.received \in Nat /\ count'.terminal \in Nat /\ ToCome' \in Nat
  <2>1. TypeOK'
    BY HandlerTypeOK
  <2>2. count'.received \in Nat /\ count'.terminal \in Nat
    BY <2>1, ZeroType DEF TypeOK, CountType
  <2>3. OpenHandlers' \subseteq Events
    BY DEF OpenHandlers
  <2>4. IsFiniteSet(OpenHandlers') /\ Cardinality(OpenHandlers') \in Nat
    BY <2>3, FS_Subset, FS_CardinalityType, ListenerAssumption
  <2>5. OfWorker' \in Nat
    BY <2>1 DEF TypeOK, OfWorker
  <2> QED
    BY <2>2, <2>4, <2>5, Counters, ToComeType DEF ToCome
<1>1. count'.terminal + ToCome' <= count'.received
  BY <1>0, HandlerBalance DEF ListenerInv, Balance
<1> QED
  BY <1>1, HandlerBalance DEF ListenerInv

LEMMA WorkerListenerInv ==
  ASSUME TypeOK, ListenerInv, Worker
  PROVE  ListenerInv'
<1>0. /\ count.received \in Nat /\ count.terminal \in Nat /\ ToCome \in Nat
      /\ count'.received \in Nat /\ count'.terminal \in Nat /\ ToCome' \in Nat
  <2>1. TypeOK'
    BY WorkerTypeOK
  <2>2. count'.received \in Nat /\ count'.terminal \in Nat
    BY <2>1, ZeroType DEF TypeOK, CountType
  <2>3. OpenHandlers' = OpenHandlers
    BY WorkerBalance
  <2>5. OfWorker' \in Nat
    BY <2>1 DEF TypeOK, OfWorker
  <2> QED
    BY <2>2, <2>3, <2>5, Counters, ToComeType DEF ToCome
<1>1. count'.terminal + ToCome' <= count'.received
  BY <1>0, WorkerBalance DEF ListenerInv, Balance
<1>2. phase' = phase /\ result' = result /\ OpenHandlers' = OpenHandlers
  BY WorkerKinds, WorkerBalance
<1> QED
  BY <1>1, <1>2, WorkerBalance DEF ListenerInv

LEMMA RunListenerInv ==
  ASSUME TypeOK, ListenerInv, Start \/ Ready \/ StartFails \/ Monitor \/ Cancel \/ CancelAgain \/ Crash
  PROVE  ListenerInv'
<1>0. /\ count.received \in Nat /\ count.terminal \in Nat /\ ToCome \in Nat
      /\ Cardinality(OpenHandlers) \in Nat /\ OfWorker \in Nat
  BY Counters, ToComeType
<1>1. ASSUME UNCHANGED task
      PROVE  ToCome' = ToCome /\ OpenHandlers' = OpenHandlers /\ worker' = worker
  BY <1>1 DEF task, ToCome, OfWorker, Working, OpenHandlers
<1>2. CASE Start
  <2>1. OpenHandlers' = {}
    BY <1>2 DEF Start, OpenHandlers
  <2>2. worker'.stage = "idle" /\ queue' = <<>>
    BY <1>2, NoWorkerType DEF Start, NoWorker
  <2>3. ToCome' = 0
    BY <2>1, <2>2, FS_EmptySet DEF ToCome, OfWorker, Working
  <2>4. phase' = "starting" /\ count'.terminal = 0 /\ count'.received = 0
    BY <1>2 DEF Start, Zero
  <2> QED
    BY <2>3, <2>4 DEF ListenerInv
<1>3. CASE Ready
  BY <1>1, <1>3 DEF Ready, ListenerInv
<1>4. CASE StartFails
  <2>1. count.terminal = 0 /\ ToCome = 0 /\ count.received = 0
    BY <1>0, <1>4 DEF StartFails, ListenerInv
  <2>2. OpenHandlers = {}
    BY <1>0, <2>1, ToComeType DEF ToCome
  <2>3. OpenHandlers' = {} /\ Gone'
    BY <1>4, <2>2, CancelWorkerType DEF StartFails, OpenHandlers, Gone
  <2>4. ToCome' = 0
    BY <2>3, FS_EmptySet DEF ToCome, OfWorker, Gone
  <2> QED
    BY <1>4, <2>1, <2>3, <2>4 DEF StartFails, ListenerInv, Gone
<1>5. CASE RunTimesOut \/ StopRequested \/ Cancel
  <2>1. Shutdown
    BY <1>5 DEF RunTimesOut, StopRequested, Cancel
  <2> QED
    BY <1>1, <2>1 DEF Shutdown, ListenerInv
<1>6. CASE HandlersDone
  <2>1. OpenHandlers = {}
    BY <1>6 DEF HandlersDone, Active, OpenHandlers
  <2> QED
    BY <1>1, <1>6, <2>1 DEF HandlersDone, ListenerInv
<1>7. CASE HandlersTimeOut
  <2>1. OpenHandlers' = {}
    BY <1>7 DEF HandlersTimeOut, Active, OpenHandlers
  <2>2. OfWorker' = OfWorker
    BY <1>7 DEF HandlersTimeOut, OfWorker, Working
  <2>3. ToCome' <= ToCome /\ ToCome' \in Nat
    BY <1>0, <2>1, <2>2, FS_EmptySet DEF ToCome
  <2>4. count.terminal + ToCome' <= count.received
    BY <1>0, <2>3 DEF ListenerInv
  <2> QED
    BY <1>7, <2>1, <2>4 DEF HandlersTimeOut, ListenerInv
<1>8. CASE HandlersCancelled
  BY <1>1, <1>8 DEF HandlersCancelled, ListenerInv
<1>9. CASE Joined \/ JoinTimesOut
  <2>1. /\ OpenHandlers = {} /\ UNCHANGED handler /\ CancelWorker /\ phase' = "stopping"
        /\ \E e : ReconcileUnfinished(e)
    BY <1>9 DEF Joined, JoinTimesOut, ListenerInv
  <2>2. OpenHandlers' = {} /\ Gone'
    BY <2>1, CancelWorkerType DEF OpenHandlers, Gone
  <2>3. ToCome' = 0
    BY <2>2, FS_EmptySet DEF ToCome, OfWorker, Gone
  <2>4. count'.terminal = count.terminal + Missing /\ count'.received = count.received
    BY <2>1, ReconcileCounts
  <2>5. count.terminal <= count.received
    BY <1>0 DEF ListenerInv
  <2>6. count'.terminal = count'.received /\ count'.received \in Nat
    BY <1>0, <2>4, <2>5 DEF Missing
  <2> QED
    BY <2>1, <2>2, <2>3, <2>6 DEF ListenerInv, Gone
<1>10. CASE Stopped
  BY <1>1, <1>10 DEF Stopped, ListenerInv
<1>11. CASE StopTimesOut
  <2>1. OpenHandlers' = {} /\ worker'.stage = "none"
    BY <1>11, NoWorkerType DEF StopTimesOut, ListenerInv, OpenHandlers
  <2>2. ToCome' = 0
    BY <2>1, FS_EmptySet DEF ToCome, OfWorker
  <2> QED
    BY <1>0, <1>11, <2>1, <2>2 DEF StopTimesOut, ListenerInv
<1>12. CASE Disconnect
  BY <1>1, <1>12 DEF Disconnect, ListenerInv
<1>13. CASE Crash
  <2>1. OpenHandlers' = {} /\ worker'.stage = "none"
    BY <1>13, NoWorkerType DEF Crash, OpenHandlers, Active
  <2>2. ToCome' = 0
    BY <2>1, FS_EmptySet DEF ToCome, OfWorker
  <2>3. count.terminal <= count.received
    BY <1>0 DEF ListenerInv
  <2> QED
    BY <1>0, <1>13, <2>1, <2>2, <2>3 DEF Crash, ListenerInv
<1>14. CASE CancelAgain
  <2>1. OpenHandlers' = {} /\ Gone'
    BY <1>14, CancelWorkerType DEF CancelAgain, OpenHandlers, Active, Gone
  <2>2. ToCome' = 0
    BY <2>1, FS_EmptySet DEF ToCome, OfWorker, Gone
  <2>3. count.terminal <= count.received
    BY <1>0 DEF ListenerInv
  <2> QED
    BY <1>0, <1>14, <2>1, <2>2, <2>3 DEF CancelAgain, ListenerInv, Gone
<1> QED
  BY <1>2, <1>3, <1>4, <1>5, <1>6, <1>7, <1>8, <1>9, <1>10, <1>11, <1>12, <1>13, <1>14 DEF Monitor

LEMMA NextListenerInv == TypeOK /\ ListenerInv /\ [Next]_vars => ListenerInv'
<1> SUFFICES ASSUME TypeOK, ListenerInv, [Next]_vars
             PROVE  ListenerInv'
  OBVIOUS
<1>1. ASSUME UNCHANGED <<task, count, phase, result>>
      PROVE  ListenerInv'
  BY <1>1 DEF task, ListenerInv, ToCome, OfWorker, Working, OpenHandlers
<1>2. ASSUME NEW m \in Messages, LeaseExpires(m)
      PROVE  ListenerInv'
  BY <1>1, <1>2 DEF LeaseExpires, run
<1>3. CASE UNCHANGED vars
  BY <1>1, <1>3 DEF vars, run
<1> QED
  BY <1>2, <1>3, HandlerListenerInv, WorkerListenerInv, RunListenerInv DEF Next

\* No event has two outcomes and, once the shutdown reconciled them, every admitted
\* event has one and nothing is recorded later: each outcome that handler or worker
\* may still record belongs to an admitted event without one, and the shutdown
\* leaves neither of them.
THEOREM OutcomesMatchEventsHolds == Spec => []OutcomesMatchEvents
<1>1. TypeOK /\ ListenerInv => OutcomesMatchEvents
  <2> SUFFICES ASSUME TypeOK, ListenerInv
               PROVE  OutcomesMatchEvents
    OBVIOUS
  <2>1. count.terminal <= count.received
    BY Counters, ToComeType DEF ListenerInv
  <2> QED
    BY <2>1 DEF ListenerInv, OutcomesMatchEvents
<1>2. Init => TypeOK /\ ListenerInv
  BY InitTypeOK, InitListenerInv
<1>3. TypeOK /\ ListenerInv /\ [Next]_vars => (TypeOK /\ ListenerInv)'
  BY NextTypeOK, NextListenerInv
<1> QED
  BY <1>1, <1>2, <1>3, PTL DEF Spec
-----------------------------------------------------------------------------
(* A clean run is complete.                                                *)

\* A step that takes no message from the worker and no outcome from a row.
LEMMA InHandStays ==
  ASSUME UNCHANGED <<queue, worker>>, NEW m
  PROVE  InHand(m)' <=> InHand(m)
BY DEF InHand, Working, Mine

LEMMA SettledStays ==
  ASSUME UNCHANGED <<row, claimedIn, runs>>, NEW m
  PROVE  Settled(m)' <=> Settled(m)
BY DEF Settled

LEMMA NothingInHand ==
  ASSUME queue = <<>>, ~Working, NEW m
  PROVE  ~InHand(m)
BY DEF InHand

LEMMA LostStays ==
  ASSUME TypeOK, TypeOK', Balance, Lost
  PROVE  Lost'
<1>0. /\ count.received \in Nat /\ count.terminal \in Nat /\ ToCome \in Nat
  BY Counters, ToComeType
<1>1. count'.received \in Nat /\ count'.terminal \in Nat /\ ToCome' \in Nat
  <2>1. count'.received \in Nat /\ count'.terminal \in Nat
    BY ZeroType DEF TypeOK, CountType
  <2>2. OpenHandlers' \subseteq Events
    BY DEF OpenHandlers
  <2>3. IsFiniteSet(OpenHandlers') /\ Cardinality(OpenHandlers') \in Nat
    BY <2>2, FS_Subset, FS_CardinalityType, ListenerAssumption
  <2>4. OfWorker' \in Nat
    BY DEF TypeOK, OfWorker
  <2> QED
    BY <2>1, <2>3, <2>4 DEF ToCome
<1> QED
  BY <1>0, <1>1 DEF Balance, Lost
LEMMA InitCompleteInv == Init => CompleteInv
<1> SUFFICES ASSUME Init
             PROVE  CompleteInv
  OBVIOUS
<1>1. queue = <<>> /\ ~Working
  BY NoWorkerType DEF Init, Working
<1>2. RowsKnown
  BY <1>1, NothingInHand DEF Init, RowsKnown
<1> QED
  BY <1>2 DEF Init, CompleteInv, Running

\* Once no handler is active, handlers only refuse events.
LEMMA QuietHandlers ==
  ASSUME TypeOK, Active = {}, phase # "ready", NEW e \in Events, Handler(e)
  PROVE  /\ Active' = {} /\ UNCHANGED <<db, queue, worker, count>> /\ phase # "off"
         /\ \A f \in Events : handler'[f] = "done" => handler[f] = "done"
<1>1. handler[e] \notin {"persisting", "enqueueing", "cancelling"}
  BY DEF Active
<1>2. Exclude(e)
  BY <1>1 DEF Handler, Admit, Accepting, Store, HandlerSettles, Enqueue, Coalesce, Defer, HandlerEnds
<1>3. handler' = [handler EXCEPT ![e] = "refused"]
  BY <1>2 DEF Exclude, Set
<1>4. Active' = {}
  BY <1>3 DEF Active, TypeOK
<1>5. \A f \in Events : handler'[f] = "done" => handler[f] = "done"
  BY <1>3 DEF TypeOK
<1> QED
  BY <1>2, <1>4, <1>5 DEF Exclude

\* How handlers change the rows.
LEMMA HandlerRows ==
  ASSUME TypeOK, NEW e \in Events, Handler(e)
  PROVE  /\ \A m \in Messages :
              \/ row'[m] = row[m] \/ row'[m] = "FAILED_PERMANENT"
              \/ row[m] = "none" /\ row'[m] = "RECEIVED"
         /\ handler'[e] = "enqueueing" => row'[MessageOf[e]] # "none"
         /\ \A f \in Events \ {e} : handler'[f] = handler[f]
         /\ UNCHANGED <<claimedIn, worker, runs, phase, error, cancelled, result>>
<1> USE DEF db, run
<1>0. MessageOf[e] \in Messages
  BY ListenerAssumption
<1>1. CASE Store(e)
  <2>1. row'[MessageOf[e]] # "none"
    BY <1>0, <1>1 DEF Store, TypeOK
  <2>2. \A f \in Events \ {e} : handler'[f] = handler[f]
    BY <1>1 DEF Store, Set, TypeOK
  <2> QED
    BY <1>0, <1>1, <2>1, <2>2 DEF Store, TypeOK
<1>2. CASE HandlerSettles(e)
  <2>1. row' = row \/ row' = [row EXCEPT ![MessageOf[e]] = "FAILED_PERMANENT"]
    BY <1>2 DEF HandlerSettles
  <2>2. handler'[e] = "done" /\ \A f \in Events \ {e} : handler'[f] = handler[f]
    BY <1>2 DEF HandlerSettles, Set, TypeOK
  <2>3. UNCHANGED <<claimedIn, worker, runs, phase, error, cancelled, result>>
    BY <1>2 DEF HandlerSettles
  <2> QED
    BY <1>0, <2>1, <2>2, <2>3 DEF TypeOK
<1>3. CASE Exclude(e) \/ Admit(e) \/ Enqueue(e) \/ Coalesce(e) \/ Defer(e) \/ HandlerEnds(e)
  <2>1. \E s \in {"refused", "persisting", "done", "gone"} : Set(e, s)
    BY <1>3 DEF Exclude, Admit, Enqueue, Coalesce, Defer, HandlerEnds
  <2>2. handler'[e] # "enqueueing" /\ \A f \in Events \ {e} : handler'[f] = handler[f]
    BY <2>1 DEF Set, TypeOK
  <2>3. UNCHANGED <<row, claimedIn, worker, runs, phase, error, cancelled, result>>
    BY <1>3 DEF Exclude, Admit, Enqueue, Coalesce, Defer, HandlerEnds
  <2> QED
    BY <2>2, <2>3
<1> QED
  BY <1>1, <1>2, <1>3 DEF Handler

\* How they change the queue.
LEMMA HandlerQueue ==
  ASSUME TypeOK, NEW e \in Events, Handler(e), NEW m \in Messages
  PROVE  /\ InHand(m) => InHand(m)'
         /\ InHand(m)' => InHand(m) \/ (handler[e] = "enqueueing" /\ MessageOf[e] = m)
         /\ m \in enqueued' => m \in enqueued \/ InHand(m)'
<1>0. MessageOf[e] \in Messages
  BY ListenerAssumption
<1>1. CASE Enqueue(e)
  <2>1. /\ queue \in Seq(Messages) /\ Len(queue) \in Nat /\ queue' = Append(queue, MessageOf[e])
        /\ enqueued' = enqueued \cup {MessageOf[e]} /\ worker' = worker
        /\ handler[e] = "enqueueing"
    BY <1>1 DEF Enqueue, TypeOK
  <2>2. /\ Len(queue') = Len(queue) + 1 /\ queue'[Len(queue) + 1] = MessageOf[e]
        /\ \A i \in 1..Len(queue) : queue'[i] = queue[i]
    BY <1>0, <2>1
  <2>3. (\E i \in 1..Len(queue') : queue'[i] = m) <=>
          (\E i \in 1..Len(queue) : queue[i] = m) \/ MessageOf[e] = m
    BY <2>1, <2>2
  <2> QED
    BY <2>1, <2>3 DEF InHand, Working, Mine
<1>2. CASE ~Enqueue(e)
  <2>1. UNCHANGED <<queue, enqueued, worker>>
    BY <1>2 DEF Handler, Exclude, Admit, Store, HandlerSettles, Coalesce, Defer, HandlerEnds
  <2> QED
    BY <2>1, InHandStays
<1> QED
  BY <1>1, <1>2

\* A handler is done because of an outcome, or left it to the worker.
LEMMA HandlerDone ==
  ASSUME TypeOK, WhileRunning, NEW e \in Events, Handler(e), handler'[e] = "done",
         count'.failed = 0
  PROVE  Settled(MessageOf[e])' \/ InHand(MessageOf[e])' \/ handler[e] = "done"
<1>0. MessageOf[e] \in Messages /\ count.failed \in Nat
  BY ListenerAssumption, Counters
<1>1. ~RecordRejected(TRUE)
  <2> SUFFICES ASSUME RecordRejected(TRUE)
               PROVE  FALSE
    OBVIOUS
  <2>1. count'.failed = count.failed + 1
    BY FailedCounts
  <2> QED
    BY <1>0, <2>1
<1>2. CASE HandlerSettles(e)
  <2>1. row'[MessageOf[e]] \in {"legacy", "COMPLETED", "FAILED_PERMANENT"}
    BY <1>0, <1>1, <1>2 DEF HandlerSettles, TypeOK
  <2> QED
    BY <2>1 DEF Settled
<1>3. CASE Enqueue(e)
  <2>1. /\ queue \in Seq(Messages) /\ Len(queue) \in Nat /\ queue' = Append(queue, MessageOf[e])
    BY <1>3 DEF Enqueue, TypeOK
  <2>2. Len(queue') = Len(queue) + 1 /\ queue'[Len(queue) + 1] = MessageOf[e]
    BY <1>0, <2>1
  <2>3. Len(queue) + 1 \in 1..Len(queue')
    BY <2>1, <2>2
  <2> QED
    BY <2>2, <2>3 DEF InHand
<1>4. CASE Coalesce(e)
  BY <1>4, InHandStays DEF Coalesce, WhileRunning
<1>5. CASE Defer(e)
  BY <1>1, <1>5 DEF Defer
<1>6. CASE Exclude(e) \/ Admit(e) \/ Store(e) \/ HandlerEnds(e)
  <2>1. \E s \in {"refused", "persisting", "enqueueing", "gone"} : Set(e, s)
    BY <1>6 DEF Exclude, Admit, Store, HandlerEnds
  <2> QED
    BY <2>1 DEF Set, TypeOK
<1> QED
  BY <1>2, <1>3, <1>4, <1>5, <1>6 DEF Handler
LEMMA HandlerCompleteInv ==
  ASSUME TypeOK, CompleteInv, NEW e \in Events, Handler(e)
  PROVE  CompleteInv'
<1>0. /\ MessageOf \in [Events -> Messages] /\ TypeOK'
      /\ UNCHANGED <<claimedIn, worker, runs, phase, error, cancelled, result>>
  BY ListenerAssumption, HandlerTypeOK, HandlerRows
<1>1. RowsKnown'
  <2>1. \A m \in Messages : claimedIn'[m] <= runs'
    BY <1>0 DEF CompleteInv, RowsKnown
  <2>2. \A m \in Messages : row[m] # "none" => row'[m] # "none"
    BY HandlerRows
  <2>3. \A m \in Messages : InHand(m)' => row'[m] # "none"
    BY <2>2, HandlerQueue DEF CompleteInv, RowsKnown
  <2>4. ASSUME NEW f \in Events, handler'[f] = "enqueueing"
        PROVE  row'[MessageOf[f]] # "none"
    BY <1>0, <2>2, <2>4, HandlerRows DEF CompleteInv, RowsKnown
  <2> QED
    BY <2>1, <2>3, <2>4 DEF RowsKnown
<1>2. ASSUME Running'
      PROVE  WhileRunning'
  <2>1. WhileRunning /\ RowsKnown
    BY <1>0, <1>2 DEF CompleteInv, Running
  <2>2. count'.reconciled = 0
    BY <2>1, HandlerBalance DEF WhileRunning
  <2>3. \A m \in enqueued' : InHand(m)'
    <3>1. enqueued' \subseteq Messages /\ enqueued \subseteq Messages
      BY <1>0 DEF TypeOK
    <3> QED
      BY <2>1, <3>1, HandlerQueue DEF WhileRunning
  <2>4. ASSUME count'.failed = 0
        PROVE  (ClaimsAreHeld /\ AtStage /\ DoneIsCovered)'
    <3>1. count.failed = 0
      BY <2>4, HandlerBalance, Counters
    <3>2. ClaimsAreHeld /\ AtStage /\ DoneIsCovered
      BY <2>1, <3>1 DEF WhileRunning
    <3>3. \A m \in Messages : Settled(m) => Settled(m)'
      BY <1>0, HandlerRows DEF Settled
    <3>4. ClaimsAreHeld'
      BY <1>0, <3>2, HandlerRows DEF ClaimsAreHeld, Mine
    <3>5. AtStage'
      <4>1. Mine \in Messages /\ Mine' = Mine
        BY <1>0 DEF Mine, TypeOK
      <4>2. worker.stage \in {"relaying", "working", "recording", "refused", "failing"} =>
              row'[Mine] \in {"PROCESSING", "FAILED_PERMANENT"}
        BY <3>2, <4>1, HandlerRows DEF AtStage
      <4>3. worker.stage \in {"converting", "delivering"} => Settled(Mine)'
        BY <3>2, <3>3, <4>1 DEF AtStage
      <4> QED
        BY <1>0, <4>1, <4>2, <4>3 DEF AtStage
    <3>6. DoneIsCovered'
      <4> SUFFICES ASSUME NEW f \in Events, handler'[f] = "done"
                   PROVE  Settled(MessageOf[f])' \/ InHand(MessageOf[f])' \/ Lost'
        BY DEF DoneIsCovered
      <4>1. Balance
        BY HandlerBalance
      <4>2. ASSUME handler[f] = "done"
            PROVE  Settled(MessageOf[f])' \/ InHand(MessageOf[f])' \/ Lost'
        BY <1>0, <3>2, <3>3, <4>1, <4>2, HandlerQueue, LostStays DEF DoneIsCovered
      <4>3. CASE f # e
        BY <4>2, <4>3, HandlerRows
      <4>4. CASE f = e
        BY <2>1, <2>4, <4>2, <4>4, HandlerDone
      <4> QED
        BY <4>3, <4>4
    <3> QED
      BY <3>4, <3>5, <3>6
  <2> QED
    BY <2>2, <2>3, <2>4 DEF WhileRunning
<1>3. ASSUME phase' = "joining" /\ ~cancelled' /\ error' = "none"
      PROVE  Active' = {}
  BY <1>0, <1>3, QuietHandlers DEF CompleteInv
<1>4. ASSUME \/ /\ phase' \in {"stopping", "disconnecting"} /\ ~cancelled' /\ error' = "none"
                /\ result' # "raised"
             \/ phase' = "off" /\ result' = "clean"
      PROVE  Clean'
  <2>1. Clean /\ phase # "ready"
    BY <1>0, <1>4 DEF CompleteInv
  <2>2. /\ Active' = {} /\ UNCHANGED <<db, queue, worker, count>>
        /\ \A f \in Events : handler'[f] = "done" => handler[f] = "done"
    BY <2>1, QuietHandlers DEF Clean
  <2>3. \A m : Settled(m)' <=> Settled(m)
    BY <1>0, <2>2, SettledStays DEF db
  <2>4. Unfinished' = Unfinished
    BY <2>2 DEF Unfinished
  <2> QED
    BY <2>1, <2>2, <2>3, <2>4 DEF Clean
<1> QED
  BY <1>0, <1>1, <1>2, <1>3, <1>4 DEF CompleteInv
-----------------------------------------------------------------------------
(* The worker of a run without failures.                                   *)

ClaimStages == {"relaying", "working", "recording", "refused", "failing"}

\* How the worker changes the rows.
LEMMA WorkerRows ==
  ASSUME TypeOK, Worker
  PROVE  /\ \A m \in Messages \ {Mine} : row'[m] = row[m] /\ claimedIn'[m] = claimedIn[m]
         /\ \/ UNCHANGED <<row, claimedIn>>
            \/ /\ worker.stage = "taken" /\ worker'.stage \in ClaimStages /\ worker'.message = Mine
               /\ row[Mine] = "RECEIVED"
               /\ row'[Mine] = "PROCESSING" /\ claimedIn'[Mine] = runs
            \/ /\ UNCHANGED claimedIn
               /\ \/ row[Mine] = "PROCESSING" /\ row'[Mine] = "COMPLETED"
                  \/ row'[Mine] = "FAILED_PERMANENT"
                  \/ row[Mine] # "PROCESSING" /\ row' = row
         /\ Mine \in Messages /\ UNCHANGED runs
<1> USE DEF db, run, Busy
<1>0. Mine \in Messages
  BY DEF TypeOK, Mine
<1>1. CASE RelayClaim \/ CoinClaim
  BY <1>0, <1>1 DEF RelayClaim, CoinClaim, Claim, To, ClaimStages, TypeOK, Mine
<1>2. ASSUME Complete \/ Fail, UNCHANGED claimedIn
      PROVE  /\ \A m \in Messages \ {Mine} : row'[m] = row[m] /\ claimedIn'[m] = claimedIn[m]
             /\ UNCHANGED claimedIn
             /\ \/ row[Mine] = "PROCESSING" /\ row'[Mine] = "COMPLETED"
                \/ row'[Mine] = "FAILED_PERMANENT"
                \/ row[Mine] # "PROCESSING" /\ row' = row
  BY <1>0, <1>2 DEF Complete, Fail, TypeOK
<1>3. CASE RelayEnd \/ CoinComplete \/ CoinFail
  BY <1>0, <1>2, <1>3 DEF RelayEnd, CoinComplete, CoinFail
<1>4. CASE WorkerEnds
  BY <1>0, <1>2, <1>4 DEF WorkerEnds
<1>5. CASE \/ Take \/ RelayNothing \/ Convert \/ Delivered \/ CanonicalRejected \/ CoinSkip
           \/ CoinWork \/ CoinCompleteFails \/ WorkerDies
  BY <1>0, <1>5 DEF Take, RelayNothing, Continue, Convert, Delivered, CanonicalRejected, CoinSkip,
                   CoinWork, CoinCompleteFails, WorkerDies, MayReachLimit
<1> QED
  BY <1>0, <1>1, <1>3, <1>4, <1>5, WorkerKinds DEF Worker

LEMMA WorkerSettles ==
  ASSUME TypeOK, Worker, NEW m \in Messages
  PROVE  /\ Settled(m) => Settled(m)'
         /\ row[m] # "none" => row'[m] # "none"
         /\ claimedIn[m] <= runs => claimedIn'[m] <= runs'
<1>1. runs \in Nat
  BY ListenerAssumption DEF TypeOK
<1>2. CASE m # Mine
  BY <1>2, WorkerRows DEF Settled
<1>3. CASE m = Mine
  BY <1>1, <1>3, WorkerRows DEF Settled
<1> QED
  BY <1>2, <1>3

\* How it changes the queue: what it drops is what it was at.
LEMMA WorkerQueue ==
  ASSUME TypeOK, Worker, NEW m \in Messages
  PROVE  /\ InHand(m)' => InHand(m)
         /\ InHand(m) => InHand(m)' \/ ((GivesOutcome \/ Dies) /\ m = Mine)
         /\ m \in enqueued' => m \in enqueued /\ (GivesOutcome \/ Dies => m # Mine)
<1>1. \A s \in WorkerStage : Release(s) =>
        worker'.stage = s /\ queue' = queue /\ enqueued' = enqueued \ {Mine}
  BY NoWorkerType DEF Release, NoWorker
<1>2. CASE Begins
  <2>1. /\ queue \in Seq(Messages) /\ queue # <<>> /\ queue' = Tail(queue) /\ enqueued' = enqueued
        /\ worker.stage = "idle" /\ worker'.stage = "taken" /\ worker'.message = Head(queue)
    BY <1>2 DEF Begins, Take, Busy, TypeOK
  <2>2. /\ Len(queue) \in Nat /\ Len(queue) >= 1 /\ Len(queue') = Len(queue) - 1
        /\ Head(queue) = queue[1] /\ \A i \in 1..Len(queue') : queue'[i] = queue[i + 1]
    BY <2>1
  <2>3. InHand(m) => InHand(m)'
    <3> SUFFICES ASSUME InHand(m)
                 PROVE  InHand(m)'
      OBVIOUS
    <3>1. PICK i \in 1..Len(queue) : queue[i] = m
      BY <2>1 DEF InHand, Working
    <3>2. CASE i = 1
      BY <2>1, <2>2, <3>1, <3>2 DEF InHand, Working, Mine
    <3>3. CASE i # 1
      <4>1. i - 1 \in 1..Len(queue') /\ queue'[i - 1] = m
        BY <2>2, <3>1, <3>3
      <4> QED
        BY <4>1 DEF InHand
    <3> QED
      BY <3>2, <3>3
  <2>4. InHand(m)' => InHand(m)
    <3> SUFFICES ASSUME InHand(m)'
                 PROVE  InHand(m)
      OBVIOUS
    <3>1. CASE Mine' = m
      <4>1. 1 \in 1..Len(queue) /\ queue[1] = m
        BY <2>1, <2>2, <3>1 DEF Mine
      <4> QED
        BY <4>1 DEF InHand
    <3>2. CASE Mine' # m
      <4>1. PICK i \in 1..Len(queue') : queue'[i] = m
        BY <3>2 DEF InHand
      <4>2. i + 1 \in 1..Len(queue) /\ queue[i + 1] = m
        BY <2>2, <4>1
      <4> QED
        BY <4>2 DEF InHand
    <3> QED
      BY <3>1, <3>2
  <2>5. ~GivesOutcome /\ ~Dies
    BY <2>1 DEF GivesOutcome, Dies, Working
  <2> QED
    BY <2>1, <2>3, <2>4, <2>5
<1>3. CASE GoesOn
  <2>1. worker'.stage \in WorkStages /\ worker'.message = Mine /\ Working
        /\ UNCHANGED <<queue, enqueued>>
    BY <1>3 DEF GoesOn
  <2>2. ~GivesOutcome /\ ~Dies
    BY <1>1, <2>1 DEF GivesOutcome, Dies, WorkStages, WorkerStage
  <2> QED
    BY <2>1, <2>2 DEF InHand, Working, Mine, WorkStages
<1>4. CASE GivesOutcome \/ Dies
  <2>1. Working /\ ~Working' /\ queue' = queue /\ enqueued' = enqueued \ {Mine}
    BY <1>1, <1>4 DEF GivesOutcome, Dies, Working, WorkerStage
  <2> QED
    BY <1>4, <2>1 DEF InHand
<1>5. CASE Ends
  <2>1. /\ ~Working /\ ~Working' /\ queue' = queue /\ enqueued' = enqueued \ {Mine}
    BY <1>1, <1>5 DEF Ends, Working, WorkerStage
  <2>2. ~GivesOutcome /\ ~Dies
    BY <2>1 DEF GivesOutcome, Dies
  <2> QED
    BY <2>1, <2>2 DEF InHand
<1> QED
  BY <1>2, <1>3, <1>4, <1>5, WorkerKinds

\* A claim of this run is in hand only in the stages that follow one.
LEMMA NoOtherClaims ==
  ASSUME TypeOK, RowsKnown, ClaimsAreHeld, NEW m \in Messages, row[m] = "PROCESSING",
         worker.stage \notin {"none", "dead", "cancelled"},
         worker.stage \notin ClaimStages \/ Mine # m
  PROVE  claimedIn[m] < runs
<1>1. claimedIn[m] # runs /\ claimedIn[m] <= runs
  BY DEF ClaimsAreHeld, ClaimStages, RowsKnown
<1>2. claimedIn[m] \in Nat /\ runs \in Nat
  BY ListenerAssumption DEF TypeOK
<1> QED
  BY <1>1, <1>2

\* The outcome of a message that does not count a failure is that of its row.
LEMMA OutcomeOfRow ==
  ASSUME TypeOK, RowsKnown, ClaimsAreHeld, AtStage, Worker, GivesOutcome, count'.failed = 0
  PROVE  Settled(Mine) \/ row'[Mine] \in {"COMPLETED", "FAILED_PERMANENT"}
<1> USE DEF Busy
<1>0. Mine \in Messages /\ count.failed \in Nat /\ row[Mine] \in RowState
  BY Counters DEF TypeOK, Mine
<1>1. ~RecordRejected(TRUE)
  <2> SUFFICES ASSUME RecordRejected(TRUE)
               PROVE  FALSE
    OBVIOUS
  <2>1. count'.failed = count.failed + 1
    BY FailedCounts
  <2> QED
    BY <1>0, <2>1
<1>2. Working /\ worker'.stage = "idle"
  BY NoWorkerType DEF GivesOutcome, Release, WorkerStage, NoWorker
<1>3. CASE worker.stage \in {"converting", "delivering"}
  BY <1>3 DEF AtStage
<1>4. CASE CoinSkip
  <2>1. row[Mine] # "none" /\ row[Mine] # "RECEIVED"
    BY <1>0, <1>2, <1>4 DEF CoinSkip, RowsKnown, InHand
  <2>2. row[Mine] = "PROCESSING" => claimedIn[Mine] < runs
    BY <1>0, <1>4, NoOtherClaims DEF CoinSkip, ClaimStages
  <2> QED
    BY <1>0, <2>1, <2>2 DEF Settled, RowState
<1>5. CASE CoinComplete \/ CoinFail
  <2>1. row[Mine] \in {"PROCESSING", "FAILED_PERMANENT"}
    BY <1>5 DEF CoinComplete, CoinFail, AtStage
  <2>2. row'[Mine] \in {"COMPLETED", "FAILED_PERMANENT"}
    BY <1>0, <1>5, <2>1 DEF CoinComplete, CoinFail, Complete, Fail, TypeOK
  <2> QED
    BY <2>2
<1>6. CASE Delivered \/ CanonicalRejected
  BY <1>1, <1>3, <1>6 DEF Delivered, CanonicalRejected, Reject
<1>7. Delivered \/ CanonicalRejected \/ CoinSkip \/ CoinComplete \/ CoinFail
  <2>1. \A s : To(s) => worker'.stage = s
    BY DEF To, TypeOK
  <2>2. ~Take /\ ~RelayClaim /\ ~RelayNothing /\ ~RelayEnd /\ ~Convert /\ ~CoinClaim
        /\ ~CoinWork /\ ~CoinCompleteFails
    BY <1>2, <2>1 DEF Take, RelayClaim, RelayNothing, RelayEnd, Convert, CoinClaim, CoinWork,
                      CoinCompleteFails, Continue
  <2>3. ~WorkerDies /\ ~WorkerEnds
    BY <1>2, NoWorkerType DEF WorkerDies, WorkerEnds, Release, WorkerStage, NoWorker
  <2> QED
    BY <2>2, <2>3 DEF Worker
<1> QED
  BY <1>4, <1>5, <1>6, <1>7
LEMMA WorkerClaims ==
  ASSUME TypeOK, RowsKnown, ClaimsAreHeld, AtStage, Worker, count'.failed = 0
  PROVE  ClaimsAreHeld'
<1> SUFFICES ASSUME NEW m \in Messages, row'[m] = "PROCESSING", claimedIn'[m] = runs',
                    ~Gone'
             PROVE  worker'.stage \in ClaimStages /\ worker'.message = m
  BY DEF ClaimsAreHeld, ClaimStages, Gone, Mine
<1>1. CASE row[m] = "PROCESSING" /\ claimedIn[m] = runs
  <2>1. Gone \/ (worker.stage \in ClaimStages /\ Mine = m)
    BY <1>1 DEF ClaimsAreHeld, ClaimStages, Gone
  <2>2. CASE Gone
    BY <2>2, WorkerBalance DEF Gone
  <2>3. CASE worker.stage \in ClaimStages /\ Mine = m
    <3>1. ~Settled(m) /\ row'[m] \notin {"COMPLETED", "FAILED_PERMANENT"}
      <4>1. claimedIn[m] \in Nat
        BY ListenerAssumption DEF TypeOK
      <4> QED
        BY <1>1, <4>1 DEF Settled
    <3>2. ~GivesOutcome
      BY <2>3, <3>1, OutcomeOfRow
    <3>3. ~Begins /\ ~Ends /\ ~Dies
      BY <2>3, NoWorkerType DEF Begins, Take, Busy, Ends, Dies, Release, ClaimStages, WorkerStage,
                                NoWorker, Gone
    <3>4. GoesOn
      BY <3>2, <3>3, WorkerKinds
    <3>5. worker'.stage \in ClaimStages
      <4>1. CoinWork \/ CoinCompleteFails
        <5>1. ~RelayEnd
          BY <1>1, <2>3, <3>1 DEF RelayEnd, Complete, Fail, TypeOK
        <5>2. ~Convert /\ ~RelayClaim /\ ~CoinClaim /\ ~RelayNothing /\ ~Take
          BY <2>3 DEF Convert, RelayClaim, CoinClaim, RelayNothing, Continue, Take, Busy, ClaimStages
        <5>3. worker'.stage \in WorkStages
          BY <3>4 DEF GoesOn
        <5>4. \A s \in {"idle", "dead", "none"} : ~Release(s)
          BY <5>3, NoWorkerType DEF Release, WorkStages, WorkerStage, NoWorker
        <5> QED
          BY <5>1, <5>2, <5>4 DEF Worker, Delivered, CanonicalRejected, Reject, CoinSkip,
                                  CoinComplete, CoinFail, WorkerDies, WorkerEnds
      <4> QED
        BY <4>1 DEF CoinWork, CoinCompleteFails, Continue, To, ClaimStages, TypeOK
    <3> QED
      BY <2>3, <3>4, <3>5 DEF GoesOn
  <2> QED
    BY <2>1, <2>2, <2>3
<1>2. CASE ~(row[m] = "PROCESSING" /\ claimedIn[m] = runs)
  BY <1>2, WorkerRows
<1> QED
  BY <1>1, <1>2

LEMMA WorkerAtStage ==
  ASSUME TypeOK, RowsKnown, ClaimsAreHeld, AtStage, Worker
  PROVE  AtStage'
<1> USE DEF Busy
<1>0. Mine \in Messages /\ row[Mine] \in RowState
  BY DEF TypeOK, Mine
<1>1. \A s \in WorkerStage : Release(s) => worker'.stage = s
  BY NoWorkerType DEF Release, NoWorker
<1>2. ASSUME worker'.stage \in {"idle", "taken", "dead", "none"}
      PROVE  AtStage'
  BY <1>2 DEF AtStage
<1>3. \A s : To(s) => worker'.stage = s /\ Mine' = Mine
  BY DEF To, TypeOK, Mine
<1>4. CASE Take
  BY <1>2, <1>4 DEF Take
<1>5. CASE RelayClaim \/ CoinClaim
  <2>1. worker'.stage \in {"relaying", "working"} /\ Mine' = Mine /\ row'[Mine] = "PROCESSING"
    BY <1>0, <1>3, <1>5 DEF RelayClaim, CoinClaim, Claim, TypeOK
  <2> QED
    BY <2>1 DEF AtStage
<1>6. CASE RelayNothing
  <2>1. /\ worker'.stage = "converting" /\ Mine' = Mine /\ row' = row /\ UNCHANGED <<claimedIn, runs>>
        /\ worker.stage = "taken" /\ row[Mine] # "RECEIVED"
    BY <1>3, <1>6 DEF RelayNothing, Continue, db, run
  <2>2. row[Mine] # "none"
    BY <1>0, <2>1 DEF RowsKnown, InHand, Working
  <2>3. row[Mine] = "PROCESSING" => claimedIn[Mine] < runs
    BY <1>0, <2>1, NoOtherClaims DEF ClaimStages
  <2>4. Settled(Mine)
    BY <1>0, <2>1, <2>2, <2>3 DEF Settled, RowState
  <2> QED
    BY <2>1, <2>4, SettledStays DEF AtStage
<1>7. CASE RelayEnd
  <2>1. worker'.stage = "converting" /\ Mine' = Mine
    BY <1>3, <1>7 DEF RelayEnd
  <2>2. row[Mine] \in {"PROCESSING", "FAILED_PERMANENT"}
    BY <1>7 DEF RelayEnd, AtStage
  <2>3. row'[Mine] \in {"COMPLETED", "FAILED_PERMANENT"}
    BY <1>0, <1>7, <2>2 DEF RelayEnd, Complete, Fail, TypeOK
  <2> QED
    BY <2>1, <2>3 DEF AtStage, Settled
<1>8. CASE Convert
  <2>1. worker'.stage = "delivering" /\ Mine' = Mine /\ row' = row /\ row[Mine] = "COMPLETED"
    BY <1>3, <1>8 DEF Convert, db
  <2> QED
    BY <2>1 DEF AtStage, Settled
<1>9. CASE CoinWork \/ CoinCompleteFails
  <2>1. /\ worker'.stage \in {"recording", "refused", "failing"} /\ Mine' = Mine /\ row' = row
        /\ worker.stage \in {"working", "recording"}
    BY <1>3, <1>9 DEF CoinWork, CoinCompleteFails, Continue, db
  <2> QED
    BY <2>1 DEF AtStage
<1>10. CASE \/ Delivered \/ CanonicalRejected \/ CoinSkip \/ CoinComplete \/ CoinFail
            \/ WorkerDies \/ WorkerEnds
  <2>1. worker'.stage \in {"idle", "dead", "none"}
    BY <1>1, <1>10 DEF Delivered, CanonicalRejected, Reject, CoinSkip, CoinComplete, CoinFail,
                       WorkerDies, WorkerEnds, WorkerStage
  <2> QED
    BY <1>2, <2>1
<1> QED
  BY <1>4, <1>5, <1>6, <1>7, <1>8, <1>9, <1>10 DEF Worker

LEMMA WorkerCompleteInv ==
  ASSUME TypeOK, ListenerInv, CompleteInv, Worker
  PROVE  CompleteInv'
<1>0. /\ MessageOf \in [Events -> Messages] /\ TypeOK'
      /\ UNCHANGED <<handler, phase, error, cancelled, result, runs>>
  BY ListenerAssumption, WorkerTypeOK, WorkerKinds
<1>1. RowsKnown /\ RowsKnown'
  BY <1>0, WorkerSettles, WorkerQueue DEF CompleteInv, RowsKnown
<1>2. ASSUME Running'
      PROVE  WhileRunning'
  <2>1. WhileRunning
    BY <1>0, <1>2 DEF CompleteInv, Running
  <2>2. count'.reconciled = 0
    BY <2>1, WorkerBalance DEF WhileRunning
  <2>3. \A m \in enqueued' : InHand(m)'
    <3>1. enqueued' \subseteq Messages
      BY <1>0 DEF TypeOK
    <3> QED
      BY <2>1, <3>1, WorkerQueue DEF WhileRunning
  <2>4. ASSUME count'.failed = 0
        PROVE  (ClaimsAreHeld /\ AtStage /\ DoneIsCovered)'
    <3>1. count.failed = 0
      BY <2>4, WorkerBalance, Counters
    <3>2. ClaimsAreHeld /\ AtStage /\ DoneIsCovered
      BY <2>1, <3>1 DEF WhileRunning
    <3>3. ClaimsAreHeld' /\ AtStage'
      BY <1>1, <2>4, <3>2, WorkerClaims, WorkerAtStage
    <3>4. DoneIsCovered'
      <4> SUFFICES ASSUME NEW f \in Events, handler'[f] = "done", NEW m \in Messages,
                          m = MessageOf[f]
                   PROVE  Settled(m)' \/ InHand(m)' \/ Lost'
        BY <1>0 DEF DoneIsCovered
      <4>1. Settled(m) \/ InHand(m) \/ Lost
        BY <1>0, <3>2 DEF DoneIsCovered
      <4>2. Lost => Lost'
        BY <1>0, WorkerBalance, LostStays
      <4>3. CASE Dies
        BY <4>3, WorkerBalance DEF ListenerInv
      <4>4. CASE GivesOutcome /\ m = Mine
        <5>1. Settled(m) \/ row'[m] \in {"COMPLETED", "FAILED_PERMANENT"}
          BY <1>1, <2>4, <3>2, <4>4, OutcomeOfRow
        <5> QED
          BY <5>1, WorkerSettles DEF Settled
      <4>5. CASE ~Dies /\ ~(GivesOutcome /\ m = Mine)
        BY <4>1, <4>2, <4>5, WorkerSettles, WorkerQueue
      <4> QED
        BY <4>3, <4>4, <4>5
    <3> QED
      BY <3>3, <3>4
  <2> QED
    BY <2>2, <2>3, <2>4 DEF WhileRunning
<1>3. ASSUME phase' = "joining" /\ ~cancelled' /\ error' = "none"
      PROVE  Active' = {}
  BY <1>0, <1>3 DEF CompleteInv, Active
<1>4. ASSUME \/ /\ phase' \in {"stopping", "disconnecting"} /\ ~cancelled' /\ error' = "none"
                /\ result' # "raised"
             \/ phase' = "off" /\ result' = "clean"
      PROVE  FALSE
  <2>1. Unfinished = 0
    BY <1>0, <1>4 DEF CompleteInv, Clean
  <2>2. queue = <<>> /\ worker.stage \in {"none", "idle", "dead"}
    BY <2>1 DEF Unfinished, TypeOK
  <2> QED
    BY <2>2, WorkerKinds DEF Begins, Take, GoesOn, GivesOutcome, Dies, Ends, Working
<1> QED
  BY <1>0, <1>1, <1>2, <1>3, <1>4 DEF CompleteInv
-----------------------------------------------------------------------------
(* The coroutine of the run.                                               *)

\* What holds while a run is under way stays when only its coroutine moves on.
LEMMA WhileStays ==
  ASSUME WhileRunning, UNCHANGED <<db, task, count, runs>>
  PROVE  WhileRunning'
BY DEF WhileRunning, ClaimsAreHeld, AtStage, DoneIsCovered, Settled, InHand, Working, Mine, Lost,
       ToCome, OfWorker, OpenHandlers, db, task

LEMMA RowsKnownStays ==
  ASSUME RowsKnown, UNCHANGED <<row, claimedIn, runs>>,
         \A m \in Messages : InHand(m)' => InHand(m),
         \A e \in Events : handler'[e] = "enqueueing" => handler[e] = "enqueueing"
  PROVE  RowsKnown'
BY DEF RowsKnown

LEMMA CleanStays ==
  ASSUME Clean, UNCHANGED <<row, claimedIn, runs, task, count>>
  PROVE  Clean'
BY DEF Clean, Unfinished, Active, Settled, task

LEMMA CancelDrops ==
  ASSUME TypeOK, CancelWorker, UNCHANGED queue, NEW m
  PROVE  InHand(m)' => InHand(m)
<1>1. ~Working'
  BY CancelWorkerType DEF Working
<1> QED
  BY <1>1 DEF InHand

\* The end of a join that lasted as long as it had to.
LEMMA JoinedClean ==
  ASSUME TypeOK, ListenerInv, CompleteInv, Joined, ~cancelled', error' = "none"
  PROVE  Clean'
<1>0. /\ count.received \in Nat /\ count.terminal \in Nat /\ count.failed \in Nat
      /\ count.reconciled \in Nat /\ ToCome \in Nat /\ Missing \in Nat
  BY Counters, ToComeType
<1>1. error = "none" /\ Missing = 0 /\ WhileRunning /\ Active = {}
  <2>1. error = "none" /\ ~(Missing > 0)
    BY DEF Joined, ReconcileUnfinished
  <2> QED
    BY <1>0, <2>1 DEF Joined, CompleteInv, Running
<1>2. ReconcileUnfinished(error)
  BY DEF Joined
<1>3. count'.failed = count.failed /\ count'.reconciled = 0
  BY <1>0, <1>1, <1>2, ReconcileCounts DEF WhileRunning
<1>4. queue = <<>> /\ worker.stage \in {"none", "idle", "dead"}
  BY DEF Joined, Unfinished, TypeOK
<1>5. /\ UNCHANGED <<row, claimedIn, runs, handler, queue>>
      /\ worker'.stage \in {"none", "dead"}
  BY <1>4, CancelWorkerType DEF Joined, db
<1>6. Unfinished' = 0 /\ Active' = {}
  BY <1>1, <1>4, <1>5 DEF Unfinished, Active
<1>7. ~Lost
  BY <1>0, <1>1 DEF Lost, Missing
<1>8. \A m : ~InHand(m)
  BY <1>4 DEF InHand, Working
<1>9. count.failed = 0 => \A e \in Events : handler[e] = "done" => Settled(MessageOf[e])
  BY <1>1, <1>7, <1>8 DEF WhileRunning, DoneIsCovered
<1> QED
  BY <1>3, <1>5, <1>6, <1>9, SettledStays DEF Clean

LEMMA RunCompleteInv ==
  ASSUME TypeOK, ListenerInv, CompleteInv,
         Start \/ Ready \/ StartFails \/ Monitor \/ Cancel \/ CancelAgain \/ Crash
  PROVE  CompleteInv'
<1>1. CASE Start
  <2>1. runs \in Nat /\ runs' = runs + 1 /\ claimedIn' = claimedIn
        /\ \A m \in Messages : claimedIn[m] \in Nat /\ claimedIn[m] <= runs
    BY <1>1, ListenerAssumption DEF Start, TypeOK, CompleteInv, RowsKnown
  <2>2. \A m \in Messages : claimedIn'[m] <= runs' /\ claimedIn'[m] # runs'
    BY <2>1
  <2>3. /\ queue' = <<>> /\ worker'.stage = "idle" /\ enqueued' = {}
        /\ \A e \in Events : handler'[e] \in {"unseen", "past"}
    BY <1>1, NoWorkerType DEF Start, NoWorker
  <2>4. \A m : ~InHand(m)'
    BY <2>3 DEF InHand, Working
  <2>5. RowsKnown'
    BY <2>2, <2>3, <2>4 DEF RowsKnown
  <2>6. ClaimsAreHeld' /\ AtStage' /\ DoneIsCovered'
    BY <2>2, <2>3 DEF ClaimsAreHeld, AtStage, DoneIsCovered
  <2>7. WhileRunning'
    BY <1>1, <2>3, <2>6 DEF Start, WhileRunning, Zero
  <2> QED
    BY <1>1, <2>5, <2>7 DEF Start, CompleteInv
<1>2. ASSUME UNCHANGED <<row, claimedIn, runs, task>>
      PROVE  RowsKnown'
  <2>1. \A m \in Messages : InHand(m)' => InHand(m)
    BY <1>2, InHandStays DEF task
  <2> QED
    BY <1>2, <2>1, RowsKnownStays DEF CompleteInv, task
\* The coroutine moves on, before the shutdown or in it.
<1>3. CASE Ready \/ RunTimesOut \/ StopRequested
  <2>1. /\ UNCHANGED <<db, task, count, runs, cancelled>> /\ phase \in {"starting", "ready"}
        /\ phase' \in {"ready", "handlers"}
    BY <1>3 DEF Ready, RunTimesOut, StopRequested, Shutdown
  <2>2. RowsKnown'
    BY <1>2, <2>1 DEF db
  <2>3. Running' => WhileRunning'
    BY <2>1, WhileStays DEF CompleteInv, Running
  <2> QED
    BY <2>1, <2>2, <2>3 DEF CompleteInv
<1>4. CASE Cancel
  <2>1. UNCHANGED <<db, task, runs>> /\ cancelled' /\ phase' = "handlers"
    BY <1>4 DEF Cancel, Shutdown
  <2>2. RowsKnown'
    BY <1>2, <2>1 DEF db
  <2> QED
    BY <2>1, <2>2 DEF CompleteInv, Running
<1>5. CASE StartFails
  <2>1. /\ UNCHANGED <<row, claimedIn, runs, handler, queue>> /\ phase' = "stopping"
        /\ result' = "raised" /\ CancelWorker
    BY <1>5 DEF StartFails, db
  <2>2. RowsKnown'
    BY <2>1, CancelDrops, RowsKnownStays DEF CompleteInv
  <2> QED
    BY <2>1, <2>2 DEF CompleteInv, Running
<1>6. CASE HandlersDone \/ HandlersCancelled
  <2>1. /\ UNCHANGED <<db, task, count, runs, cancelled>> /\ phase \in {"handlers", "cancelling"}
        /\ phase' = "joining"
    BY <1>6 DEF HandlersDone, HandlersCancelled
  <2>2. RowsKnown'
    BY <1>2, <2>1 DEF db
  <2>3. Running' => WhileRunning'
    BY <2>1, WhileStays DEF CompleteInv, Running
  <2>4. error' = "none" => Active' = {}
    BY <1>6 DEF HandlersDone, HandlersCancelled, CompleteInv, Active, task
  <2> QED
    BY <2>1, <2>2, <2>3, <2>4 DEF CompleteInv
<1>7. CASE HandlersTimeOut
  <2>1. /\ UNCHANGED <<row, claimedIn, runs, queue, worker, enqueued, cancelled, count>>
        /\ phase = "handlers" /\ phase' = "cancelling" /\ error' # "none"
    BY <1>7 DEF HandlersTimeOut, db
  <2>2. \A e \in Events : handler'[e] = handler[e] \/ handler'[e] = "cancelling"
    BY <1>7 DEF HandlersTimeOut
  <2>3. RowsKnown'
    BY <2>1, <2>2, InHandStays, RowsKnownStays DEF CompleteInv
  <2>4. ASSUME Running'
        PROVE  WhileRunning'
    <3>1. WhileRunning
      BY <2>1, <2>4 DEF CompleteInv, Running
    <3>2. OpenHandlers' = {} /\ OfWorker' = OfWorker
      BY <1>7 DEF HandlersTimeOut, OpenHandlers, Active, OfWorker, Working
    <3>3. Lost => Lost'
      <4>1. /\ count.received \in Nat /\ count.terminal \in Nat /\ OfWorker \in Nat
            /\ Cardinality(OpenHandlers) \in Nat
        BY Counters, ToComeType
      <4>2. ToCome' = OfWorker /\ OfWorker <= ToCome
        BY <3>2, <4>1, FS_EmptySet DEF ToCome
      <4> QED
        BY <2>1, <4>1, <4>2 DEF Lost, ToCome
    <3>4. \A m : (Settled(m)' <=> Settled(m)) /\ (InHand(m)' <=> InHand(m))
      BY <2>1, SettledStays, InHandStays
    <3>5. (\A m \in enqueued : InHand(m))' /\ count'.reconciled = 0
      BY <2>1, <3>1, <3>4 DEF WhileRunning
    <3>6. ASSUME count'.failed = 0
          PROVE  (ClaimsAreHeld /\ AtStage /\ DoneIsCovered)'
      <4>1. ClaimsAreHeld /\ AtStage /\ DoneIsCovered
        BY <2>1, <3>1, <3>6 DEF WhileRunning
      <4>2. ClaimsAreHeld' /\ AtStage'
        BY <2>1, <3>4, <4>1 DEF ClaimsAreHeld, AtStage, Mine
      <4>3. DoneIsCovered'
        BY <2>2, <3>3, <3>4, <4>1 DEF DoneIsCovered
      <4> QED
        BY <4>2, <4>3
    <3> QED
      BY <3>5, <3>6 DEF WhileRunning
  <2> QED
    BY <2>1, <2>3, <2>4 DEF CompleteInv
<1>8. CASE Joined \/ JoinTimesOut
  <2>1. /\ UNCHANGED <<row, claimedIn, runs, handler, queue>> /\ phase' = "stopping" /\ CancelWorker
    BY <1>8 DEF Joined, JoinTimesOut, db
  <2>2. RowsKnown'
    BY <2>1, CancelDrops, RowsKnownStays DEF CompleteInv
  <2>3. error' = "none" => Joined
    <3>1. JoinTimesOut => error' # "none"
      BY DEF JoinTimesOut, ReconcileUnfinished
    <3> QED
      BY <1>8, <3>1
  <2>4. ~cancelled' /\ error' = "none" => Clean'
    BY <2>3, JoinedClean
  <2> QED
    BY <2>1, <2>2, <2>4 DEF CompleteInv, Running
<1>9. CASE Stopped \/ Disconnect
  <2>1. UNCHANGED <<db, task, count, runs, cancelled>> /\ phase' \in {"disconnecting", "off"}
    BY <1>9 DEF Stopped, Disconnect
  <2>2. RowsKnown'
    BY <1>2, <2>1 DEF db
  <2>3. ASSUME \/ /\ phase' \in {"stopping", "disconnecting"} /\ ~cancelled' /\ error' = "none"
                  /\ result' # "raised"
               \/ phase' = "off" /\ result' = "clean"
        PROVE  Clean'
    <3>1. CASE Stopped
      <4>1. Clean
        BY <2>3, <3>1 DEF Stopped, CompleteInv
      <4> QED
        BY <2>1, <4>1, CleanStays DEF db
    <3>2. CASE Disconnect
      <4>1. /\ phase = "disconnecting" /\ phase' = "off" /\ result' = "clean"
            /\ result # "raised" /\ ~cancelled
        BY <2>3, <3>2 DEF Disconnect
      <4>2. error' = "none"
        BY <3>2, <4>1 DEF Disconnect, TypeOK
      <4>3. error = "none"
        BY <3>2, <4>2 DEF Disconnect
      <4>4. Clean
        BY <4>1, <4>3 DEF CompleteInv
      <4> QED
        BY <2>1, <4>4, CleanStays DEF db
    <3> QED
      BY <1>9, <3>1, <3>2
  <2> QED
    BY <2>1, <2>2, <2>3 DEF CompleteInv, Running
<1>10. CASE StopTimesOut \/ Crash
  <2>1. /\ UNCHANGED <<row, claimedIn, runs>> /\ ~Working'
        /\ queue' = queue \/ queue' = <<>>
        /\ \A e \in Events : handler'[e] = "enqueueing" => handler[e] = "enqueueing"
    BY <1>10, NoWorkerType DEF StopTimesOut, Crash, Working, db
  <2>2. \A m \in Messages : InHand(m)' => InHand(m)
    BY <2>1 DEF InHand
  <2>3. RowsKnown'
    BY <2>1, <2>2, RowsKnownStays DEF CompleteInv
  <2>4. /\ phase' \in {"disconnecting", "off"}
        /\ phase' = "disconnecting" => error' # "none"
        /\ phase' = "off" => result' = "raised"
    BY <1>10 DEF StopTimesOut, Crash
  <2> QED
    BY <2>3, <2>4 DEF CompleteInv, Running
<1>11. CASE CancelAgain
  <2>1. /\ UNCHANGED <<row, claimedIn, runs, queue>> /\ CancelWorker
        /\ \A e \in Events : handler'[e] = "enqueueing" => handler[e] = "enqueueing"
    BY <1>11 DEF CancelAgain, db
  <2>2. RowsKnown'
    BY <2>1, CancelDrops, RowsKnownStays DEF CompleteInv
  <2>3. phase' = "stopping" /\ result' = "raised"
    BY <1>11 DEF CancelAgain
  <2> QED
    BY <2>2, <2>3 DEF CompleteInv, Running
<1> QED
  BY <1>1, <1>3, <1>4, <1>5, <1>6, <1>7, <1>8, <1>9, <1>10, <1>11 DEF Monitor

LEMMA NextCompleteInv ==
  TypeOK /\ ListenerInv /\ CompleteInv /\ [Next]_vars => CompleteInv'
<1> SUFFICES ASSUME TypeOK, ListenerInv, CompleteInv, [Next]_vars
             PROVE  CompleteInv'
  OBVIOUS
<1>1. ASSUME UNCHANGED <<row, claimedIn, task, count, run>>
      PROVE  CompleteInv'
  BY <1>1 DEF CompleteInv, RowsKnown, Running, WhileRunning, ClaimsAreHeld, AtStage, DoneIsCovered,
              Clean, Unfinished, Active, Settled, InHand, Working, Mine, Lost, ToCome, OfWorker,
              OpenHandlers, task, run
<1>2. ASSUME NEW m \in Messages, LeaseExpires(m)
      PROVE  CompleteInv'
  BY <1>1, <1>2 DEF LeaseExpires
<1>3. CASE UNCHANGED vars
  BY <1>1, <1>3 DEF vars, db
<1> QED
  BY <1>2, <1>3, HandlerCompleteInv, WorkerCompleteInv, RunCompleteInv DEF Next

\* A run that reports a clean end gave each outcome by a handler or the worker and
\* left nothing in flight; if it counts no failure, every message it admitted is
\* settled.  Until the join ends, a message of a handler that is done is settled,
\* waits in the queue, is with the worker, or its outcome is lost: then the counters
\* differ for good, and reconcile_unfinished makes the run report it.
THEOREM CleanRunIsCompleteHolds == Spec => []CleanRunIsComplete
<1>1. CompleteInv => CleanRunIsComplete
  BY DEF CompleteInv, Clean, CleanRunIsComplete, Settled
<1>2. Init => TypeOK /\ ListenerInv /\ CompleteInv
  BY InitTypeOK, InitListenerInv, InitCompleteInv
<1>3. TypeOK /\ ListenerInv /\ CompleteInv /\ [Next]_vars => (TypeOK /\ ListenerInv /\ CompleteInv)'
  BY NextTypeOK, NextListenerInv, NextCompleteInv
<1> QED
  BY <1>1, <1>2, <1>3, PTL DEF Spec
=============================================================================
