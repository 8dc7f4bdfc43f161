---------------------------- MODULE ShadowListener ----------------------------
(***************************************************************************)
(* A bounded run of the shadow listener: TelegramMonitor.run with a        *)
(* ShadowRunController, the queue with one worker and no recovery, and     *)
(* AliExpressShadowMessageProcessor (telegram/monitor.py, relay/queue.py,  *)
(* affiliate/aliexpress_shadow_listener.py), as the auto delivery command  *)
(* with coin shorts starts it: one attempt for a message.                  *)
(*                                                                         *)
(* An event is admitted until a limit is reached.  Its handler stores it   *)
(* and puts it on the queue; handler or worker give it one outcome.  The   *)
(* shutdown waits for handlers, queue, worker and client, each for         *)
(* shutdown_seconds, and what has no outcome by then is reconciled.        *)
(*                                                                         *)
(* Generation and delivery are single steps here (CoinGeneration,          *)
(* LinkGeneration and ShadowDelivery detail them).  ShadowListenerLock     *)
(* keeps a second run away from the database, so runs follow one another.  *)
(***************************************************************************)
EXTENDS Naturals, Sequences, FiniteSets

CONSTANTS
  Events,       \* events of the configured channel
  Messages,
  MessageOf,    \* the message of an event; a redelivery has another event
  Coin,         \* messages for _process_coin
  Earlier,      \* messages that may have a row before the first run here
  MaxMessages,  \* --max-messages
  QueueMax,     \* telegram_relay.queue_max_size
  MaxRuns       \* bound: runs that are ever started

ASSUME ListenerAssumption ==
  /\ IsFiniteSet(Events) /\ Messages # {}
  /\ MessageOf \in [Events -> Messages]
  /\ Coin \subseteq Messages /\ Earlier \subseteq Messages
  /\ MaxMessages \in Nat \ {0} /\ QueueMax \in Nat \ {0} /\ MaxRuns \in Nat

VARIABLES
  row,        \* processing_status of a source message
  stale,      \* messages whose lease ran out
  claimedIn,  \* the run that claimed the row
  handler,    \* the handler of an event
  queue,      \* DurableRelayQueue.queue
  enqueued,   \* DurableRelayQueue._enqueued
  worker,     \* the worker task
  phase,      \* where the coroutine of the run is
  stop,       \* a stop_reason is set
  error,      \* error_code of the shutdown
  cancelled,  \* the run was cancelled from outside
  count,      \* counters of the controller
  result,     \* what the run told its caller
  runs        \* runs started so far

db   == <<row, stale, claimedIn>>
task == <<handler, queue, enqueued, worker>>
run  == <<phase, stop, error, cancelled, result, runs>>
vars == <<db, task, count, run>>

-----------------------------------------------------------------------------
\* "legacy": a row with the content hash of an older version, never processed.
RowState == {"none", "legacy", "RECEIVED", "PROCESSING", "COMPLETED", "FAILED_PERMANENT"}

\* "past": seen by an earlier run.
HandlerState == {"unseen", "refused", "persisting", "enqueueing", "cancelling", "done", "gone",
                 "past"}

\* "none" before start and after the end of the task, "dead" after an exception.
WorkerStage == {"none", "idle", "taken", "relaying", "converting", "delivering",
                "working", "recording", "refused", "failing", "cancelled", "dead"}

Phase == {"off", "starting", "ready", "handlers", "cancelling", "joining", "stopping",
          "disconnecting"}

NoWorker == [stage |-> "none", message |-> CHOOSE m \in Messages : TRUE]
Zero      == [received |-> 0, terminal |-> 0, failed |-> 0, reconciled |-> 0]

\* The types of rows, tasks and counters; the queue keeps its size.
TypeOK ==
  /\ row \in [Messages -> RowState]
  /\ stale \subseteq Messages
  /\ claimedIn \in [Messages -> 0..MaxRuns]
  /\ handler \in [Events -> HandlerState]
  /\ queue \in Seq(Messages) /\ Len(queue) <= QueueMax
  /\ enqueued \subseteq Messages
  /\ worker \in [stage : WorkerStage, message : Messages]
  /\ phase \in Phase
  /\ stop \in BOOLEAN
  /\ error \in {"none", "failed", "timeout"}
  /\ cancelled \in BOOLEAN
  /\ count \in [DOMAIN Zero -> Nat]
  /\ result \in {"none", "clean", "shutdown_failed", "shutdown_timeout", "raised"}
  /\ runs \in 0..MaxRuns

Init ==
  /\ row \in [Messages -> {"none", "legacy", "PROCESSING"}]
  /\ \A m \in Messages \ Earlier : row[m] = "none"
  /\ stale = {}
  /\ claimedIn = [m \in Messages |-> 0]
  /\ handler = [e \in Events |-> "unseen"]
  /\ queue = <<>> /\ enqueued = {}
  /\ worker = NoWorker
  /\ phase = "off"
  /\ stop = FALSE /\ error = "none" /\ cancelled = FALSE
  /\ count = Zero
  /\ result = "none"
  /\ runs = 0

-----------------------------------------------------------------------------
(* ShadowRunController.                                                    *)

Accepting == phase = "ready" /\ ~stop

RequestStop == stop' = TRUE

RecordProcessed == count' = [count EXCEPT !.terminal = @ + 1]
RecordRejected(failed) ==
  count' = [count EXCEPT !.terminal = @ + 1, !.failed = IF failed THEN @ + 1 ELSE @]

Missing == IF count.terminal < count.received THEN count.received - count.terminal ELSE 0

\* Mutant: missing outcomes are counted and not reported.
ReconcileQuietly(e) ==
  /\ count' = [count EXCEPT !.failed = @ + Missing, !.terminal = @ + Missing,
                            !.reconciled = @ + Missing]
  /\ error' = e

\* reconcile_unfinished, called with the error there is or a new one.
ReconcileUnfinished(e) ==
  /\ count' = [count EXCEPT !.failed = @ + Missing, !.terminal = @ + Missing,
                            !.reconciled = @ + Missing]
  /\ error' = IF e = "none" /\ Missing > 0 THEN "failed" ELSE e

-----------------------------------------------------------------------------
(* The event handler.                                                      *)

Set(e, s) == handler' = [handler EXCEPT ![e] = s]

\* Not in the window of the run, or no longer admitted.
Exclude(e) ==
  /\ phase \notin {"off", "starting"}
  /\ handler[e] = "unseen"
  /\ Set(e, "refused")
  /\ UNCHANGED <<db, queue, enqueued, worker, count, run>>

\* try_admit_message; the last one admitted requests the stop.
Admit(e) ==
  /\ Accepting
  /\ handler[e] = "unseen"
  /\ Set(e, "persisting")
  /\ count' = [count EXCEPT !.received = @ + 1]
  /\ IF count.received + 1 >= MaxMessages THEN RequestStop ELSE UNCHANGED stop
  /\ UNCHANGED <<db, queue, enqueued, worker, phase, error, cancelled, result, runs>>

\* persist_without_enqueue: a new row, or one that is neither settled nor other.
Store(e) ==
  LET m == MessageOf[e] IN
  /\ handler[e] = "persisting"
  /\ row[m] \in {"none", "RECEIVED", "PROCESSING"}
  /\ row' = [row EXCEPT ![m] = IF @ = "none" THEN "RECEIVED" ELSE @]
  /\ Set(e, "enqueueing")
  /\ UNCHANGED <<stale, claimedIn, queue, enqueued, worker, count, run>>

\* The handler gives the outcome: a legacy row, a completed duplicate, other
\* content (which fails the row for good), a settled failure or an error.
HandlerSettles(e) ==
  LET m == MessageOf[e] IN
  /\ handler[e] = "persisting"
  /\ \/ row[m] = "legacy" /\ RecordRejected(FALSE) /\ UNCHANGED row
     \/ row[m] \in {"legacy", "COMPLETED"} /\ RecordProcessed /\ UNCHANGED row
     \/ /\ row[m] # "none"
        /\ row' = [row EXCEPT ![m] = "FAILED_PERMANENT"]
        /\ RecordRejected(FALSE)
     \/ row[m] = "FAILED_PERMANENT" /\ RecordRejected(TRUE) /\ UNCHANGED row
     \/ RecordRejected(TRUE) /\ UNCHANGED row
  /\ Set(e, "done")
  /\ UNCHANGED <<stale, claimedIn, queue, enqueued, worker, run>>

\* Mutant: the queue has no limit.
EnqueueAlways(e) ==
  LET m == MessageOf[e] IN
  /\ handler[e] = "enqueueing"
  /\ m \notin enqueued
  /\ queue' = Append(queue, m)
  /\ enqueued' = enqueued \cup {m}
  /\ Set(e, "done")
  /\ UNCHANGED <<db, worker, count, run>>

\* The worker will give the outcome.
Enqueue(e) ==
  LET m == MessageOf[e] IN
  /\ handler[e] = "enqueueing"
  /\ m \notin enqueued /\ Len(queue) < QueueMax
  /\ queue' = Append(queue, m)
  /\ enqueued' = enqueued \cup {m}
  /\ Set(e, "done")
  /\ UNCHANGED <<db, worker, count, run>>

\* The message waits already: the one outcome there will be is for both events.
Coalesce(e) ==
  /\ handler[e] = "enqueueing"
  /\ MessageOf[e] \in enqueued
  /\ Set(e, "done")
  /\ UNCHANGED <<db, queue, enqueued, worker, count, run>>

\* The queue is full.
Defer(e) ==
  /\ handler[e] = "enqueueing"
  /\ MessageOf[e] \notin enqueued /\ Len(queue) >= QueueMax
  /\ Set(e, "done")
  /\ RecordRejected(TRUE)
  /\ UNCHANGED <<db, queue, enqueued, worker, run>>

\* A cancelled handler has no outcome.
HandlerEnds(e) ==
  /\ handler[e] = "cancelling"
  /\ Set(e, "gone")
  /\ UNCHANGED <<db, queue, enqueued, worker, count, run>>

-----------------------------------------------------------------------------
(* The worker.                                                             *)

Busy(stage) == worker.stage = stage
To(stage)   == worker' = [worker EXCEPT !.stage = stage]
Mine        == worker.message

\* A step of the worker that only moves on.
Continue(from, to) ==
  /\ Busy(from) /\ To(to)
  /\ UNCHANGED <<db, handler, queue, enqueued, count, run>>

\* The finally clause of _worker.
Release(stage) ==
  /\ worker' = [NoWorker EXCEPT !.stage = stage]
  /\ enqueued' = enqueued \ {Mine}
  /\ UNCHANGED <<handler, queue>>

Unfinished == Len(queue) + (IF worker.stage \in {"none", "idle", "dead"} THEN 0 ELSE 1)

Take ==
  /\ Busy("idle")
  /\ queue # <<>>
  /\ worker' = [stage |-> "taken", message |-> Head(queue)]
  /\ queue' = Tail(queue)
  /\ UNCHANGED <<db, handler, enqueued, count, run>>

\* SourceMessageRepository.claim with max_attempts=1.
Claim ==
  /\ row[Mine] = "RECEIVED"
  /\ row' = [row EXCEPT ![Mine] = "PROCESSING"]
  /\ claimedIn' = [claimedIn EXCEPT ![Mine] = runs]
  /\ UNCHANGED stale

\* complete and fail, on the row as it is by then.
Complete == row' = [row EXCEPT ![Mine] = IF @ = "PROCESSING" THEN "COMPLETED" ELSE @]
Fail     == row' = [row EXCEPT ![Mine] = "FAILED_PERMANENT"]

\* Requests made under way may reach a limit of the controller.
MayReachLimit ==
  /\ \/ UNCHANGED stop
     \/ RequestStop
  /\ UNCHANGED <<phase, error, cancelled, result, runs>>

\* The outcome of a canonical message, whatever went wrong on the way.
Reject(failed) ==
  /\ RecordRejected(failed)
  /\ Release("idle")

\* relay_processor.process claims the row ...
RelayClaim ==
  /\ Busy("taken") /\ Mine \notin Coin
  /\ Claim /\ To("relaying")
  /\ UNCHANGED <<handler, queue, enqueued, count, run>>

\* ... or finds nothing to do.
RelayNothing ==
  /\ Mine \notin Coin /\ row[Mine] # "RECEIVED"
  /\ Continue("taken", "converting")

\* It ends: the only attempt completes or fails the row.
RelayEnd ==
  /\ Busy("relaying")
  /\ Complete \/ Fail
  /\ To("converting")
  /\ UNCHANGED <<stale, claimedIn, handler, queue, enqueued, count, run>>

\* convert and save_ready.
Convert ==
  /\ row[Mine] = "COMPLETED"
  /\ Busy("converting")
  /\ To("delivering")
  /\ MayReachLimit
  /\ UNCHANGED <<db, handler, queue, enqueued, count>>

\* deliver_automatic reports sent, now or of an earlier attempt.
Delivered ==
  /\ Busy("delivering")
  /\ RecordProcessed
  /\ Release("idle")
  /\ MayReachLimit
  /\ UNCHANGED db

\* A refusal of convert; any other exception, or a delivery that is not sent.
CanonicalRejected ==
  /\ \/ Busy("converting") /\ Reject(FALSE)
     \/ /\ worker.stage \in {"taken", "relaying", "converting", "delivering"}
        /\ Mine \notin Coin
        /\ Reject(TRUE)
  /\ MayReachLimit
  /\ UNCHANGED db

\* _process_coin claims the row ...
CoinClaim ==
  /\ Busy("taken") /\ Mine \in Coin
  /\ Claim /\ To("working")
  /\ UNCHANGED <<handler, queue, enqueued, count, run>>

\* ... or somebody did: record_skipped.
CoinSkip ==
  /\ Busy("taken") /\ Mine \in Coin /\ row[Mine] # "RECEIVED"
  /\ RecordProcessed
  /\ Release("idle")
  /\ UNCHANGED <<db, run>>

\* Preview and delivery: sent; refused; not sent or an error.
CoinWork ==
  /\ Busy("working")
  /\ \E to \in {"recording", "refused", "failing"} : To(to)
  /\ MayReachLimit
  /\ UNCHANGED <<db, handler, queue, enqueued, count>>

CoinComplete ==
  /\ Busy("recording")
  /\ Complete
  /\ RecordProcessed
  /\ Release("idle")
  /\ UNCHANGED <<stale, claimedIn, run>>

\* The completion is lost: the message is failed although it was sent.
CoinCompleteFails == Continue("recording", "failing")

\* _finish_coin_source and the outcome.
CoinFail ==
  /\ worker.stage \in {"refused", "failing"}
  /\ Fail
  /\ RecordRejected(Busy("failing"))
  /\ Release("idle")
  /\ UNCHANGED <<stale, claimedIn, run>>

\* An error of the first transactions, or of _finish_coin_source in an except
\* clause: nothing catches it, and nothing starts another worker.
WorkerDies ==
  /\ \/ Busy("taken") \/ worker.stage \in {"refused", "failing"}
  /\ Release("dead")
  /\ UNCHANGED <<db, count, run>>

\* The task ends: a claim of _process_coin is failed, if the time allows.
WorkerEnds ==
  /\ Busy("cancelled")
  /\ \/ UNCHANGED row
     \/ Mine \in Coin /\ claimedIn[Mine] = runs /\ row[Mine] = "PROCESSING" /\ Fail
  /\ Release("none")
  /\ UNCHANGED <<stale, claimedIn, count, run>>

-----------------------------------------------------------------------------
(* The run.                                                                *)

LeaseExpires(m) ==
  /\ row[m] = "PROCESSING" /\ m \notin stale
  /\ stale' = stale \cup {m}
  /\ UNCHANGED <<row, claimedIn, task, count, run>>

\* expire_pilot_processing: an attempt a crash cut off is not repeated.
PilotExpired(m) == row[m] = "PROCESSING" /\ m \in stale

\* The command holds the lock, expires the rows a crash left and starts the
\* queue without recovery.
Start ==
  /\ phase = "off"
  /\ runs < MaxRuns
  /\ runs' = runs + 1
  /\ row' = [m \in Messages |-> IF PilotExpired(m) THEN "FAILED_PERMANENT" ELSE row[m]]
  /\ stale' = {}
  /\ queue' = <<>> /\ enqueued' = {}
  /\ worker' = [NoWorker EXCEPT !.stage = "idle"]
  /\ phase' = "starting"
  /\ stop' = FALSE /\ error' = "none" /\ cancelled' = FALSE /\ result' = "none"
  /\ count' = Zero
  /\ handler' = [e \in Events |-> IF handler[e] = "unseen" THEN "unseen" ELSE "past"]
  /\ UNCHANGED claimedIn

\* Connected, resolved, handler registered, mark_ready.
Ready ==
  /\ phase = "starting"
  /\ phase' = "ready"
  /\ UNCHANGED <<db, task, count, stop, error, cancelled, result, runs>>

CancelWorker == CASE Busy("idle") -> worker' = NoWorker
                  [] worker.stage \in {"none", "dead"} -> UNCHANGED worker
                  [] OTHER -> To("cancelled")

\* The start raises: the finally clause stops the queue and the client.
StartFails ==
  /\ phase = "starting"
  /\ phase' = "stopping" /\ result' = "raised"
  /\ CancelWorker
  /\ UNCHANGED <<db, handler, queue, enqueued, count, stop, error, cancelled, runs>>

\* close_admission and the wait for the handlers; the removal of the handler
\* may fail.
Shutdown ==
  /\ phase' = "handlers"
  /\ error' \in IF phase = "starting" THEN {"none"} ELSE {"none", "failed"}
  /\ UNCHANGED <<db, task, count, result, runs>>

\* The time of the run is over, before or after it was ready.
RunTimesOut ==
  /\ \/ phase = "starting"
     \/ phase = "ready" /\ ~stop
  /\ RequestStop
  /\ Shutdown
  /\ UNCHANGED cancelled

\* wait_for_stop returns.
StopRequested ==
  /\ phase = "ready" /\ stop
  /\ Shutdown
  /\ UNCHANGED <<stop, cancelled>>

\* The coroutine is cancelled: it shuts down, again if it was about to.
Cancel ==
  /\ phase \notin {"off", "starting"}
  /\ ~cancelled /\ result # "raised"
  /\ cancelled' = TRUE
  /\ RequestStop
  /\ Shutdown

Active == {e \in Events : handler[e] \in {"persisting", "enqueueing", "cancelling"}}

HandlersDone ==
  /\ phase = "handlers"
  /\ Active = {}
  /\ phase' = "joining"
  /\ error' = IF error = "none" /\ \E e \in Events : handler[e] = "gone" THEN "failed" ELSE error
  /\ UNCHANGED <<db, task, count, stop, cancelled, result, runs>>

HandlersTimeOut ==
  /\ phase = "handlers"
  /\ Active # {}
  /\ handler' = [e \in Events |-> IF e \in Active THEN "cancelling" ELSE handler[e]]
  /\ phase' = "cancelling"
  /\ error' = IF error = "none" THEN "timeout" ELSE error
  /\ UNCHANGED <<db, queue, enqueued, worker, count, stop, cancelled, result, runs>>

\* The cancelled handlers ended, or are waited for no longer.
HandlersCancelled ==
  /\ phase = "cancelling"
  /\ phase' = "joining"
  /\ UNCHANGED <<db, task, count, stop, error, cancelled, result, runs>>

\* reconcile_unfinished and, before anything else runs, the cancellation of
\* the worker in relay.stop.
Joined ==
  /\ phase = "joining"
  /\ Unfinished = 0
  /\ ReconcileUnfinished(error)
  /\ phase' = "stopping"
  /\ CancelWorker
  /\ UNCHANGED <<db, handler, queue, enqueued, stop, cancelled, result, runs>>

\* Mutant: join has no timeout, only its end goes on.
JoinWaits == Joined

\* Mutant: the worker goes on for a while.
JoinTimesOutAlone ==
  /\ phase = "joining"
  /\ Unfinished > 0
  /\ ReconcileUnfinished(IF error = "none" THEN "timeout" ELSE error)
  /\ phase' = "stopping"
  /\ UNCHANGED <<db, task, stop, cancelled, result, runs>>

JoinTimesOut ==
  /\ phase = "joining"
  /\ Unfinished > 0
  /\ ReconcileUnfinished(IF error = "none" THEN "timeout" ELSE error)
  /\ phase' = "stopping"
  /\ CancelWorker
  /\ UNCHANGED <<db, handler, queue, enqueued, stop, cancelled, result, runs>>

Stopped ==
  /\ phase = "stopping"
  /\ worker.stage \in {"none", "dead"}
  /\ phase' = "disconnecting"
  /\ UNCHANGED <<db, task, count, stop, error, cancelled, result, runs>>

\* The worker is cancelled once more and waited for no longer.
StopTimesOut ==
  /\ phase = "stopping"
  /\ worker.stage \notin {"none", "dead"}
  /\ phase' = "disconnecting"
  /\ worker' = NoWorker
  /\ error' = IF error = "none" THEN "timeout" ELSE error
  /\ UNCHANGED <<db, handler, queue, enqueued, count, stop, cancelled, result, runs>>

\* disconnect, in time or not; the result is told, or the exception raised.
Disconnect ==
  /\ phase = "disconnecting"
  /\ phase' = "off"
  /\ error' \in {error, IF error = "none" THEN "timeout" ELSE error}
  /\ result' = IF result = "raised" \/ cancelled THEN "raised"
               ELSE CASE error' = "none"    -> "clean"
                      [] error' = "failed"  -> "shutdown_failed"
                      [] error' = "timeout" -> "shutdown_timeout"
  /\ UNCHANGED <<db, task, count, stop, cancelled, runs>>

\* A second interrupt during that shutdown: the loop is closed, which cancels
\* every task.  Nothing is reconciled; the finally clause stops queue and client.
CancelAgain ==
  /\ cancelled /\ result # "raised"
  /\ result' = "raised" /\ phase' = "stopping"
  /\ handler' = [e \in Events |-> IF e \in Active THEN "cancelling" ELSE handler[e]]
  /\ CancelWorker
  /\ UNCHANGED <<db, queue, enqueued, count, stop, error, cancelled, runs>>

\* The process ends anywhere; the lock ends with it.
Crash ==
  /\ phase # "off"
  /\ phase' = "off" /\ result' = "raised"
  /\ handler' = [e \in Events |-> IF e \in Active THEN "gone" ELSE handler[e]]
  /\ queue' = <<>> /\ enqueued' = {} /\ worker' = NoWorker
  /\ UNCHANGED <<db, count, stop, error, cancelled, runs>>

-----------------------------------------------------------------------------
Handler(e) ==
  \/ Exclude(e) \/ Admit(e) \/ Store(e) \/ HandlerSettles(e)
  \/ Enqueue(e) \/ Coalesce(e) \/ Defer(e) \/ HandlerEnds(e)

Worker ==
  \/ Take \/ RelayClaim \/ RelayNothing \/ RelayEnd \/ Convert \/ Delivered
  \/ CanonicalRejected \/ CoinClaim \/ CoinSkip \/ CoinWork \/ CoinComplete
  \/ CoinCompleteFails \/ CoinFail \/ WorkerDies \/ WorkerEnds

\* Steps of the coroutine of the run, and the timeouts it waits with.
Monitor ==
  \/ RunTimesOut \/ StopRequested \/ HandlersDone \/ HandlersTimeOut \/ HandlersCancelled
  \/ Joined \/ JoinTimesOut \/ Stopped \/ StopTimesOut \/ Disconnect

Next ==
  \/ \E e \in Events : Handler(e)
  \/ Worker
  \/ \E m \in Messages : LeaseExpires(m)
  \/ Start \/ Ready \/ StartFails \/ Monitor \/ Cancel \/ CancelAgain \/ Crash

\* The loop runs and its clock advances; nothing outside of it has to answer.
Spec == Init /\ [][Next]_vars /\ WF_vars(Monitor)

-----------------------------------------------------------------------------
\* No event has two outcomes, whatever handlers, worker and shutdown do, and
\* once the shutdown reconciled them every admitted event has one: nothing is
\* recorded later.  Only a second interrupt goes on to stop without that.
OutcomesMatchEvents ==
  /\ count.terminal <= count.received
  /\ phase \in {"stopping", "disconnecting"} /\ result # "raised" =>
       count.terminal = count.received

\* A run that reports a clean end waited for everything: each outcome was given
\* by a handler or by the worker, and nothing is left in flight.  If it counts
\* no failure, no message it admitted is left open in the database.
CleanRunIsComplete ==
  phase = "off" /\ result = "clean" =>
    /\ count.reconciled = 0
    /\ Unfinished = 0 /\ Active = {}
    /\ count.failed = 0 =>
         \A e \in Events : handler[e] = "done" =>
           LET m == MessageOf[e] IN
           \/ row[m] \in {"legacy", "COMPLETED", "FAILED_PERMANENT"}
           \/ row[m] = "PROCESSING" /\ claimedIn[m] < runs

\* A run that was started ends, also when handlers, worker, queue or client
\* never answer.
RunEnds == phase # "off" ~> phase = "off"
=============================================================================
