# promo_bot in TLA+

Specifications of the parts of `promo_bot` where order, concurrency and failure
decide: the durable relay of Telegram messages and of their links, the catch-up of a channel, the
delivery outbox, the generation of paid affiliate links and of coin links, the
delivery of shadow previews, the bounded shadow listener, and product discovery.
`PROJECT.json` holds
the map from every definition to the lines it models, the runs, the mutants, the
hazards and the theorems. This file is the guide. Paths are relative to
`src/src/promo_bot/` unless they start with `docs/`.

## The system

One Python 3.12 process (asyncio, SQLAlchemy over SQLite, Telethon) listens to
source channels, stores every message, extracts its links, and turns products into
previews and deliveries. Every durable fact is a row in SQLite; every
`database.session()` block is one transaction. Telegram, the Bot API and the
AliExpress API share no transaction with it. Commands of the CLI and operators may
start other processes on the same database.

| Component | State it keeps | Operations | What makes it correct |
|---|---|---|---|
| Relay queue (`relay/queue.py`) | a bounded `asyncio.Queue`, the set `_enqueued`, worker tasks, a recovery task | `persist`, `_enqueue`, `recover_once`, `start`, `stop` | an id is in one place only; a full queue or a crash delays a message and never loses it |
| Relay processor (`relay/service.py`) | a claim with a lease on a row of `source_messages` | `process`, `_process_link` | a claim that is held is taken away by nobody but who may; the attempts are bounded; settled rows stay settled |
| Source messages (`SourceMessageRepository`) | status, attempts, lease, backoff, content hash | `receive`, `claim`, `complete`, `fail`, `renew_lease`, `mark_exhausted`, `mark_content_mismatch`, `recoverable` | guarded updates; recovery reaches every open row |
| Links and duplicates (`SourceMessageLinkRepository`, `ProcessedItemRepository`) | outcome of every link, canonical products already seen | `record_received`, `set_outcome`, `find`, `record` | a retry is not its own duplicate |
| Monitor and catch-up (`telegram/monitor.py`, `relay/catchup.py`) | checkpoint per channel, the registered handler, handler tasks | `_catch_up`, `_bridge_gap`, `_fetch_recent`, `_handle_new_message`, bounded runs | no message inside the window and the limit is skipped between runs |
| Delivery outbox (`delivery/service.py`, `database/delivery_repository.py`, `telegram/bot.py`) | rows of `deliveries` with state, attempts, lease | `ensure_pending`, `claim`, the request, `_finish`, the stale sweep | at most one post; an unknown outcome is never retried |
| Affiliate candidates (`AffiliateCandidateRepository`, `affiliate/service.py`) | state, attempts, lease, owner of the claim | `ensure_for_link`, `claim_for_generation`, `mark_affiliate_generated`, `fail` | a claim belongs to one call |
| Affiliate conversion (`affiliate/aliexpress_conversion.py`) | a call between its transactions | `convert`, `_generate_batch`, `_record_failures` | one paid request per claim; all products of a call or none |
| Generation history (`database/history_repository.py`, `affiliate/history_context.py`) | ledger of generations and of the uses of a preview | `prepare`, `start_call`, `confirm`, `fail`, `recover`, `request_legacy_generation`, `record_use`, `transition_send` | the ledger admits every request that may have been made, and blocks what follows one in doubt |
| Shadow delivery (`affiliate/shadow_delivery.py`, `affiliate/coin_shadow_delivery.py`, their repositories and transports) | a row per message and destination, its use in the history | `reserve`, `mark_sending`, `finish`, `send_text` | one request at most per row, revalidated before it; row, use and report never against what the channel shows |
| Coin generation and delivery (`affiliate/coin_shadow_*.py`, `database/coin_shadow_*.py`) | evidence rows, the same ledger | generation, preview, delivery of coin links | as above, for coin identities |
| Shadow listener (`affiliate/aliexpress_shadow_listener.py`) | budgets, counters and first stop reason of a bounded run | `try_admit_message`, `before_api_call`, `before_send_message`, bounded shutdown | budgets hold, and every admitted message is accounted for |
| Discovery (`discovery/`, `database/aliexpress_discovery_*.py`) | runs with leases, claims, kept answers, results and observed prices | scan, refine, claims, answers, finish, recovery | a query in one hand; one price per run; completed runs are whole and stay |
| Listener lock (`affiliate/shadow_listener_lock.py`) | a lock file | acquire, release | one listener |
| State machines (`domain/state_machines.py`) | transition tables | `ensure_*_transition` | the tables agree with what repositories do |
| Parser, formatter, URL rules, providers, configuration, CLI | none, or a client | pure functions, HTTP, wiring | outside these models |

How they interact: the monitor's handler and the catch-up passes call `persist`;
`persist` writes the row, its checkpoint and the queue; a worker takes an id from
the queue, claims the row and processes its links, which may create candidates;
conversions of completed messages claim candidates, write the ledger and make the
request; deliveries and shadow deliveries post what was accepted. The queue and
the handlers share memory, everything else meets in the database.

The behaviours that are hard here: tasks that interleave at every `await`; a row
that is read in one transaction and written in another; leases that run out under
live owners; answers that are lost, or arrive after somebody gave up; a process
that ends between a durable intent and its outcome; a bounded queue in front of an
unbounded table; two passes and a handler that advance one checkpoint. The list of
hazards in `PROJECT.json` names the line of each.

## Modules

| Module | Subject |
|---|---|
| `DurableRelay` | relay queue, processor and source message rows of one process |
| `RelayLinks` | what the relay records of links, products and candidates, through retries |
| `CatchUp` | how a run joins the history of one channel to live events |
| `AtMostOncePost` | abstract: what an outbox in front of a chat can promise |
| `DeliveryOutbox` | the outbox, the concurrent calls of `send`, the Bot API as outcomes; refines `AtMostOncePost` |
| `AuditedCalls` | abstract: what a ledger of paid requests can promise |
| `LinkGeneration` | candidates, proofs, ledger and the one request of an AliExpress conversion; refines `AuditedCalls` |
| `ShadowDelivery` | canonical and coin previews on their way to the private test channel; refines `AtMostOncePost` |
| `CoinGeneration` | evidence rows of coin shorts, the ledger, previews of one and of several shorts; refines `AuditedCalls` |
| `ShadowListener` | a bounded run: admission, handlers, worker, outcomes, shutdown |
| `DiscoveryRuns` | scans and refinements of products on shared claims, kept answers and prices |
| `MC_DurableRelay`, `MC_RelayLinks`, `MC_LinkGeneration`, `MC_CoinGeneration`, `MC_ShadowListener`, `MC_DiscoveryRuns` | constants that are functions or sets of sets, for TLC |
| `DurableRelay_proofs`, `RelayLinks_proofs`, `DeliveryOutbox_proofs`, `LinkGeneration_proofs`, `ShadowDelivery_proofs`, `CoinGeneration_proofs`, `ShadowListener_proofs`, `DiscoveryRuns_proofs` | theorems; those of `CatchUp`, the other half of the intake, are at the end of `DurableRelay_proofs` |

Conventions. An action is one transaction together with the in-memory code up to
the next `await`. Wall-clock time is abstract: a lease is live until
`LeaseExpires`, a backoff pending until `BackoffElapses`; both may happen at any
moment, so every speed of the clock against the tasks is covered. Operators whose
comment says *Mutant* are wrong on purpose: each is a plausible bug, and
`PROJECT.json` says which property notices it.

### DurableRelay

`rows` are the columns of `source_messages` that control uses; `checkpoint` the
checkpoint `persist` writes in the same transaction; `queue` and `enqueued` the
memory of `DurableRelayQueue`; `handler`, `worker` and `recovery` the tasks between
two awaits. `Receive` is `persist_without_enqueue` with its cases (new, known,
legacy row, changed content), followed by `Enqueue` or `DeferQueueFull`. `Take`,
`Claim`, `RenewLease`, `LinkDone`, `Fail`, `Complete` are the loop of a worker
around `RelayProcessor.process`. `RecoverSelect` and `RecoverEnqueue` are
`recover_once`, `mark_exhausted` included. `Boot` and `Crash` start and end the
process; rows survive. `WorkerDies` and `RecoveryDies` are a database error
outside of the `try` of a task: there is no `except`, so the task is gone.

Properties: `SingleHolder` (an id in one place, `_enqueued` exact), `ClaimHeld`,
`ExhaustedIsFinal`, and `EventuallySettled`. `NoStrandedClaim` and
`CompletedLeavesByMismatchOnly` are proved and no longer checked by a run.

### RelayLinks

Where `DurableRelay` stops at whole links (`LinkDone`), this module has what
`process` records of them. `status` and `attempts` are the columns of a message that decide
whether it may be claimed, `link` and `candidate` the state and the candidate of a row of
`source_message_links`, `exists` the rows of `affiliate_candidates`, `processed` those of
`processed_items`; `worker` says at which link a worker is and how far with it. A
worker goes through `Claim`, for every link `Receive` (which skips what an earlier attempt
settled) and then `Settle` (no product) or `Resolve`, `Find`, and `Duplicate` or
`Retain`, and ends in `Complete` or `Fail`. SQLite begins the transaction of a session at
its first write, so `Find` is a step before the writes that rely on it, and two
workers may both retain a product: `processed_items` has one row then, and both links the
same candidate. The program starts one worker; `start` takes more, and the model has two.
`MarkExhausted` and `Backfill` belong to the recovery.

Properties: `DuplicateHasOriginal`, `LinksAreCovered`. The model shows that
`backfill_shopee` passes no `variation_key`, so that an old link with a variation is
attached to the candidate of the bare product; `LeadsToOwn` admits that for old links only.

### CatchUp

Messages are `1..posted`; `oldest` is the edge of the lookback window. A run goes
through `catchup`, registers its handler, goes through `bridge`, and listens; each
pass reads the checkpoint, fetches and selects, and persists in order, as separate
steps. From `Register` on every `Post` is an event whose handler persists it, or
fails, at any later moment. `Stop` ends a run anywhere. `Excused` is what the
configuration gives up by design (window and limit).

Properties: `CheckpointIsNewest`, `OnlyLiveEventsOvertake`, `NothingLeftBehind`,
`EventuallyCovered`.

### DeliveryOutbox and AtMostOncePost

A call of `send` is `Claim`, `Transport` (which posts, or not, and yields an
outcome), `Finish`; `Abandon` is a call that ends in the middle by cancellation or
crash. The sweep for stale rows and a change of policy run beside them. The
abstract module knows only what is in the chat and what the sender says of it:
`confirmed`, `refused`, `unknown` or `open`. The mapping sends the rows under way,
and retryable ones, to `open`.

### LinkGeneration and AuditedCalls

A conversion of a message: `Recover` (its first transaction, which resolves the
open rows of expired leases of *any* call), then `Leave` or `Prepare` (its second
transaction: the checks and all claims and PREPARED rows, or nothing), `StartCall`
(durable before the request), `Request` (the one attempt), `Commit` (candidates,
proofs and ledger in one transaction) or `CommitFails`, and on a failure
`RecordVerdict` and `RecordFailure`, two transactions of which each may be lost.
`Cancel` is the `CancelledError` clause; `Crash` the end of the process, or an
error that leaves the rest unwritten. `RequestGeneration` is the operator's request
for a proof older than the ledger. The lease is one per call, because every claim
of a call gets the same `lease_until`.

Properties: `NoCallAfterUnknown`, `WireIsAudited`, `ProofIsNewestConfirmed`,
`ClaimMatchesLedger`, and the refinement `ImplementsAuditedCalls`. The abstract module
knows only how often each call was requested and what the ledger says of it, for each of its
subjects: `open`, `confirmed`, `refused`, `unknown`, or `void` of a call that was never
requested. Nothing is requested unannounced or twice, `void` is said only of what never
was and never will be requested, verdicts are final, and after any but `confirmed`
nothing more is announced for the subject. PREPARED and CALL_STARTED rows map to `open`,
FAILED to `void`; one recovery may give verdicts on many calls at once. The model also shows a
consequence that the configuration hides: since a failed or refused generation blocks the identity
for good, `MAX_GENERATION_ATTEMPTS` (3) is never reached by failures, whereas
`docs/ALIEXPRESS_AFFILIATE.md` speaks of up to three attempts.

### ShadowDelivery

`row` is the delivery row, `use` the SEND use of the history that every transaction
moves with it, `told` what the owner of a reservation reported, `wire` and `posts`
the requests under way and the messages in the channel; `task` a delivery between
two awaits. Both kinds of preview go through `Reserved` and `Revalidate`; a canonical
delivery then marks its row and asks the budget (`MarkSending`, `Grant`), a coin
delivery asks first (`Grant`, `CoinMarkSending`). `Request` puts the message on the wire,
`Post` may process it long after `Stop` gave up. `Finish` and `FinishFails` are the
last transaction, written or lost. `SaveCanonical`, `SaveCoin`, `Expire`,
`PurgeExpired` and `GenerationChanges` move the preview under all of this.

Properties: `AtMostOnePost`, `RowsTellTheTruth`, `BudgetCoversRequests`, and the
refinement `ImplementsAtMostOncePost`: the abstract outbox of `DeliveryOutbox` is
implemented a second time. A canonical delivery that the budget refuses ends
`uncertain` although nothing was requested, because the row was marked before.

### CoinGeneration

`evidence` are the evidence rows by id, `gen` the generations by call, `preview` the
links in the preview of a message. A preparation opens a message (`Open`); with several
shorts it first recovers, looks at one after the other in transactions of their own, and
compares the misses with the budget (`RecoverMessage`, `Inspect`, `CoverMisses`), then looks again
at each before generating it (`Probe`). For each short, `Recover` and `ClaimNew` or `ClaimExisting` are the two transactions of `generate`; the
latter purge rows whose link outlived its day, with whole previews made of them.
The winner goes through `StartCall`, `Request`, `Answer`, and `Confirm`, `RecordRejected`,
`RecordUncertain` or, when that transaction fails, `RecordLost`. `SaveSingle` and `SaveMulti`
make the preview. Ids are reused as SQLite does without AUTOINCREMENT.

Properties: `NoCallAfterUnknown`, `EvidenceMatchesLedger`,
`ReadyPreviewIsCurrent`, and the refinement `ImplementsAuditedCalls`: coin calls, whose ids,
rows and recoveries are of another kind, keep the same promise. In the runs a single-short preparation may hold the id of a
purged row that belongs to another short by now, and save a preview whose text is
of the old link and whose use names the new one. `ReadyPreviewIsCurrent` holds all the
same: the preview expires with the old link, so it is never ready.

### ShadowListener

A run of the bounded listener with one worker: `phase` is the coroutine of
`TelegramMonitor.run`, `handler` the handler tasks, `worker` the worker, `count` the
counters of the controller. `Admit`, `Store`, `Enqueue`, `Coalesce`, `Defer` and
`HandlerSettles` are the handler of an event. The worker takes a canonical message
through `RelayClaim`, `RelayEnd`, `Convert`, `Delivered` or `CanonicalRejected`, a coin message
through `CoinClaim`, `CoinWork`, `CoinComplete` or `CoinFail`. `StopRequested`, `RunTimesOut` or
`Cancel` start the shutdown: handlers, then the queue, then the worker, then the client, each
waited for and cut off. `Joined` and `JoinTimesOut` contain the cancellation of
the worker, because nothing yields between `reconcile_unfinished` and it, and a
cancelled worker raises and records nothing more. `CancelAgain` is a second interrupt during a
shutdown: the event loop is closed, every task is cancelled, and only the `finally` clause
still stops queue and client. The listener lock is the guard of `Start`.

Properties: `OutcomesMatchEvents`, `CleanRunIsComplete`, and `RunEnds` under weak fairness.
Two findings of the model that contradict no document: a redelivered event of a
queued message has no outcome of its own, so the run reports a missing outcome; and
`_worker` has no `except` clause, so an error in `_finish_coin_source`, or of the first
session of `process`, ends the only worker. Both are counted by the shutdown.

### DiscoveryRuns

`run` are the rows of scans and refinements, `claim` and `cache` the tables of claims
and of kept answers, `results`, `items`, `observed` and `skuObserved` what runs
wrote, `proc` the process of a run between two transactions. A scan goes through
`ClaimQuery` (a kept answer, another's claim, a claim of its own with a counted call, or
the end of its budget), `PageAnswered` (everything in one transaction, while the claim
is held), `RecordKept` (one transaction per product, that asks neither for lease nor
state) and `Finish`; a refinement through `ReadShortlist` (a completed scan is read), `Refine` (the run is created, in
another transaction), `ClaimSku`, `SkuAnswered`,
`SkuItemRefused`, `SkuKept` and `FinishSku`, which ranks in the same transaction.
`Recovered` is what every claim does to other runs whose lease ended. Medians,
drops and scores are computed, because the shortlist and the classes depend on them.

Properties: `RunsAgree` (`ClaimsAreCurrent`, `OnePricePerRun`, `CompletedRunIsWhole`) and
`SettledRunsStay`. A late answer finds its lease lost; the exception leaves the run
RUNNING until another run gives it up. A scan that was given up for UNCERTAIN may
still gain rows from a kept page; only completed scans are frozen, and only they are
refined.

## Runs

| Run | Instance | Shows |
|---|---|---|
| `DurableRelay_safety` | 2 messages, 2 workers, 1 handler, queue of 1, 2 attempts, 3 receives, a crash, a dead task | types, the two safety properties and the action property |
| `DurableRelay_liveness` | 2 messages (one legacy), 1 worker, recovery by one, a crash | `EventuallySettled` |
| `RelayLinks` | 2 workers, 2 attempts, 3 messages, 6 links of 3 products (one old, one twice in its message, one short, one to no store), backfill by one, a crash | the safety properties |
| `DeliveryOutbox` | 2 deliveries, 2 calls, 2 attempts | safety, and the refinement |
| `CatchUp` | limit 3, 4 messages, a dropped event, 2 stops | safety, and `EventuallyCovered` |
| `CatchUp_transition` | limit 3, 3 messages, no fault | violated `TransitionCovered`: a live event overtakes the bridging pass |
| `LinkGeneration` | 2 candidates (one legacy), 2 conversions, 3 calls, 2 attempts | the safety properties, and the refinement |
| `LinkGeneration_review` | 1 conversion, 1 call | violated `UncertainIsReviewed`: a cancelled call strands its candidate |
| `ShadowDelivery` | 1 canonical and 1 coin target, 2 tasks, 1 send of budget, 2 versions of a preview | the safety properties, and the refinement |
| `CoinGeneration` | 2 shorts (one legacy), a message of one short and a message of both, 2 preparations, 3 calls | the safety properties, and the refinement |
| `ShadowListener` | 3 events of 2 messages (one coin, redelivered; one canonical, with or without an earlier row), queue of 1, 2 runs of at most 2 admissions | the safety properties, and `RunEnds` |
| `DiscoveryRuns` | 2 scans, 2 refinements, 2 earlier runs, 2 products, 2 pages, 3 possible answers | the safety property and the action property |

The two violation runs are disagreements between the code and what its documents
say; `PROJECT.json` quotes the sentence of each. Three others can be read off
`DurableRelay` without a run: nothing replaces a worker that a database error ended, so
`EventuallySettled` needs `MaxTaskDeaths = 0`; `fail` reopens a row that a content mismatch made
FAILED_PERMANENT under its worker, and `mark_exhausted` looks at the attempts of a PROCESSING
row and not at its lease.

**Bounds.** They are constants: `MaxReceives`, `MaxCrashes`, `MaxTaskDeaths`
(`DurableRelay`, the second also `RelayLinks`), `MaxPosted`, `MaxDropped`, `MaxStops` (`CatchUp`), `MaxCalls`
(`LinkGeneration`, `CoinGeneration`), `MaxVersions` (`ShadowDelivery`), `MaxRuns`
(`ShadowListener`); the other constants are settings or the sizes of sets. The hazards of the relay need two workers that compete, a queue
that is full with one message, a message that is received again, and a crash in
the middle; three receives are a first delivery of both and one repeat. In
`RelayLinks` a product is met by an old link and a new one, by two messages, and twice
in one message; a crash leaves a link received or a product recorded, and the second
attempt meets it. In
`CatchUp` four messages exceed the limit of three, so that the limit excuses one, and
two stops let a run be interrupted, repeated and interrupted again. Three calls
for two candidates let one candidate be confirmed, generated again after its proof
expired, and generated a third time while a first conversion still holds a late
answer. Two attempts are the least that has a retry and an exhausted budget.
A second version of a preview is what could release a second send, and two targets
compete for a budget of one. Three coin calls let a short be confirmed, lapse, be
purged and be called again while the other is called once, with its id in between. Three
events with a queue of one make a full queue, a duplicate of a queued message and a
message behind a busy worker; the second run meets what the first left. Two scans
and two refinements with one call each compete for a page and a product, one takes the
kept answer of the other, and one gives the other up; two earlier runs are the least
that makes a median, and their price (10) makes 5 a drop and 10 none. Symmetry is used
in `DiscoveryRuns` only, of scans and of refinements, where no property is temporal
beyond one step and no definition tells runs apart.
`CHECK_DEADLOCK FALSE` is set where the system really may stop: when no more
messages come and a task that died leaves nothing to do (`DurableRelay_safety`,
and the instances of the same module that are stopped by their bounds), in
`CatchUp`, where a listening run without new messages waits for ever, and in
`RelayLinks`, `ShadowListener` and `DiscoveryRuns`, where all messages settle and all
runs end.

**Fairness.** `DurableRelay`: weak fairness of every handler, worker, of the
recovery task and of `Boot`, because asyncio resumes a task that is ready and the
process is restarted by an operator; of the two clock actions, because time
passes. None of receives, crashes or deaths. Choices inside a worker are not fair:
links may fail every time, and the budget of attempts then settles the message.
`CatchUp`: weak fairness of the run and of every handler; none of `Post`, `Stop`
or of a handler's failure, and `Age` is not forced, so nothing is excused by
aging away unless it really does. `ShadowListener`: weak fairness of `Monitor` alone, the steps of the coroutine and
its timeouts; `RunEnds` then holds although handlers, worker, queue and client may never
answer. `RelayLinks` leaves liveness to `DurableRelay`. `DeliveryOutbox`, `LinkGeneration`,
`ShadowDelivery`, `CoinGeneration` and `DiscoveryRuns` claim none: the code starts no send, conversion, preparation or
scan by itself, and nothing gives a claim up before somebody else comes.

## Proofs

The theorems hold for every value of the constants that satisfies the assumptions
of the modules (`MessagesAssumption`, `BoundsAssumption`, `LinksAssumption`, `ItemsAssumption`,
`CatchUpAssumption`, `OutboxAssumption`, `GenerationAssumption`, `DeliveryAssumption`,
`CoinAssumption`, `ListenerAssumption`, `DiscoveryAssumption`, `NoneAssumption`). Beyond types, the assumptions say only
what the sources or the abstraction give: no message is in two sets of a partition; there is a
message (a target, a short) at all, which the idle value of a task names; links,
events, runs and product ids are finitely many; `None` is neither a run nor a row nor an answer;
the limits of a profile are those `DiscoveryProfile` admits; and an older row of `RelayLinks` comes with all the rows
of its message, because a message is processed before or after candidates existed.
Each theorem rests on an inductive invariant, which TLC checked on the instance of the
component's run before it was proved.

* `DurableRelay_proofs`: `TypeOK` is inductive, in four parts (rows, tasks, queue,
  counters); what recovery enqueues are distinct ids that are not yet in
  `enqueued`. `SingleHolder` needs both of its halves: that `enqueued` is exactly the
  queued and held ids is what makes the test in `_enqueue` sufficient for one place.
  The lemmas are about the four ways the holders change: nothing moved, the queue
  grew, a worker took the head, a worker released its id. `ClaimHeld` and
  `NoStrandedClaim` follow with it, since a second claim of a held message would need
  a second worker with the same id. The action properties use the same invariant:
  a `complete` or a `fail` after exhaustion meets a row its guard refuses.
* `DeliveryOutbox_proofs`: `OutboxInv` adds `CallInv` to the checked
  properties: a call is the only one at work on its row, which is SENDING or was
  swept, nothing is in the chat before its request returned, and its outcome
  then says what it posted. Without it `RowTellsTruth` is not inductive, because
  `Finish` writes an answer that was given earlier.
  `OutboxImplementsPromise` is a full refinement proof: every step maps to a step
  of `AtMostOncePost` or to a stutter.
* `CatchUp` (in `DurableRelay_proofs`): `BatchInv` says that everything up to a selected message is
  covered or selected as well, so that persisting the least one keeps the
  checkpoint safe; `BridgeInv` says that once the bridging pass has made its selection
  every message is covered, selected, in a handler's hands or dropped; `PassInv`
  that selections and events belong to the stages that have them.

* `LinkGeneration_proofs`: `GenerationInv` adds `CallInv` to the checked
  properties. Its parts: a call beyond the counter has no rows and no request; every
  call is in the hands of one conversion at most; and what a conversion may rely
  on at each stage, whatever `Recover` did to its rows meanwhile (nothing requested
  while `prepared` or `started`, exactly one request when `answered`). `RowStep`
  lists the moves of a row; `NoCallAfterUnknown`, `WireIsAudited` and
  `ResolvedIsFinal` follow from it. `ProofIsNewestConfirmed` and
  `ClaimMatchesLedger` use `NoCallAfterUnknown` in turn: a call whose claim
  stands when its answer is committed is the newest of each of its candidates.
  `LedgerImplementsAuditedCalls` is a full refinement proof. It needs two more
  invariants: every call up to the counter has a row (`AnnouncedInv`), so that a request
  is announced, and a conversion that is about to write REJECTED has made its request
  (`RefusedInv`), which `WireIsAudited` does not say because it only forbids the opposite lie.

* `ShadowDelivery_proofs`: `DeliveryInv` adds to the checked properties that a target
  is in the hands of one task at most (`OneTask`), what a task may rely on at each stage
  (`TaskOK`: its row is pending, or sending once it was marked, nothing was reported, and
  nothing is on the wire before the request), and what holds of a target whoever works on
  it (`TargetOK`: one message at most is in the channel or under way, rows that never
  asked are quiet, row and use are a pair that some transaction writes).
  `RowsTellTheTruth` alone is not inductive, because `Finish` writes an answer
  given before the preview, the row or the generation moved. `BudgetInv` counts:
  requests dispatched and grants in hand are never more than the controller
  counted, so a lemma on the cardinality of the granted tasks covers each action.
  `ShadowDeliveryImplementsOutbox` is a full refinement proof.
* `RelayLinks_proofs`: `LinksInv` says that a message is in the hands of one worker;
  that the links a worker passed are settled, the one it is at is received, and a
  product it found recorded has another retained link (`WorkerOK`); and that a product
  recorded today has a retained link (`RecordedIsRetained`), which is what makes the
  answer of `find` mean an original, since `record` and `set_outcome` are one transaction.
* `ShadowListener_proofs`: `ListenerInv` bounds the outcomes still to come, those of
  open handlers and of the worker, by the admitted events without one, and says which of
  them each phase of the shutdown has left; after `reconcile_unfinished`, which only a second
  interrupt can cut short, nobody
  remains who could record another. `CompleteInv` follows a message of a handler that
  is done while nothing failed: it is settled, in the queue, with the worker, or
  its outcome is lost, and then the counters differ for good and the run reports it.
* `CoinGeneration_proofs`: `CoinInv` has two halves. Of the rows (`RowsInv`): calls are
  numbered as they are prepared, a row older than the ledger is alone with its short, and
  a confirmed link keeps its row until its day is over. From that an admitted
  claim without a row has only lapsed calls behind it, which is `NoCallAfterUnknown`.
  Of the preparations: a call has one holder, who knows what its stage has put on the
  wire; a watched row stays the row of its short, since its link is too young to be
  purged; and a link taken, by a preparation or by a preview, is *genuine*: confirmed, of
  its short, and either past its day or still in the row with its id. That last
  disjunction is why `ReadyPreviewIsCurrent` survives the reuse of ids. `Advances`
  says how a step may change the data; what a preparation knows is stable under it, so
  each action is proved about the preparation that takes it and the rows it writes.
  `MaxExists` and `NextIdIsFresh` show that the id of a new row is in range and new.
  `CoinLedgerImplementsAuditedCalls` adds `AnsweredInv`, that a preparation which waits for an
  answer or has one, and a row that is CONFIRMED or REJECTED, have a request behind them; that a claim
  meets only confirmed calls of its short (`OnlyLapsedBefore`) is its guard in the
  abstract ledger.

* `DiscoveryRuns_proofs`: `DiscoveryInv` ties the process of a run to what it has written.
  `ClaimOK`: a claim is of an open run whose process asks that very query or has
  ended in the middle of it, and nothing is kept of the query, so that another caller
  finds either the claim or the answer. `ScanOK`: the counters of a scan are
  those of its rows at every step; between two pages it lists what it was given, and within
  a kept page it still lacks what is left to do. `RefineOK`: what is left of a shortlist
  are products without an item, each once. None of `RunsAgree` is inductive
  without them: `CompletedRunIsWhole` speaks of completed runs only, and `Finish` and `FinishSku`
  complete a run by what its process believes. Each lemma about a step says what it
  keeps for the run that takes it (`RunKeeps`, which contains `StaysSettled`) and for the
  others, whose rows change only by being given up for UNCERTAIN (`OthersKept`);
  `SettledRunsStay` comes from the same lemmas. The operators have lemmas of their own:
  `NthIsPrice` and `MedianIsNumber` (there is a k-th price, so medians, drops and scores are
  numbers), `ShortlistIsListed` (every place is taken once, so a shortlist names listed
  products without repetition), `RecordedIsConsistent` and `RecordPageIsConsistent`
  (a live page, recorded item by item in one transaction, lists every product of the page
  or stops at exactly `max_results`). The last is an induction over the items of the
  page; the induction theorems of the library cannot be used, so `EveryNumber`
  proves induction for a *set* of numbers from its least missing element.

Only model-checked: liveness (`EventuallySettled`, `EventuallyCovered`, `RunEnds`), which
the prover cannot do. Every invariant and every action property of the passing runs is a
theorem, and so are the four refinements. That `Nth`, `Rank` and `Place` compute what Python's
sorting does is by translation and not a theorem: no property depends on more of them than the
lemmas say. Proved and not checked by a run:
`NoStrandedClaim`, `CompletedLeavesByMismatchOnly`; and `FinalStaysFinal` of the outbox,
`ResolvedIsFinal` of `LinkGeneration` and `WireIsAudited` of `CoinGeneration`, which the checked
refinements imply.

## Not modelled, and assumptions

* `DurableRelay` is one process. A second one on the same database has a queue and an
  `_enqueued` of its own; only claims and leases separate them. `LinkGeneration` and
  `DeliveryOutbox` do allow any number of processes.
* `RelayLinks`: a URL is what it canonicalizes to once expanded, and a hop of a short link is
  allowed, refused or fails. A worker takes a message no other worker holds, which
  `SingleHolder` says of one process; changed content is left to `DurableRelay`.
* `ShadowDelivery`: settings and the identity of the channel are compared before the
  first transaction and refuse without effect. The text of a preview is a version number.
* `CoinGeneration`: the tracking id, the key and the type of link are constant, so
  that `check_key_rotation` never refuses; wrappers around a short are resolved before
  the first transaction. A link that lapses does so later than any preparation that
  saw it being made, since a day is longer than the timeouts of a preparation.
* `ShadowListener`: generation and delivery are single steps, with any outcome;
  `relay_processor.process` makes its only attempt. A second canonical processing of a row
  that was sent already may count `deliveries_sent` twice; no property is about that counter.
* `DiscoveryRuns`: one profile. The window of 30 days, positions in the ranking and counters nobody reads
  are left out. A product has one SKU that can be eligible, so `RankSku` looks up earlier
  prices by product where the code goes by SKU id. The completeness score is the constant 1
  of a priced item. The lease of a run and that of its claim are written together
  and are one flag. A kept answer that needs review under the requirements of another
  profile is therefore not represented.
* `AffiliateCandidateRepository.claim`, `mark_awaiting_generation` and
  `mark_enriched` serve the enrichment service, which nothing in the program calls.
  FAILED_RETRYABLE is out of reach of a conversion: `link.generate` demands a single
  attempt, and an error before a complete answer is made non-retryable.
* Parsing of messages, URLs and answers; wording, logging, metrics; configuration
  and the CLI; the providers other than the request of `link.generate`.

## Plan

A relay of several processes on one database, each with a queue and an `_enqueued` of its
own, would extend `DurableRelay`; only claims and leases separate them.
