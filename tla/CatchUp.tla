------------------------------- MODULE CatchUp -------------------------------
(***************************************************************************)
(* How TelegramMonitor joins history and live events of one channel        *)
(* (telegram/monitor.py, relay/catchup.py, TelegramCheckpointRepository):  *)
(* a catch-up pass from the stored checkpoint, the registration of the     *)
(* NewMessage handler, and a second, bridging pass that should cover what  *)
(* was posted in between.  The handler runs one task per event from the    *)
(* registration on, so its tasks run beside the bridging pass.             *)
(*                                                                         *)
(* Ids grow with time, so the lookback window is a least id.  What happens *)
(* to a stored message afterwards is the subject of DurableRelay.          *)
(***************************************************************************)
EXTENDS Naturals, FiniteSets

CONSTANTS
  Limit,       \* catch_up_max_messages_per_channel
  MaxPosted,   \* bound: messages posted in the channel
  MaxDropped,  \* bound: events whose transaction failed
  MaxStops     \* bound: ends of a run

ASSUME CatchUpAssumption ==
  /\ Limit \in Nat \ {0}
  /\ MaxPosted \in Nat
  /\ MaxDropped \in Nat
  /\ MaxStops \in Nat

VARIABLES
  \* the channel
  posted,      \* the newest message; the messages are 1..posted
  oldest,      \* the messages below it left the lookback window
  \* the database
  stored,      \* messages with a row in source_messages
  lastPersisted, \* last_persisted_message_id, 0 for none
  \* the run
  stage,       \* where run is
  step,        \* where the pass over the history is
  seen,        \* the checkpoint the pass has read
  batch,       \* messages the pass selected and did not persist yet
  inFlight,    \* events whose handler has not persisted them yet
  \* history of the handler
  dropped,     \* events whose transaction failed
  newestLive,  \* the newest message a handler persisted
  stops

channel == <<posted, oldest>>
tables  == <<stored, lastPersisted>>
pass    == <<stage, step, seen, batch>>
events  == <<inFlight, dropped, newestLive>>
catchUpVars == <<channel, tables, pass, events, stops>>

-----------------------------------------------------------------------------
CatchUpTypeOK ==
  /\ posted \in 0..MaxPosted
  /\ oldest \in 1..(posted + 1)
  /\ stored \subseteq 1..posted
  /\ lastPersisted \in 0..posted
  /\ stage \in {"down", "catchup", "bridge", "listening"}
  /\ step \in {"read", "fetch", "persist"}
  /\ seen \in 0..lastPersisted
  /\ batch \subseteq 1..posted
  /\ inFlight \subseteq 1..posted
  /\ dropped \subseteq 1..posted
  /\ newestLive \in 0..posted
  /\ stops \in 0..MaxStops

CatchUpInit ==
  /\ posted = 0
  /\ oldest = 1
  /\ stored = {}
  /\ lastPersisted = 0
  /\ stage = "down"
  /\ step = "read"
  /\ seen = 0
  /\ batch = {}
  /\ inFlight = {}
  /\ dropped = {}
  /\ newestLive = 0
  /\ stops = 0

\* add_event_handler was called.
Registered == stage \in {"bridge", "listening"}

-----------------------------------------------------------------------------
(* The channel.                                                            *)

\* A registered handler gets a task for every message from then on.
Post ==
  /\ posted < MaxPosted
  /\ posted' = posted + 1
  /\ inFlight' = IF Registered THEN inFlight \cup {posted + 1} ELSE inFlight
  /\ UNCHANGED <<oldest, tables, pass, dropped, newestLive, stops>>

Age ==
  /\ oldest <= posted
  /\ oldest' = oldest + 1
  /\ UNCHANGED <<posted, tables, pass, events, stops>>

-----------------------------------------------------------------------------
(* One pass over the history: _catch_up and _bridge_gap share _fetch_recent. *)

\* Mutant: the checkpoint is overwritten by whatever was stored last.
RecordNewest(m) == lastPersisted' = m

\* record_persisted keeps the larger id.
KeepNewest(m) == lastPersisted' = IF m > lastPersisted THEN m ELSE lastPersisted

Store(m) ==
  /\ stored' = stored \cup {m}
  /\ KeepNewest(m)

Start ==
  /\ stage = "down"
  /\ stage' = "catchup"
  /\ step' = "read"
  /\ UNCHANGED <<channel, tables, seen, batch, events, stops>>

ReadCheckpoint ==
  /\ stage \in {"catchup", "bridge"}
  /\ step = "read"
  /\ seen' = lastPersisted
  /\ step' = "fetch"
  /\ UNCHANGED <<channel, tables, stage, batch, events, stops>>

\* Mutant: the checkpoint is taken for a message still to be stored.
SelectFromCheckpoint == {m \in 1..posted : m + Limit > posted /\ m >= oldest /\ m >= seen + 2}

\* iter_messages yields the newest Limit messages; select_catch_up_messages
\* keeps those inside the window and past the checkpoint.
Select == {m \in 1..posted : m + Limit > posted /\ m >= oldest /\ m > seen}

Fetch ==
  /\ stage \in {"catchup", "bridge"}
  /\ step = "fetch"
  /\ batch' = Select
  /\ step' = "persist"
  /\ UNCHANGED <<channel, tables, stage, seen, events, stops>>

\* Mutant: the selection is stored in the order of iter_messages.
NewestOf(m) == \A k \in batch : k <= m

\* The selection is sorted by message id.
NextOf(m) == \A k \in batch : m <= k

\* persist for one message of the selection.
PersistNext ==
  /\ stage \in {"catchup", "bridge"}
  /\ step = "persist"
  /\ \E m \in batch :
       /\ NextOf(m)
       /\ Store(m)
       /\ batch' = batch \ {m}
  /\ UNCHANGED <<channel, stage, step, seen, events, stops>>

\* Mutant: no second pass after the registration.
ListenAtOnce ==
  /\ stage = "catchup"
  /\ step = "persist"
  /\ batch = {}
  /\ stage' = "listening"
  /\ UNCHANGED <<channel, tables, step, seen, batch, events, stops>>

\* mark_catch_up_complete, add_event_handler, and on to the second pass.
Register ==
  /\ stage = "catchup"
  /\ step = "persist"
  /\ batch = {}
  /\ stage' = "bridge"
  /\ step' = "read"
  /\ UNCHANGED <<channel, tables, seen, batch, events, stops>>

Listen ==
  /\ stage = "bridge"
  /\ step = "persist"
  /\ batch = {}
  /\ stage' = "listening"
  /\ UNCHANGED <<channel, tables, step, seen, batch, events, stops>>

-----------------------------------------------------------------------------
(* Live events and the end of a run.                                       *)

\* _handle_new_message; the tasks of several events end in any order.
HandlerPersists(m) ==
  /\ m \in inFlight
  /\ Store(m)
  /\ inFlight' = inFlight \ {m}
  /\ newestLive' = IF m > newestLive THEN m ELSE newestLive
  /\ UNCHANGED <<channel, pass, dropped, stops>>

\* An exception in persist is logged and the event is gone.
HandlerFails(m) ==
  /\ m \in inFlight
  /\ Cardinality(dropped) < MaxDropped
  /\ dropped' = dropped \cup {m}
  /\ inFlight' = inFlight \ {m}
  /\ UNCHANGED <<channel, tables, pass, newestLive, stops>>

\* A crash, a disconnect, or a fetch or a persist that raises in a pass:
\* run ends, with what its tasks had in hand.
Stop ==
  /\ stage # "down"
  /\ stops < MaxStops
  /\ stops' = stops + 1
  /\ stage' = "down"
  /\ step' = "read"
  /\ batch' = {}
  /\ inFlight' = {}
  /\ UNCHANGED <<channel, tables, seen, dropped, newestLive>>

-----------------------------------------------------------------------------
Pass == Start \/ ReadCheckpoint \/ Fetch \/ PersistNext \/ Register \/ Listen

CatchUpNext ==
  \/ Post \/ Age
  \/ Pass
  \/ \E m \in 1..MaxPosted : HandlerPersists(m) \/ HandlerFails(m)
  \/ Stop

CatchUpSpec == CatchUpInit /\ [][CatchUpNext]_catchUpVars

\* The run goes on while nothing raises, an operator restarts it, and the
\* event loop resumes every handler.
CatchUpFairness ==
  /\ WF_catchUpVars(Pass)
  /\ \A m \in 1..MaxPosted : WF_catchUpVars(HandlerPersists(m))

CatchUpFairSpec == CatchUpSpec /\ CatchUpFairness

-----------------------------------------------------------------------------
\* A message no pass owes: older than the window, or beyond the limit.
Excused(m) == m < oldest \/ m + Limit <= posted

\* A message that is stored, or excused, or that a handler overtook by
\* storing a newer one.
Covered(m) == m \in stored \/ Excused(m) \/ m < newestLive

\* The checkpoint is the newest stored message, although passes and handlers
\* store in different orders.
CheckpointIsNewest ==
  /\ \A m \in stored : m <= lastPersisted
  /\ lastPersisted # 0 => lastPersisted \in stored

\* The passes never move the checkpoint past a message they owe, wherever a
\* run stops: only a live event does.
OnlyLiveEventsOvertake == \A m \in 1..lastPersisted : Covered(m)

\* Once run listens, every message is covered, in the hands of a handler, or
\* was dropped by one; the messages posted around the registration included.
NothingLeftBehind ==
  stage = "listening" =>
    \A m \in 1..posted : Covered(m) \/ m \in inFlight \/ m \in dropped

\* Every message whose handler did not fail is covered in the end, in spite
\* of runs that stop between any two steps.
EventuallyCovered ==
  \A m \in 1..MaxPosted : (m <= posted) ~> (Covered(m) \/ m \in dropped)

\* What the documentation promises of the second pass: it covers the
\* transition to live events (docs/ARCHITECTURE.md, catch-up).
TransitionCovered ==
  stage = "listening" =>
    \A m \in 1..posted : m \in stored \/ m \in inFlight \/ Excused(m)
=============================================================================
