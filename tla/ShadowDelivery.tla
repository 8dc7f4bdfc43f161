--------------------------- MODULE ShadowDelivery ---------------------------
(***************************************************************************)
(* The delivery of a shadow preview to the private test channel            *)
(* (affiliate/shadow_delivery.py, affiliate/coin_shadow_delivery.py and    *)
(* their repositories).                                                    *)
(*                                                                         *)
(* A target is a source message with its destination.  Its row and the use *)
(* that the affiliate history keeps of it change in one transaction.       *)
(* Canonical previews are reserved, validated and marked sending before    *)
(* the budget is asked; coin previews ask the budget first.  A request may *)
(* reach the chat long after its sender gave up.                           *)
(*                                                                         *)
(* Not represented: the settings and channel identities that are compared  *)
(* before the first transaction (refusals without effect), the text itself *)
(* (a version stands for it) and a call that finds a row: it only reads.   *)
(***************************************************************************)
EXTENDS Naturals

CONSTANTS
  Canonical,    \* targets with a canonical preview
  Coin,         \* targets with a coin preview, single or multi
  Tasks,        \* concurrent deliveries, in one process
  MaxSends,     \* --max-send-messages of the bounded run
  MaxVersions   \* bound: previews that are ever saved for a target

ASSUME DeliveryAssumption ==
  /\ Canonical \cap Coin = {}
  /\ Canonical \cup Coin # {}
  /\ MaxSends \in Nat
  /\ MaxVersions \in Nat

VARIABLES
  preview,      \* the stored preview of a target
  row,          \* state of the delivery row
  use,          \* state of its SEND use in the affiliate history
  told,         \* what the owner of the reservation reported
  task,         \* deliveries between their awaits
  counted,      \* ShadowRunController.send_messages
  dispatched,   \* requests made by automatic deliveries of this run
  wire,         \* requests of a target that were not processed yet
  posts         \* messages of a target in the channel

rows == <<row, use, told>>
chat == <<wire, posts>>
vars == <<preview, rows, task, counted, dispatched, chat>>

\* Both tables have one row at most for a message and its destination.
Target == Canonical \cup Coin

-----------------------------------------------------------------------------
RowState == {"none", "pending", "sending", "sent", "failed_safe", "uncertain"}

UseState == {"none", "SEND_RESERVED", "SEND_IN_FLIGHT", "SEND_CONFIRMED",
             "SEND_FAILED", "SEND_UNCERTAIN"}

Verdict == {"none", "sent", "failed_safe", "uncertain"}

PreviewRow == [version : 0..MaxVersions,
               status  : {"none", "READY", "expired", "purged", "changed"}]

Stage == {"idle", "reserved", "validated", "inspected", "cleared", "granted",
          "marked", "armed", "waiting", "settling"}

NoTask == [stage |-> "idle", target |-> CHOOSE t \in Target : TRUE, version |-> 0,
           automatic |-> FALSE, sending |-> FALSE, verdict |-> "none"]

\* The types of rows, previews, deliveries and counters.
TypeOK ==
  /\ preview \in [Target -> PreviewRow]
  /\ row \in [Target -> RowState]
  /\ use \in [Target -> UseState]
  /\ told \in [Target -> Verdict]
  /\ task \in [Tasks -> [stage : Stage, target : Target, version : 0..MaxVersions,
                         automatic : BOOLEAN, sending : BOOLEAN, verdict : Verdict]]
  /\ counted \in 0..MaxSends
  /\ dispatched \in Nat
  /\ wire \in [Target -> Nat]
  /\ posts \in [Target -> Nat]

Init ==
  /\ preview = [t \in Target |-> [version |-> 0, status |-> "none"]]
  /\ row = [t \in Target |-> "none"]
  /\ use = [t \in Target |-> "none"]
  /\ told = [t \in Target |-> "none"]
  /\ task = [k \in Tasks |-> NoTask]
  /\ counted = 0
  /\ dispatched = 0
  /\ wire = [t \in Target |-> 0]
  /\ posts = [t \in Target |-> 0]

-----------------------------------------------------------------------------
(* The previews.                                                           *)

Save(t) ==
  /\ preview[t].version < MaxVersions
  /\ preview' = [preview EXCEPT ![t] = [version |-> @.version + 1, status |-> "READY"]]
  /\ UNCHANGED <<rows, task, counted, dispatched, chat>>

\* save_ready of a canonical preview replaces the one the message has, unless
\* its proof belongs to another generation by now.
SaveCanonical(t) ==
  /\ t \in Canonical
  /\ preview[t].status # "changed"
  /\ Save(t)

\* save_ready of a coin preview makes none beside one that was not purged.
SaveCoin(t) ==
  /\ t \in Coin
  /\ preview[t].status \in {"none", "purged"}
  /\ Save(t)

\* The content outlives its time.
Expire(t) ==
  /\ preview[t].status = "READY"
  /\ preview' = [preview EXCEPT ![t].status = "expired"]
  /\ UNCHANGED <<rows, task, counted, dispatched, chat>>

\* purge_expired_content empties a canonical preview; the next claim of an
\* evidence deletes the coin previews of expired evidences.
PurgeExpired(t) ==
  /\ preview[t].status = "expired"
  /\ preview' = [preview EXCEPT ![t].status = "purged"]
  /\ UNCHANGED <<rows, task, counted, dispatched, chat>>

\* The proof is generated anew: validate_preview refuses the preview.
GenerationChanges(t) ==
  /\ t \in Canonical
  /\ preview[t].status \in {"READY", "expired", "purged"}
  /\ preview' = [preview EXCEPT ![t].status = "changed"]
  /\ UNCHANGED <<rows, task, counted, dispatched, chat>>

\* _validated_text, with the correlations of every link.
Usable(t) == preview[t].status = "READY"

\* get_ready of a coin preview, by the id its version stands for.
CoinReady(t, version) == preview[t] = [version |-> version, status |-> "READY"]

-----------------------------------------------------------------------------
(* The uses.                                                               *)

\* transition_send: the use moves with the row, from the states it names.
UseMoves(t, s) ==
  /\ use[t] \in CASE s = "SEND_IN_FLIGHT" -> {"SEND_RESERVED"}
                  [] s = "SEND_FAILED"    -> {"SEND_RESERVED", "SEND_IN_FLIGHT"}
                  [] OTHER                -> {"SEND_IN_FLIGHT"}
  /\ use' = [use EXCEPT ![t] = s]

\* record_use of kind SEND.
UseIsRecorded(t) == use' = [use EXCEPT ![t] = "SEND_RESERVED"]

-----------------------------------------------------------------------------
(* Reservation.                                                            *)

\* Mutant: a new preview of the message releases another attempt.
FreeAgain(t) == row[t] \in {"none", "sent", "failed_safe", "uncertain"}

\* UNIQUE(source message, destination): any row blocks for good.
Free(t) == row[t] = "none"

Reserved(k, t, automatic) ==
  /\ task[k].stage = "idle"
  /\ Free(t)
  /\ row' = [row EXCEPT ![t] = "pending"]
  /\ UseIsRecorded(t)
  /\ task' = [task EXCEPT ![k] = [NoTask EXCEPT !.stage = "reserved", !.target = t,
                                                !.version = preview[t].version,
                                                !.automatic = automatic]]
  /\ UNCHANGED <<preview, told, counted, dispatched, chat>>

\* The preview only has to exist.
ReserveCanonical(k, t, automatic) ==
  /\ t \in Canonical
  /\ preview[t].status # "none"
  /\ Reserved(k, t, automatic)

\* The preview has to be ready, of the generation its evidence has.
ReserveCoin(k, t, automatic) ==
  /\ t \in Coin
  /\ CoinReady(t, preview[t].version)
  /\ Reserved(k, t, automatic)

-----------------------------------------------------------------------------
(* From the reservation to the request.                                    *)

Move(k, from, to) ==
  /\ task[k].stage = from
  /\ task' = [task EXCEPT ![k].stage = to]

Validate(k) ==
  LET t == task[k].target IN
  /\ t \in Canonical
  /\ task[k].stage = "reserved"
  /\ Usable(t)
  /\ task' = [task EXCEPT ![k].stage = "validated", ![k].version = preview[t].version]
  /\ UNCHANGED <<preview, rows, counted, dispatched, chat>>

\* get_chat, the destination is a private channel.
GetChat(k) ==
  /\ Move(k, "validated", "inspected")
  /\ UNCHANGED <<preview, rows, counted, dispatched, chat>>

\* inspect_private_channel, _validate_access.
InspectChannel(k) ==
  /\ task[k].target \in Coin
  /\ Move(k, "reserved", "inspected")
  /\ UNCHANGED <<preview, rows, counted, dispatched, chat>>

\* The text is validated again and must be the one validated before.
Revalidate(k) ==
  /\ CoinReady(task[k].target, task[k].version)
  /\ Move(k, "inspected", "cleared")
  /\ UNCHANGED <<preview, rows, counted, dispatched, chat>>

MarkRow(k) ==
  LET t == task[k].target IN
  /\ row[t] = "pending"
  /\ row' = [row EXCEPT ![t] = "sending"]
  /\ UseMoves(t, "SEND_IN_FLIGHT")
  /\ UNCHANGED <<preview, told, counted, dispatched, chat>>

\* mark_sending, canonical: before the budget is asked.
MarkSending(k) ==
  /\ task[k].target \in Canonical
  /\ task[k].stage = "cleared"
  /\ task' = [task EXCEPT ![k].stage = "marked", ![k].sending = TRUE]
  /\ MarkRow(k)

\* mark_sending, coin: after the budget was asked.
CoinMarkSending(k) ==
  /\ task[k].stage = "granted"
  /\ task' = [task EXCEPT ![k].stage = "armed", ![k].sending = TRUE]
  /\ MarkRow(k)

\* Mutant: the counter moves when the answer is there.
CountLater(automatic) ==
  /\ automatic => counted < MaxSends
  /\ UNCHANGED counted

\* Mutant: the limit is not looked at.
SendUnlimited(automatic) == counted' = IF automatic THEN counted + 1 ELSE counted

\* before_send_message of the controller; a manual delivery has no budget.
BeforeSendMessage(automatic) ==
  /\ automatic => counted < MaxSends
  /\ counted' = IF automatic THEN counted + 1 ELSE counted

Grant(k) ==
  /\ \/ Move(k, "marked", "armed")
     \/ task[k].target \in Coin /\ Move(k, "cleared", "granted")
  /\ BeforeSendMessage(task[k].automatic)
  /\ UNCHANGED <<preview, rows, dispatched, chat>>

Request(k) ==
  /\ Move(k, "armed", "waiting")
  /\ wire' = [wire EXCEPT ![task[k].target] = @ + 1]
  /\ dispatched' = IF task[k].automatic THEN dispatched + 1 ELSE dispatched
  /\ UNCHANGED <<preview, rows, counted, posts>>

-----------------------------------------------------------------------------
(* The channel.                                                            *)

\* The request is processed, perhaps after its sender gave up.
Post(t) ==
  /\ wire[t] > 0
  /\ wire' = [wire EXCEPT ![t] = @ - 1]
  /\ posts' = [posts EXCEPT ![t] = @ + 1]
  /\ UNCHANGED <<preview, rows, task, counted, dispatched>>

-----------------------------------------------------------------------------
(* The end of a delivery.                                                  *)

Settle(k, v) == task' = [task EXCEPT ![k].stage = "settling", ![k].verdict = v]

\* A message id comes back.
Confirmed(k) ==
  /\ task[k].stage = "waiting"
  /\ posts[task[k].target] > 0
  /\ Settle(k, "sent")
  /\ UNCHANGED <<preview, rows, counted, dispatched, chat>>

\* DefinitiveSendRejection: the request made no message.
DefinitivelyRejected(k) ==
  LET t == task[k].target IN
  /\ task[k].stage = "waiting"
  /\ wire[t] > 0
  /\ wire' = [wire EXCEPT ![t] = @ - 1]
  /\ Settle(k, "failed_safe")
  /\ UNCHANGED <<preview, rows, counted, dispatched, posts>>

\* Mutant: whatever stops a delivery is a failure.
StoppedFailed(k) == "failed_safe"

\* What the except clauses make of an error or a cancellation.
Stopped(k) == IF task[k].sending THEN "uncertain" ELSE "failed_safe"

\* A check that refuses, a budget that is spent, an error, a timeout, an
\* ambiguous answer or a cancellation; also a coin result that is cancelled
\* while it is recorded.
Stop(k) ==
  /\ \/ task[k].stage \notin {"idle", "settling"}
     \/ task[k].target \in Coin /\ task[k].verdict = "sent"
  /\ Settle(k, Stopped(k))
  /\ UNCHANGED <<preview, rows, counted, dispatched, chat>>

Report(k, v) ==
  /\ told' = [told EXCEPT ![task[k].target] = v]
  /\ task' = [task EXCEPT ![k] = NoTask]

\* finish of either repository: the condition on the row, and the use with it.
Finish(k) ==
  LET t == task[k].target
      v == task[k].verdict
  IN
  /\ task[k].stage = "settling"
  /\ row[t] \in IF v = "failed_safe" THEN {"pending", "sending"} ELSE {"sending"}
  /\ row' = [row EXCEPT ![t] = v]
  /\ UseMoves(t, CASE v = "sent" -> "SEND_CONFIRMED" [] v = "failed_safe" -> "SEND_FAILED"
                   [] OTHER -> "SEND_UNCERTAIN")
  /\ Report(k, v)
  /\ UNCHANGED <<preview, counted, dispatched, chat>>

\* _finish swallows the error: the row stays, the report says what is known.
FinishFails(k) ==
  LET v == task[k].verdict IN
  /\ task[k].stage = "settling"
  /\ Report(k, IF task[k].target \in Canonical \/ v = "sent" THEN Stopped(k) ELSE v)
  /\ UNCHANGED <<preview, row, use, counted, dispatched, chat>>

\* The process ends; rows, uses and requests remain, the budget is new.
Crash ==
  /\ task' = [k \in Tasks |-> NoTask]
  /\ counted' = 0
  /\ dispatched' = 0
  /\ UNCHANGED <<preview, rows, chat>>

-----------------------------------------------------------------------------
Deliver(k) ==
  \/ \E t \in Target, automatic \in BOOLEAN :
       ReserveCanonical(k, t, automatic) \/ ReserveCoin(k, t, automatic)
  \/ Validate(k) \/ GetChat(k) \/ InspectChannel(k) \/ Revalidate(k)
  \/ MarkSending(k) \/ CoinMarkSending(k) \/ Grant(k) \/ Request(k)
  \/ Confirmed(k) \/ DefinitivelyRejected(k) \/ Stop(k)
  \/ Finish(k) \/ FinishFails(k)

Next ==
  \/ \E t \in Target : SaveCanonical(t) \/ SaveCoin(t) \/ Expire(t) \/ PurgeExpired(t)
                         \/ GenerationChanges(t) \/ Post(t)
  \/ \E k \in Tasks : Deliver(k)
  \/ Crash

Spec == Init /\ [][Next]_vars

-----------------------------------------------------------------------------
\* A message is posted at most once in a destination and at most one request
\* for it is ever made, whatever is purged, prepared anew, cancelled, lost or
\* restarted.
AtMostOnePost == \A t \in Target : posts[t] + wire[t] <= 1

\* A row or a report that says sent has its message in the channel; one that
\* says failed_safe, or a row that was not marked, never has, not even late;
\* and the use in the history says what the row says.
RowsTellTheTruth ==
  \A t \in Target :
    /\ row[t] = "sent" \/ told[t] = "sent" => posts[t] = 1
    /\ row[t] \in {"none", "pending", "failed_safe"} \/ told[t] = "failed_safe" =>
         posts[t] = 0 /\ wire[t] = 0
    /\ told[t] = "sent" => row[t] = "sent"
    /\ <<row[t], use[t]>> \in
         {<<"none", "none">>, <<"pending", "SEND_RESERVED">>, <<"sending", "SEND_IN_FLIGHT">>,
          <<"sent", "SEND_CONFIRMED">>, <<"failed_safe", "SEND_FAILED">>,
          <<"uncertain", "SEND_UNCERTAIN">>}

\* The deliveries of a bounded run make no more requests than its budget
\* allows, each of them counted before it is made.
BudgetCoversRequests == dispatched <= counted

\* A row is an outbox entry that is posted at most once (AtMostOncePost).
Outbox == INSTANCE AtMostOncePost WITH
  Deliveries <- Target,
  inChat <- {t \in Target : posts[t] > 0},
  verdict <- [t \in Target |-> CASE row[t] = "sent" -> "confirmed"
                                 [] row[t] = "failed_safe" -> "refused"
                                 [] row[t] = "uncertain" -> "unknown"
                                 [] OTHER -> "open"]

\* The shadow delivery implements that outbox: no verdict is ever revised, and
\* none is given against what the channel shows.
ImplementsAtMostOncePost == Outbox!AbsSpec
=============================================================================
