--------------------------- MODULE DeliveryOutbox ---------------------------
(***************************************************************************)
(* The delivery outbox for deals: rows of deliveries in SQLite             *)
(* (database/delivery_repository.py), DealDeliveryService.send             *)
(* (delivery/service.py) and the single-attempt transport in front of the  *)
(* Bot API (TelegramDealTransport in telegram/bot.py).                     *)
(*                                                                         *)
(* SQLite and Telegram share no transaction: the claim, the request and    *)
(* the outcome are three steps, and any number of calls of send may be     *)
(* between them for one row.  Time is abstract as in DurableRelay.         *)
(***************************************************************************)
EXTENDS Naturals, FiniteSets

CONSTANTS
  Deliveries,   \* rows: one per deal and purpose
  Senders,      \* concurrent calls of send, in one process or in several
  MaxAttempts,  \* max_attempts of the service
  None          \* the absent delivery

ASSUME OutboxAssumption ==
  /\ MaxAttempts \in Nat \ {0}
  /\ None \notin Deliveries

VARIABLES
  \* rows of deliveries
  state,        \* state, or "absent"
  attempts,     \* attempt_count
  lease,        \* lease_until against the clock
  due,          \* next_attempt_at is null or has passed
  \* other rows
  publishable,  \* the deals and proofs assert_publication_allowed accepts
  \* calls of send
  sender,
  \* the chat
  posts         \* how many times the message of each delivery was posted

rows == <<state, attempts, lease, due>>
vars == <<rows, publishable, sender, posts>>

-----------------------------------------------------------------------------
Final == {"SENT", "FAILED_PERMANENT", "DELIVERY_AMBIGUOUS"}
State == {"absent", "PENDING", "SENDING", "FAILED_RETRYABLE"} \cup Final

Outcome == {"message_id", "rate_limited", "before_send", "ambiguous", "permanent"}

IdleSender == [stage |-> "idle", delivery |-> None, outcome |-> "none"]

SenderState == [stage    : {"idle", "claimed", "answered"},
                delivery : Deliveries \cup {None},
                outcome  : Outcome \cup {"none"}]

Active(s, d) == sender[s].stage # "idle" /\ sender[s].delivery = d

RowsTypeOK ==
  /\ state \in [Deliveries -> State]
  /\ attempts \in [Deliveries -> 0..MaxAttempts]
  /\ lease \in [Deliveries -> {"none", "live", "expired"}]
  /\ due \in [Deliveries -> BOOLEAN]

CallsTypeOK ==
  /\ publishable \subseteq Deliveries
  /\ sender \in [Senders -> SenderState]
  /\ \A s \in Senders : sender[s].stage # "idle" => sender[s].delivery \in Deliveries
  /\ \A s \in Senders : sender[s].stage = "answered" => sender[s].outcome \in Outcome
  /\ posts \in [Deliveries -> Nat]

TypeOK == RowsTypeOK /\ CallsTypeOK

Init ==
  /\ state = [d \in Deliveries |-> "absent"]
  /\ attempts = [d \in Deliveries |-> 0]
  /\ lease = [d \in Deliveries |-> "none"]
  /\ due = [d \in Deliveries |-> TRUE]
  /\ publishable = {}
  /\ sender = [s \in Senders |-> IdleSender]
  /\ posts = [d \in Deliveries |-> 0]

-----------------------------------------------------------------------------
\* ensure_pending inserts one row per deal and purpose, or finds it.
EnsurePending(d) ==
  /\ state[d] = "absent"
  /\ state' = [state EXCEPT ![d] = "PENDING"]
  /\ UNCHANGED <<attempts, lease, due, publishable, sender, posts>>

\* Deals, proofs and settings change under the outbox at any time.
ChangePolicy ==
  /\ publishable' \in SUBSET Deliveries
  /\ UNCHANGED <<rows, sender, posts>>

\* Mutant: the attempts already made are not compared with the limit.
ClaimableWithoutBudget(d) ==
  \/ state[d] = "PENDING"
  \/ state[d] = "FAILED_RETRYABLE" /\ due[d]

\* Mutant: a stale SENDING row is taken up again, as the relay does.
ClaimableWhenStale(d) ==
  /\ attempts[d] < MaxAttempts
  /\ \/ state[d] = "PENDING"
     \/ state[d] = "FAILED_RETRYABLE" /\ due[d]
     \/ state[d] = "SENDING" /\ lease[d] = "expired"

\* The condition of DeliveryRepository.claim.
Claimable(d) ==
  /\ attempts[d] < MaxAttempts
  /\ \/ state[d] = "PENDING"
     \/ state[d] = "FAILED_RETRYABLE" /\ due[d]

\* send up to its first await outside the database: the publication gate and
\* the claim are one transaction.
Claim(s, d) ==
  /\ sender[s].stage = "idle"
  /\ d \in publishable
  /\ Claimable(d)
  /\ state' = [state EXCEPT ![d] = "SENDING"]
  /\ attempts' = [attempts EXCEPT ![d] = @ + 1]
  /\ lease' = [lease EXCEPT ![d] = "live"]
  /\ due' = [due EXCEPT ![d] = TRUE]
  /\ sender' = [sender EXCEPT ![s] = [stage |-> "claimed", delivery |-> d,
                                      outcome |-> "none"]]
  /\ UNCHANGED <<publishable, posts>>

\* How many messages the request with this outcome may have left in the chat.
\* A rate limit, a rejection and a failure before the request leave none; a
\* timeout, a network error or an answer without message_id may leave one.
PostedBy(outcome) ==
  CASE outcome = "message_id" -> {1}
    [] outcome = "ambiguous"  -> {0, 1}
    [] OTHER                  -> {0}

\* transport.send, with the outcome its exceptions tell apart.
Transport(s) ==
  LET d == sender[s].delivery IN
  /\ sender[s].stage = "claimed"
  /\ \E outcome \in Outcome : \E n \in PostedBy(outcome) :
       /\ sender' = [sender EXCEPT ![s].stage = "answered", ![s].outcome = outcome]
       /\ posts' = [posts EXCEPT ![d] = @ + n]
  /\ UNCHANGED <<rows, publishable>>

\* Any other exception, a cancellation or the end of the process during the
\* request: the call is gone and the row stays SENDING.
Abandon(s) ==
  LET d == sender[s].delivery IN
  /\ sender[s].stage # "idle"
  /\ \E n \in IF sender[s].stage = "claimed" THEN {0, 1} ELSE {0} :
       posts' = [posts EXCEPT ![d] = @ + n]
  /\ sender' = [sender EXCEPT ![s] = IdleSender]
  /\ UNCHANGED <<rows, publishable>>

\* Mutant: a timeout is retried like a failure before the request.
RetriedOutcome(outcome) ==
  CASE outcome = "message_id"  -> "SENT"
    [] outcome = "permanent"   -> "FAILED_PERMANENT"
    [] OTHER                   -> "FAILED_RETRYABLE"

\* Mutant: an answer without message_id is taken for a success.
TrustedOutcome(outcome) ==
  CASE outcome \in {"message_id", "ambiguous"}     -> "SENT"
    [] outcome \in {"rate_limited", "before_send"} -> "FAILED_RETRYABLE"
    [] OTHER                                       -> "FAILED_PERMANENT"

\* The state each except clause of send records.
RecordedState(outcome) ==
  CASE outcome = "message_id"                      -> "SENT"
    [] outcome \in {"rate_limited", "before_send"} -> "FAILED_RETRYABLE"
    [] outcome = "ambiguous"                       -> "DELIVERY_AMBIGUOUS"
    [] OTHER                                       -> "FAILED_PERMANENT"

\* _finish: a row that is no longer SENDING under a live lease is left alone
\* and the call ends with DeliveryTransitionConflict.
Finish(s) ==
  LET d    == sender[s].delivery
      next == RecordedState(sender[s].outcome)
  IN
  /\ sender[s].stage = "answered"
  /\ IF state[d] = "SENDING" /\ lease[d] = "live"
     THEN /\ state' = [state EXCEPT ![d] = next]
          /\ lease' = [lease EXCEPT ![d] = "none"]
          /\ due' = [due EXCEPT ![d] = next # "FAILED_RETRYABLE"]
     ELSE UNCHANGED <<state, lease, due>>
  /\ sender' = [sender EXCEPT ![s] = IdleSender]
  /\ UNCHANGED <<attempts, publishable, posts>>

Stale(d) == state[d] = "SENDING" /\ lease[d] = "expired"

\* mark_stale_sending_ambiguous, one sweep over all rows.
MarkStaleAmbiguous ==
  /\ \E d \in Deliveries : Stale(d)
  /\ state' = [d \in Deliveries |-> IF Stale(d) THEN "DELIVERY_AMBIGUOUS" ELSE state[d]]
  /\ lease' = [d \in Deliveries |-> IF Stale(d) THEN "none" ELSE lease[d]]
  /\ due' = [d \in Deliveries |-> IF Stale(d) THEN TRUE ELSE due[d]]
  /\ UNCHANGED <<attempts, publishable, sender, posts>>

LeaseExpires(d) ==
  /\ lease[d] = "live"
  /\ lease' = [lease EXCEPT ![d] = "expired"]
  /\ UNCHANGED <<state, attempts, due, publishable, sender, posts>>

BackoffElapses(d) ==
  /\ ~due[d]
  /\ due' = [due EXCEPT ![d] = TRUE]
  /\ UNCHANGED <<state, attempts, lease, publishable, sender, posts>>

Next ==
  \/ \E d \in Deliveries : EnsurePending(d) \/ LeaseExpires(d) \/ BackoffElapses(d)
  \/ ChangePolicy
  \/ \E s \in Senders, d \in Deliveries : Claim(s, d)
  \/ \E s \in Senders : Transport(s) \/ Abandon(s) \/ Finish(s)
  \/ MarkStaleAmbiguous

Spec == Init /\ [][Next]_vars

-----------------------------------------------------------------------------
\* No sequence of claims, retries, timeouts, abandoned calls, expired leases
\* and sweeps posts a deal twice: send requests only under a claim, and only
\* a row whose earlier requests posted nothing can be claimed.
AtMostOnce == \A d \in Deliveries : posts[d] <= 1

\* SENT is the truth about the chat, and a row that says the message did not
\* go out, or may still be tried, has nothing in the chat and nobody at work
\* on it that could still put it there.
RowTellsTruth ==
  \A d \in Deliveries :
    /\ state[d] = "SENT" => posts[d] = 1
    /\ state[d] \in {"absent", "PENDING", "FAILED_RETRYABLE", "FAILED_PERMANENT"}
         => posts[d] = 0 /\ \A s \in Senders : ~Active(s, d)

\* DELIVERY_AMBIGUOUS never returns to the queue by itself, not even when the
\* answer of the request arrives after the sweep; SENT and FAILED_PERMANENT
\* are final as well.
FinalStaysFinal ==
  [][\A d \in Deliveries : state[d] \in Final => state'[d] = state[d]]_vars

\* The outbox implements the abstract promise: a row under way is open, and
\* an exhausted FAILED_RETRYABLE row is open for ever.
Verdict(d) ==
  CASE state[d] = "SENT"               -> "confirmed"
    [] state[d] = "FAILED_PERMANENT"   -> "refused"
    [] state[d] = "DELIVERY_AMBIGUOUS" -> "unknown"
    [] OTHER                           -> "open"

Promise == INSTANCE AtMostOncePost
             WITH inChat  <- {d \in Deliveries : posts[d] > 0},
                  verdict <- [d \in Deliveries |-> Verdict(d)]

\* Every step of the outbox is a step of AtMostOncePost or changes nothing it
\* sees (docs/ARCHITECTURE.md and docs/SHOPEE_AFFILIATE.md, the outbox).
ImplementsPromise == Promise!AbsSpec
=============================================================================
