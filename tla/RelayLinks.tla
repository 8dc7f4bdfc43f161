------------------------------ MODULE RelayLinks ------------------------------
(***************************************************************************)
(* What RelayProcessor.process records of the links of a message           *)
(* (relay/service.py): the rows of source_message_links, processed_items   *)
(* and affiliate_candidates, through retries, crashes and other workers,   *)
(* and the backfill of links older than the candidates (relay/queue.py).   *)
(*                                                                         *)
(* DurableRelay details rows, leases and queue of a message; here a worker *)
(* takes any message that may be claimed and that no worker of the process *)
(* holds (SingleHolder there), and time enough passes for a lease or a     *)
(* backoff to end.                                                         *)
(*                                                                         *)
(* SQLite opens the transaction of a session at its first write: the find  *)
(* of a processed item is a step before the writes that rely on it.        *)
(***************************************************************************)
EXTENDS Naturals, Sequences, FiniteSets

CONSTANTS
  Messages,
  Links,        \* rows (source_message_id, input_hash)
  LinksOf,      \* the links of a message in their order; a URL may come twice
  Items,        \* (store, external_product_id, variation_key)
  ItemOf,       \* what the URL, once expanded, canonicalizes to
  NoItem,       \* ... when it is no product or an ambiguous one
  Short,        \* links to be resolved through the network
  Foreign,      \* links to no store: preserved or not supported
  Shopee,       \* items of Shopee with a composite identity
  AliExpress,   \* items of AliExpress
  Bare,         \* an item without its variation
  Old,          \* links recorded before there were candidates
  Workers,      \* one in the program, start takes any number
  MaxAttempts,  \* telegram_relay.processing_max_attempts
  BatchSize,    \* telegram_relay.recovery_batch_size
  MaxCrashes    \* bound: ends of the process

RowsOf(m) == {LinksOf[m][i] : i \in 1..Len(LinksOf[m])}

ASSUME LinksAssumption ==
  /\ Messages # {}
  /\ IsFiniteSet(Links)
  /\ LinksOf \in [Messages -> Seq(Links)]
  /\ \A m, n \in Messages : m # n => RowsOf(m) \cap RowsOf(n) = {}
  /\ NoItem \notin Items
  /\ ItemOf \in [Links -> Items \cup {NoItem}]
  /\ Short \subseteq Links /\ Foreign \subseteq Links
  /\ \A l \in Foreign : ItemOf[l] = NoItem

ASSUME ItemsAssumption ==
  /\ Shopee \subseteq Items /\ AliExpress \subseteq Items
  /\ Bare \in [Items -> Items]
  /\ Old \subseteq {l \in Links : ItemOf[l] # NoItem}
  /\ \A m \in Messages : RowsOf(m) \cap Old # {} => RowsOf(m) \subseteq Old
  /\ MaxAttempts \in Nat \ {0} /\ BatchSize \in Nat \ {0} /\ MaxCrashes \in Nat

VARIABLES
  status,     \* processing_status of a message
  attempts,   \* attempt_count of a message
  link,       \* state of a link row; DUPLICATE_CANONICAL is IGNORED for that reason
  candidate,  \* affiliate_candidate_id of a link row
  exists,     \* rows of affiliate_candidates
  processed,  \* rows of processed_items: whether deal_hash is today's
  worker,     \* workers between their awaits
  crashes

messages == <<status, attempts>>
records  == <<link, candidate, exists, processed>>
vars     == <<messages, records, worker, crashes>>

-----------------------------------------------------------------------------
LinkState == {"none", "RECEIVED", "PENDING_AFFILIATE", "DUPLICATE_CANONICAL",
              "IGNORED", "REJECTED", "MANUAL_REVIEW"}
Open      == {"RECEIVED", "PROCESSING", "FAILED_RETRYABLE"}

Idle == [stage |-> "idle", msg |-> CHOOSE m \in Messages : TRUE, at |-> 0]

\* The types of rows and tasks.
TypeOK ==
  /\ status \in [Messages -> Open \cup {"COMPLETED", "FAILED_PERMANENT"}]
  /\ attempts \in [Messages -> 0..MaxAttempts]
  /\ link \in [Links -> LinkState]
  /\ candidate \in [Links -> Items \cup {NoItem}]
  /\ exists \subseteq Items
  /\ processed \in [Items -> {"none", "canonical", "other"}]
  /\ worker \in [Workers -> [stage : {"idle", "next", "resolving", "product", "duplicate", "new"},
                             msg : Messages, at : Nat]]
  /\ crashes \in 0..MaxCrashes

\* A message with an old link was completed then.  The hash of its product may
\* be of an older canonical form.
Init ==
  /\ status = [m \in Messages |-> IF RowsOf(m) \cap Old # {} THEN "COMPLETED" ELSE "RECEIVED"]
  /\ attempts = [m \in Messages |-> 0]
  /\ link = [l \in Links |-> IF l \in Old THEN "PENDING_AFFILIATE" ELSE "none"]
  /\ candidate = [l \in Links |-> NoItem]
  /\ exists = {}
  /\ processed \in [Items -> {"none", "canonical", "other"}]
  /\ \A i \in Items : processed[i] = "none" <=> \A l \in Old : ItemOf[l] # i
  /\ worker = [w \in Workers |-> Idle]
  /\ crashes = 0

-----------------------------------------------------------------------------
(* The message.                                                            *)

Holds(w, m) == worker[w].stage # "idle" /\ worker[w].msg = m

Mine(w) == LinksOf[worker[w].msg][worker[w].at]

\* Mutant: a claim does not ask for an attempt that is left.
ClaimWithoutBudget(w, m) ==
  /\ worker[w].stage = "idle"
  /\ \A v \in Workers : ~Holds(v, m)
  /\ status[m] \in Open
  /\ status' = [status EXCEPT ![m] = "PROCESSING"]
  /\ attempts' = [attempts EXCEPT ![m] = @ + 1]
  /\ worker' = [worker EXCEPT ![w] = [stage |-> "next", msg |-> m, at |-> 1]]
  /\ UNCHANGED <<records, crashes>>

\* claim; a PROCESSING row nobody holds was left by a crash, its lease ends.
Claim(w, m) ==
  /\ worker[w].stage = "idle"
  /\ \A v \in Workers : ~Holds(v, m)
  /\ status[m] \in Open /\ attempts[m] < MaxAttempts
  /\ status' = [status EXCEPT ![m] = "PROCESSING"]
  /\ attempts' = [attempts EXCEPT ![m] = @ + 1]
  /\ worker' = [worker EXCEPT ![w] = [stage |-> "next", msg |-> m, at |-> 1]]
  /\ UNCHANGED <<records, crashes>>

\* The attempt ends with an error: a transient one of the network, or any other
\* exception.  fail overwrites the row whatever its state is.
Fail(w) ==
  LET m == worker[w].msg IN
  /\ worker[w].stage # "idle"
  /\ Len(LinksOf[m]) >= worker[w].at
  /\ status' = [status EXCEPT ![m] = IF attempts[m] >= MaxAttempts THEN "FAILED_PERMANENT"
                                     ELSE "FAILED_RETRYABLE"]
  /\ worker' = [worker EXCEPT ![w] = Idle]
  /\ UNCHANGED <<attempts, records, crashes>>

\* All links were gone through; complete asks for a PROCESSING row.
Complete(w) ==
  LET m == worker[w].msg IN
  /\ worker[w].stage = "next"
  /\ worker[w].at > Len(LinksOf[m])
  /\ status' = [status EXCEPT ![m] = IF @ = "PROCESSING" THEN "COMPLETED" ELSE @]
  /\ worker' = [worker EXCEPT ![w] = Idle]
  /\ UNCHANGED <<attempts, records, crashes>>

\* mark_exhausted, also of a message a worker is busy with.
MarkExhausted ==
  /\ \E m \in Messages : status[m] \in Open /\ attempts[m] >= MaxAttempts
  /\ status' = [m \in Messages |->
       IF status[m] \in Open /\ attempts[m] >= MaxAttempts THEN "FAILED_PERMANENT" ELSE status[m]]
  /\ UNCHANGED <<attempts, records, worker, crashes>>

-----------------------------------------------------------------------------
(* A link: _process_link.                                                  *)

To(w, stage) == worker' = [worker EXCEPT ![w].stage = stage]
NextLink(w)  == worker' = [worker EXCEPT ![w].stage = "next", ![w].at = @ + 1]

\* Mutant: a link that has a row was processed.
ReceiveKnownIsDone(w) ==
  /\ worker[w].stage = "next"
  /\ worker[w].at <= Len(LinksOf[worker[w].msg])
  /\ IF link[Mine(w)] = "none"
       THEN link' = [link EXCEPT ![Mine(w)] = "RECEIVED"] /\ To(w, "resolving")
       ELSE NextLink(w) /\ UNCHANGED link
  /\ UNCHANGED <<messages, candidate, exists, processed, crashes>>

\* renew_lease and record_received: a link that is settled, by an earlier
\* attempt or an earlier place in the message, is left alone.
Receive(w) ==
  /\ worker[w].stage = "next"
  /\ worker[w].at <= Len(LinksOf[worker[w].msg])
  /\ IF link[Mine(w)] \in {"none", "RECEIVED"}
       THEN link' = [link EXCEPT ![Mine(w)] = "RECEIVED"] /\ To(w, "resolving")
       ELSE NextLink(w) /\ UNCHANGED link
  /\ UNCHANGED <<messages, candidate, exists, processed, crashes>>

\* set_outcome asks for nothing: the state the worker saw is not looked at again.
SetOutcome(l, state) == link' = [link EXCEPT ![l] = state]

\* A hop that is not allowed or refused, too many of them; the transient errors
\* of a hop are among those of Fail.
NetworkRefusals(l) == IF l \in Short THEN {"REJECTED"} ELSE {}

\* What is resolved is no product of a store, or not clearly one.
NoProduct(l) == IF ItemOf[l] = NoItem /\ l \notin Foreign
                  THEN {"MANUAL_REVIEW", "REJECTED", "IGNORED"} ELSE {}

\* The states a link without a product ends in.
Refusals(l) ==
  NetworkRefusals(l) \cup NoProduct(l) \cup (IF l \in Foreign THEN {"IGNORED"} ELSE {})

\* _set_link_outcome.
Settle(w) ==
  /\ worker[w].stage = "resolving"
  /\ \E s \in Refusals(Mine(w)) : SetOutcome(Mine(w), s)
  /\ NextLink(w)
  /\ UNCHANGED <<messages, candidate, exists, processed, crashes>>

\* Resolved and canonicalized: a product.
Resolve(w) ==
  /\ worker[w].stage = "resolving"
  /\ ItemOf[Mine(w)] # NoItem
  /\ To(w, "product")
  /\ UNCHANGED <<messages, records, crashes>>

Seen(i)   == processed[i] = "canonical"
Record(i) == processed' = [processed EXCEPT ![i] = "canonical"]

\* Mutant: the item is recorded in a transaction of its own.
FindAndRecord(w) ==
  LET i == ItemOf[Mine(w)] IN
  /\ worker[w].stage = "product"
  /\ To(w, IF Seen(i) THEN "duplicate" ELSE "new")
  /\ Record(i)
  /\ UNCHANGED <<messages, link, candidate, exists, crashes>>

\* find.
Find(w) ==
  /\ worker[w].stage = "product"
  /\ To(w, IF Seen(ItemOf[Mine(w)]) THEN "duplicate" ELSE "new")
  /\ UNCHANGED <<messages, records, crashes>>

Enriched == Shopee \cup AliExpress

\* ensure_for_link; it raises, and the transaction is undone, if the link
\* belongs to another candidate.
EnsureForLink(l, i) ==
  /\ candidate[l] \in {NoItem, i}
  /\ candidate' = [candidate EXCEPT ![l] = i]
  /\ exists' = exists \cup {i}

EnsureIfEnriched(l) == IF ItemOf[l] \in Enriched THEN EnsureForLink(l, ItemOf[l])
                       ELSE UNCHANGED <<candidate, exists>>

Duplicate(w) ==
  /\ worker[w].stage = "duplicate"
  /\ SetOutcome(Mine(w), "DUPLICATE_CANONICAL")
  /\ EnsureIfEnriched(Mine(w))
  /\ NextLink(w)
  /\ UNCHANGED <<messages, processed, crashes>>

\* record finds once more; if another worker was first it finds that row, or
\* its own insert is refused (Fail).
Retain(w) ==
  /\ worker[w].stage = "new"
  /\ Record(ItemOf[Mine(w)])
  /\ SetOutcome(Mine(w), "PENDING_AFFILIATE")
  /\ EnsureIfEnriched(Mine(w))
  /\ NextLink(w)
  /\ UNCHANGED <<messages, crashes>>

-----------------------------------------------------------------------------
(* The backfill, before every recovery.                                    *)

Unattached == {l \in Links :
  /\ candidate[l] = NoItem
  /\ link[l] \in {"PENDING_AFFILIATE", "DUPLICATE_CANONICAL"}
  /\ ItemOf[l] \in Shopee}

\* backfill_store for Shopee: no variation_key is passed on.
Backfill ==
  \E S \in SUBSET Unattached :
    /\ S # {} /\ Cardinality(S) <= BatchSize
    /\ Cardinality(S) < BatchSize => S = Unattached
    /\ candidate' = [l \in Links |-> IF l \in S THEN Bare[ItemOf[l]] ELSE candidate[l]]
    /\ exists' = exists \cup {Bare[ItemOf[l]] : l \in S}
    /\ UNCHANGED <<messages, link, processed, worker, crashes>>

\* The process ends, or stop cancels its workers.
Crash ==
  /\ crashes < MaxCrashes
  /\ crashes' = crashes + 1
  /\ worker' = [w \in Workers |-> Idle]
  /\ UNCHANGED <<messages, records>>

-----------------------------------------------------------------------------
Process(w) ==
  \/ \E m \in Messages : Claim(w, m)
  \/ Receive(w) \/ Settle(w) \/ Resolve(w) \/ Find(w) \/ Duplicate(w) \/ Retain(w)
  \/ Complete(w) \/ Fail(w)

Next ==
  \/ \E w \in Workers : Process(w)
  \/ MarkExhausted \/ Backfill \/ Crash

Spec == Init /\ [][Next]_vars

-----------------------------------------------------------------------------
\* A link is called a duplicate because of another link that was retained: no
\* retry, crash or second worker makes the only link of a product a duplicate
\* of itself, which would lose the product.
DuplicateHasOriginal ==
  \A l \in Links : link[l] = "DUPLICATE_CANONICAL" =>
    \E k \in Links \ {l} : link[k] = "PENDING_AFFILIATE" /\ ItemOf[k] = ItemOf[l]

\* An old link may have no candidate or, after the backfill, the one without the
\* variation.
LeadsToOwn(l) ==
  \/ candidate[l] = ItemOf[l] /\ ItemOf[l] \in exists
  \/ l \in Old /\ candidate[l] \in {NoItem} \cup (exists \cap {Bare[ItemOf[l]]})

\* A completed message has an outcome for each of its links, those included that
\* an earlier attempt began; and no product is left without enrichment: links,
\* retained or duplicate, lead to the candidate of their own product and variation.
LinksAreCovered ==
  /\ \A m \in Messages : status[m] = "COMPLETED" =>
       \A l \in RowsOf(m) : link[l] \notin {"none", "RECEIVED"}
  /\ \A l \in Links :
       link[l] \in {"PENDING_AFFILIATE", "DUPLICATE_CANONICAL"} /\ ItemOf[l] \in Enriched
         => LeadsToOwn(l)
=============================================================================
