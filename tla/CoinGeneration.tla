--------------------------- MODULE CoinGeneration ---------------------------
(***************************************************************************)
(* How coin shorts are turned into affiliate links and previews            *)
(* (affiliate/coin_shadow_generation.py, coin_shadow_preview.py,           *)
(* coin_shadow_multi.py and their repositories, with the ledger of         *)
(* database/history_repository.py).                                        *)
(*                                                                         *)
(* An input has one evidence row at most.  Whoever inserts it may make the *)
(* one call for it; everybody else finds its link, watches it, or is       *)
(* refused.  Rows of links that outlived their day are deleted, with the   *)
(* previews made of them, when anybody claims; SQLite may give the id of a *)
(* deleted row to the next one.  A message is one short, or several whose  *)
(* links must all be there before its preview is saved.                    *)
(*                                                                         *)
(* The lease of an evidence row and of its generation is one instant, and  *)
(* its token is the number of the call.  Tracking, key and link type are   *)
(* constant.  Wrappers are resolved before the first transaction.          *)
(***************************************************************************)
EXTENDS Naturals, FiniteSets

CONSTANTS
  Inputs,        \* coin shorts
  LegacyInputs,  \* those with a READY row older than the ledger
  Messages,
  InputsOf,      \* the shorts of each message
  Single,        \* messages of the single-short service
  Preparers,     \* concurrent preparations, in one or several processes
  MaxApiCalls,   \* --max-api-calls
  MaxCalls       \* bound: generations that are ever prepared

ASSUME CoinAssumption ==
  /\ LegacyInputs \subseteq Inputs
  /\ IsFiniteSet(Inputs)
  /\ Messages # {} /\ Inputs # {}
  /\ InputsOf \in [Messages -> SUBSET Inputs]
  /\ Single \subseteq Messages
  /\ MaxApiCalls \in Nat /\ MaxCalls \in Nat

VARIABLES
  evidence,   \* the evidence rows, by id
  gen,        \* generations of the ledger, by call
  requested,  \* legacy inputs with a REQUESTED generation
  preview,    \* the links in the preview of a message, {} for no preview
  expired,    \* calls whose lease has run out
  lapsed,     \* calls whose link outlived its 24 hours
  calls,      \* calls prepared so far
  task,       \* preparations between their awaits
  apiCalls,   \* requests the budget has granted
  posts       \* requests on the wire, for each call

db   == <<evidence, gen, requested, preview>>
time == <<expired, lapsed>>
wire == <<apiCalls, posts>>
vars == <<db, time, calls, task, wire>>

-----------------------------------------------------------------------------
Call == 1..MaxCalls
Id   == 1..(MaxCalls + Cardinality(LegacyInputs))

OpenRow == {"PREPARED", "CALL_STARTED"}

\* call 0: a row without generation_id.
EvidenceRow == [input : Inputs, call : 0..MaxCalls,
                state : {"GENERATING", "READY", "REVIEW_REQUIRED", "UNCERTAIN"}]

GenerationRow == [input : Inputs,
                  state : {"none", "CONFIRMED", "UNCERTAIN", "REJECTED", "FAILED"} \cup OpenRow]

\* A link of a preview: the evidence it is of, the call whose link its text
\* holds, and the call its use in the history names.
PreviewLink == [id : Id, text : Call, used : Call]

Outcome == [input : Inputs, id : Id, call : Call]

NoTask == [stage |-> "idle", message |-> CHOOSE m \in Messages : TRUE, byRequest |-> FALSE,
           todo |-> {}, looked |-> {}, misses |-> {}, have |-> {},
           input |-> CHOOSE i \in Inputs : TRUE, id |-> 0, call |-> 0, young |-> {}]

Stage == {"idle", "opened", "listed", "next", "probed", "recovered", "watching", "claimed", "started",
          "waiting", "answered", "rejected", "uncertain"}

\* The types of rows, ledger, previews and preparations; an input has one row.
TypeOK ==
  /\ DOMAIN evidence \subseteq Id
  /\ \A id \in DOMAIN evidence : evidence[id] \in EvidenceRow
  /\ \A x, y \in DOMAIN evidence : evidence[x].input = evidence[y].input => x = y
  /\ gen \in [Call -> GenerationRow]
  /\ requested \subseteq LegacyInputs
  /\ preview \in [Messages -> SUBSET PreviewLink]
  /\ expired \subseteq Call /\ lapsed \subseteq Call
  /\ calls \in 0..MaxCalls
  /\ task \in [Preparers -> [stage : Stage, message : Messages, byRequest : BOOLEAN,
                             todo : SUBSET Inputs, looked : SUBSET Inputs,
                             misses : SUBSET Inputs, have : SUBSET Outcome, input : Inputs,
                             id : Id \cup {0}, call : 0..MaxCalls, young : SUBSET Call]]
  /\ apiCalls \in 0..MaxApiCalls
  /\ posts \in [Call -> Nat]

Init ==
  /\ \E order \in [1..Cardinality(LegacyInputs) -> LegacyInputs] :
       /\ \A i \in LegacyInputs : \E id \in DOMAIN order : order[id] = i
       /\ evidence = [id \in DOMAIN order |-> [input |-> order[id], call |-> 0, state |-> "READY"]]
  /\ gen = [k \in Call |-> [input |-> CHOOSE i \in Inputs : TRUE, state |-> "none"]]
  /\ requested = {}
  /\ preview = [m \in Messages |-> {}]
  /\ expired = {} /\ lapsed = {}
  /\ calls = 0
  /\ task = [p \in Preparers |-> NoTask]
  /\ apiCalls = 0
  /\ posts = [k \in Call |-> 0]

-----------------------------------------------------------------------------
Of(i) == {id \in DOMAIN evidence : evidence[id].input = i}

\* check_identity: the ledger blocks the input for good.
Blocked(i) == \E k \in Call : gen[k].input = i /\ gen[k].state \notin {"none", "CONFIRMED"}

\* A row older than the ledger has no generation to validate.
LegacyRow(id) == evidence[id].call = 0

Live(id) == evidence[id].state = "GENERATING" /\ evidence[id].call \notin expired

\* Nothing of the input stands against generate, without a request.
Admissible(i) ==
  /\ \A id \in Of(i) : evidence[id].state # "UNCERTAIN"
                       /\ ~(evidence[id].state = "READY" /\ LegacyRow(id))
  /\ (\E id \in Of(i) : Live(id)) \/ ~Blocked(i)

\* inspect, read-only: it finds a link or none, or refuses.
Inspectable(i) ==
  /\ \A id \in Of(i) : evidence[id].state = "READY" /\ ~LegacyRow(id)
  /\ ~Blocked(i)
Hit(i) == \E id \in Of(i) : evidence[id].state = "READY" /\ evidence[id].call \notin lapsed

To(p, stage) == task' = [task EXCEPT ![p].stage = stage]

-----------------------------------------------------------------------------
(* The operator and the clock.                                             *)

RequestLegacyGeneration(i) ==
  /\ \E id \in Of(i) : LegacyRow(id)
  /\ ~Blocked(i)
  /\ requested' = requested \cup {i}
  /\ UNCHANGED <<evidence, gen, preview, time, calls, task, wire>>

LeaseExpires(k) ==
  /\ gen[k].state \in OpenRow
  /\ expired' = expired \cup {k}
  /\ UNCHANGED <<db, lapsed, calls, task, wire>>

\* A day is longer than any preparation that saw the link being made.
LinkLapses(k) ==
  /\ gen[k].state = "CONFIRMED"
  /\ \A p \in Preparers : k \notin task[p].young
  /\ lapsed' = lapsed \cup {k}
  /\ UNCHANGED <<db, expired, calls, task, wire>>

-----------------------------------------------------------------------------
(* A message.                                                              *)

\* prepare of either service: the surface is accepted.
Open(p, m, byRequest) ==
  /\ task[p].stage = "idle"
  /\ byRequest => m \in Single
  /\ task' = [task EXCEPT ![p] = [NoTask EXCEPT !.message = m, !.byRequest = byRequest,
                !.todo = InputsOf[m], !.stage = IF m \in Single THEN "next" ELSE "opened"]]
  /\ UNCHANGED <<db, time, calls, wire>>

\* Generations whose lease ran out, at the instant recover looks.
Lost(k) == k \in expired /\ gen[k].state \in OpenRow

\* Mutant: an interrupted call counts as failed.
LedgerRecoversAsFailed ==
  /\ gen' = [k \in Call |-> IF Lost(k) THEN [gen[k] EXCEPT !.state = "FAILED"] ELSE gen[k]]
  /\ evidence' = [id \in DOMAIN evidence |->
                    IF evidence[id].state = "GENERATING" /\ Lost(evidence[id].call)
                    THEN [evidence[id] EXCEPT !.state = "UNCERTAIN"] ELSE evidence[id]]
  /\ UNCHANGED <<requested, preview>>

\* recover: generation and evidence row are given up together.
LedgerRecovers ==
  /\ gen' = [k \in Call |-> IF ~Lost(k) THEN gen[k]
               ELSE [gen[k] EXCEPT !.state = IF @ = "CALL_STARTED" THEN "UNCERTAIN" ELSE "FAILED"]]
  /\ evidence' = [id \in DOMAIN evidence |->
                    IF evidence[id].state = "GENERATING" /\ Lost(evidence[id].call)
                    THEN [evidence[id] EXCEPT !.state = "UNCERTAIN"] ELSE evidence[id]]
  /\ UNCHANGED <<requested, preview>>

\* A message of several shorts recovers first ...
RecoverMessage(p) ==
  /\ task[p].stage = "opened"
  /\ To(p, "listed")
  /\ LedgerRecovers
  /\ UNCHANGED <<time, calls, wire>>

\* ... then looks at one after the other: none is refused.
Inspect(p, i) ==
  /\ task[p].stage = "listed"
  /\ i \in task[p].todo \ task[p].looked
  /\ Inspectable(i)
  /\ task' = [task EXCEPT ![p].looked = @ \cup {i},
                          ![p].misses = IF Hit(i) THEN @ ELSE @ \cup {i}]
  /\ UNCHANGED <<db, time, calls, wire>>

\* The budget covers those that had no link.
CoverMisses(p) ==
  /\ task[p].stage = "listed"
  /\ task[p].looked = task[p].todo
  /\ Cardinality(task[p].misses) <= MaxApiCalls - apiCalls
  /\ task' = [task EXCEPT ![p].stage = "next", ![p].looked = {}, ![p].misses = {}]
  /\ UNCHANGED <<db, time, calls, wire>>

\* The next of several shorts is inspected again.
Probe(p, i) ==
  /\ task[p].stage = "next" /\ task[p].message \notin Single
  /\ i \in task[p].todo
  /\ Inspectable(i)
  /\ Hit(i) \/ apiCalls < MaxApiCalls
  /\ task' = [task EXCEPT ![p].stage = "probed", ![p].input = i]
  /\ UNCHANGED <<db, time, calls, wire>>

\* generate for the next short, its first transaction.
Recover(p, i) ==
  /\ \/ task[p].stage = "next" /\ task[p].message \in Single /\ i \in task[p].todo
     \/ task[p].stage = "probed" /\ i = task[p].input
  /\ task' = [task EXCEPT ![p].stage = "recovered", ![p].input = i]
  /\ LedgerRecovers
  /\ UNCHANGED <<time, calls, wire>>

-----------------------------------------------------------------------------
(* The claim, second transaction of generate.                              *)

\* Mutant: the age of a row is not looked at.
PurgedReady(id) == evidence[id].state = "READY" /\ ~LegacyRow(id)

\* Rows whose link outlived its day.
Purged(id) == evidence[id].state = "READY" /\ ~LegacyRow(id) /\ evidence[id].call \in lapsed

\* What a claim deletes: rows, and whole previews made of any of them.
Purge(ids) ==
  preview' = [m \in Messages |-> IF \E l \in preview[m] : l.id \in ids THEN {} ELSE preview[m]]

\* The rows in the way of a new one, and what generate makes of them.
Cleared(p) ==
  {id \in DOMAIN evidence : Purged(id)} \cup (IF task[p].byRequest THEN Of(task[p].input) ELSE {})

\* validate_request: the requested row is the legacy one.
Requested(i) == i \in requested /\ ~Blocked(i) /\ \E id \in Of(i) : LegacyRow(id)

Accepted(p) ==
  IF task[p].byRequest THEN Requested(task[p].input) ELSE Admissible(task[p].input)

\* SQLite: one more than the largest id there is.
NextId(ids) == IF ids = {} THEN 1 ELSE 1 + CHOOSE x \in ids : \A y \in ids : y <= x

\* The row is inserted and the generation prepared with it.
ClaimNew(p) ==
  LET i    == task[p].input
      kept == DOMAIN evidence \ Cleared(p)
      id   == NextId(kept)
      k    == calls + 1
  IN
  /\ task[p].stage = "recovered"
  /\ Accepted(p)
  /\ kept \cap Of(i) = {}
  /\ calls < MaxCalls
  /\ calls' = k
  /\ evidence' = [x \in kept \cup {id} |->
                    IF x = id THEN [input |-> i, call |-> k, state |-> "GENERATING"]
                              ELSE evidence[x]]
  /\ gen' = [gen EXCEPT ![k] = [input |-> i, state |-> "PREPARED"]]
  /\ requested' = IF task[p].byRequest THEN requested \ {i} ELSE requested
  /\ Purge(Cleared(p))
  /\ task' = [task EXCEPT ![p].stage = "claimed", ![p].id = id, ![p].call = k]
  /\ UNCHANGED <<time, wire>>

Found(p, id) ==
  [task[p] EXCEPT !.stage = "next", !.todo = @ \ {task[p].input},
                  !.have = @ \cup {[input |-> task[p].input, id |-> id,
                                    call |-> evidence[id].call]}]

\* The row stays: its link is taken, or, while somebody generates it, the
\* single-short service watches it for a second.  A message of several shorts
\* does not wait.
ClaimExisting(p) ==
  LET kept == DOMAIN evidence \ Cleared(p) IN
  /\ task[p].stage = "recovered"
  /\ Accepted(p)
  /\ \E id \in kept \cap Of(task[p].input) :
       task' = [task EXCEPT ![p] =
         CASE evidence[id].state = "READY"      -> Found(p, id)
           [] evidence[id].state = "GENERATING" /\ task[p].message \in Single ->
                [task[p] EXCEPT !.stage = "watching", !.id = id]
           [] OTHER -> NoTask]
  /\ evidence' = [id \in kept |-> evidence[id]]
  /\ Purge(Cleared(p))
  /\ UNCHANGED <<gen, requested, time, calls, wire>>

\* _observe sees the link.
Observe(p) ==
  LET id == task[p].id IN
  /\ task[p].stage = "watching"
  /\ id \in DOMAIN evidence
  /\ evidence[id].state = "READY"
  /\ ~LegacyRow(id)
  /\ task' = [task EXCEPT ![p] = Found(p, id)]
  /\ UNCHANGED <<db, time, calls, wire>>

\* A refusal, the end of the watch, an error or a cancellation without effect.
Leave(p) ==
  /\ task[p].stage \in {"opened", "listed", "next", "probed", "recovered", "watching"}
  /\ task' = [task EXCEPT ![p] = NoTask]
  /\ UNCHANGED <<db, time, calls, wire>>

-----------------------------------------------------------------------------
(* The call of the winner.                                                 *)

\* Mutant: the budget is not asked.
StartUnlimited(p) ==
  LET k == task[p].call IN
  /\ task[p].stage = "claimed"
  /\ apiCalls' = apiCalls + 1
  /\ gen[k].state = "PREPARED" /\ k \notin expired
  /\ gen' = [gen EXCEPT ![k].state = "CALL_STARTED"]
  /\ To(p, "started")
  /\ UNCHANGED <<evidence, requested, preview, time, calls, posts>>

\* start_call, after the budget granted the request.
StartCall(p) ==
  LET k == task[p].call IN
  /\ task[p].stage = "claimed"
  /\ apiCalls < MaxApiCalls
  /\ apiCalls' = apiCalls + 1
  /\ gen[k].state = "PREPARED" /\ k \notin expired
  /\ gen' = [gen EXCEPT ![k].state = "CALL_STARTED"]
  /\ To(p, "started")
  /\ UNCHANGED <<evidence, requested, preview, time, calls, posts>>

Request(p) ==
  /\ task[p].stage = "started"
  /\ posts' = [posts EXCEPT ![task[p].call] = @ + 1]
  /\ To(p, "waiting")
  /\ UNCHANGED <<db, time, calls, apiCalls>>

\* The answer is parsed, or it is complete and refused.
Answer(p) ==
  /\ task[p].stage = "waiting"
  /\ \E stage \in {"answered", "rejected"} : To(p, stage)
  /\ UNCHANGED <<db, time, calls, wire>>

\* No budget, no lease, no complete answer, a commit that fails, a cancellation.
Doubt(p) ==
  /\ task[p].stage \in {"claimed", "started", "waiting", "answered", "rejected"}
  /\ To(p, "uncertain")
  /\ \/ UNCHANGED apiCalls
     \/ task[p].stage = "claimed" /\ apiCalls < MaxApiCalls /\ apiCalls' = apiCalls + 1
  /\ UNCHANGED <<db, time, calls, posts>>

\* Mutant: the row is finished without a look at its lease.
HoldsRow(p) == task[p].id \in DOMAIN evidence

\* The condition of _finish on the row: the lease is held and its token known.
Holds(p) ==
  LET id == task[p].id IN
  /\ id \in DOMAIN evidence
  /\ evidence[id].state = "GENERATING" /\ evidence[id].call = task[p].call
  /\ task[p].call \notin expired

FinishRow(p, state) == evidence' = [evidence EXCEPT ![task[p].id].state = state]

\* confirm: only a call under way, whose lease is held.
LedgerConfirms(k) ==
  /\ gen[k].state = "CALL_STARTED" /\ k \notin expired
  /\ gen' = [gen EXCEPT ![k].state = "CONFIRMED"]

\* confirm and finish_ready, in one transaction.
Confirm(p) ==
  LET k == task[p].call IN
  /\ task[p].stage = "answered"
  /\ LedgerConfirms(k)
  /\ Holds(p)
  /\ FinishRow(p, "READY")
  /\ task' = [q \in Preparers |->
       IF q = p THEN [Found(p, task[p].id) EXCEPT !.young = @ \cup {k}]
       ELSE IF task[q].stage = "idle" THEN task[q] ELSE [task[q] EXCEPT !.young = @ \cup {k}]]
  /\ UNCHANGED <<requested, preview, time, calls, wire>>

\* fail: an open row is resolved, as FAILED if its call never started.
LedgerFails(k, verdict) ==
  gen' = [gen EXCEPT ![k].state = CASE @ = "PREPARED" -> "FAILED" [] @ = "CALL_STARTED" -> verdict
                                    [] OTHER -> @]

\* _finish_rejected.
RecordRejected(p) ==
  /\ task[p].stage = "rejected"
  /\ Holds(p)
  /\ LedgerFails(task[p].call, "REJECTED")
  /\ FinishRow(p, "REVIEW_REQUIRED")
  /\ task' = [task EXCEPT ![p] = NoTask]
  /\ UNCHANGED <<requested, preview, time, calls, wire>>

\* _finish_uncertain.
RecordUncertain(p) ==
  /\ task[p].stage = "uncertain"
  /\ Holds(p)
  /\ LedgerFails(task[p].call, "UNCERTAIN")
  /\ FinishRow(p, "UNCERTAIN")
  /\ task' = [task EXCEPT ![p] = NoTask]
  /\ UNCHANGED <<requested, preview, time, calls, wire>>

\* It swallows a lost lease and any other error: recover will find the rows.
RecordLost(p) ==
  /\ task[p].stage = "uncertain"
  /\ task' = [task EXCEPT ![p] = NoTask]
  /\ UNCHANGED <<db, time, calls, wire>>

-----------------------------------------------------------------------------
(* The preview.                                                            *)

Current(id) ==
  /\ id \in DOMAIN evidence
  /\ evidence[id].state = "READY" /\ ~LegacyRow(id) /\ evidence[id].call \notin lapsed

Links(p) == {[id |-> h.id, text |-> h.call, used |-> evidence[h.id].call] : h \in task[p].have}

\* save_ready of a single short: the row of the evidence must be current; the
\* text is taken as it comes.
SaveSingle(p) ==
  LET m == task[p].message IN
  /\ m \in Single
  /\ task[p].stage = "next" /\ task[p].todo = {}
  /\ \A h \in task[p].have : Current(h.id)
  /\ preview[m] \in {{}, Links(p)}
  /\ preview' = [preview EXCEPT ![m] = Links(p)]
  /\ task' = [task EXCEPT ![p] = NoTask]
  /\ UNCHANGED <<evidence, gen, requested, time, calls, wire>>

\* Mutant: links found so far make a preview.
SaveMultiEarly(p) ==
  LET m == task[p].message IN
  /\ m \notin Single
  /\ task[p].stage = "next" /\ task[p].have # {}
  /\ \A h \in task[p].have : Current(h.id) /\ evidence[h.id].call = h.call
  /\ preview' = [preview EXCEPT ![m] = Links(p)]
  /\ task' = [task EXCEPT ![p] = NoTask]
  /\ UNCHANGED <<evidence, gen, requested, time, calls, wire>>

\* save_ready of several shorts: every row must be current and still be the one
\* whose link was taken.
SaveMulti(p) ==
  LET m == task[p].message IN
  /\ m \notin Single
  /\ task[p].stage = "next" /\ task[p].todo = {}
  /\ \A h \in task[p].have : Current(h.id) /\ evidence[h.id].call = h.call
  /\ preview[m] \in {{}, Links(p)}
  /\ preview' = [preview EXCEPT ![m] = Links(p)]
  /\ task' = [task EXCEPT ![p] = NoTask]
  /\ UNCHANGED <<evidence, gen, requested, time, calls, wire>>

\* The processes end; the budget of the next run is new.
Crash ==
  /\ task' = [p \in Preparers |-> NoTask]
  /\ apiCalls' = 0
  /\ UNCHANGED <<db, time, calls, posts>>

-----------------------------------------------------------------------------
Prepare(p) ==
  \/ \E m \in Messages, byRequest \in BOOLEAN : Open(p, m, byRequest)
  \/ RecoverMessage(p) \/ CoverMisses(p)
  \/ \E i \in Inputs : Inspect(p, i) \/ Probe(p, i) \/ Recover(p, i)
  \/ ClaimNew(p) \/ ClaimExisting(p) \/ Observe(p) \/ Leave(p)
  \/ StartCall(p) \/ Request(p) \/ Answer(p) \/ Doubt(p)
  \/ Confirm(p) \/ RecordRejected(p) \/ RecordUncertain(p) \/ RecordLost(p)
  \/ SaveSingle(p) \/ SaveMulti(p)

Next ==
  \/ \E i \in LegacyInputs : RequestLegacyGeneration(i)
  \/ \E k \in Call : LeaseExpires(k) \/ LinkLapses(k)
  \/ \E p \in Preparers : Prepare(p)
  \/ Crash

Spec == Init /\ [][Next]_vars

-----------------------------------------------------------------------------
\* A short is called again only when the link of the call before outlived its
\* day: never after a call that failed, was refused, is in doubt or is open,
\* and never while a link is good, whoever purges, recovers or restarts.
NoCallAfterUnknown ==
  \A k, l \in Call :
    k < l /\ gen[l].state # "none" /\ gen[k].input = gen[l].input =>
      gen[k].state = "CONFIRMED" /\ k \in lapsed

\* A call is requested once at most, and the ledger never denies a request
\* that was made.
WireIsAudited ==
  \A k \in Call :
    /\ posts[k] <= 1
    /\ posts[k] > 0 => gen[k].state \notin {"none", "PREPARED", "FAILED"}

\* Evidence row and generation tell the same story although recover, late
\* answers and two kinds of failure write them; an open generation is held by
\* exactly one row.
EvidenceMatchesLedger ==
  /\ \A id \in DOMAIN evidence : evidence[id].call # 0 =>
       LET g == gen[evidence[id].call] IN
       /\ g.input = evidence[id].input
       /\ g.state \in CASE evidence[id].state = "GENERATING"      -> OpenRow
                        [] evidence[id].state = "READY"           -> {"CONFIRMED"}
                        [] evidence[id].state = "REVIEW_REQUIRED" -> {"REJECTED"}
                        [] OTHER                                  -> {"UNCERTAIN", "FAILED"}
  /\ \A k \in Call : gen[k].state \in OpenRow =>
       \E id \in DOMAIN evidence : evidence[id].call = k

\* get_ready: the content is in time and its use is of the rows it points to.
Ready(m) ==
  /\ preview[m] # {}
  /\ \A l \in preview[m] : l.text \notin lapsed /\ Current(l.id) /\ evidence[l.id].call = l.used

\* A preview that may be delivered has exactly the links of the shorts of its
\* message, each from the confirmed call its use in the history names, even
\* when the row behind it was purged and its id given to another short.
ReadyPreviewIsCurrent ==
  \A m \in Messages : Ready(m) =>
    /\ \A l \in preview[m] : l.text = l.used /\ gen[l.text].state = "CONFIRMED"
    /\ {gen[l.text].input : l \in preview[m]} = InputsOf[m]
-----------------------------------------------------------------------------
(* The ledger as AuditedCalls sees it.                                     *)

Verdict(k, i) ==
  IF gen[k].input # i THEN "none"
  ELSE CASE gen[k].state \in OpenRow    -> "open"
         [] gen[k].state = "CONFIRMED" -> "confirmed"
         [] gen[k].state = "REJECTED"  -> "refused"
         [] gen[k].state = "UNCERTAIN" -> "unknown"
         [] gen[k].state = "FAILED"    -> "void"
         [] OTHER                      -> "none"

Audit == INSTANCE AuditedCalls
           WITH Calls <- Call, Subjects <- Inputs, requests <- posts,
                verdict <- [k \in Call |-> [i \in Inputs |-> Verdict(k, i)]]

\* Coin calls keep the promise that calls of the other kind keep: what
\* preparations, purges, recoveries and crashes do to the ledger and on the
\* wire is what AuditedCalls allows.
ImplementsAuditedCalls == Audit!AuditSpec
=============================================================================
