--------------------------- MODULE LinkGeneration ---------------------------
(***************************************************************************)
(* How affiliate links are generated for AliExpress: the claims on rows of *)
(* affiliate_candidates, the ledger affiliate_link_generations, the proofs *)
(* and the one paid request of a conversion                                *)
(* (affiliate/aliexpress_conversion.py, affiliate/history_context.py,      *)
(* database/history_repository.py, providers/aliexpress/transport.py).     *)
(*                                                                         *)
(* A conversion serves the links of one message in one request, a call.    *)
(* The claim, the start of the call, the request, the commit of its links  *)
(* and the two records of a failure are separate steps, and any number of  *)
(* conversions, in one process or in several, may be between them.         *)
(*                                                                         *)
(* Both rows of a claim get the same lease, so the lease belongs to the    *)
(* call.  The owner check of the candidate (processing_started_at and      *)
(* attempt_count) and the lease token of the ledger are the number of the  *)
(* call.  Previews and the record of their use are not represented.        *)
(***************************************************************************)
EXTENDS Naturals

CONSTANTS
  Candidates,       \* products with a row in affiliate_candidates
  LegacyCandidates, \* those whose proof was stored before there was a ledger
  Messages,         \* sets of candidates one message may link to
  Converters,       \* concurrent conversions
  MaxAttempts,      \* MAX_GENERATION_ATTEMPTS
  MaxCalls          \* bound: calls that are ever prepared

ASSUME GenerationAssumption ==
  /\ LegacyCandidates \subseteq Candidates
  /\ Messages \subseteq SUBSET Candidates
  /\ MaxAttempts \in Nat \ {0}
  /\ MaxCalls \in Nat

VARIABLES
  \* rows of affiliate_candidates
  cand,       \* state
  attempts,   \* attempt_count
  owner,      \* the call whose claim the row names, 0 for none
  \* rows of affiliate_link_generations
  gen,        \* gen[k][c]: the row of candidate c in call k
  requested,  \* legacy candidates with a REQUESTED row
  \* rows of affiliate_link_proofs
  proof,      \* the call whose link the proof holds, 0 for none or a legacy one
  fresh,      \* candidates whose proof is within its time to live
  \* clock
  expired,    \* calls whose lease has run out
  \* conversions and the provider
  calls,      \* calls prepared so far
  conv,       \* conversions between their awaits
  posts       \* requests on the wire, for each call

claims  == <<cand, attempts, owner>>
ledger  == <<gen, requested>>
proofs  == <<proof, fresh>>
vars    == <<claims, ledger, proofs, expired, calls, conv, posts>>

-----------------------------------------------------------------------------
Call == 1..MaxCalls

Resolved == {"CONFIRMED", "UNCERTAIN", "REJECTED", "FAILED"}
OpenRow  == {"PREPARED", "CALL_STARTED"}
RowState == {"none"} \cup OpenRow \cup Resolved

CandidateState == {"PENDING_AFFILIATE", "GENERATING_AFFILIATE",
                   "AFFILIATE_GENERATED", "MANUAL_REVIEW", "FAILED_PERMANENT"}

Idle == [stage |-> "idle", links |-> {}, byRequest |-> FALSE, call |-> 0,
         verdict |-> "none", target |-> "none"]

Conversion == [stage     : {"idle", "recovered", "prepared", "started", "answered",
                            "failing", "reviewing"},
               links     : SUBSET Candidates,
               byRequest : BOOLEAN,
               call      : 0..MaxCalls,
               verdict   : {"none", "UNCERTAIN", "REJECTED"},
               target    : {"none", "MANUAL_REVIEW", "FAILED_PERMANENT"}]

TypeOK ==
  /\ cand \in [Candidates -> CandidateState]
  /\ attempts \in [Candidates -> 0..MaxAttempts]
  /\ owner \in [Candidates -> 0..MaxCalls]
  /\ gen \in [Call -> [Candidates -> RowState]]
  /\ requested \subseteq LegacyCandidates
  /\ proof \in [Candidates -> 0..MaxCalls]
  /\ fresh \subseteq Candidates
  /\ expired \subseteq Call
  /\ calls \in 0..MaxCalls
  /\ conv \in [Converters -> Conversion]
  /\ posts \in [Call -> Nat]

Init ==
  /\ cand = [c \in Candidates |-> IF c \in LegacyCandidates THEN "AFFILIATE_GENERATED"
                                                             ELSE "PENDING_AFFILIATE"]
  /\ attempts = [c \in Candidates |-> 0]
  /\ owner = [c \in Candidates |-> 0]
  /\ gen = [k \in Call |-> [c \in Candidates |-> "none"]]
  /\ requested = {}
  /\ proof = [c \in Candidates |-> 0]
  /\ fresh = {}
  /\ expired = {}
  /\ calls = 0
  /\ conv = [p \in Converters |-> Idle]
  /\ posts = [k \in Call |-> 0]

\* The candidates of a call.
Members(k) == {c \in Candidates : gen[k][c] # "none"}

\* A proof that was stored before the ledger and is not linked to it.
Unlinked(c) == c \in LegacyCandidates /\ proof[c] = 0

\* check_identity: a generation that is open, or ended without a link, blocks
\* the identity for good.
Blocked(c) == \E k \in Call : gen[k][c] \in RowState \ {"none", "CONFIRMED"}

-----------------------------------------------------------------------------
(* The operator.                                                           *)

\* request_legacy_generation for a proof without generation.
RequestGeneration(c) ==
  /\ Unlinked(c)
  /\ cand[c] \in {"AFFILIATE_GENERATED", "PENDING_AFFILIATE"}
  /\ ~Blocked(c)
  /\ requested' = requested \cup {c}
  /\ UNCHANGED <<claims, gen, proofs, expired, calls, conv, posts>>

-----------------------------------------------------------------------------
(* One conversion.                                                         *)

\* Mutant: an interrupted call is taken for one that was never made.
InterruptedAsFailed(row) == "FAILED"

\* What recover makes of an open row whose lease ran out.
Interrupted(row) == IF row = "CALL_STARTED" THEN "UNCERTAIN" ELSE "FAILED"

\* recover, the first transaction of _convert, for the rows of any call.
Recover(p, S, byRequest) ==
  LET Lost(k, c) == k \in expired /\ gen[k][c] \in OpenRow IN
  /\ conv[p].stage = "idle"
  /\ conv' = [conv EXCEPT ![p] = [Idle EXCEPT !.stage = "recovered", !.links = S,
                                              !.byRequest = byRequest]]
  /\ gen' = [k \in Call |-> [c \in Candidates |->
               IF Lost(k, c) THEN Interrupted(gen[k][c]) ELSE gen[k][c]]]
  /\ cand' = [c \in Candidates |->
               IF cand[c] = "GENERATING_AFFILIATE" /\ \E k \in Call : Lost(k, c)
               THEN "MANUAL_REVIEW" ELSE cand[c]]
  /\ UNCHANGED <<attempts, owner, requested, proofs, expired, calls, posts>>

\* Nothing to generate, a refusal, a busy candidate or an error: the second
\* transaction of _convert writes nothing.
Leave(p) ==
  /\ conv[p].stage = "recovered"
  /\ conv' = [conv EXCEPT ![p] = Idle]
  /\ UNCHANGED <<claims, ledger, proofs, expired, calls, posts>>

\* The links of the message that a stored proof does not serve.
Missing(p) == {c \in conv[p].links : conv[p].byRequest \/ proof[c] = 0 \/ c \notin fresh}

\* What _convert demands of every link before it claims any.
Admissible(p) ==
  /\ \A c \in conv[p].links : ~Blocked(c)
  /\ IF conv[p].byRequest
     THEN \E c \in requested : conv[p].links = {c} /\ Unlinked(c)
     ELSE \A c \in conv[p].links : ~Unlinked(c)

\* The condition of claim_for_generation.
Claimable(c) ==
  /\ ~Blocked(c)
  /\ attempts[c] < MaxAttempts
  /\ cand[c] \in {"PENDING_AFFILIATE", "AFFILIATE_GENERATED"}

\* Mutant: the ledger is not asked, and a stale claim is taken over, as claim
\* does for VALIDATING.
GeneratableByState(p) ==
  /\ \A c \in conv[p].links : ~Unlinked(c)
  /\ \A c \in Missing(p) :
       \/ cand[c] \in {"PENDING_AFFILIATE", "AFFILIATE_GENERATED"}
       \/ cand[c] = "GENERATING_AFFILIATE" /\ owner[c] \in expired

\* Some link needs a call, and nothing stands in the way of any link.
Generatable(p) ==
  /\ Admissible(p)
  /\ \A c \in Missing(p) : Claimable(c)

\* The second transaction of _convert: all claims and their PREPARED rows, or
\* none.
Prepare(p) ==
  LET k     == calls + 1
      claim == Missing(p)
  IN
  /\ conv[p].stage = "recovered"
  /\ calls < MaxCalls
  /\ claim # {}
  /\ Generatable(p)
  /\ calls' = k
  /\ cand' = [c \in Candidates |-> IF c \in claim THEN "GENERATING_AFFILIATE" ELSE cand[c]]
  /\ attempts' = [c \in Candidates |-> IF c \in claim THEN attempts[c] + 1 ELSE attempts[c]]
  /\ owner' = [c \in Candidates |-> IF c \in claim THEN k ELSE owner[c]]
  /\ gen' = [gen EXCEPT ![k] = [c \in Candidates |-> IF c \in claim THEN "PREPARED"
                                                                    ELSE "none"]]
  /\ requested' = IF conv[p].byRequest THEN requested \ claim ELSE requested
  /\ conv' = [conv EXCEPT ![p].stage = "prepared", ![p].call = k]
  /\ UNCHANGED <<proofs, expired, posts>>

\* before_network: start_call is durable before the request.
StartCall(p) ==
  LET k == conv[p].call IN
  /\ conv[p].stage = "prepared"
  /\ k \notin expired
  /\ \A c \in Members(k) : gen[k][c] = "PREPARED"
  /\ gen' = [gen EXCEPT ![k] = [c \in Candidates |->
               IF gen[k][c] = "none" THEN "none" ELSE "CALL_STARTED"]]
  /\ conv' = [conv EXCEPT ![p].stage = "started"]
  /\ UNCHANGED <<claims, requested, proofs, expired, calls, posts>>

\* Where an except clause of _generate_batch goes on.
Failing(p, verdict, target) ==
  conv' = [conv EXCEPT ![p].stage = "failing", ![p].verdict = verdict,
                       ![p].target = target]

\* The budget, a closed gate, start_call or the database refuses: no request.
FailBeforeStart(p) ==
  /\ conv[p].stage = "prepared"
  /\ Failing(p, "UNCERTAIN", "MANUAL_REVIEW")
  /\ UNCHANGED <<claims, ledger, proofs, expired, calls, posts>>

\* The one attempt of the transport.  A complete answer is the links or a
\* rejection; anything else leaves open whether the request was served.
Request(p) ==
  LET k == conv[p].call IN
  /\ conv[p].stage = "started"
  /\ \/ /\ conv' = [conv EXCEPT ![p].stage = "answered"]
        /\ posts' = [posts EXCEPT ![k] = @ + 1]
     \/ /\ \E target \in {"MANUAL_REVIEW", "FAILED_PERMANENT"} :
             Failing(p, "REJECTED", target)
        /\ posts' = [posts EXCEPT ![k] = @ + 1]
     \/ /\ Failing(p, "UNCERTAIN", "MANUAL_REVIEW")
        /\ \E n \in {0, 1} : posts' = [posts EXCEPT ![k] = @ + n]
  /\ UNCHANGED <<claims, ledger, proofs, expired, calls>>

\* Mutant: the ledger is left to a later transaction.
CommitProofAlone(p) ==
  LET k == conv[p].call IN
  /\ conv[p].stage = "answered"
  /\ k \notin expired
  /\ \A c \in Members(k) : cand[c] = "GENERATING_AFFILIATE" /\ owner[c] = k
  /\ cand' = [c \in Candidates |-> IF c \in Members(k) THEN "AFFILIATE_GENERATED" ELSE cand[c]]
  /\ attempts' = [c \in Candidates |-> IF c \in Members(k) THEN 0 ELSE attempts[c]]
  /\ proof' = [c \in Candidates |-> IF c \in Members(k) THEN k ELSE proof[c]]
  /\ fresh' = fresh \cup Members(k)
  /\ conv' = [conv EXCEPT ![p] = Idle]
  /\ UNCHANGED <<owner, ledger, expired, calls, posts>>

\* Mutant: a late answer is committed without a look at the claim.
CommitLate(p) ==
  LET k == conv[p].call IN
  /\ conv[p].stage = "answered"
  /\ cand' = [c \in Candidates |-> IF c \in Members(k) THEN "AFFILIATE_GENERATED" ELSE cand[c]]
  /\ attempts' = [c \in Candidates |-> IF c \in Members(k) THEN 0 ELSE attempts[c]]
  /\ proof' = [c \in Candidates |-> IF c \in Members(k) THEN k ELSE proof[c]]
  /\ fresh' = fresh \cup Members(k)
  /\ gen' = [gen EXCEPT ![k] = [c \in Candidates |->
               IF gen[k][c] = "none" THEN "none" ELSE "CONFIRMED"]]
  /\ conv' = [conv EXCEPT ![p] = Idle]
  /\ UNCHANGED <<owner, requested, expired, calls, posts>>

\* The claim of the call still stands: what mark_affiliate_generated and
\* confirm demand of every link.
Stands(k) ==
  /\ k \notin expired
  /\ \A c \in Members(k) :
       cand[c] = "GENERATING_AFFILIATE" /\ owner[c] = k /\ gen[k][c] = "CALL_STARTED"

\* The commit of the answer: candidates, proofs and ledger in one transaction.
Commit(p) ==
  LET k == conv[p].call IN
  /\ conv[p].stage = "answered"
  /\ Stands(k)
  /\ cand' = [c \in Candidates |-> IF c \in Members(k) THEN "AFFILIATE_GENERATED" ELSE cand[c]]
  /\ attempts' = [c \in Candidates |-> IF c \in Members(k) THEN 0 ELSE attempts[c]]
  /\ proof' = [c \in Candidates |-> IF c \in Members(k) THEN k ELSE proof[c]]
  /\ fresh' = fresh \cup Members(k)
  /\ gen' = [gen EXCEPT ![k] = [c \in Candidates |->
               IF gen[k][c] = "none" THEN "none" ELSE "CONFIRMED"]]
  /\ conv' = [conv EXCEPT ![p] = Idle]
  /\ UNCHANGED <<owner, requested, expired, calls, posts>>

\* The transaction rolls back.  A lost claim ends in a conflict, which leaves
\* the candidates alone; the database or a clock that moved back can refuse as
\* well.
CommitFails(p) ==
  /\ conv[p].stage = "answered"
  /\ \/ \E verdict \in {"UNCERTAIN", "REJECTED"} : Failing(p, verdict, "MANUAL_REVIEW")
     \/ ~Stands(conv[p].call) /\ Failing(p, "UNCERTAIN", "none")
  /\ UNCHANGED <<claims, ledger, proofs, expired, calls, posts>>

\* The task is cancelled inside _generate_batch.
Cancel(p) ==
  LET k == conv[p].call IN
  /\ conv[p].stage \in {"prepared", "started", "answered"}
  /\ Failing(p, "UNCERTAIN", "none")
  /\ \E n \in IF conv[p].stage = "started" THEN {0, 1} ELSE {0} :
       posts' = [posts EXCEPT ![k] = @ + n]
  /\ UNCHANGED <<claims, ledger, proofs, expired, calls>>

\* _record_history_failure: the verdict goes into the rows that are still
\* open.  Its own failure is swallowed.
RecordVerdict(p) ==
  LET k == conv[p].call IN
  /\ conv[p].stage = "failing"
  /\ \/ gen' = [gen EXCEPT ![k] = [c \in Candidates |->
                  CASE gen[k][c] = "PREPARED"     -> "FAILED"
                    [] gen[k][c] = "CALL_STARTED" -> conv[p].verdict
                    [] OTHER                      -> gen[k][c]]]
     \/ UNCHANGED gen
  /\ conv' = [conv EXCEPT ![p] = IF conv[p].target = "none"
                                 THEN Idle ELSE [@ EXCEPT !.stage = "reviewing"]]
  /\ UNCHANGED <<claims, requested, proofs, expired, calls, posts>>

\* The candidates of a call are still claimed by it, under a live lease.
Claimed(k) ==
  k \notin expired /\ \A c \in Members(k) : cand[c] = "GENERATING_AFFILIATE" /\ owner[c] = k

\* Mutant: a failure before an answer gives the candidate back.
RecordFailureReopens(p) ==
  LET k == conv[p].call IN
  /\ conv[p].stage = "reviewing"
  /\ Claimed(k)
  /\ cand' = [c \in Candidates |-> IF c \in Members(k) THEN "PENDING_AFFILIATE" ELSE cand[c]]
  /\ conv' = [conv EXCEPT ![p] = Idle]
  /\ UNCHANGED <<attempts, owner, ledger, proofs, expired, calls, posts>>

\* _record_failures: every candidate of the call, or none when one was lost.
RecordFailure(p) ==
  LET k == conv[p].call IN
  /\ conv[p].stage = "reviewing"
  /\ Claimed(k)
  /\ cand' = [c \in Candidates |-> IF c \in Members(k) THEN conv[p].target ELSE cand[c]]
  /\ conv' = [conv EXCEPT ![p] = Idle]
  /\ UNCHANGED <<attempts, owner, ledger, proofs, expired, calls, posts>>

\* The process ends, or an exception or a second cancellation leaves a record
\* of the failure unwritten.
Crash(p) ==
  LET k == conv[p].call IN
  /\ conv[p].stage # "idle"
  /\ conv' = [conv EXCEPT ![p] = Idle]
  /\ \/ UNCHANGED posts
     \/ conv[p].stage = "started" /\ posts' = [posts EXCEPT ![k] = @ + 1]
  /\ UNCHANGED <<claims, ledger, proofs, expired, calls>>

-----------------------------------------------------------------------------
(* The clock.                                                              *)

LeaseExpires(k) ==
  /\ k \in 1..calls
  /\ k \notin expired
  /\ expired' = expired \cup {k}
  /\ UNCHANGED <<claims, ledger, proofs, calls, conv, posts>>

\* The proof outlives its time to live.
ProofExpires(c) ==
  /\ c \in fresh
  /\ fresh' = fresh \ {c}
  /\ UNCHANGED <<claims, ledger, proof, expired, calls, conv, posts>>

-----------------------------------------------------------------------------
Convert(p) ==
  \/ \E S \in Messages, byRequest \in BOOLEAN : Recover(p, S, byRequest)
  \/ Leave(p) \/ Prepare(p) \/ StartCall(p) \/ FailBeforeStart(p) \/ Request(p)
  \/ Commit(p) \/ CommitFails(p) \/ RecordVerdict(p) \/ RecordFailure(p)

Next ==
  \/ \E c \in Candidates : RequestGeneration(c) \/ ProofExpires(c)
  \/ \E p \in Converters : Convert(p) \/ Cancel(p) \/ Crash(p)
  \/ \E k \in Call : LeaseExpires(k)

Spec == Init /\ [][Next]_vars

-----------------------------------------------------------------------------
\* After a generation that is open, failed, was refused or may have been
\* served unseen, no other is prepared for the same candidate: not after a
\* restart, an expired lease, another message, or an operator's request.
NoCallAfterUnknown ==
  \A j, k \in Call, c \in Candidates :
    j < k /\ gen[k][c] # "none" => gen[j][c] \in {"none", "CONFIRMED"}

\* A call is requested at most once, and the ledger owns up to it: whatever
\* crashes, no row says that a request which was made was not made.
WireIsAudited ==
  \A k \in Call :
    /\ posts[k] <= 1
    /\ posts[k] = 1 => \A c \in Members(k) : gen[k][c] \notin {"PREPARED", "FAILED"}
    /\ \A c \in Members(k) : gen[k][c] = "CONFIRMED" => posts[k] = 1

\* The proof of a candidate is the link of its newest confirmed call, and a
\* candidate that counts as generated has one, unless it is a legacy one.
ProofIsNewestConfirmed ==
  \A c \in Candidates :
    /\ \A k \in Call : gen[k][c] = "CONFIRMED" => k <= proof[c]
    /\ proof[c] # 0 => gen[proof[c]][c] = "CONFIRMED"
    /\ cand[c] = "AFFILIATE_GENERATED" => proof[c] # 0 \/ c \in LegacyCandidates

\* Candidates and ledger are written by different transactions on a failure,
\* and still a candidate that looks claimable has no generation in doubt, and
\* a claimed one has a generation of the claiming call.
ClaimMatchesLedger ==
  \A c \in Candidates :
    /\ cand[c] \in {"PENDING_AFFILIATE", "AFFILIATE_GENERATED"} => ~Blocked(c)
    /\ cand[c] = "GENERATING_AFFILIATE" =>
         owner[c] # 0 /\ gen[owner[c]][c] \notin {"none", "CONFIRMED"}

\* A resolved generation is never resolved otherwise: the answer that arrives
\* after recover gave the call up changes nothing.
ResolvedIsFinal ==
  [][\A k \in Call, c \in Candidates :
       gen[k][c] \in Resolved => gen'[k][c] = gen[k][c]]_vars

\* What the documentation says of an uncertain call: its canonical candidates
\* end in review (docs/AFFILIATE_LINK_HISTORY.md).
UncertainIsReviewed ==
  \A k \in Call, c \in Candidates :
    gen[k][c] = "UNCERTAIN" /\ (\A p \in Converters : conv[p].call # k)
      => cand[c] = "MANUAL_REVIEW"
-----------------------------------------------------------------------------
(* The ledger as AuditedCalls sees it.                                     *)

Verdict(row) ==
  CASE row \in OpenRow    -> "open"
    [] row = "CONFIRMED" -> "confirmed"
    [] row = "REJECTED"  -> "refused"
    [] row = "UNCERTAIN" -> "unknown"
    [] row = "FAILED"    -> "void"
    [] OTHER             -> "none"

Audit == INSTANCE AuditedCalls
           WITH Calls <- Call, Subjects <- Candidates, requests <- posts,
                verdict <- [k \in Call |-> [c \in Candidates |-> Verdict(gen[k][c])]]

\* Whatever conversions, leases and crashes do, calls are announced,
\* requested and resolved only as AuditedCalls allows: no request without a
\* durable row, no second one, no denial of one that was made, no verdict
\* changed (docs/AFFILIATE_LINK_HISTORY.md; prepare, start_call, confirm,
\* fail and recover of AffiliateLinkHistoryRepository).
ImplementsAuditedCalls == Audit!AuditSpec
=============================================================================
