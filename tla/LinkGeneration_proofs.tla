------------------------ MODULE LinkGeneration_proofs ------------------------
(* Proofs about LinkGeneration for every value of its constants. *)
EXTENDS LinkGeneration, TLAPS

\* A conversion that has prepared a call and is not done with it.
Active(p) == conv[p].stage \notin {"idle", "recovered"}

\* What holds of a call before it is prepared.
CallsInv ==
  \A k \in Call : k > calls => posts[k] = 0 /\ \A c \in Candidates : gen[k][c] = "none"

\* Every call is in the hands of one conversion at most.
OwnCall ==
  \A p, q \in Converters :
    Active(p) => /\ conv[p].call \in 1..calls
                 /\ Active(q) /\ conv[q].call = conv[p].call => q = p

RowsIn(k, S) == \A c \in Candidates : gen[k][c] \in {"none"} \cup S

\* What a conversion may rely on at each of its stages: its rows are as it
\* left them, or recover resolved them.
StageOf(p) ==
  /\ conv[p].stage = "prepared" =>
       posts[conv[p].call] = 0 /\ RowsIn(conv[p].call, {"PREPARED", "FAILED"})
  /\ conv[p].stage = "started" =>
       posts[conv[p].call] = 0 /\ RowsIn(conv[p].call, {"CALL_STARTED", "UNCERTAIN"})
  /\ conv[p].stage = "answered" =>
       posts[conv[p].call] = 1 /\ RowsIn(conv[p].call, {"CALL_STARTED", "UNCERTAIN"})
  /\ conv[p].stage = "failing" => conv[p].verdict # "none"
  /\ conv[p].stage = "reviewing" => conv[p].target # "none"

StageInv == \A p \in Converters : StageOf(p)

CallInv == CallsInv /\ OwnCall /\ StageInv
GenerationInv == TypeOK /\ CallInv /\ NoCallAfterUnknown /\ WireIsAudited
                 /\ ProofIsNewestConfirmed /\ ClaimMatchesLedger

-----------------------------------------------------------------------------
(* The beginning.                                                          *)

LEMMA InitGenerationInv == Init => GenerationInv
<1> SUFFICES ASSUME Init PROVE GenerationInv
  OBVIOUS
<1>1. TypeOK
  BY GenerationAssumption
     DEF Init, TypeOK, CandidateState, RowState, OpenRow, Resolved, Conversion, Idle, Call
<1>2. CallInv
  BY DEF Init, CallInv, CallsInv, OwnCall, StageInv, StageOf, Active, Idle, Call
<1>3. NoCallAfterUnknown /\ WireIsAudited
  BY DEF Init, NoCallAfterUnknown, WireIsAudited, Members, Call
<1>4. ProofIsNewestConfirmed /\ ClaimMatchesLedger
  BY DEF Init, ProofIsNewestConfirmed, ClaimMatchesLedger, Blocked, RowState, OpenRow,
         Resolved, Call
<1> QED
  BY <1>1, <1>2, <1>3, <1>4 DEF GenerationInv

-----------------------------------------------------------------------------
(* Type correctness.                                                       *)

\* A function that changes one conversion is typed if the new value is.
LEMMA ConversionChanged ==
  ASSUME TypeOK, NEW p \in Converters, NEW x \in Conversion
  PROVE  [conv EXCEPT ![p] = x] \in [Converters -> Conversion]
BY DEF TypeOK

LEMMA IdleTyped == Idle \in Conversion
BY GenerationAssumption DEF Idle, Conversion

\* The forms in which the actions change a conversion.
LEMMA StageTyped ==
  ASSUME TypeOK, NEW p \in Converters,
         NEW stage \in {"idle", "recovered", "prepared", "started", "answered",
                        "failing", "reviewing"}
  PROVE  [conv EXCEPT ![p].stage = stage] \in [Converters -> Conversion]
<1>1. conv \in [Converters -> Conversion] /\ conv[p] \in Conversion
  BY DEF TypeOK
<1>2. [conv[p] EXCEPT !.stage = stage] \in Conversion
  BY <1>1 DEF Conversion
<1>3. [conv EXCEPT ![p].stage = stage] = [conv EXCEPT ![p] = [conv[p] EXCEPT !.stage = stage]]
  BY <1>1
<1> QED
  BY <1>2, <1>3, ConversionChanged

LEMMA PreparedTyped ==
  ASSUME TypeOK, NEW p \in Converters, NEW k \in 0..MaxCalls
  PROVE  [conv EXCEPT ![p].stage = "prepared", ![p].call = k] \in [Converters -> Conversion]
<1>1. conv \in [Converters -> Conversion] /\ conv[p] \in Conversion
  BY DEF TypeOK
<1>2. [conv[p] EXCEPT !.stage = "prepared", !.call = k] \in Conversion
  BY <1>1 DEF Conversion
<1>3. [conv EXCEPT ![p].stage = "prepared", ![p].call = k]
        = [conv EXCEPT ![p] = [conv[p] EXCEPT !.stage = "prepared", !.call = k]]
  BY <1>1
<1> QED
  BY <1>2, <1>3, ConversionChanged

LEMMA FailingTyped ==
  ASSUME TypeOK, NEW p \in Converters,
         NEW verdict \in {"UNCERTAIN", "REJECTED"},
         NEW target \in {"none", "MANUAL_REVIEW", "FAILED_PERMANENT"},
         Failing(p, verdict, target)
  PROVE  conv' \in [Converters -> Conversion]
<1>1. conv \in [Converters -> Conversion] /\ conv[p] \in Conversion
  BY DEF TypeOK
<1>2. [conv[p] EXCEPT !.stage = "failing", !.verdict = verdict, !.target = target]
        \in Conversion
  BY <1>1 DEF Conversion
<1>3. conv' = [conv EXCEPT ![p] = [conv[p] EXCEPT !.stage = "failing", !.verdict = verdict,
                                                  !.target = target]]
  BY <1>1 DEF Failing
<1> QED
  BY <1>2, <1>3, ConversionChanged

LEMMA NextTypeOK == TypeOK /\ CallInv /\ [Next]_vars => TypeOK'
<1> SUFFICES ASSUME TypeOK, CallInv, [Next]_vars PROVE TypeOK'
  OBVIOUS
<1> USE GenerationAssumption DEF RowState, OpenRow, Resolved, CandidateState
<1>1. CASE UNCHANGED vars
  BY <1>1 DEF TypeOK, vars, claims, ledger, proofs
<1>2. ASSUME NEW c \in Candidates, RequestGeneration(c) \/ ProofExpires(c) PROVE TypeOK'
  BY <1>2 DEF TypeOK, RequestGeneration, ProofExpires, Unlinked, claims, ledger, proofs
<1>3. ASSUME NEW k \in Call, LeaseExpires(k) PROVE TypeOK'
  BY <1>3 DEF TypeOK, LeaseExpires, claims, ledger, proofs
<1>4. ASSUME NEW p \in Converters, NEW S \in Messages, NEW r \in BOOLEAN, Recover(p, S, r)
      PROVE  TypeOK'
  <2>1. conv' \in [Converters -> Conversion]
    <3>1. S \subseteq Candidates
      BY GenerationAssumption
    <3>2. [Idle EXCEPT !.stage = "recovered", !.links = S, !.byRequest = r] \in Conversion
      BY <3>1, IdleTyped DEF Conversion, Idle
    <3> QED
      BY <1>4, <3>2, ConversionChanged DEF Recover
  <2>2. gen' \in [Call -> [Candidates -> RowState]]
    BY <1>4 DEF Recover, TypeOK, Interrupted
  <2>3. cand' \in [Candidates -> CandidateState]
    BY <1>4 DEF Recover, TypeOK
  <2> QED
    BY <1>4, <2>1, <2>2, <2>3 DEF Recover, TypeOK, proofs
<1>5. ASSUME NEW p \in Converters, Prepare(p) PROVE TypeOK'
  <2>1. calls + 1 \in Call /\ calls' = calls + 1
    BY <1>5 DEF Prepare, TypeOK, Call
  <2>2. Missing(p) \subseteq Candidates /\ \A c \in Missing(p) : attempts[c] < MaxAttempts
    BY <1>5 DEF Prepare, Generatable, Claimable, Missing, TypeOK, Conversion
  <2>3. conv' \in [Converters -> Conversion]
    <3>1. calls + 1 \in 0..MaxCalls
      BY <2>1 DEF Call
    <3>2. conv' = [conv EXCEPT ![p].stage = "prepared", ![p].call = calls + 1]
      BY <1>5 DEF Prepare
    <3> QED
      BY <3>1, <3>2, PreparedTyped
  <2>4. gen' \in [Call -> [Candidates -> RowState]]
    BY <1>5, <2>1 DEF Prepare, TypeOK
  <2>5. cand' \in [Candidates -> CandidateState]
    BY <1>5 DEF Prepare, TypeOK
  <2>6. attempts' \in [Candidates -> 0..MaxAttempts] /\ owner' \in [Candidates -> 0..MaxCalls]
    BY <1>5, <2>1, <2>2 DEF Prepare, TypeOK, Call
  <2>7. requested' \subseteq LegacyCandidates
    BY <1>5 DEF Prepare, TypeOK
  <2> QED
    BY <1>5, <2>1, <2>3, <2>4, <2>5, <2>6, <2>7 DEF Prepare, TypeOK, Call, proofs
<1>6. ASSUME NEW p \in Converters, StartCall(p) PROVE TypeOK'
  <2>1. conv' \in [Converters -> Conversion]
    BY <1>6, StageTyped DEF StartCall
  <2>2. gen' \in [Call -> [Candidates -> RowState]]
    BY <1>6 DEF StartCall, TypeOK
  <2> QED
    BY <1>6, <2>1, <2>2 DEF StartCall, TypeOK, claims, proofs
<1>7. ASSUME NEW p \in Converters,
             Leave(p) \/ FailBeforeStart(p) \/ CommitFails(p) PROVE TypeOK'
  <2>1. conv' \in [Converters -> Conversion]
    <3>1. CASE Leave(p)
      BY <3>1, IdleTyped, ConversionChanged DEF Leave
    <3>2. CASE FailBeforeStart(p)
      BY <3>2, FailingTyped DEF FailBeforeStart
    <3>3. CASE CommitFails(p)
      BY <3>3, FailingTyped DEF CommitFails
    <3> QED
      BY <1>7, <3>1, <3>2, <3>3
  <2> QED
    BY <1>7, <2>1 DEF Leave, FailBeforeStart, CommitFails, TypeOK, claims, ledger, proofs
<1>8. ASSUME NEW p \in Converters, Request(p) \/ Cancel(p) \/ Crash(p) PROVE TypeOK'
  <2>1. conv' \in [Converters -> Conversion]
    <3>1. CASE Request(p)
      BY <3>1, FailingTyped, StageTyped, ZenonT(40) DEF Request
    <3>2. CASE Cancel(p)
      BY <3>2, FailingTyped DEF Cancel
    <3>3. CASE Crash(p)
      BY <3>3, IdleTyped, ConversionChanged DEF Crash
    <3> QED
      BY <1>8, <3>1, <3>2, <3>3
  <2>2. posts' \in [Call -> Nat]
    BY <1>8 DEF Request, Cancel, Crash, TypeOK
  <2> QED
    BY <1>8, <2>1, <2>2 DEF Request, Cancel, Crash, TypeOK, claims, ledger, proofs
<1>9. ASSUME NEW p \in Converters, Commit(p) PROVE TypeOK'
  <2>0. conv[p].call \in 0..MaxCalls /\ Members(conv[p].call) \subseteq Candidates
    BY DEF TypeOK, Conversion, Members
  <2>1. conv' \in [Converters -> Conversion]
    BY <1>9, IdleTyped, ConversionChanged DEF Commit
  <2>2. gen' \in [Call -> [Candidates -> RowState]]
    BY <1>9 DEF Commit, TypeOK
  <2>3. cand' \in [Candidates -> CandidateState] /\ attempts' \in [Candidates -> 0..MaxAttempts]
    BY <1>9 DEF Commit, TypeOK
  <2>4. proof' \in [Candidates -> 0..MaxCalls] /\ fresh' \subseteq Candidates
    BY <1>9, <2>0 DEF Commit, TypeOK
  <2> QED
    BY <1>9, <2>1, <2>2, <2>3, <2>4 DEF Commit, TypeOK
<1>10. ASSUME NEW p \in Converters, RecordVerdict(p) PROVE TypeOK'
  <2>1. conv' \in [Converters -> Conversion]
    <3>1. [conv[p] EXCEPT !.stage = "reviewing"] \in Conversion
      <4>1. conv[p] \in Conversion
        BY DEF TypeOK
      <4> QED
        BY <4>1 DEF Conversion
    <3>2. conv' = [conv EXCEPT ![p] = IF conv[p].target = "none" THEN Idle
                                      ELSE [conv[p] EXCEPT !.stage = "reviewing"]]
      BY <1>10 DEF RecordVerdict
    <3> QED
      BY <3>1, <3>2, IdleTyped, ConversionChanged
  <2>2. conv[p].verdict \in {"UNCERTAIN", "REJECTED"}
    BY <1>10 DEF RecordVerdict, CallInv, StageInv, StageOf, TypeOK, Conversion
  <2>3. gen' \in [Call -> [Candidates -> RowState]]
    BY <1>10, <2>2 DEF RecordVerdict, TypeOK
  <2> QED
    BY <1>10, <2>1, <2>3 DEF RecordVerdict, TypeOK, claims, proofs
<1>11. ASSUME NEW p \in Converters, RecordFailure(p) PROVE TypeOK'
  <2>1. conv' \in [Converters -> Conversion]
    BY <1>11, IdleTyped, ConversionChanged DEF RecordFailure
  <2>2. conv[p].target \in {"MANUAL_REVIEW", "FAILED_PERMANENT"}
    BY <1>11 DEF RecordFailure, CallInv, StageInv, StageOf, TypeOK, Conversion
  <2>3. cand' \in [Candidates -> CandidateState]
    BY <1>11, <2>2 DEF RecordFailure, TypeOK
  <2> QED
    BY <1>11, <2>1, <2>3 DEF RecordFailure, TypeOK, ledger, proofs
<1> QED
  BY <1>1, <1>2, <1>3, <1>4, <1>5, <1>6, <1>7, <1>8, <1>9, <1>10, <1>11 DEF Next, Convert

-----------------------------------------------------------------------------
(* How rows and requests move.                                             *)

\* What a step can make of one row.
RowMoves(k, c) ==
  \/ gen'[k][c] = gen[k][c]
  \/ /\ gen[k][c] = "none" /\ gen'[k][c] = "PREPARED"
     /\ k = calls + 1 /\ calls' = k /\ ~Blocked(c)
  \/ gen[k][c] = "PREPARED" /\ gen'[k][c] \in {"CALL_STARTED", "FAILED"}
  \/ gen[k][c] = "CALL_STARTED" /\ gen'[k][c] \in {"UNCERTAIN", "REJECTED"}
  \/ /\ gen[k][c] = "CALL_STARTED" /\ gen'[k][c] = "CONFIRMED"
     /\ posts[k] = 1

LEMMA RowStep ==
  ASSUME TypeOK, CallInv, [Next]_vars
  PROVE  \A k \in Call, c \in Candidates : RowMoves(k, c)
<1> SUFFICES ASSUME NEW k \in Call, NEW c \in Candidates PROVE RowMoves(k, c)
  OBVIOUS
<1>1. CASE UNCHANGED gen
  BY <1>1 DEF RowMoves
<1>2. ASSUME NEW p \in Converters, NEW S \in Messages, NEW r \in BOOLEAN, Recover(p, S, r)
      PROVE  RowMoves(k, c)
  BY <1>2 DEF Recover, RowMoves, Interrupted, OpenRow
<1>3. ASSUME NEW p \in Converters, Prepare(p) PROVE RowMoves(k, c)
  <2>1. calls + 1 \in Call /\ calls' = calls + 1 /\ calls \in Nat
    BY <1>3, GenerationAssumption DEF Prepare, TypeOK, Call
  <2>2. gen' = [gen EXCEPT ![calls + 1] =
                  [x \in Candidates |-> IF x \in Missing(p) THEN "PREPARED" ELSE "none"]]
    BY <1>3 DEF Prepare
  <2>3. CASE k # calls + 1
    BY <2>2, <2>3 DEF RowMoves, TypeOK
  <2>4. CASE k = calls + 1
    <3>1. gen[k][c] = "none"
      BY <2>1, <2>4 DEF CallInv, CallsInv
    <3>2. gen'[k][c] = IF c \in Missing(p) THEN "PREPARED" ELSE "none"
      BY <2>1, <2>2, <2>4 DEF TypeOK
    <3>3. c \in Missing(p) => ~Blocked(c)
      BY <1>3 DEF Prepare, Generatable, Claimable
    <3> QED
      BY <2>1, <2>4, <3>1, <3>2, <3>3 DEF RowMoves
  <2> QED
    BY <2>3, <2>4
<1>4. ASSUME NEW p \in Converters, StartCall(p) PROVE RowMoves(k, c)
  BY <1>4 DEF StartCall, RowMoves, Members, TypeOK
<1>5. ASSUME NEW p \in Converters, Commit(p) PROVE RowMoves(k, c)
  <2>1. posts[conv[p].call] = 1
    BY <1>5 DEF Commit, CallInv, StageInv, StageOf
  <2> QED
    BY <1>5, <2>1 DEF Commit, Stands, RowMoves, Members, TypeOK
<1>6. ASSUME NEW p \in Converters, RecordVerdict(p) PROVE RowMoves(k, c)
  <2>1. conv[p].verdict \in {"UNCERTAIN", "REJECTED"}
    BY <1>6 DEF RecordVerdict, CallInv, StageInv, StageOf, TypeOK, Conversion
  <2> QED
    BY <1>6, <2>1 DEF RecordVerdict, RowMoves, TypeOK
<1>7. \/ UNCHANGED gen
      \/ \E p \in Converters :
           \/ \E S \in Messages, r \in BOOLEAN : Recover(p, S, r)
           \/ Prepare(p) \/ StartCall(p) \/ Commit(p) \/ RecordVerdict(p)
  BY DEF Next, Convert, RequestGeneration, Leave, FailBeforeStart, Request, CommitFails,
         Cancel, RecordFailure, Crash, LeaseExpires, ProofExpires, vars, ledger
<1> QED
  BY <1>1, <1>2, <1>3, <1>4, <1>5, <1>6, <1>7

\* Requests are made under a started call, and no row moves with them.
LEMMA RequestStep ==
  ASSUME TypeOK, CallInv, [Next]_vars, NEW k \in Call
  PROVE  \/ posts'[k] = posts[k]
         \/ /\ posts[k] = 0 /\ posts'[k] = 1 /\ UNCHANGED gen
            /\ RowsIn(k, {"CALL_STARTED", "UNCERTAIN"})
<1>1. \/ UNCHANGED posts
      \/ \E p \in Converters : Request(p) \/ Cancel(p) \/ Crash(p)
  BY DEF Next, Convert, RequestGeneration, Recover, Prepare, StartCall, Leave, FailBeforeStart,
         Commit, CommitFails, RecordVerdict, RecordFailure, LeaseExpires, ProofExpires, vars
<1>2. ASSUME NEW p \in Converters, Request(p) \/ Cancel(p) \/ Crash(p)
      PROVE  /\ UNCHANGED gen
             /\ \/ posts'[k] = posts[k]
                \/ conv[p].stage = "started" /\ conv[p].call = k /\ posts'[k] = posts[k] + 1
  BY <1>2 DEF Request, Cancel, Crash, Failing, ledger, TypeOK
<1>3. ASSUME NEW p \in Converters, conv[p].stage = "started", conv[p].call = k
      PROVE  posts[k] = 0 /\ RowsIn(k, {"CALL_STARTED", "UNCERTAIN"})
  BY <1>3 DEF CallInv, StageInv, StageOf
<1> QED
  BY <1>1, <1>2, <1>3

\* The counter of calls moves by a preparation only.
LEMMA CallsStep ==
  ASSUME TypeOK, [Next]_vars
  PROVE  \/ UNCHANGED calls
         \/ calls' = calls + 1 /\ \E p \in Converters : Prepare(p)
BY DEF Next, Convert, RequestGeneration, Recover, Prepare, StartCall, Leave, FailBeforeStart,
       Request, Cancel, Crash, Commit, CommitFails, RecordVerdict, RecordFailure, LeaseExpires,
       ProofExpires, vars

-----------------------------------------------------------------------------
(* The ledger.                                                             *)

LEMMA NextNoCallAfterUnknown ==
  TypeOK /\ CallInv /\ NoCallAfterUnknown /\ [Next]_vars => NoCallAfterUnknown'
<1> SUFFICES ASSUME TypeOK, CallInv, NoCallAfterUnknown, [Next]_vars,
                    NEW j \in Call, NEW k \in Call, NEW c \in Candidates,
                    j < k, gen'[k][c] # "none"
             PROVE  gen'[j][c] \in {"none", "CONFIRMED"}
  BY DEF NoCallAfterUnknown
<1>1. RowMoves(j, c) /\ RowMoves(k, c)
  BY RowStep
<1>2. CASE gen[k][c] # "none"
  <2>1. gen[j][c] \in {"none", "CONFIRMED"}
    BY <1>2 DEF NoCallAfterUnknown
  <2>2. k <= calls
    BY <1>2 DEF CallInv, CallsInv, TypeOK, Call
  <2>3. j # calls + 1
    BY <2>2 DEF Call, TypeOK
  <2> QED
    BY <1>1, <2>1, <2>3 DEF RowMoves
<1>3. CASE gen[k][c] = "none"
  <2>1. k = calls + 1 /\ ~Blocked(c)
    BY <1>1, <1>3 DEF RowMoves
  <2>2. gen[j][c] \in {"none", "CONFIRMED"}
    BY <2>1 DEF Blocked, TypeOK
  <2>3. j # calls + 1
    BY <2>1 DEF Call
  <2> QED
    BY <1>1, <2>2, <2>3 DEF RowMoves
<1> QED
  BY <1>2, <1>3

LEMMA NextWireIsAudited ==
  TypeOK /\ CallInv /\ WireIsAudited /\ [Next]_vars => WireIsAudited'
<1> SUFFICES ASSUME TypeOK, CallInv, WireIsAudited, [Next]_vars, NEW k \in Call
             PROVE  /\ posts'[k] <= 1
                    /\ \A c \in Candidates :
                         /\ posts'[k] = 1 => gen'[k][c] \notin {"PREPARED", "FAILED"}
                         /\ gen'[k][c] = "CONFIRMED" => posts'[k] = 1
  BY DEF WireIsAudited, Members
<1>1. posts[k] \in Nat /\ posts[k] <= 1
  BY DEF WireIsAudited, TypeOK
<1>2. \A c \in Candidates :
        /\ posts[k] = 1 => gen[k][c] \notin {"PREPARED", "FAILED"}
        /\ gen[k][c] = "CONFIRMED" => posts[k] = 1
  BY DEF WireIsAudited, Members
<1>3. ASSUME NEW c \in Candidates PROVE RowMoves(k, c)
  BY RowStep
<1>4. CASE posts'[k] = posts[k]
  <2>1. ASSUME NEW c \in Candidates, posts[k] = 1
        PROVE  gen'[k][c] \notin {"PREPARED", "FAILED"}
    <3>1. k # calls + 1
      BY <2>1 DEF CallInv, CallsInv, TypeOK, Call
    <3> QED
      BY <1>2, <1>3, <2>1, <3>1 DEF RowMoves
  <2>2. ASSUME NEW c \in Candidates, gen'[k][c] = "CONFIRMED" PROVE posts[k] = 1
    BY <1>2, <1>3, <2>2 DEF RowMoves
  <2> QED
    BY <1>1, <1>4, <2>1, <2>2
<1>5. CASE /\ posts[k] = 0 /\ posts'[k] = 1 /\ UNCHANGED gen
           /\ RowsIn(k, {"CALL_STARTED", "UNCERTAIN"})
  BY <1>2, <1>5 DEF RowsIn
<1> QED
  BY <1>4, <1>5, RequestStep

-----------------------------------------------------------------------------
(* The conversions.                                                        *)

LEMMA NextCallsInv == TypeOK /\ CallInv /\ [Next]_vars => CallsInv'
<1> SUFFICES ASSUME TypeOK, CallInv, [Next]_vars, NEW k \in Call, k > calls'
             PROVE  posts'[k] = 0 /\ \A c \in Candidates : gen'[k][c] = "none"
  BY DEF CallsInv
<1>1. k > calls /\ calls \in Nat /\ k \in Nat
  BY CallsStep DEF TypeOK, Call
<1>2. posts[k] = 0 /\ \A c \in Candidates : gen[k][c] = "none"
  BY <1>1 DEF CallInv, CallsInv
<1>3. ASSUME NEW c \in Candidates PROVE gen'[k][c] = "none"
  BY <1>1, <1>2, RowStep DEF RowMoves
<1>4. posts'[k] = 0
  <2>1. ASSUME NEW p \in Converters, conv[p].stage = "started", conv[p].call = k PROVE FALSE
    <3>1. conv[p].call \in 1..calls
      BY <2>1 DEF CallInv, OwnCall, Active
    <3> QED
      BY <1>1, <2>1, <3>1
  <2>2. \/ UNCHANGED posts
        \/ \E p \in Converters : Request(p) \/ Cancel(p) \/ Crash(p)
    BY DEF Next, Convert, RequestGeneration, Recover, Prepare, StartCall, Leave,
           FailBeforeStart, Commit, CommitFails, RecordVerdict, RecordFailure, LeaseExpires,
           ProofExpires, vars
  <2>3. ASSUME NEW p \in Converters, Request(p) \/ Cancel(p) \/ Crash(p)
        PROVE  posts'[k] = posts[k]
    BY <2>1, <2>3 DEF Request, Cancel, Crash, Failing, TypeOK
  <2> QED
    BY <1>2, <2>2, <2>3
<1> QED
  BY <1>3, <1>4

\* What each step does to the conversions: one of them goes on with its call,
\* gets a new one, or lets go.
ConvMoves(p) ==
  /\ \A q \in Converters \ {p} : conv'[q] = conv[q]
  /\ \/ ~Active(p)'
     \/ Active(p) /\ conv'[p].call = conv[p].call
     \/ conv'[p].call = calls + 1 /\ calls' = calls + 1

LEMMA ConvStep ==
  ASSUME TypeOK, [Next]_vars
  PROVE  UNCHANGED conv \/ \E p \in Converters : ConvMoves(p)
<1>1. \/ UNCHANGED conv
      \/ \E p \in Converters : Convert(p) \/ Cancel(p) \/ Crash(p)
  BY DEF Next, RequestGeneration, LeaseExpires, ProofExpires, vars
<1>2. ASSUME NEW p \in Converters, Convert(p) \/ Cancel(p) \/ Crash(p)
      PROVE  ConvMoves(p)
  <2>0. conv \in [Converters -> Conversion] /\ conv[p] \in Conversion
    BY DEF TypeOK
  <2> USE DEF Active, ConvMoves, Idle
  <2>1. ASSUME NEW S \in Messages, NEW r \in BOOLEAN, Recover(p, S, r) PROVE ConvMoves(p)
    BY <2>0, <2>1 DEF Recover
  <2>2. CASE Leave(p) \/ Commit(p) \/ RecordFailure(p) \/ Crash(p)
    BY <2>0, <2>2 DEF Leave, Commit, RecordFailure, Crash
  <2>3. CASE Prepare(p)
    <3>1. conv' = [conv EXCEPT ![p].stage = "prepared", ![p].call = calls + 1]
      BY <2>3 DEF Prepare
    <3>2. calls' = calls + 1
      BY <2>3 DEF Prepare
    <3> QED
      BY <2>0, <3>1, <3>2 DEF Conversion
  <2>4. CASE StartCall(p)
    BY <2>0, <2>4 DEF StartCall, Conversion
  <2>5. CASE FailBeforeStart(p) \/ CommitFails(p) \/ Cancel(p)
    BY <2>0, <2>5 DEF FailBeforeStart, CommitFails, Cancel, Failing, Conversion
  <2>6. CASE Request(p)
    BY <2>0, <2>6 DEF Request, Failing, Conversion
  <2>7. CASE RecordVerdict(p)
    BY <2>0, <2>7 DEF RecordVerdict, Conversion
  <2> QED
    BY <1>2, <2>1, <2>2, <2>3, <2>4, <2>5, <2>6, <2>7 DEF Convert
<1> QED
  BY <1>1, <1>2

LEMMA NextOwnCall == TypeOK /\ CallInv /\ [Next]_vars => OwnCall'
<1> SUFFICES ASSUME TypeOK, CallInv, [Next]_vars PROVE OwnCall'
  OBVIOUS
<1>1. calls \in Nat /\ calls' \in {calls, calls + 1}
  BY CallsStep DEF TypeOK
<1>2. CASE UNCHANGED conv
  BY <1>1, <1>2 DEF CallInv, OwnCall, Active
<1>3. ASSUME NEW p \in Converters, ConvMoves(p) PROVE OwnCall'
  BY <1>1, <1>3 DEF CallInv, OwnCall, Active, ConvMoves
<1> QED
  BY <1>2, <1>3, ConvStep

\* A conversion that does not move keeps what it relies on when its call is
\* left alone, or recovered.
LEMMA StageKept ==
  ASSUME TypeOK, CallInv, NEW q \in Converters, conv'[q] = conv[q],
         Active(q) =>
           /\ posts'[conv[q].call] = posts[conv[q].call]
           /\ \A c \in Candidates :
                \/ gen'[conv[q].call][c] = gen[conv[q].call][c]
                \/ /\ gen[conv[q].call][c] \in OpenRow
                   /\ gen'[conv[q].call][c] = Interrupted(gen[conv[q].call][c])
  PROVE  StageOf(q)'
BY DEF CallInv, StageInv, StageOf, Active, RowsIn, OpenRow, Interrupted

\* A step that touches one call leaves the others' conversions alone.
LEMMA OtherStagesKept ==
  ASSUME TypeOK, CallInv, NEW p \in Converters, NEW q \in Converters \ {p},
         conv'[q] = conv[q],
         Active(p) \/ conv[p].call \notin 1..calls,
         \A k \in Call \ {conv[p].call} : posts'[k] = posts[k] /\ gen'[k] = gen[k]
  PROVE  StageOf(q)'
<1>1. Active(q) => conv[q].call \in Call \ {conv[p].call}
  BY GenerationAssumption DEF CallInv, OwnCall, TypeOK, Call
<1> QED
  BY <1>1, StageKept

LEMMA NextStageInv == TypeOK /\ CallInv /\ [Next]_vars => StageInv'
<1> SUFFICES ASSUME TypeOK, CallInv, [Next]_vars PROVE StageInv'
  OBVIOUS
<1>0. /\ conv \in [Converters -> Conversion]
      /\ gen \in [Call -> [Candidates -> RowState]]
      /\ posts \in [Call -> Nat]
  BY DEF TypeOK
<1>1. CASE UNCHANGED <<conv, gen, posts>>
  BY <1>1, StageKept DEF StageInv
<1>2. ASSUME NEW p \in Converters, NEW S \in Messages, NEW r \in BOOLEAN, Recover(p, S, r)
      PROVE  StageInv'
  <2>1. ASSUME NEW q \in Converters \ {p} PROVE StageOf(q)'
    <3>1. conv'[q] = conv[q] /\ UNCHANGED posts
      BY <1>0, <1>2 DEF Recover
    <3>2. Active(q) => conv[q].call \in Call
      BY GenerationAssumption DEF CallInv, OwnCall, TypeOK, Call
    <3>3. \A k \in Call, c \in Candidates :
            \/ gen'[k][c] = gen[k][c]
            \/ gen[k][c] \in OpenRow /\ gen'[k][c] = Interrupted(gen[k][c])
      BY <1>2 DEF Recover
    <3> QED
      BY <3>1, <3>2, <3>3, StageKept
  <2>2. StageOf(p)'
    BY <1>0, <1>2 DEF Recover, StageOf, Idle
  <2> QED
    BY <2>1, <2>2 DEF StageInv
<1>3. ASSUME NEW p \in Converters, Leave(p) \/ RecordFailure(p) \/ FailBeforeStart(p)
                                   \/ CommitFails(p)
      PROVE  StageInv'
  <2>1. ASSUME NEW q \in Converters \ {p} PROVE StageOf(q)'
    <3>1. conv'[q] = conv[q] /\ UNCHANGED <<gen, posts>>
      BY <1>0, <1>3 DEF Leave, RecordFailure, FailBeforeStart, CommitFails, Failing, ledger
    <3> QED
      BY <3>1, StageKept
  <2>2. StageOf(p)'
    BY <1>0, <1>3 DEF Leave, RecordFailure, FailBeforeStart, CommitFails, Failing, StageOf,
                      Idle, Conversion
  <2> QED
    BY <2>1, <2>2 DEF StageInv
<1>4. ASSUME NEW p \in Converters, Prepare(p) PROVE StageInv'
  <2>0. /\ calls + 1 \in Call /\ calls \in Nat
        /\ conv' = [conv EXCEPT ![p].stage = "prepared", ![p].call = calls + 1]
        /\ gen' = [gen EXCEPT ![calls + 1] =
                    [c \in Candidates |-> IF c \in Missing(p) THEN "PREPARED" ELSE "none"]]
        /\ UNCHANGED posts
    BY <1>4, GenerationAssumption DEF Prepare, TypeOK, Call
  <2>1. ASSUME NEW q \in Converters \ {p} PROVE StageOf(q)'
    <3>1. conv'[q] = conv[q]
      BY <1>0, <2>0
    <3>2. Active(q) => conv[q].call \in Call \ {calls + 1}
      BY <2>0, GenerationAssumption DEF CallInv, OwnCall, TypeOK, Call
    <3>3. Active(q) => gen'[conv[q].call] = gen[conv[q].call]
      BY <1>0, <2>0, <3>2
    <3> QED
      BY <2>0, <3>1, <3>3, StageKept
  <2>2. StageOf(p)'
    <3>1. conv'[p].stage = "prepared" /\ conv'[p].call = calls + 1
      BY <1>0, <2>0 DEF Conversion
    <3>2. posts'[calls + 1] = 0
      BY <2>0 DEF CallInv, CallsInv
    <3>3. \A c \in Candidates : gen'[calls + 1][c] \in {"none", "PREPARED"}
      BY <1>0, <2>0
    <3> QED
      BY <3>1, <3>2, <3>3 DEF StageOf, RowsIn
  <2> QED
    BY <2>1, <2>2 DEF StageInv
<1>5. ASSUME NEW p \in Converters, StartCall(p) \/ Commit(p) \/ RecordVerdict(p)
                                   \/ Request(p) \/ Cancel(p) \/ Crash(p)
      PROVE  StageInv'
  <2>0. CASE conv[p].stage = "recovered"
    <3>1. Crash(p) /\ UNCHANGED <<gen, posts>>
      BY <1>5, <2>0 DEF StartCall, Commit, RecordVerdict, Request, Cancel, Crash, ledger
    <3>2. conv' = [conv EXCEPT ![p] = Idle]
      BY <3>1 DEF Crash
    <3>3. \A q \in Converters \ {p} : StageOf(q)'
      BY <1>0, <3>1, <3>2, StageKept
    <3>4. StageOf(p)'
      BY <1>0, <3>2 DEF StageOf, Idle
    <3> QED
      BY <3>3, <3>4 DEF StageInv
  <2>1. CASE conv[p].stage # "recovered"
    <3>1. Active(p) /\ conv[p].call \in Call
      BY <1>5, <2>1, GenerationAssumption
         DEF StartCall, Commit, RecordVerdict, Request, Cancel, Crash, Active, CallInv, OwnCall,
             TypeOK, Call
    <3>2. \A k \in Call \ {conv[p].call} : posts'[k] = posts[k] /\ gen'[k] = gen[k]
      BY <1>0, <1>5
         DEF StartCall, Commit, RecordVerdict, Request, Cancel, Crash, ledger, Members
    <3>3. ASSUME NEW q \in Converters \ {p} PROVE StageOf(q)'
      <4>1. conv'[q] = conv[q]
        BY <1>0, <1>5
           DEF StartCall, Commit, RecordVerdict, Request, Cancel, Crash, Failing
      <4> QED
        BY <3>1, <3>2, <4>1, OtherStagesKept
    <3>4. StageOf(p)'
      <4>1. CASE StartCall(p)
        <5>1. conv'[p].stage = "started" /\ conv'[p].call = conv[p].call
          BY <1>0, <4>1 DEF StartCall, Conversion
        <5>2. posts'[conv[p].call] = 0
          BY <4>1 DEF StartCall, CallInv, StageInv, StageOf
        <5>3. \A c \in Candidates : gen'[conv[p].call][c] \in {"none", "CALL_STARTED"}
          BY <1>0, <3>1, <4>1 DEF StartCall
        <5> QED
          BY <5>1, <5>2, <5>3 DEF StageOf, RowsIn
      <4>2. CASE Commit(p) \/ Crash(p)
        BY <1>0, <4>2 DEF Commit, Crash, StageOf, Idle
      <4>3. CASE RecordVerdict(p)
        BY <1>0, <4>3 DEF RecordVerdict, StageOf, Idle, Conversion
      <4>4. CASE Cancel(p)
        BY <1>0, <4>4 DEF Cancel, Failing, StageOf, Conversion
      <4>5. CASE Request(p)
        <5>1. \/ conv'[p].stage = "failing" /\ conv'[p].verdict # "none"
              \/ /\ conv'[p].stage = "answered" /\ conv'[p].call = conv[p].call
                 /\ posts' = [posts EXCEPT ![conv[p].call] = @ + 1] /\ UNCHANGED gen
          BY <1>0, <4>5 DEF Request, Failing, Conversion, ledger
        <5>2. posts[conv[p].call] = 0 /\ RowsIn(conv[p].call, {"CALL_STARTED", "UNCERTAIN"})
          BY <4>5 DEF Request, CallInv, StageInv, StageOf
        <5> QED
          BY <1>0, <3>1, <5>1, <5>2 DEF StageOf, RowsIn
      <4> QED
        BY <1>5, <4>1, <4>2, <4>3, <4>4, <4>5
    <3> QED
      BY <3>3, <3>4 DEF StageInv
  <2> QED
    BY <2>0, <2>1
<1>6. UNCHANGED <<conv, gen, posts>> \/ \E p \in Converters : Convert(p) \/ Cancel(p) \/ Crash(p)
  BY DEF Next, RequestGeneration, LeaseExpires, ProofExpires, vars, ledger
<1> QED
  BY <1>1, <1>2, <1>3, <1>4, <1>5, <1>6 DEF Convert

-----------------------------------------------------------------------------
(* Candidates and proofs against the ledger.                               *)

\* The commit of a call whose claim stands: no call after it, and none
\* before it in doubt.
LEMMA CommittedCall ==
  ASSUME TypeOK, CallInv, NoCallAfterUnknown, NEW p \in Converters, Commit(p),
         NEW c \in Members(conv[p].call)
  PROVE  /\ c \in Candidates /\ conv[p].call \in Call /\ conv[p].call > 0
         /\ gen[conv[p].call][c] = "CALL_STARTED"
         /\ \A j \in Call : j < conv[p].call => gen[j][c] \in {"none", "CONFIRMED"}
         /\ \A j \in Call : j > conv[p].call => gen[j][c] = "none"
<1>1. Active(p)
  BY DEF Commit, Active
<1>2. conv[p].call \in Call /\ conv[p].call > 0
  BY <1>1, GenerationAssumption DEF CallInv, OwnCall, TypeOK, Call
<1>3. c \in Candidates /\ gen[conv[p].call][c] = "CALL_STARTED"
  BY DEF Commit, Stands, Members
<1>4. \A j \in Call : j < conv[p].call => gen[j][c] \in {"none", "CONFIRMED"}
  BY <1>2, <1>3 DEF NoCallAfterUnknown
<1>5. \A j \in Call : j > conv[p].call => gen[j][c] = "none"
  BY <1>2, <1>3 DEF NoCallAfterUnknown
<1> QED
  BY <1>2, <1>3, <1>4, <1>5

\* A row that is in doubt stays so until it is confirmed.
LEMMA DoubtStays ==
  ASSUME TypeOK, NEW k \in Call, NEW c \in Candidates, RowMoves(k, c),
         gen[k][c] \notin {"none", "CONFIRMED"}, gen'[k][c] # "CONFIRMED"
  PROVE  gen'[k][c] \notin {"none", "CONFIRMED"}
BY DEF RowMoves

LEMMA NextProofIsNewestConfirmed ==
  TypeOK /\ CallInv /\ NoCallAfterUnknown /\ ProofIsNewestConfirmed /\ [Next]_vars
    => ProofIsNewestConfirmed'
<1> SUFFICES ASSUME TypeOK, CallInv, NoCallAfterUnknown, ProofIsNewestConfirmed, [Next]_vars
             PROVE  ProofIsNewestConfirmed'
  OBVIOUS
<1>1. ASSUME NEW p \in Converters, Commit(p) PROVE ProofIsNewestConfirmed'
  <2> SUFFICES ASSUME NEW c \in Candidates
               PROVE  /\ \A k \in Call : gen'[k][c] = "CONFIRMED" => k <= proof'[c]
                      /\ proof'[c] # 0 => gen'[proof'[c]][c] = "CONFIRMED"
                      /\ cand'[c] = "AFFILIATE_GENERATED" =>
                           proof'[c] # 0 \/ c \in LegacyCandidates
    BY DEF ProofIsNewestConfirmed
  <2>1. CASE c \in Members(conv[p].call)
    <3>1. conv[p].call \in Call /\ conv[p].call > 0
      BY <1>1, <2>1, CommittedCall
    <3>2. proof'[c] = conv[p].call
      BY <1>1, <2>1 DEF Commit, TypeOK
    <3>3. gen'[conv[p].call][c] = "CONFIRMED"
      BY <1>1, <2>1, <3>1 DEF Commit, TypeOK, Members
    <3>4. ASSUME NEW k \in Call, gen'[k][c] = "CONFIRMED" PROVE k <= conv[p].call
      <4>1. CASE k > conv[p].call
        <5>1. gen[k][c] = "none"
          BY <1>1, <2>1, <4>1, CommittedCall
        <5>2. gen'[k] = gen[k]
          BY <1>1, <3>1, <4>1 DEF Commit, TypeOK, Call
        <5> QED
          BY <3>4, <5>1, <5>2
      <4> QED
        BY <3>1, <4>1 DEF Call
    <3> QED
      BY <3>1, <3>2, <3>3, <3>4
  <2>2. CASE c \notin Members(conv[p].call)
    <3>1. \A k \in Call : gen'[k][c] = gen[k][c]
      BY <1>1, <2>2 DEF Commit, TypeOK, Members
    <3>2. proof'[c] = proof[c] /\ cand'[c] = cand[c]
      BY <1>1, <2>2 DEF Commit, TypeOK
    <3>3. proof[c] # 0 => proof[c] \in Call
      BY GenerationAssumption DEF TypeOK, Call
    <3> QED
      BY <3>1, <3>2, <3>3 DEF ProofIsNewestConfirmed
  <2> QED
    BY <2>1, <2>2
<1>2. ASSUME \A p \in Converters : ~Commit(p) PROVE ProofIsNewestConfirmed'
  <2>1. proof' = proof
    BY <1>2 DEF Next, Convert, RequestGeneration, Recover, Prepare, StartCall, Leave,
                FailBeforeStart, Request, Cancel, Crash, CommitFails, RecordVerdict,
                RecordFailure, LeaseExpires, ProofExpires, vars, proofs
  <2>2. ASSUME NEW c \in Candidates, cand'[c] = "AFFILIATE_GENERATED"
        PROVE  cand[c] = "AFFILIATE_GENERATED"
    <3>1. CASE UNCHANGED cand
      BY <2>2, <3>1
    <3>2. ASSUME NEW p \in Converters, NEW S \in Messages, NEW r \in BOOLEAN,
                 Recover(p, S, r)
          PROVE  cand[c] = "AFFILIATE_GENERATED"
      BY <2>2, <3>2 DEF Recover
    <3>3. ASSUME NEW p \in Converters, Prepare(p) PROVE cand[c] = "AFFILIATE_GENERATED"
      BY <2>2, <3>3 DEF Prepare
    <3>4. ASSUME NEW p \in Converters, RecordFailure(p) PROVE cand[c] = "AFFILIATE_GENERATED"
      BY <2>2, <3>4 DEF RecordFailure, TypeOK, Conversion
    <3> QED
      BY <1>2, <3>1, <3>2, <3>3, <3>4
         DEF Next, Convert, RequestGeneration, StartCall, Leave, FailBeforeStart, Request,
             Cancel, Crash, CommitFails, RecordVerdict, LeaseExpires, ProofExpires, vars, claims
  <2>3. ASSUME NEW k \in Call, NEW c \in Candidates
        PROVE  gen'[k][c] = "CONFIRMED" <=> gen[k][c] = "CONFIRMED"
    <3>1. CASE UNCHANGED gen
      BY <3>1
    <3>2. ASSUME NEW p \in Converters, NEW S \in Messages, NEW r \in BOOLEAN,
                 Recover(p, S, r)
          PROVE  gen'[k][c] = "CONFIRMED" <=> gen[k][c] = "CONFIRMED"
      BY <3>2 DEF Recover, Interrupted, OpenRow
    <3>3. ASSUME NEW p \in Converters, Prepare(p)
          PROVE  gen'[k][c] = "CONFIRMED" <=> gen[k][c] = "CONFIRMED"
      <4>1. gen'[k][c] # "CONFIRMED" \/ gen'[k][c] = gen[k][c]
        <5>1. gen' = [gen EXCEPT ![calls + 1] =
                  [x \in Candidates |-> IF x \in Missing(p) THEN "PREPARED" ELSE "none"]]
          BY <3>3 DEF Prepare
        <5> QED
          BY <5>1 DEF TypeOK
      <4> QED
        BY <4>1, RowStep DEF RowMoves
    <3>4. ASSUME NEW p \in Converters, StartCall(p)
          PROVE  gen'[k][c] = "CONFIRMED" <=> gen[k][c] = "CONFIRMED"
      BY <3>4 DEF StartCall, TypeOK, Members
    <3>5. ASSUME NEW p \in Converters, RecordVerdict(p)
          PROVE  gen'[k][c] = "CONFIRMED" <=> gen[k][c] = "CONFIRMED"
      BY <3>5 DEF RecordVerdict, TypeOK, Conversion
    <3> QED
      BY <1>2, <3>1, <3>2, <3>3, <3>4, <3>5
         DEF Next, Convert, RequestGeneration, Leave, FailBeforeStart, Request, Cancel, Crash,
             CommitFails, RecordFailure, LeaseExpires, ProofExpires, vars, ledger
  <2>4. \A c \in Candidates : proof[c] # 0 => proof[c] \in Call
    BY GenerationAssumption DEF TypeOK, Call
  <2> QED
    BY <2>1, <2>2, <2>3, <2>4 DEF ProofIsNewestConfirmed
<1> QED
  BY <1>1, <1>2

\* What ClaimMatchesLedger says of one candidate.
ClaimMatches(c) ==
  /\ cand[c] \in {"PENDING_AFFILIATE", "AFFILIATE_GENERATED"} => ~Blocked(c)
  /\ cand[c] = "GENERATING_AFFILIATE" =>
       owner[c] # 0 /\ gen[owner[c]][c] \notin {"none", "CONFIRMED"}

\* The step neither claims nor confirms the candidate.
NoClaimNoConfirm(c) ==
  \A k \in Call : /\ gen[k][c] = "none" => gen'[k][c] = "none"
                  /\ gen'[k][c] = "CONFIRMED" => gen[k][c] = "CONFIRMED"

\* A step that neither claims nor confirms a candidate leaves the agreement
\* in place, when it leaves its claim alone or ends it in review or failure.
LEMMA MatchKept ==
  ASSUME TypeOK, CallInv, [Next]_vars, NEW c \in Candidates, ClaimMatches(c),
         \/ cand'[c] = cand[c] /\ owner'[c] = owner[c]
         \/ cand'[c] \in {"MANUAL_REVIEW", "FAILED_PERMANENT"},
         NoClaimNoConfirm(c)
  PROVE  ClaimMatches(c)'
<1>1. ~Blocked(c) => ~Blocked(c)'
  <2>1. ASSUME NEW k \in Call, gen[k][c] \in {"none", "CONFIRMED"}
        PROVE  gen'[k][c] \in {"none", "CONFIRMED"}
    <3>1. RowMoves(k, c)
      BY RowStep
    <3>2. gen[k][c] = "none" => gen'[k][c] = "none"
      BY DEF NoClaimNoConfirm
    <3> QED
      BY <2>1, <3>1, <3>2 DEF RowMoves
  <2> QED
    BY <2>1 DEF Blocked, TypeOK, RowState
<1>2. ASSUME owner[c] # 0, gen[owner[c]][c] \notin {"none", "CONFIRMED"}
      PROVE  gen'[owner[c]][c] \notin {"none", "CONFIRMED"}
  <2>1. owner[c] \in Call
    BY <1>2, GenerationAssumption DEF TypeOK, Call
  <2> QED
    BY <1>2, <2>1, RowStep, DoubtStays DEF NoClaimNoConfirm
<1> QED
  BY <1>1, <1>2 DEF ClaimMatches

LEMMA NextClaimMatchesLedger ==
  TypeOK /\ CallInv /\ NoCallAfterUnknown /\ ClaimMatchesLedger /\ [Next]_vars
    => ClaimMatchesLedger'
<1> SUFFICES ASSUME TypeOK, CallInv, NoCallAfterUnknown, ClaimMatchesLedger, [Next]_vars,
                    NEW c \in Candidates
             PROVE  ClaimMatches(c)'
  BY DEF ClaimMatchesLedger, ClaimMatches
<1>0. ClaimMatches(c)
  BY DEF ClaimMatchesLedger, ClaimMatches
<1>1. CASE UNCHANGED <<cand, owner, gen>>
  BY <1>0, <1>1, MatchKept DEF NoClaimNoConfirm
<1>2. ASSUME NEW p \in Converters, NEW S \in Messages, NEW r \in BOOLEAN, Recover(p, S, r)
      PROVE  ClaimMatches(c)'
  <2>1. (cand'[c] = cand[c] \/ cand'[c] = "MANUAL_REVIEW") /\ owner'[c] = owner[c]
    BY <1>2 DEF Recover
  <2>2. NoClaimNoConfirm(c)
    BY <1>2 DEF NoClaimNoConfirm, Recover, Interrupted, OpenRow
  <2> QED
    BY <1>0, <2>1, <2>2, MatchKept
<1>3. ASSUME NEW p \in Converters, Prepare(p) PROVE ClaimMatches(c)'
  <2>0. /\ calls + 1 \in Call /\ calls + 1 # 0
        /\ gen' = [gen EXCEPT ![calls + 1] =
                    [x \in Candidates |-> IF x \in Missing(p) THEN "PREPARED" ELSE "none"]]
        /\ cand'[c] = IF c \in Missing(p) THEN "GENERATING_AFFILIATE" ELSE cand[c]
        /\ owner'[c] = IF c \in Missing(p) THEN calls + 1 ELSE owner[c]
    BY <1>3, GenerationAssumption DEF Prepare, TypeOK, Call
  <2>1. CASE c \in Missing(p)
    BY <2>0, <2>1 DEF ClaimMatches, TypeOK
  <2>2. CASE c \notin Missing(p)
    <3>1. NoClaimNoConfirm(c)
      BY <2>0, <2>2 DEF NoClaimNoConfirm, TypeOK
    <3> QED
      BY <1>0, <2>0, <2>2, <3>1, MatchKept
  <2> QED
    BY <2>1, <2>2
<1>4. ASSUME NEW p \in Converters, StartCall(p) \/ RecordVerdict(p) PROVE ClaimMatches(c)'
  <2>1. cand' = cand /\ owner' = owner
    BY <1>4 DEF StartCall, RecordVerdict, claims
  <2>2. NoClaimNoConfirm(c)
    BY <1>4 DEF NoClaimNoConfirm, StartCall, RecordVerdict, TypeOK, Conversion
  <2> QED
    BY <1>0, <2>1, <2>2, MatchKept
<1>5. ASSUME NEW p \in Converters, RecordFailure(p) PROVE ClaimMatches(c)'
  <2>1. conv[p].target \in {"MANUAL_REVIEW", "FAILED_PERMANENT"}
    BY <1>5 DEF RecordFailure, CallInv, StageInv, StageOf, TypeOK, Conversion
  <2>2. (cand'[c] = cand[c] \/ cand'[c] \in {"MANUAL_REVIEW", "FAILED_PERMANENT"})
        /\ owner'[c] = owner[c] /\ UNCHANGED gen
    BY <1>5, <2>1 DEF RecordFailure, TypeOK, ledger
  <2> QED
    BY <1>0, <2>2, MatchKept DEF NoClaimNoConfirm
<1>6. ASSUME NEW p \in Converters, Commit(p) PROVE ClaimMatches(c)'
  <2>1. CASE c \in Members(conv[p].call)
    <3>1. cand'[c] = "AFFILIATE_GENERATED"
      BY <1>6, <2>1 DEF Commit, TypeOK
    <3>2. ASSUME NEW k \in Call PROVE gen'[k][c] \in {"none", "CONFIRMED"}
      <4>1. CASE k = conv[p].call
        BY <1>6, <2>1, <4>1 DEF Commit, TypeOK, Members
      <4>2. CASE k # conv[p].call
        <5>1. gen'[k] = gen[k]
          BY <1>6, <4>2 DEF Commit, TypeOK
        <5>2. gen[k][c] \in {"none", "CONFIRMED"}
          BY <1>6, <2>1, <4>2, CommittedCall DEF Call
        <5> QED
          BY <5>1, <5>2
      <4> QED
        BY <4>1, <4>2
    <3> QED
      BY <3>1, <3>2 DEF ClaimMatches, Blocked
  <2>2. CASE c \notin Members(conv[p].call)
    <3>1. cand'[c] = cand[c] /\ owner'[c] = owner[c]
      BY <1>6, <2>2 DEF Commit, TypeOK
    <3>2. \A k \in Call : gen'[k][c] = gen[k][c]
      BY <1>6, <2>2 DEF Commit, TypeOK, Members
    <3> QED
      BY <1>0, <3>1, <3>2, MatchKept DEF NoClaimNoConfirm
  <2> QED
    BY <2>1, <2>2
<1>7. \/ UNCHANGED <<cand, owner, gen>>
      \/ \E p \in Converters :
           \/ \E S \in Messages, r \in BOOLEAN : Recover(p, S, r)
           \/ Prepare(p) \/ StartCall(p) \/ RecordVerdict(p) \/ RecordFailure(p) \/ Commit(p)
  BY DEF Next, Convert, RequestGeneration, Leave, FailBeforeStart, Request, CommitFails,
         Cancel, Crash, LeaseExpires, ProofExpires, vars, claims, ledger
<1> QED
  BY <1>1, <1>2, <1>3, <1>4, <1>5, <1>6, <1>7

-----------------------------------------------------------------------------
(* The theorems.                                                           *)

LEMMA GenerationInvAlways == Spec => []GenerationInv
<1>1. Init => GenerationInv
  BY InitGenerationInv
<1>2. GenerationInv /\ [Next]_vars => GenerationInv'
  <2> SUFFICES ASSUME GenerationInv, [Next]_vars PROVE GenerationInv'
    OBVIOUS
  <2>1. TypeOK' /\ CallInv'
    BY NextTypeOK, NextCallsInv, NextOwnCall, NextStageInv DEF GenerationInv, CallInv
  <2>2. NoCallAfterUnknown' /\ WireIsAudited'
    BY NextNoCallAfterUnknown, NextWireIsAudited DEF GenerationInv
  <2>3. ProofIsNewestConfirmed' /\ ClaimMatchesLedger'
    BY NextProofIsNewestConfirmed, NextClaimMatchesLedger DEF GenerationInv
  <2> QED
    BY <2>1, <2>2, <2>3 DEF GenerationInv
<1> QED
  BY <1>1, <1>2, PTL DEF Spec

\* The variables keep their types, and no candidate is claimed more often
\* than MAX_GENERATION_ATTEMPTS allows (claim_for_generation).
THEOREM TypeCorrect == Spec => []TypeOK
BY GenerationInvAlways, PTL DEF GenerationInv

\* A generation that failed, was refused or is in doubt blocks every later
\* call for its candidate (check_identity, claim_for_generation), for any
\* number of conversions, candidates and calls.
THEOREM NoCallAfterUnknownHolds == Spec => []NoCallAfterUnknown
BY GenerationInvAlways, PTL DEF GenerationInv

\* One request per call, and no row of the ledger denies a request that was
\* made (start_call before the request, recover, fail).
THEOREM WireIsAuditedHolds == Spec => []WireIsAudited
BY GenerationInvAlways, PTL DEF GenerationInv

\* The stored proof is the link of the newest confirmed call, late answers
\* notwithstanding (the commit of _generate_batch).
THEOREM ProofIsNewestConfirmedHolds == Spec => []ProofIsNewestConfirmed
BY GenerationInvAlways, PTL DEF GenerationInv

\* Candidates and ledger agree although failures are recorded in two
\* transactions (_record_history_failure, _record_failures).
THEOREM ClaimMatchesLedgerHolds == Spec => []ClaimMatchesLedger
BY GenerationInvAlways, PTL DEF GenerationInv

\* A resolved generation is final (recover, confirm and fail look at open
\* rows only).
THEOREM ResolvedIsFinalHolds == Spec => ResolvedIsFinal
<1>1. TypeOK /\ CallInv /\ [Next]_vars
        => [\A k \in Call, c \in Candidates :
              gen[k][c] \in Resolved => gen'[k][c] = gen[k][c]]_vars
  <2> SUFFICES ASSUME TypeOK, CallInv, [Next]_vars, NEW k \in Call, NEW c \in Candidates,
                      gen[k][c] \in Resolved
               PROVE  gen'[k][c] = gen[k][c]
    OBVIOUS
  <2> QED
    BY RowStep DEF RowMoves, Resolved
<1> QED
  BY <1>1, GenerationInvAlways, PTL DEF Spec, GenerationInv, ResolvedIsFinal

-----------------------------------------------------------------------------
(* The ledger implements AuditedCalls.                                     *)

\* A call was prepared for some candidate.
AnnouncedInv == \A k \in 1..calls : \E c \in Candidates : gen[k][c] # "none"

\* A refusal is the verdict of a complete answer only.
RefusedInv ==
  \A p \in Converters :
    conv[p].stage = "failing" /\ conv[p].verdict = "REJECTED" => posts[conv[p].call] = 1

LEMMA InitAudited == Init => AnnouncedInv /\ RefusedInv
BY DEF Init, AnnouncedInv, RefusedInv, Idle

LEMMA NextAnnounced ==
  ASSUME TypeOK, CallInv, AnnouncedInv, [Next]_vars
  PROVE  AnnouncedInv'
<1>1. ASSUME NEW k \in 1..calls PROVE \E c \in Candidates : gen'[k][c] # "none"
  <2>1. k \in Call
    BY <1>1, GenerationAssumption DEF TypeOK, Call
  <2>2. PICK c \in Candidates : gen[k][c] # "none"
    BY <1>1 DEF AnnouncedInv
  <2>3. RowMoves(k, c)
    BY <2>1, RowStep
  <2> QED
    BY <2>2, <2>3 DEF RowMoves
<1>2. CASE UNCHANGED calls
  BY <1>1, <1>2 DEF AnnouncedInv
<1>3. ASSUME NEW p \in Converters, Prepare(p) PROVE AnnouncedInv'
  <2>1. calls + 1 \in Call /\ calls' = calls + 1 /\ calls \in Nat
    BY <1>3, GenerationAssumption DEF Prepare, TypeOK, Call
  <2>2. PICK c \in Candidates : c \in Missing(p)
    BY <1>3, GenerationAssumption DEF Prepare, Missing, TypeOK, Conversion
  <2>3. gen'[calls + 1][c] = "PREPARED"
    BY <1>3, <2>1, <2>2 DEF Prepare, TypeOK
  <2>4. \A k \in 1..(calls + 1) : k \in 1..calls \/ k = calls + 1
    BY <2>1
  <2> QED
    BY <1>1, <2>1, <2>3, <2>4 DEF AnnouncedInv
<1> QED
  BY <1>2, <1>3, CallsStep

LEMMA CallOfActive ==
  ASSUME TypeOK, CallInv, NEW p \in Converters, Active(p)
  PROVE  conv[p].call \in 1..calls /\ conv[p].call \in Call
<1>1. conv[p].call \in 1..calls
  BY DEF CallInv, OwnCall
<1>2. calls \in 0..MaxCalls
  BY DEF TypeOK
<1> QED
  BY <1>1, <1>2, GenerationAssumption DEF Call

LEMMA NextRefused ==
  ASSUME TypeOK, CallInv, RefusedInv, [Next]_vars
  PROVE  RefusedInv'
<1> SUFFICES ASSUME NEW q \in Converters,
                    conv'[q].stage = "failing", conv'[q].verdict = "REJECTED"
             PROVE  posts'[conv'[q].call] = 1
  BY DEF RefusedInv
<1>0. conv \in [Converters -> Conversion] /\ conv[q] \in Conversion
  BY DEF TypeOK
<1>1. CASE conv'[q] = conv[q]
  <2>1. posts[conv[q].call] = 1
    BY <1>1 DEF RefusedInv
  <2>2. conv[q].call \in Call
    BY <1>1, CallOfActive DEF Active
  <2> QED
    BY <1>1, <2>1, <2>2, RequestStep
<1>2. ASSUME Request(q) PROVE posts'[conv'[q].call] = 1
  <2>1. /\ posts[conv[q].call] = 0 /\ conv[q].call \in Call
    BY <1>2, CallOfActive DEF Request, CallInv, Active, StageInv, StageOf
  <2>2. conv'[q].call = conv[q].call
    BY <1>0, <1>2 DEF Request, Failing, Conversion
  <2>3. posts'[conv[q].call] = posts[conv[q].call] + 1
    BY <1>0, <1>2, <2>1 DEF Request, Failing, Conversion, TypeOK
  <2> QED
    BY <2>1, <2>2, <2>3
<1>3. CASE CommitFails(q)
  BY <1>0, <1>3 DEF CommitFails, Failing, CallInv, StageInv, StageOf, Conversion, ledger
<1>4. ASSUME NEW p \in Converters, p # q, Convert(p) \/ Cancel(p) \/ Crash(p)
      PROVE  conv'[q] = conv[q]
  BY <1>0, <1>4 DEF Convert, Recover, Leave, Prepare, StartCall, FailBeforeStart, Request, Commit,
     CommitFails, RecordVerdict, RecordFailure, Cancel, Crash, Failing
<1>5. ASSUME Convert(q) \/ Cancel(q) \/ Crash(q), ~Request(q), ~CommitFails(q)
      PROVE  FALSE
  <2>1. ASSUME NEW S \in Messages, NEW b \in BOOLEAN, Recover(q, S, b) PROVE FALSE
    BY <1>0, <2>1 DEF Recover, Idle
  <2>2. CASE Leave(q) \/ Commit(q) \/ RecordFailure(q) \/ Crash(q)
    BY <1>0, <2>2 DEF Leave, Commit, RecordFailure, Crash, Idle
  <2>3. CASE Prepare(q) \/ StartCall(q)
    BY <1>0, <2>3 DEF Prepare, StartCall, Conversion
  <2>4. CASE FailBeforeStart(q) \/ Cancel(q)
    BY <1>0, <2>4 DEF FailBeforeStart, Cancel, Failing, Conversion
  <2>5. CASE RecordVerdict(q)
    BY <1>0, <2>5 DEF RecordVerdict, Idle, Conversion
  <2> QED
    BY <1>5, <2>1, <2>2, <2>3, <2>4, <2>5 DEF Convert
<1>6. UNCHANGED conv \/ \E p \in Converters : Convert(p) \/ Cancel(p) \/ Crash(p)
  BY DEF Next, RequestGeneration, LeaseExpires, ProofExpires, vars
<1> QED
  BY <1>1, <1>2, <1>3, <1>4, <1>5, <1>6

LEMMA AuditedAlways == Spec => [](GenerationInv /\ AnnouncedInv /\ RefusedInv)
<1>1. GenerationInv /\ AnnouncedInv /\ RefusedInv /\ [Next]_vars
        => (AnnouncedInv /\ RefusedInv)'
  BY NextAnnounced, NextRefused DEF GenerationInv
<1> QED
  BY <1>1, InitAudited, GenerationInvAlways, PTL DEF Spec

LEMMA InitMaps == Init => Audit!AuditInit
BY DEF Init, Audit!AuditInit, Verdict, OpenRow

\* What a row can be said to be after a step.
LEMMA VerdictMoves ==
  ASSUME GenerationInv, RefusedInv, [Next]_vars, NEW k \in Call, NEW c \in Candidates,
         gen[k][c] # "none" \/ gen'[k][c] = "none"
  PROVE  \/ Verdict(gen'[k][c]) = Verdict(gen[k][c])
         \/ /\ Verdict(gen[k][c]) = "open"
            /\ Verdict(gen'[k][c]) \in (IF posts[k] = 0 THEN {"void", "unknown"}
                                         ELSE {"confirmed", "refused", "unknown"})
<1>1. RowMoves(k, c)
  BY RowStep DEF GenerationInv
<1>2. gen[k][c] = "PREPARED" => posts[k] = 0
  <2>1. posts[k] \in Nat /\ posts[k] <= 1
    BY DEF GenerationInv, TypeOK, WireIsAudited
  <2>2. gen[k][c] = "PREPARED" => posts[k] # 1
    BY DEF GenerationInv, WireIsAudited, Members
  <2> QED
    BY <2>1, <2>2
<1>3. ASSUME gen[k][c] = "CALL_STARTED", gen'[k][c] = "REJECTED"
      PROVE  posts[k] = 1
  <2>1. ASSUME NEW p \in Converters, RecordVerdict(p) PROVE posts[k] = 1
    <3>1. gen[k][c] # gen'[k][c] => k = conv[p].call /\ conv[p].verdict = "REJECTED"
      BY <1>3, <2>1 DEF RecordVerdict, GenerationInv, TypeOK
    <3> QED
      BY <1>3, <2>1, <3>1 DEF RecordVerdict, RefusedInv
  <2>2. ASSUME NEW p \in Converters,
               \/ \E S \in Messages, r \in BOOLEAN : Recover(p, S, r)
               \/ StartCall(p) \/ Commit(p)
        PROVE  FALSE
    <3>1. gen \in [Call -> [Candidates -> RowState]]
      BY DEF GenerationInv, TypeOK
    <3>2. ASSUME NEW S \in Messages, NEW r \in BOOLEAN, Recover(p, S, r) PROVE FALSE
      BY <1>3, <3>2 DEF Recover, Interrupted, OpenRow
    <3>3. CASE StartCall(p)
      BY <1>3, <3>1, <3>3 DEF StartCall
    <3>4. CASE Commit(p)
      BY <1>3, <3>1, <3>4 DEF Commit
    <3> QED
      BY <2>2, <3>2, <3>3, <3>4
  <2>3. ASSUME NEW p \in Converters, Prepare(p) PROVE FALSE
    BY <1>3, <2>3 DEF Prepare, GenerationInv, TypeOK
  <2>4. \E p \in Converters :
          \/ \E S \in Messages, r \in BOOLEAN : Recover(p, S, r)
          \/ Prepare(p) \/ StartCall(p) \/ Commit(p) \/ RecordVerdict(p)
    BY <1>3 DEF Next, Convert, RequestGeneration, Leave, FailBeforeStart, Request, CommitFails,
       Cancel, RecordFailure, Crash, LeaseExpires, ProofExpires, vars, ledger
  <2> QED
    BY <2>1, <2>2, <2>3, <2>4
<1> QED
  BY <1>1, <1>2, <1>3 DEF RowMoves, Verdict, OpenRow

\* A preparation announces its call.
LEMMA PrepareMaps ==
  ASSUME GenerationInv, [Next]_vars, NEW p \in Converters, Prepare(p)
  PROVE  Audit!AuditNext
<1> DEFINE k == calls + 1
           S == Missing(p)
<1>1. k \in Call /\ k > calls
  BY GenerationAssumption DEF Prepare, GenerationInv, TypeOK, Call
<1>2. S \in SUBSET Candidates /\ S # {}
  BY DEF Prepare, Missing, GenerationInv, TypeOK, Conversion
<1>3. posts[k] = 0 /\ \A c \in Candidates : gen[k][c] = "none"
  BY <1>1 DEF GenerationInv, CallInv, CallsInv
<1>4. \A c \in S, j \in Call : gen[j][c] \in {"none", "CONFIRMED"}
  BY <1>2 DEF Prepare, Generatable, Claimable, Blocked, GenerationInv, TypeOK
<1>5. /\ UNCHANGED posts
      /\ gen' = [gen EXCEPT ![k] = [c \in Candidates |-> IF c \in S THEN "PREPARED" ELSE "none"]]
  BY DEF Prepare
<1>6. gen \in [Call -> [Candidates -> RowState]]
  BY DEF GenerationInv, TypeOK
<1> HIDE DEF k, S
<1>7. [j \in Call |-> [c \in Candidates |-> Verdict(gen'[j][c])]]
        = [[j \in Call |-> [c \in Candidates |-> Verdict(gen[j][c])]]
             EXCEPT ![k] = [c \in Candidates |-> IF c \in S THEN "open" ELSE "none"]]
  BY <1>1, <1>5, <1>6 DEF Verdict, OpenRow
<1>8. \A c \in Candidates : Verdict(gen[k][c]) = "none"
  BY <1>3 DEF Verdict, OpenRow
<1>9. \A c \in S, j \in Call : Verdict(gen[j][c]) \in {"none", "confirmed"}
  BY <1>4 DEF Verdict, OpenRow
<1>10. Audit!Announce(k, S)
  BY <1>1, <1>2, <1>3, <1>5, <1>7, <1>8, <1>9 DEF Audit!Announce
<1> QED
  BY <1>1, <1>2, <1>10 DEF Audit!AuditNext

\* A request is made of an announced call.
LEMMA RequestMaps ==
  ASSUME GenerationInv, AnnouncedInv, [Next]_vars, posts' # posts
  PROVE  Audit!AuditNext
<1>1. PICK p \in Converters : Request(p) \/ Cancel(p) \/ Crash(p)
  BY DEF Next, Convert, RequestGeneration, Recover, Prepare, StartCall, Leave, FailBeforeStart,
         Commit, CommitFails, RecordVerdict, RecordFailure, LeaseExpires, ProofExpires, vars
<1> DEFINE k == conv[p].call
<1>2. posts \in [Call -> Nat]
  BY DEF GenerationInv, TypeOK
<1>3. conv[p].stage \in {"prepared", "started", "answered"} => k \in 1..calls /\ k \in Call
  BY CallOfActive DEF GenerationInv, Active
<1>4. conv[p].stage = "started" /\ posts' = [posts EXCEPT ![k] = posts[k] + 1]
  <2>1. \A n \in {0} : k \in Call => [posts EXCEPT ![k] = posts[k] + n] = posts
    BY <1>2
  <2> QED
    BY <1>1, <1>2, <1>3, <2>1 DEF Request, Cancel, Crash
<1>5. k \in 1..calls /\ k \in Call /\ posts[k] = 0 /\ RowsIn(k, {"CALL_STARTED", "UNCERTAIN"})
  BY <1>3, <1>4 DEF GenerationInv, CallInv, StageInv, StageOf
<1>6. UNCHANGED gen
  BY <1>1 DEF Request, Cancel, Crash, ledger
<1> HIDE DEF k
<1>7. PICK c \in Candidates : gen[k][c] # "none"
  BY <1>5 DEF AnnouncedInv
<1>8. Verdict(gen[k][c]) # "none"
  BY <1>5, <1>7 DEF RowsIn, Verdict, OpenRow
<1>9. \A d \in Candidates : Verdict(gen[k][d]) \in {"none", "open", "unknown"}
  BY <1>5 DEF RowsIn, Verdict, OpenRow
<1>10. posts' = [posts EXCEPT ![k] = 1]
  BY <1>4, <1>5
<1>11. Audit!Ask(k)
  BY <1>5, <1>6, <1>8, <1>9, <1>10 DEF Audit!Ask
<1> QED
  BY <1>5, <1>11 DEF Audit!AuditNext

LEMMA StepMaps ==
  ASSUME GenerationInv, AnnouncedInv, RefusedInv, [Next]_vars
  PROVE  Audit!AuditNext
<1>1. CASE \E p \in Converters : Prepare(p)
  BY <1>1, PrepareMaps
<1>2. CASE posts' # posts
  BY <1>2, RequestMaps
<1>3. CASE posts' = posts /\ ~\E p \in Converters : Prepare(p)
  <2>1. UNCHANGED calls
    BY <1>3, CallsStep DEF GenerationInv
  <2>2. ASSUME NEW k \in Call, NEW c \in Candidates
        PROVE  gen[k][c] # "none" \/ gen'[k][c] = "none"
    <3>1. RowMoves(k, c)
      BY RowStep DEF GenerationInv
    <3>2. calls \in Nat
      BY DEF GenerationInv, TypeOK
    <3> QED
      BY <2>1, <3>1, <3>2 DEF RowMoves
  <2>3. \A k \in Call, c \in Candidates : Verdict(gen'[k][c]) \in Audit!Verdicts
    BY DEF Verdict, Audit!Verdicts
  <2>4. \A k \in Call, c \in Candidates :
          \/ Verdict(gen'[k][c]) = Verdict(gen[k][c])
          \/ Verdict(gen[k][c]) = "open" /\ Verdict(gen'[k][c]) \in Audit!Possible(k)
    BY <2>2, VerdictMoves DEF Audit!Possible
  <2>5. Audit!Settle
    BY <1>3, <2>3, <2>4 DEF Audit!Settle
  <2> QED
    BY <2>5 DEF Audit!AuditNext
<1> QED
  BY <1>1, <1>2, <1>3

\* Conversions keep the promise of AuditedCalls, for any number of them and
\* of candidates and calls: the ledger and the wire change only as that
\* module allows.
THEOREM LedgerImplementsAuditedCalls == Spec => ImplementsAuditedCalls
<1>1. Spec => Audit!AuditInit /\ [][Audit!AuditNext]_(Audit!auditVars)
  BY InitMaps, StepMaps, AuditedAlways, PTL DEF Spec
<1> QED
  BY <1>1 DEF ImplementsAuditedCalls, Audit!AuditSpec
=============================================================================
