------------------------ MODULE CoinGeneration_proofs ------------------------
(***************************************************************************)
(* What holds of coin generation for every set of shorts, messages and     *)
(* preparations, proved with TLAPS.                                        *)
(***************************************************************************)
EXTENDS CoinGeneration, FiniteSetTheorems, WellFoundedInduction, TLAPS

\* Stages in which a preparation makes the call it claimed.
Holding == {"claimed", "started", "waiting", "answered", "rejected", "uncertain"}

\* The ledger admits that the call was under way.
Called(k) == gen[k].state \notin {"none", "PREPARED", "FAILED"}

\* The call still has its evidence row.
Backed(id, k) == id \in DOMAIN evidence /\ evidence[id].call = k

\* The link was made, for this short, and its row is deleted after its day only.
Genuine(id, k) == gen[k].state = "CONFIRMED" /\ (k \in lapsed \/ Backed(id, k))

-----------------------------------------------------------------------------
(* The inductive invariant: the rows.                                      *)

\* Calls are numbered as they are prepared; nothing is requested before.
CallsAreNumbered ==
  \A k \in Call : (gen[k].state = "none" <=> calls < k) /\ (gen[k].state = "none" => posts[k] = 0)

\* Every id was the next one of some claim.
IdsAreBounded == \A id \in DOMAIN evidence : id <= calls + Cardinality(LegacyInputs)

\* A row older than the ledger is the only thing there is of its short.
LegacyAlone ==
  \A id \in DOMAIN evidence : LegacyRow(id) =>
    /\ evidence[id].state = "READY"
    /\ \A k \in Call : gen[k].state # "none" => gen[k].input # evidence[id].input

\* A link has its row until its day is over.
LinksHaveRows ==
  /\ \A k \in lapsed : gen[k].state = "CONFIRMED"
  /\ \A k \in Call : gen[k].state = "CONFIRMED" =>
       k \in lapsed \/ \E id \in DOMAIN evidence : evidence[id].call = k

RowsInv ==
  CallsAreNumbered /\ IdsAreBounded /\ LegacyAlone /\ LinksHaveRows
  /\ EvidenceMatchesLedger /\ NoCallAfterUnknown /\ WireIsAudited

-----------------------------------------------------------------------------
(* The inductive invariant: the preparations and what they leave.          *)

OneHolder ==
  \A p, q \in Preparers :
    p # q /\ task[p].stage \in Holding /\ task[q].stage \in Holding => task[p].call # task[q].call

\* The call of a preparation is of its short, is on the wire after "started"
\* only, and the ledger has admitted it by then.
CallOK(p) ==
  LET k == task[p].call IN
  /\ task[p].stage \in Holding =>
       k \in Call /\ gen[k].state # "none" /\ gen[k].input = task[p].input
  /\ task[p].stage \in {"claimed", "started"} => posts[k] = 0
  /\ task[p].stage \in {"started", "waiting", "answered", "rejected"} => Called(k)

\* The watched row stays the row of the short: its link is too young to purge.
WatchOK(p) ==
  LET id == task[p].id IN
  task[p].stage = "watching" =>
    /\ id \in DOMAIN evidence
    /\ evidence[id].input = task[p].input /\ evidence[id].call # 0
    /\ evidence[id].state = "READY" => evidence[id].call \in task[p].young

\* Links taken so far are genuine; with the shorts to come, the one at hand
\* among them, they are those of the message.
HaveOK(p) ==
  /\ \A h \in task[p].have : Genuine(h.id, h.call) /\ gen[h.call].input = h.input
  /\ task[p].stage # "idle" =>
       task[p].todo \cup {h.input : h \in task[p].have} = InputsOf[task[p].message]
  /\ task[p].stage \notin {"idle", "opened", "listed", "next"} => task[p].input \in task[p].todo

YoungOK(p) == task[p].young \cap lapsed = {}

TaskOK(p) == CallOK(p) /\ WatchOK(p) /\ HaveOK(p) /\ YoungOK(p)

\* The links of a preview are genuine, and those of the shorts of its message.
PreviewOK(m) ==
  /\ \A l \in preview[m] : Genuine(l.id, l.text)
  /\ preview[m] # {} => {gen[l.text].input : l \in preview[m]} = InputsOf[m]

CoinInv ==
  /\ TypeOK
  /\ RowsInv
  /\ OneHolder
  /\ \A p \in Preparers : TaskOK(p)
  /\ \A m \in Messages : PreviewOK(m)
-----------------------------------------------------------------------------
(* How a step may change the data, and what that leaves of the invariant.  *)

\* Calls keep their short, confirmed calls stay confirmed and calls under way
\* stay admitted; a row goes away only when it is old, and becomes a link in
\* front of all that may watch it.
Advances ==
  /\ \A k \in Call : gen[k].state # "none" =>
       /\ gen'[k].state # "none" /\ gen'[k].input = gen[k].input
       /\ gen[k].state = "CONFIRMED" => gen'[k].state = "CONFIRMED"
       /\ Called(k) => Called(k)'
  /\ lapsed \subseteq lapsed'
  /\ \A id \in DOMAIN evidence : LegacyRow(id) \/ Purged(id) \/
       /\ id \in DOMAIN evidence'
       /\ evidence'[id].input = evidence[id].input /\ evidence'[id].call = evidence[id].call
       /\ evidence'[id].state = "READY" => evidence[id].state = "READY" \/
            \A p \in Preparers : task[p].stage = "watching" => evidence[id].call \in task'[p].young

\* A preparation that the step does not move.
Kept(q) ==
  /\ task'[q].stage = task[q].stage /\ task'[q].message = task[q].message
  /\ task'[q].todo = task[q].todo /\ task'[q].have = task[q].have
  /\ task'[q].input = task[q].input /\ task'[q].id = task[q].id
  /\ task'[q].call = task[q].call
  /\ task[q].young \subseteq task'[q].young /\ YoungOK(q)'
  /\ task[q].stage \in Holding => posts'[task[q].call] = posts[task[q].call]

TaskType ==
  [stage : Stage, message : Messages, byRequest : BOOLEAN, todo : SUBSET Inputs,
   looked : SUBSET Inputs, misses : SUBSET Inputs, have : SUBSET Outcome, input : Inputs,
   id : Id \cup {0}, call : 0..MaxCalls, young : SUBSET Call]

LEMMA GenuineAdvances ==
  ASSUME Advances, NEW k \in Call, NEW id, Genuine(id, k)
  PROVE  Genuine(id, k)' /\ gen'[k].input = gen[k].input
<1>1. gen'[k].state = "CONFIRMED" /\ gen'[k].input = gen[k].input
  BY DEF Advances, Genuine
<1>2. CASE k \in lapsed
  BY <1>1, <1>2 DEF Advances, Genuine
<1>3. CASE k \notin lapsed
  <2>1. id \in DOMAIN evidence /\ evidence[id].call = k /\ k # 0
    BY <1>3 DEF Genuine, Backed, Call
  <2>2. ~LegacyRow(id) /\ ~Purged(id)
    BY <2>1, <1>3 DEF LegacyRow, Purged
  <2>3. id \in DOMAIN evidence' /\ evidence'[id].call = evidence[id].call
    BY <2>1, <2>2 DEF Advances
  <2> QED
    BY <1>1, <2>1, <2>3 DEF Genuine, Backed
<1> QED
  BY <1>2, <1>3

LEMMA HaveAdvances ==
  ASSUME TypeOK, Advances, NEW p \in Preparers, HaveOK(p),
         task'[p].have = task[p].have
  PROVE  \A h \in task'[p].have : Genuine(h.id, h.call)' /\ gen'[h.call].input = h.input
<1> SUFFICES ASSUME NEW h \in task[p].have
             PROVE  Genuine(h.id, h.call)' /\ gen'[h.call].input = h.input
  OBVIOUS
<1>1. h.call \in Call
  BY DEF TypeOK, Outcome
<1> QED
  BY <1>1, GenuineAdvances DEF HaveOK

LEMMA WatchAdvances ==
  ASSUME Advances, NEW p \in Preparers, WatchOK(p), YoungOK(p), Kept(p)
  PROVE  WatchOK(p)'
<1> SUFFICES ASSUME task[p].stage = "watching"
             PROVE  LET id == task[p].id IN
                    /\ id \in DOMAIN evidence'
                    /\ evidence'[id].input = task[p].input /\ evidence'[id].call # 0
                    /\ evidence'[id].state = "READY" => evidence'[id].call \in task'[p].young
  BY DEF WatchOK, Kept
<1> DEFINE id == task[p].id
<1>1. /\ id \in DOMAIN evidence /\ evidence[id].input = task[p].input
      /\ ~LegacyRow(id) /\ ~Purged(id)
  BY DEF WatchOK, LegacyRow, Purged, YoungOK
<1>2. /\ id \in DOMAIN evidence'
      /\ evidence'[id].input = evidence[id].input /\ evidence'[id].call = evidence[id].call
      /\ evidence'[id].state = "READY" => evidence[id].state = "READY" \/
            evidence[id].call \in task'[p].young
  BY <1>1 DEF Advances
<1> QED
  BY <1>1, <1>2 DEF WatchOK, Kept, LegacyRow

LEMMA KeptIsOK ==
  ASSUME TypeOK, Advances, NEW p \in Preparers, TaskOK(p), Kept(p)
  PROVE  TaskOK(p)'
<1>1. CallOK(p)'
  <2>1. task[p].stage \in Holding =>
          task[p].call \in Call /\ gen[task[p].call].state # "none"
          /\ gen[task[p].call].input = task[p].input
    BY DEF TaskOK, CallOK
  <2> QED
    BY <2>1 DEF TaskOK, CallOK, Kept, Advances, Holding
<1>2. WatchOK(p)'
  BY WatchAdvances DEF TaskOK
<1>3. HaveOK(p)'
  <2>1. \A h \in task'[p].have : Genuine(h.id, h.call)' /\ gen'[h.call].input = h.input
    BY HaveAdvances DEF TaskOK, Kept
  <2> QED
    BY <2>1 DEF TaskOK, HaveOK, Kept
<1> QED
  BY <1>1, <1>2, <1>3 DEF TaskOK, Kept

LEMMA PreviewAdvances ==
  ASSUME TypeOK, Advances, NEW m \in Messages, PreviewOK(m),
         preview'[m] \in {{}, preview[m]}
  PROVE  PreviewOK(m)'
<1>1. CASE preview'[m] = {}
  BY <1>1 DEF PreviewOK
<1>2. CASE preview'[m] = preview[m]
  <2>1. ASSUME NEW l \in preview[m]
        PROVE  Genuine(l.id, l.text)' /\ gen'[l.text].input = gen[l.text].input
    <3>1. l.text \in Call
      BY DEF TypeOK, PreviewLink
    <3> QED
      BY <3>1, GenuineAdvances DEF PreviewOK
  <2>2. {gen'[l.text].input : l \in preview'[m]} = {gen[l.text].input : l \in preview[m]}
    BY <1>2, <2>1
  <2> QED
    BY <1>2, <2>1, <2>2 DEF PreviewOK
<1> QED
  BY <1>1, <1>2

\* A step of one preparation: it is enough to look at that preparation, at the
\* rows, and at the previews that it makes.
LEMMA StepOfOne ==
  ASSUME CoinInv, TypeOK', RowsInv', Advances,
         NEW p \in Preparers, TaskOK(p)',
         \A q \in Preparers \ {p} : Kept(q),
         task'[p].stage \in Holding => \A q \in Preparers \ {p} :
           task[q].stage \in Holding => task[q].call # task'[p].call,
         \A m \in Messages : preview'[m] \in {{}, preview[m]} \/ PreviewOK(m)'
  PROVE  CoinInv'
<1>1. \A q \in Preparers : TaskOK(q)'
  <2> SUFFICES ASSUME NEW q \in Preparers, q # p PROVE TaskOK(q)'
    OBVIOUS
  <2> QED
    BY KeptIsOK DEF CoinInv
<1>2. OneHolder'
  BY DEF CoinInv, OneHolder, Kept
<1>3. \A m \in Messages : PreviewOK(m)'
  BY PreviewAdvances DEF CoinInv
<1> QED
  BY <1>1, <1>2, <1>3 DEF CoinInv

LEMMA StepOfNone ==
  ASSUME CoinInv, TypeOK', RowsInv', Advances,
         \A q \in Preparers : Kept(q),
         UNCHANGED preview
  PROVE  CoinInv'
<1>1. \A q \in Preparers : TaskOK(q)'
  BY KeptIsOK DEF CoinInv
<1>2. OneHolder'
  BY DEF CoinInv, OneHolder, Kept
<1>3. \A m \in Messages : PreviewOK(m)'
  BY PreviewAdvances DEF CoinInv
<1> QED
  BY <1>1, <1>2, <1>3 DEF CoinInv

-----------------------------------------------------------------------------
(* The id of the next row.                                                 *)

\* A bounded set of numbers has a largest one: the least bound is in the set.
LEMMA MaxExists ==
  ASSUME NEW T \in SUBSET Nat, T # {}, NEW n \in Nat, \A y \in T : y <= n
  PROVE  \E x \in T : \A y \in T : y <= x
<1> DEFINE U == {b \in Nat : \A y \in T : y <= b}
<1>1. U \subseteq Nat /\ U # {}
  OBVIOUS
<1>2. IsWellFoundedOn(OpToRel(<, Nat), Nat)
  BY NatLessThanWellFounded
<1> HIDE DEF U
<1>3. PICK x \in U : \A y \in U : ~(<<y, x>> \in OpToRel(<, Nat))
  BY <1>1, <1>2, WFMin
<1>4. \A y \in U : ~(y < x)
  BY <1>1, <1>3 DEF OpToRel
<1>5. x \in Nat /\ \A y \in T : y <= x
  BY <1>3 DEF U
<1>6. x \in T
  <2> SUFFICES ASSUME x \notin T
               PROVE  FALSE
    OBVIOUS
  <2>1. PICK z \in T : z \in Nat /\ z <= x /\ z # x
    BY <1>5
  <2>2. x - 1 \in Nat /\ x - 1 < x
    BY <1>5, <2>1
  <2>3. ASSUME NEW y \in T PROVE y <= x - 1
    BY <1>5, <2>3
  <2>4. x - 1 \in U
    BY <2>2, <2>3 DEF U
  <2> QED
    BY <1>4, <2>2, <2>4
<1> QED
  BY <1>5, <1>6

LEMMA NextIdIsFresh ==
  ASSUME NEW n \in Nat, NEW ids \in SUBSET (1..n)
  PROVE  NextId(ids) \in 1..(n + 1) /\ NextId(ids) \notin ids
<1>1. CASE ids = {}
  BY <1>1 DEF NextId
<1>2. CASE ids # {}
  <2> DEFINE x == CHOOSE x \in ids : \A y \in ids : y <= x
  <2>1. ids \in SUBSET Nat /\ \A y \in ids : y <= n
    OBVIOUS
  <2>2. \E z \in ids : \A y \in ids : y <= z
    BY <1>2, <2>1, MaxExists
  <2>3. x \in ids /\ \A y \in ids : y <= x
    BY <2>2
  <2>4. NextId(ids) = 1 + x
    BY <1>2 DEF NextId
  <2> HIDE DEF x
  <2> QED
    BY <2>3, <2>4
<1> QED
  BY <1>1, <1>2

LEMMA LegacyIsFinite == IsFiniteSet(LegacyInputs) /\ Cardinality(LegacyInputs) \in Nat
BY CoinAssumption, FS_Subset, FS_CardinalityType

-----------------------------------------------------------------------------
(* The initial states.                                                     *)

LEMMA NoTaskType == NoTask \in TaskType /\ NoTask.stage = "idle" /\ NoTask.have = {} /\ NoTask.young = {}
<1>1. (CHOOSE m \in Messages : TRUE) \in Messages /\ (CHOOSE i \in Inputs : TRUE) \in Inputs
  BY CoinAssumption
<1> QED
  BY <1>1, CoinAssumption DEF NoTask, TaskType, Stage

LEMMA IdleIsOK ==
  ASSUME NEW p \in Preparers, task'[p] = NoTask
  PROVE  TaskOK(p)' /\ task'[p].stage \notin Holding
<1>1. task'[p].stage = "idle" /\ task'[p].have = {} /\ task'[p].young = {}
  BY NoTaskType
<1> QED
  BY <1>1 DEF TaskOK, CallOK, WatchOK, HaveOK, YoungOK, Holding

LEMMA InitInv == Init => CoinInv
<1> SUFFICES ASSUME Init PROVE CoinInv
  OBVIOUS
<1> DEFINE n == Cardinality(LegacyInputs)
<1>1. PICK order \in [1..n -> LegacyInputs] :
        /\ \A i \in LegacyInputs : \E id \in DOMAIN order : order[id] = i
        /\ evidence = [id \in DOMAIN order |-> [input |-> order[id], call |-> 0, state |-> "READY"]]
  BY DEF Init
<1>2. n \in Nat /\ IsFiniteSet(LegacyInputs) /\ MaxCalls \in Nat
  BY LegacyIsFinite, CoinAssumption
<1>3. \A x, y \in 1..n : order[x] = order[y] => x = y
  <2>1. order \in Surjection(1..n, LegacyInputs)
    BY <1>1 DEF Surjection
  <2>2. IsFiniteSet(1..n) /\ Cardinality(1..n) = n
    BY <1>2, FS_Interval
  <2> HIDE DEF n
  <2>3. order \in Injection(1..n, LegacyInputs)
    BY <1>2, <2>1, <2>2, FS_SurjSameCardinalityImpliesInj DEF n
  <2> QED
    BY <2>3 DEF Injection, IsInjective
<1> HIDE DEF n
<1>4. /\ DOMAIN evidence = 1..n
      /\ \A id \in 1..n : evidence[id].input = order[id] /\ evidence[id].call = 0
                          /\ evidence[id].state = "READY" /\ evidence[id] \in EvidenceRow
  BY <1>1, <1>2, CoinAssumption DEF EvidenceRow
<1>5. 1..n \subseteq Id /\ \A id \in 1..n : id <= 0 + n
  BY <1>2 DEF Id, n
<1>6. gen \in [Call -> GenerationRow] /\ \A k \in Call : gen[k].state = "none"
  <2>1. (CHOOSE i \in Inputs : TRUE) \in Inputs
    BY CoinAssumption
  <2> QED
    BY <2>1 DEF Init, GenerationRow
<1>7. TypeOK
  <2>1. task \in [Preparers -> TaskType]
    BY NoTaskType DEF Init
  <2>2. \A x, y \in DOMAIN evidence : evidence[x].input = evidence[y].input => x = y
    BY <1>3, <1>4
  <2>3. calls \in 0..MaxCalls /\ apiCalls \in 0..MaxApiCalls
    BY CoinAssumption DEF Init
  <2> QED
    BY <2>1, <2>2, <2>3, <1>4, <1>5, <1>6 DEF Init, TypeOK, TaskType
<1>8. RowsInv
  <2>1. CallsAreNumbered
    BY <1>6, <1>2 DEF Init, CallsAreNumbered, Call
  <2>2. IdsAreBounded
    BY <1>4, <1>5 DEF Init, IdsAreBounded, n
  <2>3. LegacyAlone
    BY <1>4, <1>6 DEF LegacyAlone
  <2>4. LinksHaveRows
    BY <1>6 DEF Init, LinksHaveRows
  <2>5. EvidenceMatchesLedger
    BY <1>4, <1>6 DEF EvidenceMatchesLedger, OpenRow
  <2>6. NoCallAfterUnknown /\ WireIsAudited
    BY <1>6 DEF Init, NoCallAfterUnknown, WireIsAudited
  <2> QED
    BY <2>1, <2>2, <2>3, <2>4, <2>5, <2>6 DEF RowsInv
<1>9. \A p \in Preparers : task[p].stage = "idle" /\ task[p].have = {} /\ task[p].young = {}
  BY NoTaskType DEF Init
<1>10. OneHolder /\ \A p \in Preparers : TaskOK(p)
  BY <1>9 DEF OneHolder, TaskOK, CallOK, WatchOK, HaveOK, YoungOK, Holding
<1>11. \A m \in Messages : PreviewOK(m)
  BY DEF Init, PreviewOK
<1> QED
  BY <1>7, <1>8, <1>10, <1>11 DEF CoinInv

-----------------------------------------------------------------------------
(* Steps that leave the rows alone.                                        *)

LEMMA RowsUnchanged ==
  ASSUME CoinInv, UNCHANGED <<evidence, gen, lapsed, calls, posts>>
  PROVE  RowsInv' /\ Advances
<1>1. Advances
  BY DEF Advances, Called
<1>2. CallsAreNumbered' /\ IdsAreBounded' /\ LegacyAlone' /\ LinksHaveRows'
  BY DEF CoinInv, RowsInv, CallsAreNumbered, IdsAreBounded, LegacyAlone, LegacyRow, LinksHaveRows
<1>3. EvidenceMatchesLedger' /\ NoCallAfterUnknown' /\ WireIsAudited'
  BY DEF CoinInv, RowsInv, EvidenceMatchesLedger, NoCallAfterUnknown, WireIsAudited
<1> QED
  BY <1>1, <1>2, <1>3 DEF RowsInv

LEMMA OthersKept ==
  ASSUME CoinInv, NEW p \in Preparers, NEW t, task' = [task EXCEPT ![p] = t],
         lapsed' = lapsed, posts' = posts
  PROVE  \A q \in Preparers \ {p} : Kept(q)
BY DEF CoinInv, TypeOK, TaskOK, YoungOK, Kept

LEMMA TaskStep ==
  ASSUME CoinInv, NEW p \in Preparers, NEW t \in TaskType, task' = [task EXCEPT ![p] = t],
         UNCHANGED <<db, time, calls, posts>>, apiCalls' \in 0..MaxApiCalls,
         TaskOK(p)',
         t.stage \in Holding => task[p].stage \in Holding /\ t.call = task[p].call
  PROVE  CoinInv'
<1>1. TypeOK'
  <2>1. task' \in [Preparers -> TaskType]
    BY DEF CoinInv, TypeOK, TaskType
  <2> QED
    BY <2>1 DEF CoinInv, TypeOK, TaskType, db, time
<1>2. RowsInv' /\ Advances
  BY RowsUnchanged DEF db, time
<1>3. \A q \in Preparers \ {p} : Kept(q)
  BY OthersKept DEF time
<1>4. task'[p].stage \in Holding => \A q \in Preparers \ {p} :
        task[q].stage \in Holding => task[q].call # task'[p].call
  BY DEF CoinInv, TypeOK, OneHolder
<1>5. \A m \in Messages : preview'[m] \in {{}, preview[m]}
  BY DEF db
<1> QED
  BY <1>1, <1>2, <1>3, <1>4, <1>5, StepOfOne

LEMMA ResetStep ==
  ASSUME CoinInv, NEW p \in Preparers, task' = [task EXCEPT ![p] = NoTask],
         UNCHANGED <<db, time, calls, posts>>, apiCalls' \in 0..MaxApiCalls
  PROVE  CoinInv'
<1>1. task'[p] = NoTask
  BY DEF CoinInv, TypeOK
<1>2. NoTask \in TaskType /\ NoTask.stage \notin Holding
  BY NoTaskType DEF Holding
<1> QED
  BY <1>1, <1>2, IdleIsOK, TaskStep

\* What To does to the preparation.
LEMMA Moved ==
  ASSUME TypeOK, NEW p \in Preparers, NEW s \in Stage, To(p, s)
  PROVE  \E t \in TaskType :
           /\ task' = [task EXCEPT ![p] = t] /\ task'[p] = t
           /\ t.stage = s /\ t.message = task[p].message /\ t.todo = task[p].todo
           /\ t.have = task[p].have /\ t.input = task[p].input /\ t.id = task[p].id
           /\ t.call = task[p].call /\ t.young = task[p].young
<1> DEFINE t == [task[p] EXCEPT !.stage = s]
<1>1. task[p] \in TaskType /\ task \in [Preparers -> TaskType]
  BY DEF TypeOK, TaskType
<1>2. t \in TaskType
  BY <1>1 DEF TaskType
<1>3. task' = [task EXCEPT ![p] = t] /\ task'[p] = t
  BY <1>1 DEF To
<1>4. /\ t.stage = s /\ t.message = task[p].message /\ t.todo = task[p].todo
      /\ t.have = task[p].have /\ t.input = task[p].input /\ t.id = task[p].id
      /\ t.call = task[p].call /\ t.young = task[p].young
  BY <1>1 DEF TaskType
<1> QED
  BY <1>2, <1>3, <1>4

LEMMA RequestLegacyStep ==
  ASSUME CoinInv, NEW i \in LegacyInputs, RequestLegacyGeneration(i)
  PROVE  CoinInv'
<1>1. RowsInv' /\ Advances
  BY RowsUnchanged DEF RequestLegacyGeneration, time, wire
<1>2. \A q \in Preparers : Kept(q)
  BY DEF CoinInv, TaskOK, YoungOK, Kept, RequestLegacyGeneration, time, wire
<1>3. TypeOK'
  BY DEF CoinInv, TypeOK, RequestLegacyGeneration, time, wire
<1> QED
  BY <1>1, <1>2, <1>3, StepOfNone DEF RequestLegacyGeneration

LEMMA LeaseExpiresStep ==
  ASSUME CoinInv, NEW k \in Call, LeaseExpires(k)
  PROVE  CoinInv'
<1>1. RowsInv' /\ Advances
  BY RowsUnchanged DEF LeaseExpires, db, wire
<1>2. \A q \in Preparers : Kept(q)
  BY DEF CoinInv, TaskOK, YoungOK, Kept, LeaseExpires, wire
<1>3. TypeOK'
  BY DEF CoinInv, TypeOK, LeaseExpires, db, wire
<1> QED
  BY <1>1, <1>2, <1>3, StepOfNone DEF LeaseExpires, db

LEMMA LinkLapsesStep ==
  ASSUME CoinInv, NEW k \in Call, LinkLapses(k)
  PROVE  CoinInv'
<1>1. UNCHANGED <<evidence, gen, preview, calls, task, posts>> /\ lapsed' = lapsed \cup {k}
  BY DEF LinkLapses, db, wire
<1>2. Advances
  BY <1>1 DEF Advances, Called
<1>3. RowsInv'
  <2>1. CallsAreNumbered' /\ IdsAreBounded' /\ LegacyAlone'
    BY <1>1 DEF CoinInv, RowsInv, CallsAreNumbered, IdsAreBounded, LegacyAlone, LegacyRow
  <2>2. LinksHaveRows'
    BY <1>1 DEF CoinInv, RowsInv, LinksHaveRows, LinkLapses
  <2>3. EvidenceMatchesLedger' /\ NoCallAfterUnknown' /\ WireIsAudited'
    BY <1>1 DEF CoinInv, RowsInv, EvidenceMatchesLedger, NoCallAfterUnknown, WireIsAudited
  <2> QED
    BY <2>1, <2>2, <2>3 DEF RowsInv
<1>4. \A q \in Preparers : Kept(q)
  BY <1>1 DEF CoinInv, TaskOK, YoungOK, Kept, LinkLapses
<1>5. TypeOK'
  BY DEF CoinInv, TypeOK, LinkLapses, db, wire
<1> QED
  BY <1>1, <1>2, <1>3, <1>4, <1>5, StepOfNone

LEMMA OpenStep ==
  ASSUME CoinInv, NEW p \in Preparers, NEW m \in Messages, NEW byRequest \in BOOLEAN,
         Open(p, m, byRequest)
  PROVE  CoinInv'
<1> DEFINE t == [NoTask EXCEPT !.message = m, !.byRequest = byRequest, !.todo = InputsOf[m],
                   !.stage = IF m \in Single THEN "next" ELSE "opened"]
<1>1. task' = [task EXCEPT ![p] = t] /\ UNCHANGED <<db, time, calls, posts, apiCalls>>
  BY DEF Open, wire
<1>2. NoTask \in TaskType /\ NoTask.have = {} /\ NoTask.young = {}
  BY NoTaskType
<1>3. InputsOf[m] \in SUBSET Inputs
  BY CoinAssumption
<1>4. /\ t \in TaskType /\ t.stage \in {"next", "opened"} /\ t.message = m
      /\ t.todo = InputsOf[m] /\ t.have = {} /\ t.young = {}
  BY <1>2, <1>3 DEF TaskType, Stage
<1> HIDE DEF t
<1>5. task'[p] = t
  BY <1>1 DEF CoinInv, TypeOK
<1>6. TaskOK(p)'
  BY <1>4, <1>5 DEF TaskOK, CallOK, WatchOK, HaveOK, YoungOK, Holding
<1>7. t.stage \notin Holding /\ apiCalls' \in 0..MaxApiCalls
  BY <1>1, <1>4 DEF Holding, CoinInv, TypeOK
<1> QED
  BY <1>1, <1>4, <1>6, <1>7, TaskStep

\* A preparation looks at its shorts and goes on; no row is written.
LEMMA LookStep ==
  ASSUME CoinInv, NEW p \in Preparers, NEW t \in TaskType, task' = [task EXCEPT ![p] = t],
         task[p].stage \in {"listed", "next"}, t.stage \in {"listed", "next", "probed"},
         t.message = task[p].message, t.todo = task[p].todo, t.have = task[p].have,
         t.young = task[p].young, t.stage = "probed" => t.input \in task[p].todo,
         UNCHANGED <<db, time, calls, wire>>
  PROVE  CoinInv'
<1>1. /\ task'[p] = t
      /\ UNCHANGED <<db, time, calls, posts>> /\ apiCalls' \in 0..MaxApiCalls
  BY DEF CoinInv, TypeOK, wire
<1>2. HaveOK(p)'
  BY <1>1 DEF CoinInv, TaskOK, HaveOK, Genuine, Backed, db, time
<1>3. TaskOK(p)'
  BY <1>1, <1>2 DEF CoinInv, TaskOK, CallOK, WatchOK, YoungOK, Holding, time
<1>4. t.stage \notin Holding
  BY DEF Holding
<1> QED
  BY <1>1, <1>3, <1>4, TaskStep

LEMMA InspectStep ==
  ASSUME CoinInv, NEW p \in Preparers, NEW i \in Inputs, Inspect(p, i)
  PROVE  CoinInv'
<1> DEFINE seen   == task[p].looked \cup {i}
           missed == IF Hit(i) THEN task[p].misses ELSE task[p].misses \cup {i}
           t == [task[p] EXCEPT !.looked = seen, !.misses = missed]
<1>1. task[p] \in TaskType /\ task \in [Preparers -> TaskType] /\ task[p].stage = "listed"
  BY DEF CoinInv, TypeOK, TaskType, Inspect
<1>2. seen \in SUBSET Inputs /\ missed \in SUBSET Inputs
  BY <1>1 DEF TaskType
<1>3. task' = [task EXCEPT ![p] = t] /\ UNCHANGED <<db, time, calls, wire>>
  BY <1>1 DEF Inspect
<1> HIDE DEF seen, missed
<1>4. /\ t \in TaskType /\ t.stage = "listed" /\ t.message = task[p].message
      /\ t.todo = task[p].todo /\ t.have = task[p].have /\ t.young = task[p].young
  BY <1>1, <1>2 DEF TaskType
<1> QED
  BY <1>1, <1>3, <1>4, LookStep

LEMMA CoverMissesStep ==
  ASSUME CoinInv, NEW p \in Preparers, CoverMisses(p)
  PROVE  CoinInv'
<1> DEFINE t == [task[p] EXCEPT !.stage = "next", !.looked = {}, !.misses = {}]
<1>1. task[p] \in TaskType /\ task \in [Preparers -> TaskType] /\ task[p].stage = "listed"
  BY DEF CoinInv, TypeOK, TaskType, CoverMisses
<1>2. task' = [task EXCEPT ![p] = t] /\ UNCHANGED <<db, time, calls, wire>>
  BY <1>1 DEF CoverMisses
<1>3. /\ t \in TaskType /\ t.stage = "next" /\ t.message = task[p].message
      /\ t.todo = task[p].todo /\ t.have = task[p].have /\ t.young = task[p].young
  BY <1>1 DEF TaskType, Stage
<1> QED
  BY <1>1, <1>2, <1>3, LookStep

LEMMA ProbeStep ==
  ASSUME CoinInv, NEW p \in Preparers, NEW i \in Inputs, Probe(p, i)
  PROVE  CoinInv'
<1> DEFINE t == [task[p] EXCEPT !.stage = "probed", !.input = i]
<1>1. /\ task[p] \in TaskType /\ task \in [Preparers -> TaskType]
      /\ task[p].stage = "next" /\ i \in task[p].todo
  BY DEF CoinInv, TypeOK, TaskType, Probe
<1>2. task' = [task EXCEPT ![p] = t] /\ UNCHANGED <<db, time, calls, wire>>
  BY <1>1 DEF Probe
<1>3. /\ t \in TaskType /\ t.stage = "probed" /\ t.input = i /\ t.message = task[p].message
      /\ t.todo = task[p].todo /\ t.have = task[p].have /\ t.young = task[p].young
  BY <1>1 DEF TaskType, Stage
<1> QED
  BY <1>1, <1>2, <1>3, LookStep

\* A preparation that makes its call goes on to a later stage of it.
LEMMA HolderStep ==
  ASSUME CoinInv, NEW p \in Preparers, NEW s \in {"answered", "rejected", "uncertain"},
         task[p].stage \in Holding, s # "uncertain" => task[p].stage = "waiting",
         To(p, s), UNCHANGED <<db, time, calls, posts>>, apiCalls' \in 0..MaxApiCalls
  PROVE  CoinInv'
<1>1. TypeOK /\ s \in Stage
  BY DEF CoinInv, Stage
<1>2. PICK t \in TaskType :
           /\ task' = [task EXCEPT ![p] = t] /\ task'[p] = t
           /\ t.stage = s /\ t.message = task[p].message /\ t.todo = task[p].todo
           /\ t.have = task[p].have /\ t.input = task[p].input /\ t.id = task[p].id
           /\ t.call = task[p].call /\ t.young = task[p].young
  BY <1>1, Moved
<1>3. CallOK(p)'
  BY <1>2 DEF CoinInv, TaskOK, CallOK, Called, Holding, db
<1>4. HaveOK(p)'
  BY <1>2 DEF CoinInv, TaskOK, HaveOK, Genuine, Backed, Holding, db, time
<1>5. TaskOK(p)'
  BY <1>2, <1>3, <1>4 DEF CoinInv, TaskOK, WatchOK, YoungOK, time
<1> QED
  BY <1>2, <1>5, TaskStep

LEMMA AnswerStep ==
  ASSUME CoinInv, NEW p \in Preparers, Answer(p)
  PROVE  CoinInv'
<1>1. /\ task[p].stage = "waiting" /\ task[p].stage \in Holding
      /\ UNCHANGED <<db, time, calls, posts>> /\ apiCalls' \in 0..MaxApiCalls
  BY DEF Answer, Holding, wire, CoinInv, TypeOK
<1>2. PICK s \in {"answered", "rejected"} : To(p, s)
  BY DEF Answer
<1> QED
  BY <1>1, <1>2, HolderStep

LEMMA DoubtStep ==
  ASSUME CoinInv, NEW p \in Preparers, Doubt(p)
  PROVE  CoinInv'
<1>1. task[p].stage \in Holding /\ To(p, "uncertain") /\ UNCHANGED <<db, time, calls, posts>>
  BY DEF Doubt, Holding
<1>2. apiCalls' \in 0..MaxApiCalls
  BY CoinAssumption DEF Doubt, CoinInv, TypeOK
<1> QED
  BY <1>1, <1>2, HolderStep

LEMMA LeaveStep ==
  ASSUME CoinInv, NEW p \in Preparers, Leave(p) \/ RecordLost(p)
  PROVE  CoinInv'
<1>1. /\ task' = [task EXCEPT ![p] = NoTask]
      /\ UNCHANGED <<db, time, calls, posts>> /\ apiCalls' \in 0..MaxApiCalls
  BY DEF Leave, RecordLost, wire, CoinInv, TypeOK
<1> QED
  BY <1>1, ResetStep

LEMMA CrashStep ==
  ASSUME CoinInv, Crash
  PROVE  CoinInv'
<1>1. /\ UNCHANGED <<evidence, gen, preview, lapsed, calls, posts>>
      /\ \A p \in Preparers : task'[p] = NoTask
  BY DEF Crash, db, time
<1>2. RowsInv' /\ Advances
  BY <1>1, RowsUnchanged
<1>3. TypeOK'
  <2>1. task' \in [Preparers -> TaskType] /\ apiCalls' \in 0..MaxApiCalls
    BY NoTaskType, CoinAssumption DEF Crash
  <2> QED
    BY <2>1 DEF CoinInv, TypeOK, TaskType, Crash, db, time
<1>4. OneHolder' /\ \A p \in Preparers : TaskOK(p)'
  BY <1>1, IdleIsOK DEF OneHolder
<1>5. \A m \in Messages : PreviewOK(m)'
  BY <1>1, <1>2, PreviewAdvances DEF CoinInv
<1> QED
  BY <1>2, <1>3, <1>4, <1>5 DEF CoinInv

-----------------------------------------------------------------------------
(* What a preparation takes along.                                         *)

LEMMA HaveMoves ==
  ASSUME TypeOK, Advances, NEW p \in Preparers, HaveOK(p), task[p].stage # "idle",
         task'[p].have = task[p].have, task'[p].todo = task[p].todo,
         task'[p].message = task[p].message,
         task'[p].stage \notin {"idle", "opened", "listed", "next"} => task'[p].input \in task[p].todo
  PROVE  HaveOK(p)'
<1>1. \A h \in task'[p].have : Genuine(h.id, h.call)' /\ gen'[h.call].input = h.input
  BY HaveAdvances
<1> QED
  BY <1>1 DEF HaveOK

LEMMA HaveExtends ==
  ASSUME TypeOK, Advances, NEW p \in Preparers, HaveOK(p), NEW h0 \in Outcome,
         task[p].stage \notin {"idle", "opened", "listed", "next"},
         Genuine(h0.id, h0.call)', gen'[h0.call].input = h0.input, h0.input = task[p].input,
         task'[p].stage = "next", task'[p].message = task[p].message,
         task'[p].todo = task[p].todo \ {task[p].input}, task'[p].have = task[p].have \cup {h0}
  PROVE  HaveOK(p)'
<1>1. ASSUME NEW h \in task[p].have
      PROVE  Genuine(h.id, h.call)' /\ gen'[h.call].input = h.input
  <2>1. h.call \in Call
    BY DEF TypeOK, Outcome
  <2> QED
    BY <2>1, GenuineAdvances DEF HaveOK
<1>2. \A h \in task'[p].have : Genuine(h.id, h.call)' /\ gen'[h.call].input = h.input
  BY <1>1
<1>3. task'[p].todo \cup {h.input : h \in task'[p].have} = InputsOf[task'[p].message]
  BY DEF HaveOK
<1> QED
  BY <1>2, <1>3 DEF HaveOK

LEMMA FoundFields ==
  ASSUME TypeOK, NEW p \in Preparers, NEW id \in DOMAIN evidence, evidence[id].call # 0
  PROVE  LET h0 == [input |-> task[p].input, id |-> id, call |-> evidence[id].call] IN
         /\ h0 \in Outcome
         /\ Found(p, id) \in TaskType
         /\ Found(p, id).stage = "next" /\ Found(p, id).message = task[p].message
         /\ Found(p, id).todo = task[p].todo \ {task[p].input}
         /\ Found(p, id).have = task[p].have \cup {h0}
         /\ Found(p, id).young = task[p].young
<1> DEFINE h0 == [input |-> task[p].input, id |-> id, call |-> evidence[id].call]
<1>1. task[p] \in TaskType
  BY DEF TypeOK, TaskType
<1>2. id \in Id /\ evidence[id].call \in Call
  BY CoinAssumption DEF TypeOK, EvidenceRow, Call
<1>3. h0 \in Outcome
  BY <1>1, <1>2 DEF Outcome, TaskType
<1>4. Found(p, id) = [task[p] EXCEPT !.stage = "next", !.todo = @ \ {task[p].input},
                                     !.have = @ \cup {h0}]
  BY DEF Found
<1> HIDE DEF h0
<1>5. /\ Found(p, id).stage = "next" /\ Found(p, id).message = task[p].message
      /\ Found(p, id).todo = task[p].todo \ {task[p].input}
      /\ Found(p, id).have = task[p].have \cup {h0}
      /\ Found(p, id).young = task[p].young
  BY <1>1, <1>4 DEF TaskType
<1>6. Found(p, id) \in TaskType
  <2>1. /\ task[p].todo \ {task[p].input} \in SUBSET Inputs
        /\ task[p].have \cup {h0} \in SUBSET Outcome /\ "next" \in Stage
    BY <1>1, <1>3 DEF TaskType, Stage
  <2> DEFINE td == task[p].todo \ {task[p].input}
             hv == task[p].have \cup {h0}
             st == "next"
  <2>2. Found(p, id) = [task[p] EXCEPT !.stage = st, !.todo = td, !.have = hv]
    BY <1>4
  <2>3. st \in Stage /\ td \in SUBSET Inputs /\ hv \in SUBSET Outcome
    BY <2>1
  <2> HIDE DEF st, td, hv
  <2> QED
    BY <1>1, <2>2, <2>3 DEF TaskType
<1> QED
  BY <1>3, <1>5, <1>6 DEF h0

\* What a row tells of its generation.
LEMMA RowTells ==
  ASSUME CoinInv, NEW id \in DOMAIN evidence, evidence[id].call # 0
  PROVE  LET g == gen[evidence[id].call] IN
         /\ evidence[id].call \in Call /\ g.input = evidence[id].input
         /\ evidence[id].state = "GENERATING" => g.state \in OpenRow
         /\ evidence[id].state = "READY" => g.state = "CONFIRMED"
         /\ evidence[id].state = "REVIEW_REQUIRED" => g.state = "REJECTED"
         /\ evidence[id].state = "UNCERTAIN" => g.state \in {"UNCERTAIN", "FAILED"}
<1>1. evidence[id].call \in Call /\ EvidenceMatchesLedger
  BY CoinAssumption DEF CoinInv, RowsInv, TypeOK, EvidenceRow, Call
<1> QED
  BY <1>1 DEF EvidenceMatchesLedger

LEMMA ObserveStep ==
  ASSUME CoinInv, NEW p \in Preparers, Observe(p)
  PROVE  CoinInv'
<1>1. PICK id : id = task[p].id
  OBVIOUS
<1>2. /\ TypeOK /\ task[p].stage = "watching" /\ id \in DOMAIN evidence
      /\ evidence[id].state = "READY" /\ evidence[id].call # 0
      /\ task' = [task EXCEPT ![p] = Found(p, id)]
      /\ UNCHANGED <<evidence, gen, lapsed, calls, posts>>
      /\ UNCHANGED <<db, time, calls, posts>> /\ apiCalls' \in 0..MaxApiCalls
  BY <1>1 DEF CoinInv, TypeOK, Observe, LegacyRow, db, time, wire
<1>3. Advances
  BY <1>2, RowsUnchanged
<1>4. PICK h0 : h0 = [input |-> task[p].input, id |-> id, call |-> evidence[id].call]
  OBVIOUS
<1>5. /\ h0.call \in Call /\ gen[h0.call].state = "CONFIRMED" /\ h0.id = id
      /\ gen[h0.call].input = h0.input /\ h0.input = task[p].input /\ evidence[id].call = h0.call
  BY <1>1, <1>2, <1>4, RowTells DEF CoinInv, TaskOK, WatchOK
<1>6. /\ h0 \in Outcome
      /\ Found(p, id) \in TaskType
      /\ Found(p, id).stage = "next" /\ Found(p, id).message = task[p].message
      /\ Found(p, id).todo = task[p].todo \ {task[p].input}
      /\ Found(p, id).have = task[p].have \cup {h0}
      /\ Found(p, id).young = task[p].young
  BY <1>2, <1>4, FoundFields
<1>7. task'[p] = Found(p, id)
  BY <1>2 DEF TypeOK
<1>8. Genuine(h0.id, h0.call)' /\ gen'[h0.call].input = h0.input
  BY <1>2, <1>5 DEF Genuine, Backed
<1>9. HaveOK(p)'
  BY <1>2, <1>3, <1>5, <1>6, <1>7, <1>8, HaveExtends DEF CoinInv, TaskOK
<1>10. TaskOK(p)'
  BY <1>2, <1>6, <1>7, <1>9 DEF CoinInv, TaskOK, CallOK, WatchOK, YoungOK, Holding
<1>11. Found(p, id).stage \notin Holding
  BY <1>6 DEF Holding
<1> QED
  BY <1>2, <1>6, <1>10, <1>11, TaskStep

-----------------------------------------------------------------------------
(* recover.                                                                *)

LEMMA RecoversRows ==
  ASSUME CoinInv, LedgerRecovers, UNCHANGED <<lapsed, calls, posts>>
  PROVE  /\ RowsInv' /\ Advances
         /\ gen' \in [Call -> GenerationRow] /\ DOMAIN evidence' = DOMAIN evidence
         /\ \A id \in DOMAIN evidence :
              evidence'[id] \in EvidenceRow /\ evidence'[id].input = evidence[id].input
<1>1. TypeOK /\ RowsInv
  BY DEF CoinInv
<1>2. \A k \in Call :
        /\ gen'[k] \in GenerationRow /\ gen'[k].input = gen[k].input
        /\ ~Lost(k) => gen'[k].state = gen[k].state
        /\ Lost(k) => gen'[k].state = IF gen[k].state = "CALL_STARTED" THEN "UNCERTAIN" ELSE "FAILED"
  BY <1>1 DEF TypeOK, LedgerRecovers, GenerationRow, OpenRow
<1>3. /\ DOMAIN evidence' = DOMAIN evidence
      /\ \A id \in DOMAIN evidence :
           /\ evidence'[id] \in EvidenceRow
           /\ evidence'[id].input = evidence[id].input /\ evidence'[id].call = evidence[id].call
           /\ evidence'[id].state =
                IF evidence[id].state = "GENERATING" /\ Lost(evidence[id].call) THEN "UNCERTAIN"
                ELSE evidence[id].state
  BY <1>1 DEF TypeOK, LedgerRecovers, EvidenceRow
<1>4. gen' \in [Call -> GenerationRow]
  BY <1>1, <1>2 DEF LedgerRecovers
<1>5. \A k \in Call : Lost(k) <=> k \in expired /\ gen[k].state \in {"PREPARED", "CALL_STARTED"}
  BY DEF Lost, OpenRow
<1>6. Advances
  <2>1. \A k \in Call : gen[k].state # "none" =>
       /\ gen'[k].state # "none" /\ gen'[k].input = gen[k].input
       /\ gen[k].state = "CONFIRMED" => gen'[k].state = "CONFIRMED"
       /\ Called(k) => Called(k)'
    BY <1>2, <1>5 DEF Called
  <2> QED
    BY <2>1, <1>3 DEF Advances
<1>7. RowsInv'
  <2>1. CallsAreNumbered'
    BY <1>1, <1>2, <1>5 DEF RowsInv, CallsAreNumbered
  <2>2. IdsAreBounded'
    BY <1>1, <1>3 DEF RowsInv, IdsAreBounded
  <2>3. LegacyAlone'
    BY <1>1, <1>2, <1>3, <1>5 DEF RowsInv, LegacyAlone, LegacyRow
  <2>4. LinksHaveRows'
    <3>1. ASSUME NEW k \in lapsed' PROVE gen'[k].state = "CONFIRMED"
      BY <1>1, <1>2, <1>5, <3>1 DEF RowsInv, LinksHaveRows, TypeOK
    <3>2. ASSUME NEW k \in Call, gen'[k].state = "CONFIRMED"
          PROVE  k \in lapsed' \/ \E id \in DOMAIN evidence' : evidence'[id].call = k
      <4>1. gen[k].state = "CONFIRMED"
        BY <1>2, <1>5, <3>2
      <4> QED
        BY <1>1, <1>3, <4>1 DEF RowsInv, LinksHaveRows
    <3> QED
      BY <3>1, <3>2 DEF LinksHaveRows
  <2>5. EvidenceMatchesLedger'
    <3>1. ASSUME NEW id \in DOMAIN evidence', evidence'[id].call # 0
          PROVE  LET g == gen'[evidence'[id].call] IN
                 /\ g.input = evidence'[id].input
                 /\ g.state \in CASE evidence'[id].state = "GENERATING"      -> OpenRow
                        [] evidence'[id].state = "READY"           -> {"CONFIRMED"}
                        [] evidence'[id].state = "REVIEW_REQUIRED" -> {"REJECTED"}
                        [] OTHER                                  -> {"UNCERTAIN", "FAILED"}
      <4>1. id \in DOMAIN evidence /\ evidence[id].call # 0
        BY <1>3, <3>1
      <4>2. /\ evidence[id].call \in Call /\ gen[evidence[id].call].input = evidence[id].input
            /\ evidence[id].state = "GENERATING" => gen[evidence[id].call].state \in OpenRow
            /\ evidence[id].state = "READY" => gen[evidence[id].call].state = "CONFIRMED"
            /\ evidence[id].state = "REVIEW_REQUIRED" => gen[evidence[id].call].state = "REJECTED"
            /\ evidence[id].state = "UNCERTAIN" =>
                 gen[evidence[id].call].state \in {"UNCERTAIN", "FAILED"}
        BY <4>1, RowTells
      <4>3. evidence[id].state \in {"GENERATING", "READY", "REVIEW_REQUIRED", "UNCERTAIN"}
        BY <1>1, <4>1 DEF TypeOK, EvidenceRow
      <4> QED
        BY <1>2, <1>3, <1>5, <4>1, <4>2, <4>3 DEF OpenRow
    <3>2. ASSUME NEW k \in Call, gen'[k].state \in OpenRow
          PROVE  \E id \in DOMAIN evidence' : evidence'[id].call = k
      <4>1. gen[k].state \in OpenRow
        BY <1>2, <1>5, <3>2 DEF OpenRow
      <4> QED
        BY <1>1, <1>3, <4>1 DEF RowsInv, EvidenceMatchesLedger
    <3> QED
      BY <3>1, <3>2 DEF EvidenceMatchesLedger
  <2>6. NoCallAfterUnknown'
    BY <1>1, <1>2, <1>5 DEF RowsInv, NoCallAfterUnknown
  <2>7. WireIsAudited'
    BY <1>1, <1>2, <1>5 DEF RowsInv, WireIsAudited
  <2> QED
    BY <2>1, <2>2, <2>3, <2>4, <2>5, <2>6, <2>7 DEF RowsInv
<1> QED
  BY <1>3, <1>4, <1>6, <1>7

LEMMA RecoverMessageStep ==
  ASSUME CoinInv, NEW p \in Preparers, RecoverMessage(p)
  PROVE  CoinInv'
<1>1. /\ TypeOK /\ task[p].stage = "opened" /\ To(p, "listed") /\ "listed" \in Stage
      /\ LedgerRecovers
      /\ UNCHANGED <<requested, preview, lapsed, expired, calls, posts, apiCalls>>
  BY DEF RecoverMessage, LedgerRecovers, CoinInv, Stage, time, wire
<1>2. /\ RowsInv' /\ Advances
      /\ gen' \in [Call -> GenerationRow] /\ DOMAIN evidence' = DOMAIN evidence
      /\ \A id \in DOMAIN evidence :
           evidence'[id] \in EvidenceRow /\ evidence'[id].input = evidence[id].input
  BY <1>1, RecoversRows
<1>3. PICK t \in TaskType :
           /\ task' = [task EXCEPT ![p] = t] /\ task'[p] = t
           /\ t.stage = "listed" /\ t.message = task[p].message /\ t.todo = task[p].todo
           /\ t.have = task[p].have /\ t.input = task[p].input /\ t.id = task[p].id
           /\ t.call = task[p].call /\ t.young = task[p].young
  BY <1>1, Moved
<1>4. TypeOK'
  BY <1>1, <1>2, <1>3 DEF TypeOK, TaskType
<1>5. HaveOK(p)'
  BY <1>1, <1>2, <1>3, HaveMoves DEF CoinInv, TaskOK
<1>6. TaskOK(p)' /\ task'[p].stage \notin Holding
  BY <1>1, <1>3, <1>5 DEF CoinInv, TaskOK, CallOK, WatchOK, YoungOK, Holding
<1>7. \A q \in Preparers \ {p} : Kept(q)
  BY <1>1, <1>3, OthersKept
<1> QED
  BY <1>1, <1>2, <1>4, <1>6, <1>7, StepOfOne

LEMMA RecoverStep ==
  ASSUME CoinInv, NEW p \in Preparers, NEW i \in Inputs, Recover(p, i)
  PROVE  CoinInv'
<1> DEFINE t == [task[p] EXCEPT !.stage = "recovered", !.input = i]
<1>1. /\ TypeOK /\ task[p].stage \in {"next", "probed"} /\ i \in task[p].todo /\ LedgerRecovers
      /\ task' = [task EXCEPT ![p].stage = "recovered", ![p].input = i]
      /\ UNCHANGED <<requested, preview, lapsed, expired, calls, posts, apiCalls>>
  BY DEF Recover, LedgerRecovers, CoinInv, TaskOK, HaveOK, time, wire
<1>2. /\ RowsInv' /\ Advances
      /\ gen' \in [Call -> GenerationRow] /\ DOMAIN evidence' = DOMAIN evidence
      /\ \A id \in DOMAIN evidence :
           evidence'[id] \in EvidenceRow /\ evidence'[id].input = evidence[id].input
  BY <1>1, RecoversRows
<1>3. task[p] \in TaskType /\ task' = [task EXCEPT ![p] = t] /\ task'[p] = t
  BY <1>1 DEF TypeOK, TaskType
<1>4. /\ t \in TaskType
      /\ t.stage = "recovered" /\ t.input = i /\ t.message = task[p].message
      /\ t.todo = task[p].todo /\ t.have = task[p].have /\ t.young = task[p].young
  BY <1>3 DEF TaskType, Stage
<1> HIDE DEF t
<1>5. TypeOK'
  BY <1>1, <1>2, <1>3, <1>4 DEF TypeOK, TaskType
<1>6. HaveOK(p)'
  BY <1>1, <1>2, <1>3, <1>4, HaveMoves DEF CoinInv, TaskOK
<1>7. TaskOK(p)' /\ task'[p].stage \notin Holding
  BY <1>1, <1>3, <1>4, <1>6 DEF CoinInv, TaskOK, CallOK, WatchOK, YoungOK, Holding
<1>8. \A q \in Preparers \ {p} : Kept(q)
  BY <1>1, <1>3, OthersKept
<1> QED
  BY <1>1, <1>2, <1>5, <1>7, <1>8, StepOfOne

-----------------------------------------------------------------------------
(* The claim.                                                              *)

\* What is cleared is a link after its day, or the row older than the ledger
\* that the claim was requested for.
LEMMA ClearedIsOld ==
  ASSUME CoinInv, NEW p \in Preparers, Accepted(p), NEW id \in Cleared(p)
  PROVE  /\ id \in DOMAIN evidence /\ evidence[id].state = "READY"
         /\ LegacyRow(id) \/ Purged(id)
         /\ evidence[id].call # 0 => evidence[id].call \in lapsed
<1>1. CASE Purged(id) /\ id \in DOMAIN evidence
  BY <1>1 DEF Purged
<1>2. CASE task[p].byRequest /\ id \in Of(task[p].input)
  <2>1. PICK x \in Of(task[p].input) : LegacyRow(x)
    BY <1>2 DEF Accepted, Requested
  <2>2. id = x
    BY <1>2, <2>1 DEF Of, CoinInv, TypeOK
  <2> QED
    BY <1>2, <2>1, <2>2 DEF CoinInv, RowsInv, LegacyAlone, LegacyRow, Of
<1> QED
  BY <1>1, <1>2 DEF Cleared

\* An accepted short that has no row is new to the ledger, or the day of each
\* of its links is over.
LEMMA OnlyLapsedBefore ==
  ASSUME CoinInv, NEW p \in Preparers, Accepted(p),
         (DOMAIN evidence \ Cleared(p)) \cap Of(task[p].input) = {},
         NEW k \in Call, gen[k].state # "none", gen[k].input = task[p].input
  PROVE  gen[k].state = "CONFIRMED" /\ k \in lapsed
<1> DEFINE i == task[p].input
<1>1. ~task[p].byRequest
  <2> SUFFICES ASSUME task[p].byRequest PROVE FALSE
    OBVIOUS
  <2>1. PICK x \in Of(i) : LegacyRow(x)
    BY DEF Accepted, Requested
  <2> QED
    BY <2>1 DEF CoinInv, RowsInv, LegacyAlone, Of
<1>2. Admissible(i) /\ \A id \in Of(i) : id \in Cleared(p)
  BY <1>1 DEF Accepted, Of
<1>3. \A id \in Of(i) : Purged(id)
  BY <1>1, <1>2 DEF Cleared
<1>4. ~Blocked(i)
  BY <1>2, <1>3 DEF Admissible, Live, Purged
<1>5. gen[k].state = "CONFIRMED"
  BY <1>4 DEF Blocked
<1>6. ASSUME NEW id \in DOMAIN evidence, evidence[id].call = k
      PROVE  k \in lapsed
  <2>1. evidence[id].input = i
    BY <1>6, RowTells DEF Call
  <2> QED
    BY <1>3, <1>6, <2>1 DEF Of, Purged
<1> QED
  BY <1>5, <1>6 DEF CoinInv, RowsInv, LinksHaveRows

LEMMA PurgeForgets ==
  ASSUME TypeOK, NEW ids, Purge(ids)
  PROVE  /\ preview' \in [Messages -> SUBSET PreviewLink]
         /\ \A m \in Messages : preview'[m] \in {{}, preview[m]}
<1>1. \A m \in Messages : preview'[m] \in {{}, preview[m]}
  BY DEF Purge
<1>2. \A m \in Messages : preview'[m] \in SUBSET PreviewLink
  BY <1>1 DEF TypeOK
<1> QED
  BY <1>1, <1>2 DEF Purge

LEMMA ExistingRows ==
  ASSUME CoinInv, NEW p \in Preparers, Accepted(p),
         evidence' = [id \in DOMAIN evidence \ Cleared(p) |-> evidence[id]],
         UNCHANGED <<gen, lapsed, calls, posts>>
  PROVE  /\ RowsInv' /\ Advances
         /\ DOMAIN evidence' = DOMAIN evidence \ Cleared(p)
         /\ \A id \in DOMAIN evidence' : evidence'[id] = evidence[id]
<1>1. /\ DOMAIN evidence' = DOMAIN evidence \ Cleared(p)
      /\ \A id \in DOMAIN evidence' : evidence'[id] = evidence[id]
  OBVIOUS
<1>2. Advances
  BY <1>1, ClearedIsOld DEF Advances, Called
<1>3. \A id \in DOMAIN evidence : evidence[id].call \notin lapsed \cup {0} => id \in DOMAIN evidence'
  BY <1>1, ClearedIsOld
<1>4. RowsInv
  BY DEF CoinInv
<1>5. CallsAreNumbered' /\ IdsAreBounded' /\ LegacyAlone'
  BY <1>1, <1>4 DEF RowsInv, CallsAreNumbered, IdsAreBounded, LegacyAlone, LegacyRow
<1>6. LinksHaveRows'
  <2>1. ASSUME NEW k \in Call, gen[k].state = "CONFIRMED", k \notin lapsed
        PROVE  \E id \in DOMAIN evidence' : evidence'[id].call = k
    <3>1. PICK id \in DOMAIN evidence : evidence[id].call = k
      BY <1>4, <2>1 DEF RowsInv, LinksHaveRows
    <3>2. id \in DOMAIN evidence'
      BY <1>3, <2>1, <3>1 DEF Call
    <3> QED
      BY <1>1, <3>1, <3>2
  <2> QED
    BY <1>4, <2>1 DEF RowsInv, LinksHaveRows
<1>7. EvidenceMatchesLedger'
  <2>1. ASSUME NEW k \in Call, gen[k].state \in OpenRow
        PROVE  \E id \in DOMAIN evidence' : evidence'[id].call = k
    <3>1. PICK id \in DOMAIN evidence : evidence[id].call = k
      BY <1>4, <2>1 DEF RowsInv, EvidenceMatchesLedger
    <3>2. k \notin lapsed
      BY <1>4, <2>1 DEF RowsInv, LinksHaveRows, OpenRow
    <3>3. id \in DOMAIN evidence'
      BY <1>3, <3>1, <3>2 DEF Call
    <3> QED
      BY <1>1, <3>1, <3>3
  <2> QED
    BY <1>1, <1>4, <2>1 DEF RowsInv, EvidenceMatchesLedger
<1>8. NoCallAfterUnknown' /\ WireIsAudited'
  BY <1>4 DEF RowsInv, NoCallAfterUnknown, WireIsAudited
<1> QED
  BY <1>1, <1>2, <1>5, <1>6, <1>7, <1>8 DEF RowsInv

LEMMA ClaimExistingStep ==
  ASSUME CoinInv, NEW p \in Preparers, ClaimExisting(p)
  PROVE  CoinInv'
<1>1. /\ TypeOK /\ task[p].stage = "recovered" /\ Accepted(p)
      /\ evidence' = [id \in DOMAIN evidence \ Cleared(p) |-> evidence[id]]
      /\ Purge(Cleared(p))
      /\ UNCHANGED <<gen, requested, lapsed, expired, calls, apiCalls, posts>>
  BY DEF CoinInv, ClaimExisting, time, wire
<1>2. /\ RowsInv' /\ Advances
      /\ DOMAIN evidence' = DOMAIN evidence \ Cleared(p)
      /\ \A id \in DOMAIN evidence' : evidence'[id] = evidence[id]
  BY <1>1, ExistingRows
<1>3. PICK id \in (DOMAIN evidence \ Cleared(p)) \cap Of(task[p].input) :
        task' = [task EXCEPT ![p] =
          CASE evidence[id].state = "READY"      -> Found(p, id)
            [] evidence[id].state = "GENERATING" /\ task[p].message \in Single ->
                 [task[p] EXCEPT !.stage = "watching", !.id = id]
            [] OTHER -> NoTask]
  BY DEF ClaimExisting
<1>4. /\ id \in DOMAIN evidence /\ id \in DOMAIN evidence' /\ evidence'[id] = evidence[id]
      /\ evidence[id].input = task[p].input /\ id \in Of(task[p].input)
  BY <1>2, <1>3 DEF Of
<1>5. evidence[id].call # 0
  <2>1. ~task[p].byRequest
    BY <1>3 DEF Cleared
  <2>2. ~(evidence[id].state = "READY" /\ LegacyRow(id))
    BY <1>1, <1>4, <2>1 DEF Accepted, Admissible
  <2> QED
    BY <1>4, <2>2 DEF CoinInv, RowsInv, LegacyAlone, LegacyRow
<1>6. \A m \in Messages : preview'[m] \in {{}, preview[m]}
  BY <1>1, PurgeForgets
<1>7. preview' \in [Messages -> SUBSET PreviewLink]
  BY <1>1, PurgeForgets
<1>8. ASSUME NEW t \in TaskType, task' = [task EXCEPT ![p] = t], TaskOK(p)', t.stage \notin Holding
      PROVE  CoinInv'
  <2>1. TypeOK'
    BY <1>1, <1>2, <1>7, <1>8 DEF TypeOK, TaskType
  <2>2. \A q \in Preparers \ {p} : Kept(q)
    BY <1>1, <1>8, OthersKept
  <2>3. task'[p].stage \notin Holding
    BY <1>1, <1>8 DEF TypeOK
  <2> QED
    BY <1>2, <1>6, <1>8, <2>1, <2>2, <2>3, StepOfOne
<1>9. CASE evidence[id].state = "READY"
  <2>1. task' = [task EXCEPT ![p] = Found(p, id)] /\ task'[p] = Found(p, id)
    BY <1>1, <1>3, <1>9 DEF TypeOK
  <2>2. PICK h0 : h0 = [input |-> task[p].input, id |-> id, call |-> evidence[id].call]
    OBVIOUS
  <2>3. /\ h0.call \in Call /\ gen[h0.call].state = "CONFIRMED" /\ h0.id = id
        /\ gen[h0.call].input = h0.input /\ h0.input = task[p].input /\ evidence[id].call = h0.call
    BY <1>4, <1>5, <1>9, <2>2, RowTells
  <2>4. /\ h0 \in Outcome
        /\ Found(p, id) \in TaskType
        /\ Found(p, id).stage = "next" /\ Found(p, id).message = task[p].message
        /\ Found(p, id).todo = task[p].todo \ {task[p].input}
        /\ Found(p, id).have = task[p].have \cup {h0}
        /\ Found(p, id).young = task[p].young
    BY <1>1, <1>4, <1>5, <2>2, FoundFields
  <2>5. Genuine(h0.id, h0.call)' /\ gen'[h0.call].input = h0.input
    BY <1>1, <1>4, <2>3 DEF Genuine, Backed
  <2>6. HaveOK(p)'
    BY <1>1, <1>2, <2>1, <2>3, <2>4, <2>5, HaveExtends DEF CoinInv, TaskOK
  <2>7. TaskOK(p)' /\ Found(p, id).stage \notin Holding
    BY <1>1, <2>1, <2>4, <2>6 DEF CoinInv, TaskOK, CallOK, WatchOK, YoungOK, Holding
  <2> QED
    BY <1>8, <2>1, <2>4, <2>7
<1>10. CASE evidence[id].state = "GENERATING" /\ task[p].message \in Single
  <2> DEFINE t == [task[p] EXCEPT !.stage = "watching", !.id = id]
  <2>1. task[p] \in TaskType /\ task' = [task EXCEPT ![p] = t] /\ task'[p] = t
    BY <1>1, <1>3, <1>10 DEF TypeOK, TaskType
  <2>2. id \in Id
    BY <1>1, <1>4 DEF TypeOK
  <2>3. /\ t \in TaskType
        /\ t.stage = "watching" /\ t.id = id /\ t.message = task[p].message
        /\ t.input = task[p].input
        /\ t.todo = task[p].todo /\ t.have = task[p].have /\ t.young = task[p].young
    BY <2>1, <2>2 DEF TaskType, Stage
  <2> HIDE DEF t
  <2>4. task[p].input \in task[p].todo
    BY <1>1 DEF CoinInv, TaskOK, HaveOK
  <2>5. HaveOK(p)'
    BY <1>1, <1>2, <2>1, <2>3, <2>4, HaveMoves DEF CoinInv, TaskOK
  <2>6. TaskOK(p)' /\ t.stage \notin Holding
    BY <1>1, <1>4, <1>5, <1>10, <2>1, <2>3, <2>5 DEF CoinInv, TaskOK, CallOK, WatchOK, YoungOK, Holding
  <2> QED
    BY <1>8, <2>1, <2>3, <2>6
<1>11. CASE ~(evidence[id].state = "READY")
            /\ ~(evidence[id].state = "GENERATING" /\ task[p].message \in Single)
  <2>1. task' = [task EXCEPT ![p] = NoTask] /\ task'[p] = NoTask
    BY <1>1, <1>3, <1>11 DEF TypeOK
  <2>2. NoTask \in TaskType /\ NoTask.stage \notin Holding
    BY NoTaskType DEF Holding
  <2> QED
    BY <1>8, <2>1, <2>2, IdleIsOK
<1> QED
  BY <1>9, <1>10, <1>11

\* The claim of a new row: n is its id, k its call.
ClaimsRow(p, n, k) ==
  /\ task[p].stage = "recovered" /\ Accepted(p)
  /\ (DOMAIN evidence \ Cleared(p)) \cap Of(task[p].input) = {}
  /\ calls < MaxCalls /\ k = calls + 1 /\ calls' = k
  /\ n = NextId(DOMAIN evidence \ Cleared(p))
  /\ evidence' = [x \in (DOMAIN evidence \ Cleared(p)) \cup {n} |->
                   IF x = n THEN [input |-> task[p].input, call |-> k, state |-> "GENERATING"]
                            ELSE evidence[x]]
  /\ gen' = [gen EXCEPT ![k] = [input |-> task[p].input, state |-> "PREPARED"]]
  /\ UNCHANGED <<lapsed, posts>>

LEMMA NewRows ==
  ASSUME CoinInv, NEW p \in Preparers, NEW n, NEW k, ClaimsRow(p, n, k)
  PROVE  /\ RowsInv' /\ Advances
         /\ k \in Call /\ gen[k].state = "none" /\ posts[k] = 0
         /\ gen'[k].input = task[p].input /\ gen'[k].state = "PREPARED"
         /\ gen' \in [Call -> GenerationRow]
         /\ calls' \in 0..MaxCalls
         /\ DOMAIN evidence' \subseteq Id /\ n \in Id
         /\ \A id \in DOMAIN evidence' : evidence'[id] \in EvidenceRow
         /\ \A x, y \in DOMAIN evidence' : evidence'[x].input = evidence'[y].input => x = y
<1> DEFINE i == task[p].input
           kept == DOMAIN evidence \ Cleared(p)
<1>0. /\ task[p].stage = "recovered" /\ Accepted(p)
      /\ kept \cap Of(i) = {}
      /\ calls < MaxCalls /\ k = calls + 1 /\ calls' = k
      /\ n = NextId(kept)
      /\ evidence' = [x \in kept \cup {n} |->
                       IF x = n THEN [input |-> i, call |-> k, state |-> "GENERATING"]
                                ELSE evidence[x]]
      /\ gen' = [gen EXCEPT ![k] = [input |-> i, state |-> "PREPARED"]]
      /\ lapsed' = lapsed /\ posts' = posts
  BY DEF ClaimsRow
<1>1. /\ TypeOK /\ RowsInv /\ MaxCalls \in Nat /\ calls \in Nat
      /\ Cardinality(LegacyInputs) \in Nat /\ task[p] \in TaskType /\ i \in Inputs
  BY CoinAssumption, LegacyIsFinite DEF CoinInv, TypeOK, TaskType
<1>2. n \in 1..(calls + Cardinality(LegacyInputs) + 1) /\ n \notin kept
  <2> DEFINE b == calls + Cardinality(LegacyInputs)
  <2>1. \A id \in kept : id \in Nat /\ 1 <= id
    BY <1>1 DEF TypeOK, Id
  <2>2. \A id \in kept : id <= b
    BY <1>1 DEF RowsInv, IdsAreBounded
  <2>3. kept \in SUBSET (1..b) /\ b \in Nat
    BY <1>1, <2>1, <2>2
  <2> HIDE DEF b
  <2>4. NextId(kept) \in 1..(b + 1) /\ NextId(kept) \notin kept
    BY <2>3, NextIdIsFresh
  <2> QED
    BY <1>0, <2>4 DEF b
<1>3. k \in Call /\ k # 0 /\ gen[k].state = "none" /\ posts[k] = 0
  BY <1>0, <1>1 DEF Call, RowsInv, CallsAreNumbered
<1>4. /\ gen'[k].input = i /\ gen'[k].state = "PREPARED"
      /\ gen' \in [Call -> GenerationRow]
      /\ \A j \in Call \ {k} : gen'[j] = gen[j]
  BY <1>0, <1>1, <1>3 DEF TypeOK, GenerationRow, OpenRow
<1>5. /\ DOMAIN evidence' = kept \cup {n}
      /\ evidence'[n].input = i /\ evidence'[n].call = k /\ evidence'[n].state = "GENERATING"
      /\ evidence'[n] \in EvidenceRow
      /\ \A id \in kept : evidence'[id] = evidence[id]
  BY <1>0, <1>1, <1>2, <1>3 DEF EvidenceRow, Call
<1>6. \A id \in kept : id \in DOMAIN evidence /\ evidence[id].input # i
  BY <1>0 DEF Of
<1>7. \A id \in DOMAIN evidence : evidence[id].call \notin lapsed \cup {0} => id \in kept
  BY <1>0, ClearedIsOld
<1>8. k \notin lapsed /\ \A id \in DOMAIN evidence : evidence[id].call # k
  <2>1. k \notin lapsed
    BY <1>1, <1>3 DEF RowsInv, LinksHaveRows
  <2>2. ASSUME NEW id \in DOMAIN evidence, evidence[id].call = k PROVE FALSE
    BY <1>3, <2>2, RowTells, <1>1 DEF OpenRow, TypeOK, EvidenceRow
  <2> QED
    BY <2>1, <2>2
<1> HIDE DEF i, kept
<1>9. Advances
  <2>1. \A j \in Call : gen[j].state # "none" => j # k
    BY <1>3
  <2>2. \A id \in DOMAIN evidence : id \in kept \/ LegacyRow(id) \/ Purged(id)
    BY <1>0, ClearedIsOld DEF kept
  <2> QED
    BY <1>0, <1>4, <1>5, <2>1, <2>2 DEF Advances, Called
<1>10. /\ calls' \in 0..MaxCalls /\ n \in Id /\ DOMAIN evidence' \subseteq Id
       /\ \A id \in DOMAIN evidence' : evidence'[id] \in EvidenceRow
       /\ \A x, y \in DOMAIN evidence' : evidence'[x].input = evidence'[y].input => x = y
  <2>1. calls' \in 0..MaxCalls
    BY <1>0, <1>1
  <2>2. n \in Id
    BY <1>0, <1>1, <1>2 DEF Id
  <2>3. DOMAIN evidence' \subseteq Id /\ \A id \in DOMAIN evidence' : evidence'[id] \in EvidenceRow
    BY <1>1, <1>5, <1>6, <2>2 DEF TypeOK
  <2>4. ASSUME NEW x \in DOMAIN evidence', NEW y \in DOMAIN evidence',
               evidence'[x].input = evidence'[y].input
        PROVE  x = y
    <3>1. CASE x = n \/ y = n
      BY <1>5, <1>6, <2>4, <3>1
    <3>2. CASE x # n /\ y # n
      <4>1. /\ x \in DOMAIN evidence /\ y \in DOMAIN evidence
            /\ evidence[x].input = evidence[y].input
        BY <1>5, <1>6, <2>4, <3>2
      <4> QED
        BY <1>1, <4>1 DEF TypeOK
    <3> QED
      BY <3>1, <3>2
  <2> QED
    BY <2>1, <2>2, <2>3, <2>4
<1>11. RowsInv'
  <2>1. CallsAreNumbered'
    <3>1. ASSUME NEW j \in Call, j # k
          PROVE  (gen'[j].state = "none" <=> calls' < j) /\ (gen'[j].state = "none" => posts'[j] = 0)
      BY <1>0, <1>1, <1>4, <3>1 DEF RowsInv, CallsAreNumbered, Call
    <3>2. gen'[k].state # "none" /\ ~(calls' < k)
      BY <1>0, <1>1, <1>4
    <3> QED
      BY <3>1, <3>2 DEF CallsAreNumbered
  <2>2. IdsAreBounded'
    <3>1. ASSUME NEW id \in kept PROVE id <= calls' + Cardinality(LegacyInputs)
      BY <1>0, <1>1, <1>6 DEF RowsInv, IdsAreBounded, TypeOK, Id
    <3>2. n <= calls' + Cardinality(LegacyInputs)
      BY <1>0, <1>1, <1>2
    <3> QED
      BY <1>5, <3>1, <3>2 DEF IdsAreBounded
  <2>3. LegacyAlone'
    <3>1. ASSUME NEW id \in DOMAIN evidence', evidence'[id].call = 0
          PROVE  id \in kept
      BY <1>3, <1>5, <3>1
    <3>2. ASSUME NEW id \in kept, evidence[id].call = 0,
                 NEW j \in Call, gen'[j].state # "none"
          PROVE  evidence[id].state = "READY" /\ gen'[j].input # evidence[id].input
      BY <1>1, <1>4, <1>6, <3>2 DEF RowsInv, LegacyAlone, LegacyRow
    <3>3. ASSUME NEW id \in kept, evidence[id].call = 0
          PROVE  evidence[id].state = "READY"
      BY <1>1, <1>6, <3>3 DEF RowsInv, LegacyAlone, LegacyRow
    <3> SUFFICES ASSUME NEW id \in DOMAIN evidence', evidence'[id].call = 0
                 PROVE  /\ evidence'[id].state = "READY"
                        /\ \A j \in Call : gen'[j].state # "none" => gen'[j].input # evidence'[id].input
      BY DEF LegacyAlone, LegacyRow
    <3>4. id \in kept /\ evidence'[id] = evidence[id]
      BY <1>5, <3>1
    <3> QED
      BY <3>2, <3>3, <3>4
  <2>4. LinksHaveRows'
    <3>1. ASSUME NEW j \in lapsed PROVE gen'[j].state = "CONFIRMED"
      BY <1>1, <1>4, <1>8 DEF RowsInv, LinksHaveRows, TypeOK
    <3>2. ASSUME NEW j \in Call, gen'[j].state = "CONFIRMED", j \notin lapsed
          PROVE  \E id \in DOMAIN evidence' : evidence'[id].call = j
      <4>1. gen[j].state = "CONFIRMED"
        BY <1>4, <3>2
      <4>2. PICK id \in DOMAIN evidence : evidence[id].call = j
        BY <1>1, <3>2, <4>1 DEF RowsInv, LinksHaveRows
      <4>3. id \in kept
        BY <1>7, <3>2, <4>2 DEF Call
      <4> QED
        BY <1>5, <4>2, <4>3
    <3> QED
      BY <1>0, <3>1, <3>2 DEF LinksHaveRows
  <2>5. EvidenceMatchesLedger'
    <3>1. ASSUME NEW id \in DOMAIN evidence', evidence'[id].call # 0
          PROVE  LET g == gen'[evidence'[id].call] IN
                 /\ g.input = evidence'[id].input
                 /\ g.state \in CASE evidence'[id].state = "GENERATING"      -> OpenRow
                        [] evidence'[id].state = "READY"           -> {"CONFIRMED"}
                        [] evidence'[id].state = "REVIEW_REQUIRED" -> {"REJECTED"}
                        [] OTHER                                  -> {"UNCERTAIN", "FAILED"}
      <4>1. CASE id = n
        BY <1>4, <1>5, <4>1 DEF OpenRow
      <4>2. CASE id # n
        <5>1. id \in kept /\ id \in DOMAIN evidence /\ evidence'[id] = evidence[id]
          BY <1>5, <1>6, <4>2
        <5>2. evidence[id].call \in Call \ {k}
          BY <1>8, <3>1, <5>1, RowTells
        <5>3. gen'[evidence[id].call] = gen[evidence[id].call]
          BY <1>4, <5>2
        <5> QED
          BY <1>1, <3>1, <5>1, <5>3 DEF RowsInv, EvidenceMatchesLedger
      <4> QED
        BY <4>1, <4>2
    <3>2. ASSUME NEW j \in Call, gen'[j].state \in OpenRow
          PROVE  \E id \in DOMAIN evidence' : evidence'[id].call = j
      <4>1. CASE j = k
        BY <1>5, <4>1
      <4>2. CASE j # k
        <5>1. gen[j].state \in OpenRow
          BY <1>4, <3>2, <4>2
        <5>2. PICK id \in DOMAIN evidence : evidence[id].call = j
          BY <1>1, <5>1 DEF RowsInv, EvidenceMatchesLedger
        <5>3. j \notin lapsed
          BY <1>1, <5>1 DEF RowsInv, LinksHaveRows, OpenRow
        <5>4. id \in kept
          BY <1>7, <5>2, <5>3 DEF Call
        <5> QED
          BY <1>5, <5>2, <5>4
      <4> QED
        BY <4>1, <4>2
    <3> QED
      BY <3>1, <3>2 DEF EvidenceMatchesLedger
  <2>6. NoCallAfterUnknown'
    <3> SUFFICES ASSUME NEW j \in Call, NEW l \in Call, j < l, gen'[l].state # "none",
                        gen'[j].input = gen'[l].input
                 PROVE  gen'[j].state = "CONFIRMED" /\ j \in lapsed
      BY <1>0 DEF NoCallAfterUnknown
    <3>1. l <= k
      <4>1. CASE l # k
        BY <1>0, <1>1, <1>4, <4>1 DEF RowsInv, CallsAreNumbered, Call
      <4> QED
        BY <1>0, <1>1, <4>1
    <3>2. j # k /\ gen'[j] = gen[j] /\ gen[j].state # "none"
      BY <1>0, <1>1, <1>4, <3>1 DEF RowsInv, CallsAreNumbered, Call
    <3>3. CASE l = k
      <4>1. gen[j].input = task[p].input
        BY <1>4, <3>2, <3>3 DEF i
      <4> QED
        BY <1>0, <3>2, <4>1, OnlyLapsedBefore DEF kept, i
    <3>4. CASE l # k
      BY <1>1, <1>4, <3>2, <3>4 DEF RowsInv, NoCallAfterUnknown
    <3> QED
      BY <3>3, <3>4
  <2>7. WireIsAudited'
    <3>1. ASSUME NEW j \in Call
          PROVE  posts[j] <= 1 /\ (posts[j] > 0 => gen'[j].state \notin {"none", "PREPARED", "FAILED"})
      <4>1. CASE j = k
        BY <1>3, <4>1
      <4>2. CASE j # k
        BY <1>1, <1>4, <4>2 DEF RowsInv, WireIsAudited
      <4> QED
        BY <4>1, <4>2
    <3> QED
      BY <1>0, <3>1 DEF WireIsAudited
  <2> QED
    BY <2>1, <2>2, <2>3, <2>4, <2>5, <2>6, <2>7 DEF RowsInv
<1> QED
  BY <1>3, <1>4, <1>9, <1>10, <1>11 DEF i

LEMMA ClaimNewStep ==
  ASSUME CoinInv, NEW p \in Preparers, ClaimNew(p)
  PROVE  CoinInv'
<1>1. PICK n, k : n = NextId(DOMAIN evidence \ Cleared(p)) /\ k = calls + 1
  OBVIOUS
<1>2. /\ TypeOK /\ task[p].stage = "recovered" /\ Accepted(p) /\ calls < MaxCalls
      /\ (DOMAIN evidence \ Cleared(p)) \cap Of(task[p].input) = {}
      /\ calls' = k
      /\ evidence' = [x \in (DOMAIN evidence \ Cleared(p)) \cup {n} |->
                       IF x = n THEN [input |-> task[p].input, call |-> k, state |-> "GENERATING"]
                                ELSE evidence[x]]
      /\ gen' = [gen EXCEPT ![k] = [input |-> task[p].input, state |-> "PREPARED"]]
      /\ requested' \in SUBSET LegacyInputs
      /\ Purge(Cleared(p))
      /\ task' = [task EXCEPT ![p].stage = "claimed", ![p].id = n, ![p].call = k]
      /\ UNCHANGED <<lapsed, expired, apiCalls, posts>>
  BY <1>1 DEF CoinInv, TypeOK, ClaimNew, time, wire
<1>3. /\ RowsInv' /\ Advances
      /\ k \in Call /\ gen[k].state = "none" /\ posts[k] = 0
      /\ gen'[k].input = task[p].input /\ gen'[k].state = "PREPARED"
      /\ gen' \in [Call -> GenerationRow]
      /\ calls' \in 0..MaxCalls
      /\ DOMAIN evidence' \subseteq Id /\ n \in Id
      /\ \A id \in DOMAIN evidence' : evidence'[id] \in EvidenceRow
      /\ \A x, y \in DOMAIN evidence' : evidence'[x].input = evidence'[y].input => x = y
  <2>1. ClaimsRow(p, n, k)
    BY <1>1, <1>2 DEF ClaimsRow
  <2> QED
    BY <2>1, NewRows
<1>4. /\ preview' \in [Messages -> SUBSET PreviewLink]
      /\ \A m \in Messages : preview'[m] \in {{}, preview[m]}
  BY <1>2, PurgeForgets
<1> DEFINE t == [task[p] EXCEPT !.stage = "claimed", !.id = n, !.call = k]
<1>5. task[p] \in TaskType /\ task' = [task EXCEPT ![p] = t] /\ task'[p] = t
  BY <1>2 DEF TypeOK, TaskType
<1>6. /\ t \in TaskType
      /\ t.stage = "claimed" /\ t.call = k /\ t.message = task[p].message
      /\ t.input = task[p].input
      /\ t.todo = task[p].todo /\ t.have = task[p].have /\ t.young = task[p].young
  <2>1. k \in 0..MaxCalls /\ n \in Id \cup {0} /\ "claimed" \in Stage
    BY <1>3, CoinAssumption DEF Call, Stage
  <2> QED
    BY <1>5, <2>1 DEF TaskType
<1> HIDE DEF t
<1>7. TypeOK'
  <2>1. task' \in [Preparers -> TaskType]
    BY <1>2, <1>5, <1>6 DEF TypeOK, TaskType
  <2>2. expired' \subseteq Call /\ lapsed' \subseteq Call
    BY <1>2 DEF TypeOK
  <2>3. apiCalls' \in 0..MaxApiCalls /\ posts' \in [Call -> Nat]
    BY <1>2 DEF TypeOK
  <2>4. requested' \subseteq LegacyInputs
    BY <1>2
  <2> QED
    BY <1>3, <1>4, <2>1, <2>2, <2>3, <2>4 DEF TypeOK, TaskType
<1>8. task[p].input \in task[p].todo
  BY <1>2 DEF CoinInv, TaskOK, HaveOK
<1>9. HaveOK(p)'
  BY <1>2, <1>3, <1>5, <1>6, <1>8, HaveMoves DEF CoinInv, TaskOK
<1>10. CallOK(p)'
  BY <1>2, <1>3, <1>5, <1>6 DEF CallOK, Holding
<1>11. TaskOK(p)'
  BY <1>2, <1>5, <1>6, <1>9, <1>10 DEF CoinInv, TaskOK, WatchOK, YoungOK
<1>12. \A q \in Preparers \ {p} : Kept(q)
  BY <1>2, <1>5, OthersKept
<1>13. \A q \in Preparers \ {p} : task[q].stage \in Holding => task[q].call # task'[p].call
  BY <1>3, <1>5, <1>6 DEF CoinInv, TaskOK, CallOK
<1> QED
  BY <1>3, <1>4, <1>7, <1>11, <1>12, <1>13, StepOfOne

-----------------------------------------------------------------------------
(* The call.                                                               *)

LEMMA StartCallStep ==
  ASSUME CoinInv, NEW p \in Preparers, StartCall(p)
  PROVE  CoinInv'
<1>1. PICK k : k = task[p].call
  OBVIOUS
<1>2. /\ TypeOK /\ RowsInv /\ task[p].stage = "claimed" /\ gen[k].state = "PREPARED"
      /\ gen' = [gen EXCEPT ![k].state = "CALL_STARTED"]
      /\ To(p, "started") /\ "started" \in Stage
      /\ UNCHANGED <<evidence, requested, preview, lapsed, expired, calls, posts>>
      /\ apiCalls' \in 0..MaxApiCalls
  BY <1>1, CoinAssumption DEF StartCall, CoinInv, TypeOK, Stage, time
<1>3. k \in Call /\ gen[k].input = task[p].input /\ posts[k] = 0
  BY <1>1, <1>2 DEF CoinInv, TaskOK, CallOK, Holding
<1>4. /\ gen' \in [Call -> GenerationRow]
      /\ gen'[k].state = "CALL_STARTED" /\ gen'[k].input = gen[k].input
      /\ \A j \in Call \ {k} : gen'[j] = gen[j]
  BY <1>2, <1>3 DEF TypeOK, GenerationRow, OpenRow
<1>5. PICK t \in TaskType :
           /\ task' = [task EXCEPT ![p] = t] /\ task'[p] = t
           /\ t.stage = "started" /\ t.message = task[p].message /\ t.todo = task[p].todo
           /\ t.have = task[p].have /\ t.input = task[p].input /\ t.id = task[p].id
           /\ t.call = task[p].call /\ t.young = task[p].young
  BY <1>2, Moved
<1>6. Advances
  <2>1. ASSUME NEW j \in Call, gen[j].state # "none"
        PROVE  /\ gen'[j].state # "none" /\ gen'[j].input = gen[j].input
               /\ gen[j].state = "CONFIRMED" => gen'[j].state = "CONFIRMED"
               /\ Called(j) => Called(j)'
    BY <1>2, <1>4, <2>1 DEF Called
  <2> QED
    BY <1>2, <2>1 DEF Advances
<1>7. RowsInv'
  <2>1. CallsAreNumbered'
    BY <1>2, <1>3, <1>4 DEF RowsInv, CallsAreNumbered
  <2>2. IdsAreBounded'
    BY <1>2 DEF RowsInv, IdsAreBounded
  <2>3. LegacyAlone'
    BY <1>2, <1>4 DEF RowsInv, LegacyAlone, LegacyRow
  <2>4. LinksHaveRows'
    BY <1>2, <1>4 DEF RowsInv, LinksHaveRows, TypeOK
  <2>5. EvidenceMatchesLedger'
    <3>1. ASSUME NEW id \in DOMAIN evidence, evidence[id].call # 0
          PROVE  LET g == gen'[evidence[id].call] IN
                 /\ g.input = evidence[id].input
                 /\ g.state \in CASE evidence[id].state = "GENERATING"      -> OpenRow
                        [] evidence[id].state = "READY"           -> {"CONFIRMED"}
                        [] evidence[id].state = "REVIEW_REQUIRED" -> {"REJECTED"}
                        [] OTHER                                  -> {"UNCERTAIN", "FAILED"}
      <4>1. CASE evidence[id].call = k
        <5>1. evidence[id].state = "GENERATING" /\ gen[k].input = evidence[id].input
          <6>1. evidence[id].state \in {"GENERATING", "READY", "REVIEW_REQUIRED", "UNCERTAIN"}
            BY <1>2 DEF TypeOK, EvidenceRow
          <6> QED
            BY <1>2, <3>1, <4>1, <6>1, RowTells
        <5> QED
          BY <1>4, <4>1, <5>1 DEF OpenRow
      <4>2. CASE evidence[id].call # k
        <5>1. gen'[evidence[id].call] = gen[evidence[id].call]
          BY <1>4, <3>1, <4>2, RowTells
        <5> QED
          BY <1>2, <3>1, <5>1 DEF RowsInv, EvidenceMatchesLedger
      <4> QED
        BY <4>1, <4>2
    <3>2. ASSUME NEW j \in Call, gen'[j].state \in OpenRow
          PROVE  \E id \in DOMAIN evidence : evidence[id].call = j
      <4>1. gen[j].state \in OpenRow
        BY <1>2, <1>4, <3>2 DEF OpenRow
      <4> QED
        BY <1>2, <4>1 DEF RowsInv, EvidenceMatchesLedger
    <3> QED
      BY <1>2, <3>1, <3>2 DEF EvidenceMatchesLedger
  <2>6. NoCallAfterUnknown'
    <3>1. \A j \in Call : /\ gen'[j].input = gen[j].input
                          /\ gen'[j].state = "none" <=> gen[j].state = "none"
                          /\ gen'[j].state = "CONFIRMED" <=> gen[j].state = "CONFIRMED"
      BY <1>2, <1>4
    <3> QED
      BY <1>2, <3>1 DEF RowsInv, NoCallAfterUnknown
  <2>7. WireIsAudited'
    BY <1>2, <1>3, <1>4 DEF RowsInv, WireIsAudited
  <2> QED
    BY <2>1, <2>2, <2>3, <2>4, <2>5, <2>6, <2>7 DEF RowsInv
<1>8. TypeOK'
  BY <1>2, <1>4, <1>5 DEF TypeOK, TaskType
<1>9. task[p].input \in task[p].todo
  BY <1>2 DEF CoinInv, TaskOK, HaveOK
<1>10. HaveOK(p)'
  BY <1>2, <1>5, <1>6, <1>9, HaveMoves DEF CoinInv, TaskOK
<1>11. CallOK(p)'
  BY <1>1, <1>2, <1>3, <1>4, <1>5 DEF CallOK, Called, Holding
<1>12. TaskOK(p)'
  BY <1>2, <1>5, <1>10, <1>11 DEF CoinInv, TaskOK, WatchOK, YoungOK
<1>13. \A q \in Preparers \ {p} : Kept(q)
  BY <1>2, <1>5, OthersKept
<1>14. \A q \in Preparers \ {p} : task[q].stage \in Holding => task[q].call # task'[p].call
  BY <1>2, <1>5 DEF CoinInv, OneHolder, Holding
<1>15. \A m \in Messages : preview'[m] \in {{}, preview[m]}
  BY <1>2
<1> QED
  BY <1>6, <1>7, <1>8, <1>12, <1>13, <1>14, <1>15, StepOfOne

LEMMA RequestStep ==
  ASSUME CoinInv, NEW p \in Preparers, Request(p)
  PROVE  CoinInv'
<1>1. PICK k : k = task[p].call
  OBVIOUS
<1>2. /\ TypeOK /\ RowsInv /\ task[p].stage = "started"
      /\ posts' = [posts EXCEPT ![k] = @ + 1]
      /\ To(p, "waiting") /\ "waiting" \in Stage
      /\ UNCHANGED <<evidence, gen, requested, preview, lapsed, expired, calls, apiCalls>>
  BY <1>1 DEF Request, CoinInv, Stage, time, db
<1>3. k \in Call /\ posts[k] = 0 /\ Called(k)
  BY <1>1, <1>2 DEF CoinInv, TaskOK, CallOK, Holding
<1>4. posts' \in [Call -> Nat] /\ posts'[k] = 1 /\ \A j \in Call \ {k} : posts'[j] = posts[j]
  BY <1>2, <1>3 DEF TypeOK
<1>5. PICK t \in TaskType :
           /\ task' = [task EXCEPT ![p] = t] /\ task'[p] = t
           /\ t.stage = "waiting" /\ t.message = task[p].message /\ t.todo = task[p].todo
           /\ t.have = task[p].have /\ t.input = task[p].input /\ t.id = task[p].id
           /\ t.call = task[p].call /\ t.young = task[p].young
  BY <1>2, Moved
<1>6. Advances
  BY <1>2 DEF Advances, Called
<1>7. RowsInv'
  <2>1. CallsAreNumbered'
    BY <1>2, <1>3, <1>4 DEF RowsInv, CallsAreNumbered, Called
  <2>2. IdsAreBounded' /\ LegacyAlone' /\ LinksHaveRows'
    BY <1>2 DEF RowsInv, IdsAreBounded, LegacyAlone, LegacyRow, LinksHaveRows
  <2>3. EvidenceMatchesLedger' /\ NoCallAfterUnknown'
    BY <1>2 DEF RowsInv, EvidenceMatchesLedger, NoCallAfterUnknown
  <2>4. WireIsAudited'
    BY <1>2, <1>3, <1>4 DEF RowsInv, WireIsAudited, Called
  <2> QED
    BY <2>1, <2>2, <2>3, <2>4 DEF RowsInv
<1>8. TypeOK'
  BY <1>2, <1>4, <1>5 DEF TypeOK, TaskType
<1>9. task[p].input \in task[p].todo
  BY <1>2 DEF CoinInv, TaskOK, HaveOK
<1>10. HaveOK(p)'
  BY <1>2, <1>5, <1>6, <1>9, HaveMoves DEF CoinInv, TaskOK
<1>11. CallOK(p)'
  BY <1>2, <1>3, <1>5 DEF CoinInv, TaskOK, CallOK, Called, Holding
<1>12. TaskOK(p)'
  BY <1>2, <1>5, <1>10, <1>11 DEF CoinInv, TaskOK, WatchOK, YoungOK
<1>13. \A q \in Preparers \ {p} : task[q].stage \in Holding => task[q].call \in Call \ {k}
  BY <1>1, <1>2 DEF CoinInv, OneHolder, TaskOK, CallOK, Holding
<1>14. \A q \in Preparers \ {p} : Kept(q)
  BY <1>2, <1>4, <1>5, <1>13 DEF CoinInv, TypeOK, TaskOK, YoungOK, Kept
<1>15. \A m \in Messages : preview'[m] \in {{}, preview[m]}
  BY <1>2
<1>16. \A q \in Preparers \ {p} : task[q].stage \in Holding => task[q].call # task'[p].call
  BY <1>1, <1>5, <1>13
<1> QED
  BY <1>6, <1>7, <1>8, <1>12, <1>14, <1>15, <1>16, StepOfOne

\* The end of call k, in the row id and in the ledger at once.
Resolves(k, id, s, g) ==
  /\ id \in DOMAIN evidence /\ evidence[id].state = "GENERATING" /\ evidence[id].call = k
  /\ evidence' = [evidence EXCEPT ![id].state = s]
  /\ gen' = [gen EXCEPT ![k].state = g]
  /\ \/ gen[k].state = "PREPARED" /\ s = "UNCERTAIN" /\ g = "FAILED"
     \/ /\ gen[k].state = "CALL_STARTED"
        /\ \/ s = "READY" /\ g = "CONFIRMED"
           \/ s = "REVIEW_REQUIRED" /\ g = "REJECTED"
           \/ s = "UNCERTAIN" /\ g = "UNCERTAIN"
  /\ UNCHANGED <<lapsed, calls, posts>>
  /\ s = "READY" => \A q \in Preparers : task[q].stage = "watching" => k \in task'[q].young

LEMMA ResolvedRows ==
  ASSUME CoinInv, NEW k \in Call, NEW id, NEW s, NEW g, Resolves(k, id, s, g)
  PROVE  /\ RowsInv' /\ Advances
         /\ gen' \in [Call -> GenerationRow] /\ DOMAIN evidence' = DOMAIN evidence
         /\ evidence'[id].call = k
         /\ gen'[k].state = g /\ gen'[k].input = gen[k].input
         /\ \A x \in DOMAIN evidence :
              evidence'[x] \in EvidenceRow /\ evidence'[x].input = evidence[x].input
<1>1. /\ TypeOK /\ RowsInv /\ k # 0
      /\ id \in DOMAIN evidence /\ evidence[id].state = "GENERATING" /\ evidence[id].call = k
      /\ evidence' = [evidence EXCEPT ![id].state = s]
      /\ gen' = [gen EXCEPT ![k].state = g]
      /\ lapsed' = lapsed /\ calls' = calls /\ posts' = posts
      /\ s = "READY" => \A q \in Preparers : task[q].stage = "watching" => k \in task'[q].young
      /\ s \in {"READY", "REVIEW_REQUIRED", "UNCERTAIN"}
      /\ g \in {"CONFIRMED", "REJECTED", "UNCERTAIN", "FAILED"}
      /\ gen[k].state \in {"PREPARED", "CALL_STARTED"}
      /\ gen[k].state = "PREPARED" <=> g = "FAILED"
      /\ s = "READY" <=> g = "CONFIRMED"
      /\ s = "REVIEW_REQUIRED" <=> g = "REJECTED"
      /\ s = "UNCERTAIN" <=> g \in {"UNCERTAIN", "FAILED"}
  BY DEF CoinInv, Resolves, Call
<1>2. /\ gen' \in [Call -> GenerationRow]
      /\ gen'[k].state = g /\ gen'[k].input = gen[k].input
      /\ \A j \in Call \ {k} : gen'[j] = gen[j]
  BY <1>1 DEF TypeOK, GenerationRow, OpenRow
<1>3. /\ DOMAIN evidence' = DOMAIN evidence
      /\ evidence'[id].state = s /\ evidence'[id].call = k /\ evidence'[id].input = evidence[id].input
      /\ evidence'[id] \in EvidenceRow
      /\ \A x \in DOMAIN evidence \ {id} : evidence'[x] = evidence[x]
  BY <1>1 DEF TypeOK, EvidenceRow
<1>4. \A x \in DOMAIN evidence :
        evidence'[x] \in EvidenceRow /\ evidence'[x].input = evidence[x].input
        /\ evidence'[x].call = evidence[x].call
  BY <1>1, <1>3 DEF TypeOK
<1>5. ASSUME NEW x \in DOMAIN evidence, evidence[x].call = k PROVE x = id
  BY <1>1, <1>5, RowTells DEF TypeOK
<1>6. Advances
  <2>1. ASSUME NEW j \in Call, gen[j].state # "none"
        PROVE  /\ gen'[j].state # "none" /\ gen'[j].input = gen[j].input
               /\ gen[j].state = "CONFIRMED" => gen'[j].state = "CONFIRMED"
               /\ Called(j) => Called(j)'
    <3>1. CASE j = k
      BY <1>1, <1>2, <3>1 DEF Called
    <3>2. CASE j # k
      BY <1>2, <2>1, <3>2 DEF Called
    <3> QED
      BY <3>1, <3>2
  <2>2. ASSUME NEW x \in DOMAIN evidence, evidence'[x].state = "READY", evidence[x].state # "READY"
        PROVE  \A q \in Preparers : task[q].stage = "watching" => evidence[x].call \in task'[q].young
    <3>1. x = id /\ s = "READY"
      BY <1>3, <2>2
    <3> QED
      BY <1>1, <3>1
  <2> QED
    BY <1>1, <1>3, <1>4, <2>1, <2>2 DEF Advances
<1>7. RowsInv'
  <2>1. CallsAreNumbered'
    <3>1. ASSUME NEW j \in Call
          PROVE  (gen'[j].state = "none" <=> calls < j) /\ (gen'[j].state = "none" => posts[j] = 0)
      <4>1. CASE j = k
        BY <1>1, <1>2, <4>1 DEF RowsInv, CallsAreNumbered
      <4>2. CASE j # k
        BY <1>1, <1>2, <4>2 DEF RowsInv, CallsAreNumbered
      <4> QED
        BY <4>1, <4>2
    <3> QED
      BY <1>1, <3>1 DEF CallsAreNumbered
  <2>2. IdsAreBounded'
    BY <1>1, <1>3 DEF RowsInv, IdsAreBounded
  <2>3. LegacyAlone'
    <3> SUFFICES ASSUME NEW x \in DOMAIN evidence, evidence'[x].call = 0
                 PROVE  /\ evidence'[x].state = "READY"
                        /\ \A j \in Call : gen'[j].state # "none" => gen'[j].input # evidence'[x].input
      BY <1>3 DEF LegacyAlone, LegacyRow
    <3>1. x # id /\ evidence'[x] = evidence[x] /\ LegacyRow(x)
      BY <1>1, <1>3 DEF LegacyRow
    <3>2. \A j \in Call : gen'[j].state # "none" =>
            gen[j].state # "none" /\ gen'[j].input = gen[j].input
      BY <1>1, <1>2
    <3> QED
      BY <1>1, <3>1, <3>2 DEF RowsInv, LegacyAlone
  <2>4. LinksHaveRows'
    <3>1. ASSUME NEW j \in lapsed PROVE gen'[j].state = "CONFIRMED"
      <4>1. j \in Call /\ gen[j].state = "CONFIRMED" /\ j # k
        BY <1>1 DEF RowsInv, LinksHaveRows, TypeOK
      <4> QED
        BY <1>2, <4>1
    <3>2. ASSUME NEW j \in Call, gen'[j].state = "CONFIRMED"
          PROVE  j \in lapsed \/ \E x \in DOMAIN evidence' : evidence'[x].call = j
      <4>1. CASE j = k
        BY <1>1, <1>3, <4>1
      <4>2. CASE j # k
        <5>1. gen[j].state = "CONFIRMED"
          BY <1>2, <3>2, <4>2
        <5>2. j \in lapsed \/ \E x \in DOMAIN evidence : evidence[x].call = j
          BY <1>1, <5>1 DEF RowsInv, LinksHaveRows
        <5> QED
          BY <1>3, <1>4, <5>2
      <4> QED
        BY <4>1, <4>2
    <3> QED
      BY <1>1, <3>1, <3>2 DEF LinksHaveRows
  <2>5. EvidenceMatchesLedger'
    <3>1. ASSUME NEW x \in DOMAIN evidence', evidence'[x].call # 0
          PROVE  LET r == gen'[evidence'[x].call] IN
                 /\ r.input = evidence'[x].input
                 /\ r.state \in CASE evidence'[x].state = "GENERATING"      -> OpenRow
                        [] evidence'[x].state = "READY"           -> {"CONFIRMED"}
                        [] evidence'[x].state = "REVIEW_REQUIRED" -> {"REJECTED"}
                        [] OTHER                                  -> {"UNCERTAIN", "FAILED"}
      <4>1. CASE x = id
        <5>1. gen[k].input = evidence[id].input
          BY <1>1, RowTells
        <5>2. gen'[k].input = evidence[id].input /\ gen'[k].state = g
          BY <1>2, <5>1
        <5>3. evidence'[x].call = k /\ evidence'[x].state = s /\ evidence'[x].input = evidence[id].input
          BY <1>3, <4>1
        <5>4. CASE s = "READY"
          <6>1. g = "CONFIRMED"
            BY <1>1, <5>4
          <6> QED
            BY <5>2, <5>3, <5>4, <6>1
        <5>5. CASE s = "REVIEW_REQUIRED"
          <6>1. g = "REJECTED"
            BY <1>1, <5>5
          <6> QED
            BY <5>2, <5>3, <5>5, <6>1
        <5>6. CASE s = "UNCERTAIN"
          <6>1. g \in {"UNCERTAIN", "FAILED"}
            BY <1>1, <5>6
          <6> QED
            BY <5>2, <5>3, <5>6, <6>1
        <5> QED
          BY <1>1, <5>4, <5>5, <5>6
      <4>2. CASE x # id
        <5>1. x \in DOMAIN evidence /\ evidence'[x] = evidence[x]
          BY <1>3, <4>2
        <5>2. evidence[x].call \in Call \ {k}
          BY <1>5, <3>1, <4>2, <5>1, RowTells
        <5>3. gen'[evidence[x].call] = gen[evidence[x].call]
          BY <1>2, <5>2
        <5>4. /\ gen[evidence[x].call].input = evidence[x].input
              /\ gen[evidence[x].call].state \in
                   CASE evidence[x].state = "GENERATING"      -> OpenRow
                     [] evidence[x].state = "READY"           -> {"CONFIRMED"}
                     [] evidence[x].state = "REVIEW_REQUIRED" -> {"REJECTED"}
                     [] OTHER                                  -> {"UNCERTAIN", "FAILED"}
          BY <1>1, <3>1, <5>1 DEF RowsInv, EvidenceMatchesLedger
        <5> QED
          BY <5>1, <5>3, <5>4
      <4> QED
        BY <4>1, <4>2
    <3>2. ASSUME NEW j \in Call, gen'[j].state \in OpenRow
          PROVE  \E x \in DOMAIN evidence' : evidence'[x].call = j
      <4>1. j # k
        BY <1>1, <1>2, <3>2 DEF OpenRow
      <4>2. gen[j].state \in OpenRow
        BY <1>2, <3>2, <4>1
      <4>3. \E x \in DOMAIN evidence : evidence[x].call = j
        BY <1>1, <4>2 DEF RowsInv, EvidenceMatchesLedger
      <4> QED
        BY <1>3, <1>4, <4>3
    <3> QED
      BY <3>1, <3>2 DEF EvidenceMatchesLedger
  <2>6. NoCallAfterUnknown'
    <3>1. \A j \in Call : /\ gen'[j].input = gen[j].input
                          /\ gen'[j].state = "none" <=> gen[j].state = "none"
                          /\ gen[j].state = "CONFIRMED" => gen'[j].state = "CONFIRMED"
      BY <1>1, <1>2
    <3> QED
      BY <1>1, <3>1 DEF RowsInv, NoCallAfterUnknown
  <2>7. WireIsAudited'
    <3>1. ASSUME NEW j \in Call
          PROVE  posts[j] <= 1 /\ (posts[j] > 0 => gen'[j].state \notin {"none", "PREPARED", "FAILED"})
      <4>1. CASE j = k
        BY <1>1, <1>2, <4>1 DEF RowsInv, WireIsAudited
      <4>2. CASE j # k
        BY <1>1, <1>2, <4>2 DEF RowsInv, WireIsAudited
      <4> QED
        BY <4>1, <4>2
    <3> QED
      BY <1>1, <3>1 DEF WireIsAudited
  <2> QED
    BY <2>1, <2>2, <2>3, <2>4, <2>5, <2>6, <2>7 DEF RowsInv
<1> QED
  BY <1>2, <1>3, <1>4, <1>6, <1>7

\* The preparation whose call ended without a link gives up.
LEMMA GivesUp ==
  ASSUME CoinInv, NEW p \in Preparers, NEW k \in Call, NEW id, NEW s, NEW g,
         Resolves(k, id, s, g), task' = [task EXCEPT ![p] = NoTask],
         UNCHANGED <<requested, preview, expired, apiCalls>>
  PROVE  CoinInv'
<1>1. /\ RowsInv' /\ Advances
      /\ gen' \in [Call -> GenerationRow] /\ DOMAIN evidence' = DOMAIN evidence
      /\ \A x \in DOMAIN evidence :
           evidence'[x] \in EvidenceRow /\ evidence'[x].input = evidence[x].input
  BY ResolvedRows
<1>2. lapsed' = lapsed /\ calls' = calls /\ posts' = posts
  BY DEF Resolves
<1>3. TypeOK /\ task'[p] = NoTask /\ NoTask \in TaskType
  BY NoTaskType DEF CoinInv, TypeOK
<1>4. TypeOK'
  BY <1>1, <1>2, <1>3 DEF TypeOK, TaskType
<1>5. TaskOK(p)' /\ task'[p].stage \notin Holding
  BY <1>3, IdleIsOK
<1>6. \A q \in Preparers \ {p} : Kept(q)
  BY <1>2, OthersKept
<1> QED
  BY <1>1, <1>4, <1>5, <1>6, StepOfOne

LEMMA RecordRejectedStep ==
  ASSUME CoinInv, NEW p \in Preparers, RecordRejected(p)
  PROVE  CoinInv'
<1>1. PICK k, id : k = task[p].call /\ id = task[p].id
  OBVIOUS
<1>2. /\ task[p].stage = "rejected"
      /\ id \in DOMAIN evidence /\ evidence[id].state = "GENERATING" /\ evidence[id].call = k
      /\ gen' = [gen EXCEPT ![k].state = CASE @ = "PREPARED" -> "FAILED"
                                            [] @ = "CALL_STARTED" -> "REJECTED" [] OTHER -> @]
      /\ evidence' = [evidence EXCEPT ![id].state = "REVIEW_REQUIRED"]
      /\ task' = [task EXCEPT ![p] = NoTask]
      /\ UNCHANGED <<requested, preview, lapsed, expired, calls, apiCalls, posts>>
  BY <1>1 DEF RecordRejected, Holds, LedgerFails, FinishRow, time, wire
<1>3. k \in Call /\ Called(k)
  BY <1>1, <1>2 DEF CoinInv, TaskOK, CallOK, Holding
<1>4. gen[k].state \in OpenRow
  BY <1>2, <1>3, RowTells DEF Call
<1>5. gen[k].state = "CALL_STARTED"
  BY <1>3, <1>4 DEF Called, OpenRow
<1>6. gen' = [gen EXCEPT ![k].state = "REJECTED"]
  BY <1>2, <1>5
<1>7. Resolves(k, id, "REVIEW_REQUIRED", "REJECTED")
  BY <1>2, <1>5, <1>6 DEF Resolves
<1> QED
  BY <1>2, <1>3, <1>7, GivesUp

LEMMA RecordUncertainStep ==
  ASSUME CoinInv, NEW p \in Preparers, RecordUncertain(p)
  PROVE  CoinInv'
<1>1. PICK k, id : k = task[p].call /\ id = task[p].id
  OBVIOUS
<1>2. /\ task[p].stage = "uncertain"
      /\ id \in DOMAIN evidence /\ evidence[id].state = "GENERATING" /\ evidence[id].call = k
      /\ gen' = [gen EXCEPT ![k].state = CASE @ = "PREPARED" -> "FAILED"
                                            [] @ = "CALL_STARTED" -> "UNCERTAIN" [] OTHER -> @]
      /\ evidence' = [evidence EXCEPT ![id].state = "UNCERTAIN"]
      /\ task' = [task EXCEPT ![p] = NoTask]
      /\ UNCHANGED <<requested, preview, lapsed, expired, calls, apiCalls, posts>>
  BY <1>1 DEF RecordUncertain, Holds, LedgerFails, FinishRow, time, wire
<1>3. k \in Call
  BY <1>1, <1>2 DEF CoinInv, TaskOK, CallOK, Holding
<1>4. gen[k].state \in OpenRow
  BY <1>2, <1>3, RowTells DEF Call
<1>5. CASE gen[k].state = "PREPARED"
  <2>1. gen' = [gen EXCEPT ![k].state = "FAILED"]
    BY <1>2, <1>5
  <2>2. Resolves(k, id, "UNCERTAIN", "FAILED")
    BY <1>2, <1>5, <2>1 DEF Resolves
  <2> QED
    BY <1>2, <1>3, <2>2, GivesUp
<1>6. CASE gen[k].state = "CALL_STARTED"
  <2>1. gen' = [gen EXCEPT ![k].state = "UNCERTAIN"]
    BY <1>2, <1>6
  <2>2. Resolves(k, id, "UNCERTAIN", "UNCERTAIN")
    BY <1>2, <1>6, <2>1 DEF Resolves
  <2> QED
    BY <1>2, <1>3, <2>2, GivesUp
<1> QED
  BY <1>4, <1>5, <1>6 DEF OpenRow

LEMMA ConfirmStep ==
  ASSUME CoinInv, NEW p \in Preparers, Confirm(p)
  PROVE  CoinInv'
<1>1. PICK k, id : k = task[p].call /\ id = task[p].id
  OBVIOUS
<1>2. /\ TypeOK /\ task[p].stage = "answered" /\ gen[k].state = "CALL_STARTED"
      /\ id \in DOMAIN evidence /\ evidence[id].state = "GENERATING" /\ evidence[id].call = k
      /\ gen' = [gen EXCEPT ![k].state = "CONFIRMED"]
      /\ evidence' = [evidence EXCEPT ![id].state = "READY"]
      /\ task' = [q \in Preparers |->
           IF q = p THEN [Found(p, id) EXCEPT !.young = @ \cup {k}]
           ELSE IF task[q].stage = "idle" THEN task[q] ELSE [task[q] EXCEPT !.young = @ \cup {k}]]
      /\ UNCHANGED <<requested, preview, lapsed, expired, calls, apiCalls, posts>>
  BY <1>1 DEF CoinInv, Confirm, Holds, LedgerConfirms, FinishRow, time, wire
<1>3. k \in Call /\ k # 0 /\ gen[k].input = task[p].input
  BY <1>1, <1>2 DEF CoinInv, TaskOK, CallOK, Holding, Call
<1>4. k \notin lapsed
  BY <1>2 DEF CoinInv, RowsInv, LinksHaveRows
<1>5. PICK h0 : h0 = [input |-> task[p].input, id |-> id, call |-> evidence[id].call]
  OBVIOUS
<1>6. /\ h0 \in Outcome /\ h0.id = id /\ h0.call = k /\ h0.input = task[p].input
      /\ Found(p, id) \in TaskType
      /\ Found(p, id).stage = "next" /\ Found(p, id).message = task[p].message
      /\ Found(p, id).todo = task[p].todo \ {task[p].input}
      /\ Found(p, id).have = task[p].have \cup {h0}
      /\ Found(p, id).young = task[p].young
  BY <1>2, <1>3, <1>5, FoundFields
<1>7. /\ task'[p] \in TaskType
      /\ task'[p].stage = "next" /\ task'[p].message = task[p].message
      /\ task'[p].todo = task[p].todo \ {task[p].input}
      /\ task'[p].have = task[p].have \cup {h0}
      /\ task'[p].young = task[p].young \cup {k}
  <2>1. task'[p] = [Found(p, id) EXCEPT !.young = @ \cup {k}]
    BY <1>2
  <2>2. Found(p, id).young \cup {k} \in SUBSET Call
    BY <1>3, <1>6 DEF TaskType
  <2>3. task'[p] \in TaskType
    BY <1>6, <2>1, <2>2 DEF TaskType
  <2> QED
    BY <1>6, <2>1, <2>3 DEF TaskType
<1>8. ASSUME NEW q \in Preparers \ {p}
      PROVE  /\ task'[q] \in TaskType
             /\ task'[q].stage = task[q].stage /\ task'[q].message = task[q].message
             /\ task'[q].todo = task[q].todo /\ task'[q].have = task[q].have
             /\ task'[q].input = task[q].input /\ task'[q].id = task[q].id
             /\ task'[q].call = task[q].call
             /\ task'[q].young \in {task[q].young, task[q].young \cup {k}}
             /\ task[q].stage # "idle" => task'[q].young = task[q].young \cup {k}
  <2>1. task[q] \in TaskType
    BY <1>2 DEF TypeOK, TaskType
  <2>2. CASE task[q].stage = "idle"
    BY <1>2, <2>1, <2>2
  <2>3. CASE task[q].stage # "idle"
    <3>1. task'[q] = [task[q] EXCEPT !.young = @ \cup {k}]
      BY <1>2, <2>3
    <3>2. task[q].young \cup {k} \in SUBSET Call
      BY <1>3, <2>1 DEF TaskType
    <3>3. task'[q] \in TaskType
      BY <2>1, <3>1, <3>2 DEF TaskType
    <3> QED
      BY <2>1, <3>1, <3>3 DEF TaskType
  <2> QED
    BY <2>2, <2>3
<1>9. \A q \in Preparers \ {p} : Kept(q)
  BY <1>2, <1>4, <1>8 DEF CoinInv, TaskOK, YoungOK, Kept
<1>10. Resolves(k, id, "READY", "CONFIRMED")
  <2>1. \A q \in Preparers : task[q].stage = "watching" => k \in task'[q].young
    BY <1>7, <1>8
  <2> QED
    BY <1>2, <2>1 DEF Resolves
<1>11. /\ RowsInv' /\ Advances
       /\ gen' \in [Call -> GenerationRow] /\ DOMAIN evidence' = DOMAIN evidence
       /\ evidence'[id].call = k
       /\ gen'[k].state = "CONFIRMED" /\ gen'[k].input = gen[k].input
       /\ \A x \in DOMAIN evidence :
            evidence'[x] \in EvidenceRow /\ evidence'[x].input = evidence[x].input
  BY <1>3, <1>10, ResolvedRows
<1>12. TypeOK'
  <2>1. \A q \in Preparers : task'[q] \in TaskType
    BY <1>7, <1>8
  <2>2. task' \in [Preparers -> TaskType]
    BY <1>2, <2>1
  <2>3. /\ DOMAIN evidence' \subseteq Id
        /\ \A x \in DOMAIN evidence' : evidence'[x] \in EvidenceRow
        /\ \A x, y \in DOMAIN evidence' : evidence'[x].input = evidence'[y].input => x = y
    BY <1>2, <1>11 DEF TypeOK
  <2>4. /\ requested' \subseteq LegacyInputs /\ preview' \in [Messages -> SUBSET PreviewLink]
        /\ expired' \subseteq Call /\ lapsed' \subseteq Call
        /\ calls' \in 0..MaxCalls /\ apiCalls' \in 0..MaxApiCalls /\ posts' \in [Call -> Nat]
    BY <1>2 DEF TypeOK
  <2> QED
    BY <1>11, <2>2, <2>3, <2>4 DEF TypeOK, TaskType
<1>13. Genuine(h0.id, h0.call)' /\ gen'[h0.call].input = h0.input
  BY <1>2, <1>3, <1>6, <1>11 DEF Genuine, Backed
<1>14. HaveOK(p)'
  BY <1>2, <1>6, <1>7, <1>11, <1>13, HaveExtends DEF CoinInv, TaskOK
<1>15. TaskOK(p)' /\ task'[p].stage \notin Holding
  BY <1>2, <1>4, <1>7, <1>14 DEF CoinInv, TaskOK, CallOK, WatchOK, YoungOK, Holding
<1>16. \A m \in Messages : preview'[m] \in {{}, preview[m]}
  BY <1>2
<1> QED
  BY <1>9, <1>11, <1>12, <1>15, <1>16, StepOfOne

-----------------------------------------------------------------------------
(* The preview.                                                            *)

LEMMA SaveStep ==
  ASSUME CoinInv, NEW p \in Preparers, SaveSingle(p) \/ SaveMulti(p)
  PROVE  CoinInv'
<1>1. PICK m : m = task[p].message
  OBVIOUS
<1>2. /\ TypeOK /\ m \in Messages /\ task[p].stage = "next" /\ task[p].todo = {}
      /\ \A h \in task[p].have : Current(h.id)
      /\ preview' = [preview EXCEPT ![m] = Links(p)]
      /\ task' = [task EXCEPT ![p] = NoTask]
      /\ UNCHANGED <<evidence, gen, requested, lapsed, expired, calls, apiCalls, posts>>
  BY <1>1 DEF CoinInv, TypeOK, SaveSingle, SaveMulti, time, wire
<1>3. RowsInv' /\ Advances
  BY <1>2, RowsUnchanged
<1>4. /\ \A h \in task[p].have : h \in Outcome /\ Genuine(h.id, h.call) /\ gen[h.call].input = h.input
      /\ {h.input : h \in task[p].have} = InputsOf[m]
  BY <1>1, <1>2 DEF CoinInv, TypeOK, TaskOK, HaveOK
<1>5. Links(p) \in SUBSET PreviewLink
  <2> SUFFICES ASSUME NEW h \in task[p].have
               PROVE  [id |-> h.id, text |-> h.call, used |-> evidence[h.id].call] \in PreviewLink
    BY DEF Links
  <2>1. h.id \in Id /\ h.call \in Call
    BY <1>4 DEF Outcome
  <2>2. evidence[h.id].call \in Call
    BY <1>2, CoinAssumption DEF Current, LegacyRow, TypeOK, EvidenceRow, Call
  <2> QED
    BY <2>1, <2>2 DEF PreviewLink
<1>6. ASSUME NEW l \in Links(p) PROVE Genuine(l.id, l.text)
  <2>1. PICK h \in task[p].have : l = [id |-> h.id, text |-> h.call, used |-> evidence[h.id].call]
    BY DEF Links
  <2> QED
    BY <1>4, <2>1
<1>7. {gen[l.text].input : l \in Links(p)} = InputsOf[m]
  <2>1. {gen[l.text].input : l \in Links(p)} = {gen[h.call].input : h \in task[p].have}
    <3>1. \A l \in Links(p) : \E h \in task[p].have : l.text = h.call
      BY DEF Links
    <3>2. ASSUME NEW h \in task[p].have
          PROVE  \E l \in Links(p) : l.text = h.call
      <4>1. PICK l : l = [id |-> h.id, text |-> h.call, used |-> evidence[h.id].call]
        OBVIOUS
      <4>2. l \in Links(p) /\ l.text = h.call
        BY <4>1 DEF Links
      <4> QED
        BY <4>2
    <3> QED
      BY <3>1, <3>2
  <2>2. {gen[h.call].input : h \in task[p].have} = {h.input : h \in task[p].have}
    BY <1>4
  <2> QED
    BY <1>4, <2>1, <2>2
<1>8. PICK ls : ls = Links(p)
  OBVIOUS
<1>9. PreviewOK(m)'
  <2>1. preview'[m] = ls /\ (\A l \in ls : Genuine(l.id, l.text))
        /\ {gen[l.text].input : l \in ls} = InputsOf[m]
    BY <1>2, <1>6, <1>7, <1>8 DEF TypeOK
  <2> QED
    BY <1>2, <2>1 DEF PreviewOK, Genuine, Backed
<1>10. \A n \in Messages : preview'[n] \in {{}, preview[n]} \/ PreviewOK(n)'
  <2> SUFFICES ASSUME NEW n \in Messages, n # m PROVE preview'[n] = preview[n]
    BY <1>9
  <2> QED
    BY <1>2 DEF TypeOK
<1>11. TypeOK'
  <2>1. preview' \in [Messages -> SUBSET PreviewLink]
    BY <1>2, <1>5 DEF TypeOK
  <2>2. task' \in [Preparers -> TaskType]
    BY <1>2, NoTaskType DEF TypeOK, TaskType
  <2> QED
    BY <1>2, <2>1, <2>2 DEF TypeOK, TaskType
<1>12. task'[p] = NoTask
  BY <1>2 DEF TypeOK
<1>13. TaskOK(p)' /\ task'[p].stage \notin Holding
  BY <1>12, IdleIsOK
<1>14. \A q \in Preparers \ {p} : Kept(q)
  BY <1>2, OthersKept
<1> QED
  BY <1>3, <1>10, <1>11, <1>13, <1>14, StepOfOne

-----------------------------------------------------------------------------
(* The theorems.                                                           *)

LEMMA NextInv == CoinInv /\ [Next]_vars => CoinInv'
<1> SUFFICES ASSUME CoinInv, [Next]_vars PROVE CoinInv'
  OBVIOUS
<1>1. ASSUME NEW i \in LegacyInputs, RequestLegacyGeneration(i) PROVE CoinInv'
  BY <1>1, RequestLegacyStep
<1>2. ASSUME NEW k \in Call, LeaseExpires(k) PROVE CoinInv'
  BY <1>2, LeaseExpiresStep
<1>3. ASSUME NEW k \in Call, LinkLapses(k) PROVE CoinInv'
  BY <1>3, LinkLapsesStep
<1>4. ASSUME NEW p \in Preparers, Prepare(p) PROVE CoinInv'
  <2>1. ASSUME NEW m \in Messages, NEW byRequest \in BOOLEAN, Open(p, m, byRequest) PROVE CoinInv'
    BY <2>1, OpenStep
  <2>2. CASE RecoverMessage(p)
    BY <2>2, RecoverMessageStep
  <2>3. CASE CoverMisses(p)
    BY <2>3, CoverMissesStep
  <2>4. ASSUME NEW i \in Inputs, Inspect(p, i) \/ Probe(p, i) \/ Recover(p, i) PROVE CoinInv'
    BY <2>4, InspectStep, ProbeStep, RecoverStep
  <2>5. CASE ClaimNew(p)
    BY <2>5, ClaimNewStep
  <2>6. CASE ClaimExisting(p)
    BY <2>6, ClaimExistingStep
  <2>7. CASE Observe(p)
    BY <2>7, ObserveStep
  <2>8. CASE Leave(p) \/ RecordLost(p)
    BY <2>8, LeaveStep
  <2>9. CASE StartCall(p)
    BY <2>9, StartCallStep
  <2>10. CASE Request(p)
    BY <2>10, RequestStep
  <2>11. CASE Answer(p)
    BY <2>11, AnswerStep
  <2>12. CASE Doubt(p)
    BY <2>12, DoubtStep
  <2>13. CASE Confirm(p)
    BY <2>13, ConfirmStep
  <2>14. CASE RecordRejected(p)
    BY <2>14, RecordRejectedStep
  <2>15. CASE RecordUncertain(p)
    BY <2>15, RecordUncertainStep
  <2>16. CASE SaveSingle(p) \/ SaveMulti(p)
    BY <2>16, SaveStep
  <2> QED
    BY <1>4, <2>1, <2>2, <2>3, <2>4, <2>5, <2>6, <2>7, <2>8, <2>9, <2>10, <2>11, <2>12, <2>13,
       <2>14, <2>15, <2>16 DEF Prepare
<1>5. CASE Crash
  BY <1>5, CrashStep
<1>6. CASE UNCHANGED vars
  <2>1. UNCHANGED <<evidence, gen, requested, preview, expired, lapsed, calls, task, apiCalls, posts>>
    BY <1>6 DEF vars, db, time, wire
  <2>2. RowsInv' /\ Advances
    BY <2>1, RowsUnchanged
  <2>3. TypeOK'
    BY <2>1 DEF CoinInv, TypeOK
  <2>4. \A q \in Preparers : Kept(q)
    BY <2>1 DEF CoinInv, TaskOK, YoungOK, Kept
  <2> QED
    BY <2>1, <2>2, <2>3, <2>4, StepOfNone
<1> QED
  BY <1>1, <1>2, <1>3, <1>4, <1>5, <1>6 DEF Next

\* The inductive invariant holds of every reachable state.
THEOREM CoinInvHolds == Spec => []CoinInv
BY InitInv, NextInv, PTL DEF Spec

\* The rows, the ledger, the previews and the preparations keep their types,
\* and a short never has two evidence rows, whatever a claim deletes and
\* whichever id SQLite gives to the next row.
THEOREM TypeCorrect == Spec => []TypeOK
<1>1. CoinInv => TypeOK
  BY DEF CoinInv
<1> QED
  BY <1>1, CoinInvHolds, PTL

\* The code asks for a link of a short once more only when the link it has is
\* older than its day.
THEOREM NoCallAfterUnknownHolds == Spec => []NoCallAfterUnknown
<1>1. CoinInv => NoCallAfterUnknown
  BY DEF CoinInv, RowsInv
<1> QED
  BY <1>1, CoinInvHolds, PTL

\* A call is on the wire once at most, and never as one that the ledger calls
\* failed or unstarted.
THEOREM WireIsAuditedHolds == Spec => []WireIsAudited
<1>1. CoinInv => WireIsAudited
  BY DEF CoinInv, RowsInv
<1> QED
  BY <1>1, CoinInvHolds, PTL

\* Evidence rows and the generations of the ledger agree, and every open
\* generation has its row.
THEOREM EvidenceMatchesLedgerHolds == Spec => []EvidenceMatchesLedger
<1>1. CoinInv => EvidenceMatchesLedger
  BY DEF CoinInv, RowsInv
<1> QED
  BY <1>1, CoinInvHolds, PTL

\* get_ready gives a preview only if its links are the current links of the
\* shorts of its message, although save_ready of a single short takes the text
\* as it comes and ids of deleted rows are used again.
THEOREM ReadyPreviewIsCurrentHolds == Spec => []ReadyPreviewIsCurrent
<1>1. ASSUME CoinInv PROVE ReadyPreviewIsCurrent
  <2> SUFFICES ASSUME NEW m \in Messages, Ready(m)
               PROVE  /\ \A l \in preview[m] : l.text = l.used /\ gen[l.text].state = "CONFIRMED"
                      /\ {gen[l.text].input : l \in preview[m]} = InputsOf[m]
    BY DEF ReadyPreviewIsCurrent
  <2>1. PreviewOK(m) /\ preview[m] # {}
    BY <1>1 DEF CoinInv, Ready
  <2>2. ASSUME NEW l \in preview[m]
        PROVE  l.text = l.used /\ gen[l.text].state = "CONFIRMED"
    BY <2>1 DEF PreviewOK, Genuine, Backed, Ready
  <2> QED
    BY <2>1, <2>2 DEF PreviewOK
<1> QED
  BY <1>1, CoinInvHolds, PTL

-----------------------------------------------------------------------------
(* The ledger implements AuditedCalls.                                     *)

Answering == {"waiting", "answered", "rejected"}

\* Who waits for an answer or has one made the request, and so did whoever
\* wrote that a call was confirmed or refused.
AnsweredInv ==
  /\ \A p \in Preparers : task[p].stage \in Answering => posts[task[p].call] = 1
  /\ \A k \in Call : gen[k].state \in {"CONFIRMED", "REJECTED"} => posts[k] = 1

\* What a step that prepares no call can make of one.
CallMoves(k) ==
  \/ gen'[k] = gen[k]
  \/ /\ gen'[k].input = gen[k].input
     /\ \/ gen[k].state = "PREPARED" /\ gen'[k].state \in {"CALL_STARTED", "FAILED"}
        \/ gen[k].state = "CALL_STARTED" /\ gen'[k].state = "UNCERTAIN"
        \/ /\ gen[k].state = "CALL_STARTED" /\ gen'[k].state \in {"CONFIRMED", "REJECTED"}
           /\ posts[k] = 1

LEMMA LedgerMoves ==
  ASSUME [Next]_vars
  PROVE  \/ UNCHANGED gen
         \/ LedgerRecovers
         \/ \E p \in Preparers : \/ ClaimNew(p) \/ StartCall(p) \/ Confirm(p)
                                 \/ RecordRejected(p) \/ RecordUncertain(p)
BY ZenonT(40) DEF Next, Prepare, RequestLegacyGeneration, LeaseExpires, LinkLapses, Open, RecoverMessage,
       CoverMisses, Inspect, Probe, Recover, ClaimExisting, Observe, Leave, Request, Answer, Doubt, RecordLost,
       SaveSingle, SaveMulti, Crash, vars, db

LEMMA CallStep ==
  ASSUME CoinInv, AnsweredInv, [Next]_vars, ~\E p \in Preparers : ClaimNew(p), NEW k \in Call
  PROVE  CallMoves(k)
<1>0. gen \in [Call -> GenerationRow] /\ gen[k] \in GenerationRow
  BY DEF CoinInv, TypeOK
<1>1. CASE UNCHANGED gen
  BY <1>1 DEF CallMoves
<1>2. CASE LedgerRecovers
  BY <1>0, <1>2 DEF LedgerRecovers, Lost, OpenRow, GenerationRow, CallMoves
<1>3. ASSUME NEW p \in Preparers, StartCall(p) PROVE CallMoves(k)
  BY <1>0, <1>3 DEF StartCall, GenerationRow, CallMoves
<1>4. ASSUME NEW p \in Preparers, Confirm(p) PROVE CallMoves(k)
  <2>1. posts[task[p].call] = 1
    BY <1>4 DEF Confirm, AnsweredInv, Answering
  <2> QED
    BY <1>0, <1>4, <2>1 DEF Confirm, LedgerConfirms, GenerationRow, CallMoves
<1>5. ASSUME NEW p \in Preparers, RecordRejected(p) PROVE CallMoves(k)
  <2>1. posts[task[p].call] = 1
    BY <1>5 DEF RecordRejected, AnsweredInv, Answering
  <2> QED
    BY <1>0, <1>5, <2>1 DEF RecordRejected, LedgerFails, GenerationRow, CallMoves
<1>6. ASSUME NEW p \in Preparers, RecordUncertain(p) PROVE CallMoves(k)
  BY <1>0, <1>6 DEF RecordUncertain, LedgerFails, GenerationRow, CallMoves
<1> QED
  BY <1>1, <1>2, <1>3, <1>4, <1>5, <1>6, LedgerMoves

LEMMA WireStep ==
  ASSUME CoinInv, [Next]_vars
  PROVE  \/ UNCHANGED posts
         \/ \E p \in Preparers :
              /\ Request(p)
              /\ task[p].call \in Call /\ posts[task[p].call] = 0
              /\ posts' = [posts EXCEPT ![task[p].call] = 1]
<1>1. UNCHANGED posts \/ \E p \in Preparers : Request(p)
  BY ZenonT(40) DEF Next, Prepare, RequestLegacyGeneration, LeaseExpires, LinkLapses, Open, RecoverMessage,
         CoverMisses, Inspect, Probe, Recover, ClaimNew, ClaimExisting, Observe, Leave, StartCall, Answer, Doubt,
         Confirm, RecordRejected, RecordUncertain, RecordLost, SaveSingle, SaveMulti, Crash, vars,
         wire
<1>2. ASSUME NEW p \in Preparers, Request(p)
      PROVE  /\ task[p].call \in Call /\ posts[task[p].call] = 0
             /\ posts' = [posts EXCEPT ![task[p].call] = 1]
  <2>1. task[p].call \in Call /\ posts[task[p].call] = 0
    BY <1>2 DEF Request, CoinInv, TaskOK, CallOK, Holding
  <2>2. posts' = [posts EXCEPT ![task[p].call] = posts[task[p].call] + 1]
    BY <1>2 DEF Request
  <2> QED
    BY <2>1, <2>2
<1> QED
  BY <1>1, <1>2

\* A preparation that waits for an answer or has one did so before, or has just
\* made the request.
LEMMA AnsweringStep ==
  ASSUME CoinInv, [Next]_vars, NEW q \in Preparers, task'[q].stage \in Answering
  PROVE  /\ task'[q].call = task[q].call
         /\ task[q].stage \in Answering \/ Request(q)
<1>0. task \in [Preparers -> TaskType] /\ task[q] \in TaskType
  BY DEF CoinInv, TypeOK, TaskType
<1>1. CASE task'[q] = task[q]
  BY <1>1
<1>2. NoTask.stage \notin Answering
  BY NoTaskType DEF Answering
<1>3. ASSUME NEW p \in Preparers, p # q, Prepare(p)
      PROVE  task'[q].stage = task[q].stage /\ task'[q].call = task[q].call
  <2>1. ASSUME NEW t, task' = [task EXCEPT ![p] = t]
        PROVE  task'[q] = task[q]
    BY <1>0, <1>3, <2>1
  <2>2. ASSUME NEW s, To(p, s) PROVE task'[q] = task[q]
    BY <1>0, <1>3, <2>2 DEF To
  <2>3. CASE \E m \in Messages, b \in BOOLEAN : Open(p, m, b)
    BY <2>1, <2>3 DEF Open
  <2>4. CASE \/ RecoverMessage(p) \/ StartCall(p) \/ Request(p) \/ Answer(p) \/ Doubt(p)
    BY <2>2, <2>4 DEF RecoverMessage, StartCall, Request, Answer, Doubt
  <2>5. CASE CoverMisses(p) \/ \E i \in Inputs : Inspect(p, i) \/ Probe(p, i) \/ Recover(p, i)
    BY <1>0, <1>3, <2>5 DEF CoverMisses, Inspect, Probe, Recover
  <2>6. CASE ClaimNew(p)
    BY <1>0, <1>3, <2>6 DEF ClaimNew
  <2>7. CASE ClaimExisting(p)
    BY <2>1, <2>7 DEF ClaimExisting
  <2>8. CASE \/ Observe(p) \/ Leave(p) \/ RecordRejected(p) \/ RecordUncertain(p) \/ RecordLost(p)
             \/ SaveSingle(p) \/ SaveMulti(p)
    BY <2>1, <2>8 DEF Observe, Leave, RecordRejected, RecordUncertain, RecordLost, SaveSingle,
       SaveMulti
  <2>9. CASE Confirm(p)
    BY <1>0, <1>3, <2>9 DEF Confirm, TaskType
  <2> QED
    BY <1>3, <2>3, <2>4, <2>5, <2>6, <2>7, <2>8, <2>9 DEF Prepare
<1>4. ASSUME Prepare(q)
      PROVE  /\ task'[q].call = task[q].call
             /\ task[q].stage \in Answering \/ Request(q)
  <2> USE DEF Answering
  <2>1. ASSUME NEW m \in Messages, NEW b \in BOOLEAN, Open(q, m, b) PROVE FALSE
    <3>1. task'[q].stage = IF m \in Single THEN "next" ELSE "opened"
      BY <1>0, <2>1, NoTaskType DEF Open, TaskType
    <3> QED
      BY <3>1
  <2>2. CASE RecoverMessage(q) \/ StartCall(q) \/ Doubt(q)
    BY <1>0, <2>2 DEF RecoverMessage, StartCall, Doubt, To, TaskType
  <2>3. CASE Request(q) \/ Answer(q)
    BY <1>0, <2>3 DEF Request, Answer, To, TaskType
  <2>4. ASSUME \/ CoverMisses(q)
               \/ \E i \in Inputs : Inspect(q, i) \/ Probe(q, i) \/ Recover(q, i)
        PROVE  FALSE
    <3>1. task[q].stage \in {"listed", "next", "probed"}
      BY <2>4 DEF CoverMisses, Inspect, Probe, Recover
    <3>2. CASE CoverMisses(q)
      BY <1>0, <3>2 DEF CoverMisses, TaskType
    <3>3. ASSUME NEW i \in Inputs, Inspect(q, i) PROVE FALSE
      <4> DEFINE missed == IF Hit(i) THEN task[q].misses ELSE task[q].misses \cup {i}
      <4>1. task' = [task EXCEPT ![q].looked = @ \cup {i}, ![q].misses = missed]
        BY <3>3 DEF Inspect
      <4> HIDE DEF missed
      <4>2. task'[q].stage = task[q].stage
        BY <1>0, <4>1 DEF TaskType
      <4> QED
        BY <3>1, <4>2
    <3>4. ASSUME NEW i \in Inputs, Probe(q, i) \/ Recover(q, i) PROVE FALSE
      BY <1>0, <3>4 DEF Probe, Recover, TaskType
    <3> QED
      BY <2>4, <3>2, <3>3, <3>4
  <2>5. CASE ClaimNew(q)
    BY <1>0, <2>5 DEF ClaimNew, TaskType
  <2>6. \A id : Found(q, id).stage = "next"
    BY <1>0 DEF Found, TaskType
  <2>7. CASE ClaimExisting(q)
    <3>1. PICK id \in Of(task[q].input) :
            task' = [task EXCEPT ![q] =
              CASE evidence[id].state = "READY"      -> Found(q, id)
                [] evidence[id].state = "GENERATING" /\ task[q].message \in Single ->
                     [task[q] EXCEPT !.stage = "watching", !.id = id]
                [] OTHER -> NoTask]
      BY <2>7 DEF ClaimExisting
    <3>2. [task[q] EXCEPT !.stage = "watching", !.id = id].stage = "watching"
      BY <1>0 DEF TaskType
    <3>3. task'[q] \in {Found(q, id), [task[q] EXCEPT !.stage = "watching", !.id = id], NoTask}
      BY <1>0, <3>1
    <3> QED
      BY <1>2, <2>6, <3>2, <3>3
  <2>8. CASE Observe(q)
    BY <1>0, <2>6, <2>8 DEF Observe
  <2>9. CASE \/ Leave(q) \/ RecordRejected(q) \/ RecordUncertain(q) \/ RecordLost(q)
             \/ SaveSingle(q) \/ SaveMulti(q)
    BY <1>0, <1>2, <2>9 DEF Leave, RecordRejected, RecordUncertain, RecordLost, SaveSingle, SaveMulti
  <2>10. CASE Confirm(q)
    <3>1. task'[q] = [Found(q, task[q].id) EXCEPT !.young = @ \cup {task[q].call}]
      BY <2>10 DEF Confirm
    <3>2. task'[q].stage = "next"
      BY <1>0, <3>1 DEF Found, TaskType
    <3> QED
      BY <3>2
  <2> QED
    BY <1>4, <2>1, <2>2, <2>3, <2>4, <2>5, <2>7, <2>8, <2>9, <2>10 DEF Prepare
<1>5. CASE Crash
  BY <1>2, <1>5 DEF Crash
<1>6. UNCHANGED task \/ Crash \/ \E p \in Preparers : Prepare(p)
  BY DEF Next, RequestLegacyGeneration, LeaseExpires, LinkLapses, vars
<1> QED
  BY <1>1, <1>3, <1>4, <1>5, <1>6

LEMMA InitAnswered == Init => AnsweredInv
BY NoTaskType DEF Init, AnsweredInv, Answering

LEMMA NextAnswered ==
  ASSUME CoinInv, AnsweredInv, [Next]_vars
  PROVE  AnsweredInv'
<1>1. ASSUME NEW k \in Call, posts[k] = 1 PROVE posts'[k] = 1
  BY <1>1, WireStep DEF CoinInv, TypeOK
<1>2. ASSUME NEW q \in Preparers, task'[q].stage \in Answering
      PROVE  posts'[task'[q].call] = 1
  <2>1. task'[q].call = task[q].call /\ (task[q].stage \in Answering \/ Request(q))
    BY <1>2, AnsweringStep
  <2>2. task[q].call \in Call
    BY <2>1 DEF CoinInv, TaskOK, CallOK, Holding, Answering, Request
  <2>3. CASE task[q].stage \in Answering
    BY <1>1, <2>1, <2>2, <2>3 DEF AnsweredInv
  <2>4. CASE Request(q)
    <3>1. posts[task[q].call] = 0
      BY <2>4 DEF Request, CoinInv, TaskOK, CallOK, Holding
    <3> QED
      BY <2>1, <2>2, <2>4, <3>1 DEF Request, CoinInv, TypeOK
  <2> QED
    BY <2>1, <2>3, <2>4
<1>3. ASSUME NEW k \in Call, gen'[k].state \in {"CONFIRMED", "REJECTED"}
      PROVE  posts'[k] = 1
  <2>1. ASSUME NEW p \in Preparers, ClaimNew(p) PROVE posts[k] = 1
    <3>1. gen'[k] = gen[k] \/ gen'[k].state = "PREPARED"
      BY <2>1 DEF ClaimNew, CoinInv, TypeOK
    <3> QED
      BY <1>3, <3>1 DEF AnsweredInv
  <2>2. CASE ~\E p \in Preparers : ClaimNew(p)
    <3>1. CallMoves(k)
      BY <2>2, CallStep
    <3> QED
      BY <1>1, <1>3, <3>1 DEF CallMoves, AnsweredInv
  <2> QED
    BY <1>1, <2>1, <2>2
<1> QED
  BY <1>2, <1>3 DEF AnsweredInv

LEMMA AnsweredAlways == Spec => [](CoinInv /\ AnsweredInv)
<1>1. CoinInv /\ AnsweredInv /\ [Next]_vars => AnsweredInv'
  BY NextAnswered
<1> QED
  BY <1>1, InitAnswered, CoinInvHolds, PTL DEF Spec

LEMMA InitMaps == Init => Audit!AuditInit
BY DEF Init, Audit!AuditInit, Verdict, OpenRow

\* A claim announces its call.
LEMMA ClaimMaps ==
  ASSUME CoinInv, NEW p \in Preparers, ClaimNew(p)
  PROVE  Audit!AuditNext
<1>a. PICK k, i : k = calls + 1 /\ i = task[p].input
  OBVIOUS
<1>0. gen \in [Call -> GenerationRow] /\ i \in Inputs
  BY <1>a DEF CoinInv, TypeOK
<1>1. k \in Call /\ calls < k
  BY <1>a, CoinAssumption DEF ClaimNew, CoinInv, TypeOK, Call
<1>2. gen[k].state = "none" /\ posts[k] = 0
  BY <1>1 DEF CoinInv, RowsInv, CallsAreNumbered
<1>3. Accepted(p) /\ (DOMAIN evidence \ Cleared(p)) \cap Of(i) = {}
  BY <1>a DEF ClaimNew
<1>4. \A j \in Call : gen[j].state # "none" /\ gen[j].input = i => gen[j].state = "CONFIRMED"
  BY <1>3, <1>a, OnlyLapsedBefore
<1>5. gen' = [gen EXCEPT ![k] = [input |-> i, state |-> "PREPARED"]] /\ UNCHANGED posts
  BY <1>a DEF ClaimNew, wire
<1>6. \A s \in Inputs : Verdict(k, s) = "none"
  BY <1>2 DEF Verdict, OpenRow
<1>7. \A s \in {i}, j \in Call : Verdict(j, s) \in {"none", "confirmed"}
  BY <1>4 DEF Verdict, OpenRow
<1>8. [j \in Call |-> [s \in Inputs |-> Verdict(j, s)']]
        = [[j \in Call |-> [s \in Inputs |-> Verdict(j, s)]]
             EXCEPT ![k] = [s \in Inputs |-> IF s \in {i} THEN "open" ELSE "none"]]
  <2>1. \A s \in Inputs : Verdict(k, s)' = IF s \in {i} THEN "open" ELSE "none"
    BY <1>0, <1>1, <1>5 DEF Verdict, OpenRow
  <2>2. \A j \in Call \ {k}, s \in Inputs : Verdict(j, s)' = Verdict(j, s)
    BY <1>0, <1>5 DEF Verdict
  <2> QED
    BY <1>1, <2>1, <2>2
<1>9. Audit!Announce(k, {i})
  <2> DEFINE V == [j \in Call |-> [s \in Inputs |-> Verdict(j, s)]]
  <2>1. \A j \in Call, s \in Inputs : V[j][s] = Verdict(j, s)
    OBVIOUS
  <2>2. \A s \in Inputs : V[k][s] = "none"
    BY <1>1, <1>6, <2>1
  <2>3. \A s \in {i}, j \in Call : V[j][s] \in {"none", "confirmed"}
    BY <1>0, <1>7, <2>1
  <2>4. V' = [V EXCEPT ![k] = [s \in Inputs |-> IF s \in {i} THEN "open" ELSE "none"]]
    BY <1>8
  <2>5. {i} # {} /\ posts[k] = 0 /\ UNCHANGED posts
    BY <1>2, <1>5
  <2> QED
    BY <2>2, <2>3, <2>4, <2>5 DEF Audit!Announce
<1> QED
  BY <1>0, <1>1, <1>9 DEF Audit!AuditNext

\* A request is made of an announced call.
LEMMA RequestMaps ==
  ASSUME CoinInv, AnsweredInv, NEW p \in Preparers, Request(p)
  PROVE  Audit!AuditNext
<1> DEFINE k == task[p].call
           i == task[p].input
<1>1. /\ k \in Call /\ posts[k] = 0 /\ Called(k)
      /\ gen[k].input = i /\ i \in Inputs
  BY DEF Request, CoinInv, TypeOK, TaskOK, CallOK, Holding
<1>2. gen[k].state \in {"CALL_STARTED", "UNCERTAIN"}
  <2>1. gen[k] \in GenerationRow
    BY <1>1 DEF CoinInv, TypeOK
  <2> QED
    BY <1>1, <2>1 DEF AnsweredInv, Called, GenerationRow, OpenRow
<1>3. posts' = [posts EXCEPT ![k] = 1] /\ UNCHANGED gen
  BY <1>1 DEF Request, db, CoinInv, TypeOK
<1> HIDE DEF k, i
<1>4. Verdict(k, i) # "none" /\ \A s \in Inputs : Verdict(k, s) \in {"none", "open", "unknown"}
  BY <1>1, <1>2 DEF Verdict, OpenRow
<1>5. \A j \in Call, s \in Inputs : Verdict(j, s)' = Verdict(j, s)
  BY <1>3 DEF Verdict
<1>6. Audit!Ask(k)
  BY <1>1, <1>3, <1>4, <1>5 DEF Audit!Ask
<1> QED
  BY <1>1, <1>6 DEF Audit!AuditNext

LEMMA StepMaps ==
  ASSUME CoinInv, AnsweredInv, [Next]_vars
  PROVE  Audit!AuditNext
<1>1. ASSUME NEW p \in Preparers, ClaimNew(p) PROVE Audit!AuditNext
  BY <1>1, ClaimMaps
<1>2. ASSUME NEW p \in Preparers, Request(p) PROVE Audit!AuditNext
  BY <1>2, RequestMaps
<1>3. CASE UNCHANGED posts /\ ~\E p \in Preparers : ClaimNew(p)
  <2>1. ASSUME NEW k \in Call, NEW i \in Inputs
        PROVE  \/ Verdict(k, i)' = Verdict(k, i)
               \/ Verdict(k, i) = "open" /\ Verdict(k, i)' \in Audit!Possible(k)
    <3>1. CallMoves(k)
      BY <1>3, CallStep
    <3>2. gen[k].state = "PREPARED" => posts[k] = 0
      <4>1. posts[k] \in Nat
        BY DEF CoinInv, TypeOK
      <4> QED
        BY <4>1 DEF CoinInv, RowsInv, WireIsAudited
    <3>3. CASE gen'[k] = gen[k]
      BY <3>3 DEF Verdict
    <3>4. CASE gen'[k].input = gen[k].input
      BY <3>1, <3>2, <3>3, <3>4 DEF CallMoves, Verdict, OpenRow, Audit!Possible
    <3> QED
      BY <3>1, <3>3, <3>4 DEF CallMoves
  <2>2. \A k \in Call, i \in Inputs : Verdict(k, i)' \in Audit!Verdicts
    BY DEF Verdict, Audit!Verdicts
  <2>3. Audit!Settle
    BY <1>3, <2>1, <2>2 DEF Audit!Settle
  <2> QED
    BY <2>3 DEF Audit!AuditNext
<1> QED
  BY <1>1, <1>2, <1>3, WireStep

\* Coin calls keep the promise of AuditedCalls, for any number of shorts,
\* messages and preparations: the ledger and the wire change only as that
\* module allows.
THEOREM CoinLedgerImplementsAuditedCalls == Spec => ImplementsAuditedCalls
<1>1. Spec => Audit!AuditInit /\ [][Audit!AuditNext]_(Audit!auditVars)
  BY InitMaps, StepMaps, AnsweredAlways, PTL DEF Spec
<1> QED
  BY <1>1 DEF ImplementsAuditedCalls, Audit!AuditSpec
=============================================================================
