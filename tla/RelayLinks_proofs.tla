-------------------------- MODULE RelayLinks_proofs --------------------------
(* Proofs about RelayLinks for every value of its constants. *)
EXTENDS RelayLinks, TLAPS

Busy(w) == worker[w].stage # "idle"

Settled(l) == link[l] \notin {"none", "RECEIVED"}

Retained(l) == link[l] = "PENDING_AFFILIATE"

HasOriginal(l) == \E k \in Links \ {l} : Retained(k) /\ ItemOf[k] = ItemOf[l]

\* What a worker may rely on: the links it passed are settled, the one it is at
\* is not, and a product it found recorded has another link that was retained.
WorkerOK(w) ==
  LET m == worker[w].msg
      n == worker[w].at
  IN
  Busy(w) =>
    /\ \A i \in 1..Len(LinksOf[m]) : i < n => Settled(LinksOf[m][i])
    /\ n >= 1
    /\ worker[w].stage # "next" =>
         n <= Len(LinksOf[m]) /\ link[LinksOf[m][n]] = "RECEIVED"
    /\ worker[w].stage \in {"product", "duplicate", "new"} => ItemOf[LinksOf[m][n]] # NoItem
    /\ worker[w].stage = "duplicate" => HasOriginal(LinksOf[m][n])

\* A message is in the hands of one worker.
OneWorker ==
  \A v, w \in Workers : Busy(v) /\ Busy(w) /\ worker[v].msg = worker[w].msg => v = w

\* A product that is recorded today has a link that was retained.
RecordedIsRetained ==
  \A i \in Items : Seen(i) => \E k \in Links : Retained(k) /\ ItemOf[k] = i

CompletedIsSettled ==
  \A m \in Messages : status[m] = "COMPLETED" => \A l \in RowsOf(m) : Settled(l)

ProductsLead ==
  \A l \in Links :
    link[l] \in {"PENDING_AFFILIATE", "DUPLICATE_CANONICAL"} /\ ItemOf[l] \in Enriched
      => LeadsToOwn(l)

LinksInv ==
  /\ OneWorker
  /\ \A w \in Workers : WorkerOK(w)
  /\ RecordedIsRetained
  /\ DuplicateHasOriginal
  /\ CompletedIsSettled
  /\ ProductsLead

-----------------------------------------------------------------------------
(* Type correctness.                                                       *)

WorkerType == [stage : {"idle", "next", "resolving", "product", "duplicate", "new"},
               msg : Messages, at : Nat]

LEMMA IdleType == Idle \in WorkerType
<1>1. (CHOOSE m \in Messages : TRUE) \in Messages
  BY LinksAssumption
<1> QED
  BY <1>1 DEF Idle, WorkerType

\* The link a worker is at.
LEMMA MineType ==
  ASSUME TypeOK, NEW w \in Workers, worker[w].at >= 1,
         worker[w].at <= Len(LinksOf[worker[w].msg])
  PROVE  Mine(w) \in RowsOf(worker[w].msg) /\ Mine(w) \in Links
<1>1. /\ worker[w].msg \in Messages /\ worker[w].at \in Nat
  BY DEF TypeOK
<1>2. LinksOf[worker[w].msg] \in Seq(Links)
  BY <1>1, LinksAssumption
<1>3. worker[w].at \in 1..Len(LinksOf[worker[w].msg])
  BY <1>1, <1>2
<1> QED
  BY <1>2, <1>3 DEF Mine, RowsOf

LEMMA RowsAreLinks ==
  ASSUME NEW m \in Messages
  PROVE  /\ LinksOf[m] \in Seq(Links) /\ Len(LinksOf[m]) \in Nat
         /\ RowsOf(m) \subseteq Links
         /\ \A i \in 1..Len(LinksOf[m]) : LinksOf[m][i] \in Links
<1>1. LinksOf[m] \in Seq(Links)
  BY LinksAssumption
<1> QED
  BY <1>1 DEF RowsOf

LEMMA InitTypeOK == Init => TypeOK
BY IdleType, LinksAssumption, ItemsAssumption
   DEF Init, TypeOK, Open, LinkState, WorkerType

\* A link and its candidate stay in their types.
LEMMA RefusalsType ==
  ASSUME NEW l \in Links, NEW s \in Refusals(l)
  PROVE  s \in {"IGNORED", "REJECTED", "MANUAL_REVIEW"}
BY DEF Refusals, NetworkRefusals, NoProduct

LEMMA NextTypeOK == TypeOK /\ [Next]_vars => TypeOK'
<1> SUFFICES ASSUME TypeOK, [Next]_vars
             PROVE  TypeOK'
  OBVIOUS
<1> USE LinksAssumption, ItemsAssumption DEF TypeOK, Open, LinkState, messages, records
<1>0. ASSUME NEW w \in Workers
      PROVE  worker[w] \in WorkerType
  BY DEF WorkerType
<1>1. ASSUME NEW w \in Workers, NEW m \in Messages, Claim(w, m)
      PROVE  TypeOK'
  <2>1. attempts' \in [Messages -> 0..MaxAttempts]
    BY <1>1 DEF Claim
  <2> QED
    BY <1>1, <2>1 DEF Claim
<1>2. ASSUME NEW w \in Workers, Fail(w) \/ Complete(w)
      PROVE  TypeOK'
  <2>1. worker' \in [Workers -> WorkerType]
    BY <1>2, IdleType DEF Fail, Complete, WorkerType
  <2>2. status' \in [Messages -> Open \cup {"COMPLETED", "FAILED_PERMANENT"}]
    <3>1. CASE Fail(w)
      BY <3>1 DEF Fail
    <3>2. CASE Complete(w)
      BY <3>2 DEF Complete
    <3> QED
      BY <1>2, <3>1, <3>2
  <2>3. UNCHANGED <<attempts, records, crashes>>
    BY <1>2 DEF Fail, Complete
  <2> QED
    BY <2>1, <2>2, <2>3 DEF WorkerType
<1>3. ASSUME NEW w \in Workers, NextLink(w)
      PROVE  worker' \in [Workers -> WorkerType]
  <2>2. worker[w] \in WorkerType /\ worker[w].at + 1 \in Nat
    BY <1>0 DEF WorkerType
  <2>1. [worker[w] EXCEPT !.stage = "next", !.at = @ + 1] \in WorkerType
    BY <2>2 DEF WorkerType
  <2> QED
    BY <1>3, <2>1 DEF NextLink, WorkerType
<1>4. ASSUME NEW w \in Workers, NEW s \in {"resolving", "product", "duplicate", "new"}, To(w, s)
      PROVE  worker' \in [Workers -> WorkerType]
  <2>1. [worker[w] EXCEPT !.stage = s] \in WorkerType
    BY <1>0 DEF WorkerType
  <2> QED
    BY <1>4, <2>1 DEF To, WorkerType
<1>5. ASSUME NEW w \in Workers, Receive(w)
      PROVE  TypeOK'
  <2>1. worker' \in [Workers -> WorkerType]
    BY <1>3, <1>4, <1>5 DEF Receive
  <2> QED
    BY <1>5, <2>1 DEF Receive, WorkerType
<1>6. ASSUME NEW w \in Workers, Settle(w)
      PROVE  TypeOK'
  <2>1. worker' \in [Workers -> WorkerType]
    BY <1>3, <1>6 DEF Settle
  <2>2. link' \in [Links -> LinkState]
    BY <1>6 DEF Settle, SetOutcome, Refusals, NetworkRefusals, NoProduct
  <2> QED
    BY <1>6, <2>1, <2>2 DEF Settle, WorkerType
<1>7. ASSUME NEW w \in Workers, Resolve(w) \/ Find(w)
      PROVE  TypeOK'
  <2>1. worker' \in [Workers -> WorkerType]
    BY <1>4, <1>7 DEF Resolve, Find
  <2> QED
    BY <1>7, <2>1 DEF Resolve, Find, WorkerType
<1>8. ASSUME NEW w \in Workers, Duplicate(w) \/ Retain(w)
      PROVE  TypeOK'
  <2>1. worker' \in [Workers -> WorkerType]
    BY <1>3, <1>8 DEF Duplicate, Retain
  <2>2. link' \in [Links -> LinkState]
    BY <1>8 DEF Duplicate, Retain, SetOutcome
  <2>4. processed' \in [Items -> {"none", "canonical", "other"}]
    BY <1>8 DEF Duplicate, Retain, Record
  <2>3. candidate' \in [Links -> Items \cup {NoItem}] /\ exists' \subseteq Items
    BY <1>8, ZenonT(40) DEF Duplicate, Retain, EnsureIfEnriched, EnsureForLink, Enriched
  <2> QED
    BY <1>8, <2>1, <2>2, <2>3, <2>4 DEF Duplicate, Retain, WorkerType
<1>9. CASE MarkExhausted
  BY <1>9 DEF MarkExhausted
<1>10. CASE Backfill
  <2>1. \A l \in Unattached : l \in Links /\ ItemOf[l] \in Items /\ Bare[ItemOf[l]] \in Items
    BY DEF Unattached
  <2> QED
    BY <1>10, <2>1 DEF Backfill
<1>11. CASE Crash
  <2>1. crashes' \in 0..MaxCrashes
    BY <1>11 DEF Crash
  <2> QED
    BY <1>11, <2>1, IdleType DEF Crash, WorkerType
<1>12. CASE UNCHANGED vars
  BY <1>12 DEF vars
<1> QED
  BY <1>1, <1>2, <1>5, <1>6, <1>7, <1>8, <1>9, <1>10, <1>11, <1>12 DEF Next, Process

\* Every reachable state is typed; no message has more attempts than it may.
THEOREM TypeCorrect == Spec => []TypeOK
BY InitTypeOK, NextTypeOK, PTL DEF Spec

-----------------------------------------------------------------------------
(* How links change.                                                       *)

LEMMA InitLinksInv == Init => LinksInv
<1> SUFFICES ASSUME Init
             PROVE  LinksInv
  OBVIOUS
<1>1. \A w \in Workers : ~Busy(w)
  BY DEF Init, Idle, Busy
<1>2. RecordedIsRetained
  <2> SUFFICES ASSUME NEW i \in Items, Seen(i)
               PROVE  \E k \in Links : Retained(k) /\ ItemOf[k] = i
    BY DEF RecordedIsRetained
  <2>1. PICK k \in Old : ItemOf[k] = i
    BY DEF Init, Seen
  <2> QED
    BY <2>1, ItemsAssumption DEF Init, Retained
<1>3. DuplicateHasOriginal
  BY DEF Init, DuplicateHasOriginal
<1>4. CompletedIsSettled
  <2> SUFFICES ASSUME NEW m \in Messages, status[m] = "COMPLETED", NEW l \in RowsOf(m)
               PROVE  Settled(l)
    BY DEF CompletedIsSettled
  <2>1. l \in Old
    BY ItemsAssumption DEF Init
  <2>2. l \in Links
    BY RowsAreLinks
  <2> QED
    BY <2>1, <2>2 DEF Init, Settled
<1>5. ProductsLead
  BY DEF Init, ProductsLead, LeadsToOwn
<1> QED
  BY <1>1, <1>2, <1>3, <1>4, <1>5 DEF LinksInv, OneWorker, WorkerOK

\* A worker at a link that is not settled: its message, its place and its link.
LEMMA AtLink ==
  ASSUME TypeOK, LinksInv, NEW w \in Workers, Busy(w),
         worker[w].stage # "next" \/ worker[w].at <= Len(LinksOf[worker[w].msg])
  PROVE  /\ worker[w].msg \in Messages
         /\ worker[w].at \in 1..Len(LinksOf[worker[w].msg])
         /\ Mine(w) \in RowsOf(worker[w].msg) /\ Mine(w) \in Links
         /\ Mine(w) = LinksOf[worker[w].msg][worker[w].at]
<1>1. WorkerOK(w) /\ worker[w].msg \in Messages /\ worker[w].at \in Nat
  BY DEF LinksInv, TypeOK
<1>2. worker[w].at >= 1 /\ worker[w].at <= Len(LinksOf[worker[w].msg])
  BY <1>1 DEF WorkerOK
<1>3. Len(LinksOf[worker[w].msg]) \in Nat
  BY <1>1, RowsAreLinks
<1> QED
  BY <1>1, <1>2, <1>3, MineType DEF Mine

\* Links of two workers are different.
LEMMA TwoLinks ==
  ASSUME TypeOK, LinksInv, NEW v \in Workers, NEW w \in Workers, v # w, Busy(v), Busy(w),
         NEW l \in RowsOf(worker[w].msg)
  PROVE  l \notin RowsOf(worker[v].msg)
<1>1. worker[v].msg # worker[w].msg
  BY DEF LinksInv, OneWorker
<1>2. worker[v].msg \in Messages /\ worker[w].msg \in Messages
  BY DEF TypeOK
<1>3. RowsOf(worker[v].msg) \cap RowsOf(worker[w].msg) = {}
  BY <1>1, <1>2, LinksAssumption
<1> QED
  BY <1>3

\* A step that gives link l, which is not settled, another state: what is
\* settled stays, and what others rely on does.
LEMMA LinkStep ==
  ASSUME TypeOK, LinksInv, NEW w \in Workers, Busy(w),
         NEW l \in RowsOf(worker[w].msg), ~Settled(l),
         \A k \in Links \ {l} : link'[k] = link[k],
         \A v \in Workers \ {w} : worker'[v] = worker[v],
         Busy(w)' => worker'[w].msg = worker[w].msg
  PROVE  /\ OneWorker'
         /\ \A v \in Workers \ {w} : WorkerOK(v)'
         /\ \A k \in Links : Settled(k) => Settled(k)' /\ link'[k] = link[k]
         /\ \A k \in Links : HasOriginal(k) => HasOriginal(k)'
<1>1. worker[w].msg \in Messages /\ l \in Links
  BY RowsAreLinks DEF TypeOK
<1>2. OneWorker'
  BY DEF LinksInv, OneWorker, Busy
<1>3. \A k \in Links : Settled(k) => Settled(k)' /\ link'[k] = link[k]
  BY DEF Settled
<1>4. \A k \in Links : HasOriginal(k) => HasOriginal(k)'
  <2> SUFFICES ASSUME NEW k \in Links, HasOriginal(k)
               PROVE  HasOriginal(k)'
    OBVIOUS
  <2>1. PICK j \in Links \ {k} : Retained(j) /\ ItemOf[j] = ItemOf[k]
    BY DEF HasOriginal
  <2>2. Retained(j)'
    BY <1>3, <2>1 DEF Retained, Settled
  <2> QED
    BY <2>1, <2>2 DEF HasOriginal
<1>5. ASSUME NEW v \in Workers, v # w
      PROVE  WorkerOK(v)'
  <2> SUFFICES ASSUME Busy(v)
               PROVE  WorkerOK(v)'
    BY <1>5 DEF WorkerOK, Busy
  <2>1. WorkerOK(v) /\ worker'[v] = worker[v]
    BY <1>5 DEF LinksInv
  <2>2. PICK m \in Messages, n \in Nat : m = worker[v].msg /\ n = worker[v].at
    BY DEF TypeOK
  <2>3. l \notin RowsOf(m)
    BY <1>5, <2>2, TwoLinks
  <2>4. \A i \in 1..Len(LinksOf[m]) : LinksOf[m][i] \in Links /\ LinksOf[m][i] # l
    BY <2>3, RowsAreLinks DEF RowsOf
  <2>5. \A i \in 1..Len(LinksOf[m]) : link'[LinksOf[m][i]] = link[LinksOf[m][i]]
    BY <2>4
  <2>6. worker[v].stage # "next" => n \in 1..Len(LinksOf[m])
    BY <2>1, <2>2, RowsAreLinks DEF WorkerOK
  <2>7. worker[v].stage = "duplicate" => HasOriginal(LinksOf[m][n])'
    BY <1>4, <2>1, <2>2, <2>4, <2>6 DEF WorkerOK
  <2> QED
    BY <2>1, <2>2, <2>5, <2>6, <2>7 DEF WorkerOK, Busy, Settled
<1> QED
  BY <1>2, <1>3, <1>4, <1>5

\* A worker goes on to the next link once the one it was at is settled.
LEMMA Advance ==
  ASSUME TypeOK, LinksInv, NEW w \in Workers, Busy(w), NextLink(w),
         NEW l, l = Mine(w), worker[w].at \in 1..Len(LinksOf[worker[w].msg]),
         \A k \in Links : Settled(k) => Settled(k)', Settled(l)'
  PROVE  /\ WorkerOK(w)' /\ Busy(w)' /\ worker'[w].msg = worker[w].msg
         /\ \A v \in Workers \ {w} : worker'[v] = worker[v]
<1>1. PICK m \in Messages, n \in Nat : m = worker[w].msg /\ n = worker[w].at
  BY DEF TypeOK
<1>2. /\ worker'[w].stage = "next" /\ worker'[w].msg = m /\ worker'[w].at = n + 1
      /\ \A v \in Workers \ {w} : worker'[v] = worker[v]
  BY <1>1 DEF NextLink, TypeOK
<1>3. Len(LinksOf[m]) \in Nat /\ \A i \in 1..Len(LinksOf[m]) : LinksOf[m][i] \in Links
  BY RowsAreLinks
<1>4. \A i \in 1..Len(LinksOf[m]) : i < n => Settled(LinksOf[m][i])
  BY <1>1 DEF LinksInv, WorkerOK
<1>5. l = LinksOf[m][n]
  BY <1>1 DEF Mine
<1>6. \A i \in 1..Len(LinksOf[m]) : i < n + 1 => Settled(LinksOf[m][i])'
  BY <1>1, <1>3, <1>4, <1>5
<1> QED
  BY <1>1, <1>2, <1>6 DEF WorkerOK, Busy, Settled

\* What the links and products of the message rows, of the history and of the
\* candidates keep when no link of a step loses its state.
LEMMA RecordsStay ==
  ASSUME TypeOK, LinksInv, UNCHANGED records,
         \A m \in Messages : status'[m] = "COMPLETED" =>
           status[m] = "COMPLETED" \/ \A l \in RowsOf(m) : Settled(l)
  PROVE  RecordedIsRetained' /\ DuplicateHasOriginal' /\ CompletedIsSettled' /\ ProductsLead'
<1>1. UNCHANGED <<link, candidate, exists, processed>>
  BY DEF records
<1>2. RecordedIsRetained'
  BY <1>1 DEF LinksInv, RecordedIsRetained, Seen, Retained
<1>3. DuplicateHasOriginal'
  BY <1>1 DEF LinksInv, DuplicateHasOriginal
<1>4. CompletedIsSettled'
  BY <1>1 DEF LinksInv, CompletedIsSettled, Settled
<1>5. ProductsLead'
  BY <1>1 DEF LinksInv, ProductsLead, LeadsToOwn
<1> QED
  BY <1>2, <1>3, <1>4, <1>5

\* Workers whose links are left alone.
LEMMA WorkersStay ==
  ASSUME TypeOK, LinksInv, UNCHANGED link, NEW v \in Workers, worker'[v] = worker[v]
  PROVE  WorkerOK(v)'
BY DEF LinksInv, WorkerOK, Busy, Settled, HasOriginal, Retained

\* Worker w gives its link l, which is not settled, the state s, and goes on.
Outcome(w, l, s) ==
  /\ l = Mine(w) /\ link[l] = "RECEIVED"
  /\ s \in LinkState \ {"none", "RECEIVED"}
  /\ SetOutcome(l, s) /\ NextLink(w) /\ UNCHANGED messages
  /\ s = "DUPLICATE_CANONICAL" => HasOriginal(l)
  /\ \A i \in Items :
       Seen(i)' => Seen(i) \/ (s = "PENDING_AFFILIATE" /\ ItemOf[l] = i)
  /\ \A k \in Links \ {l} : candidate'[k] = candidate[k]
  /\ exists \subseteq exists'
  /\ s \in {"PENDING_AFFILIATE", "DUPLICATE_CANONICAL"} /\ ItemOf[l] \in Enriched =>
       candidate'[l] = ItemOf[l] /\ ItemOf[l] \in exists'

LEMMA OutcomeStep ==
  ASSUME TypeOK, LinksInv, NEW w \in Workers, Busy(w), NEW l \in Links, NEW s,
         worker[w].at \in 1..Len(LinksOf[worker[w].msg]), Outcome(w, l, s)
  PROVE  LinksInv'
<1> USE DEF Outcome
<1>1. link'[l] = s /\ \A k \in Links \ {l} : link'[k] = link[k]
  BY DEF SetOutcome, TypeOK
<1>2. ~Settled(l) /\ Settled(l)'
  BY <1>1 DEF Settled
<1>3. l \in RowsOf(worker[w].msg)
  BY RowsAreLinks DEF Mine, RowsOf, TypeOK
<1>4. /\ \A v \in Workers \ {w} : worker'[v] = worker[v]
      /\ worker'[w].msg = worker[w].msg
  BY DEF NextLink, TypeOK
<1>5. /\ OneWorker'
      /\ \A v \in Workers \ {w} : WorkerOK(v)'
      /\ \A k \in Links : Settled(k) => Settled(k)' /\ link'[k] = link[k]
      /\ \A k \in Links : HasOriginal(k) => HasOriginal(k)'
  BY <1>1, <1>2, <1>3, <1>4, LinkStep
<1>6. WorkerOK(w)'
  BY <1>2, <1>5, Advance
<1>7. RecordedIsRetained'
  <2> SUFFICES ASSUME NEW i \in Items, Seen(i)'
               PROVE  \E k \in Links : Retained(k)' /\ ItemOf[k] = i
    BY DEF RecordedIsRetained
  <2>1. CASE Seen(i)
    <3>1. PICK k \in Links : Retained(k) /\ ItemOf[k] = i
      BY <2>1 DEF LinksInv, RecordedIsRetained
    <3> QED
      BY <1>5, <3>1 DEF Retained, Settled
  <2>2. CASE s = "PENDING_AFFILIATE" /\ ItemOf[l] = i
    BY <1>1, <2>2 DEF Retained
  <2> QED
    BY <2>1, <2>2
<1>8. DuplicateHasOriginal'
  <2> SUFFICES ASSUME NEW k \in Links, link'[k] = "DUPLICATE_CANONICAL"
               PROVE  HasOriginal(k)'
    BY DEF DuplicateHasOriginal, HasOriginal, Retained
  <2>1. HasOriginal(k)
    BY <1>1 DEF LinksInv, DuplicateHasOriginal, HasOriginal, Retained
  <2> QED
    BY <1>5, <2>1
<1>9. CompletedIsSettled'
  BY <1>5, RowsAreLinks DEF LinksInv, CompletedIsSettled, messages
<1>10. ProductsLead'
  <2> SUFFICES ASSUME NEW k \in Links,
                      link'[k] \in {"PENDING_AFFILIATE", "DUPLICATE_CANONICAL"},
                      ItemOf[k] \in Enriched
               PROVE  LeadsToOwn(k)'
    BY DEF ProductsLead
  <2>1. CASE k = l
    BY <1>1, <2>1 DEF LeadsToOwn
  <2>2. CASE k # l
    <3>1. LeadsToOwn(k) /\ candidate'[k] = candidate[k]
      BY <1>1, <2>2 DEF LinksInv, ProductsLead
    <3> QED
      BY <3>1 DEF LeadsToOwn
  <2> QED
    BY <2>1, <2>2
<1> QED
  BY <1>5, <1>6, <1>7, <1>8, <1>9, <1>10 DEF LinksInv

-----------------------------------------------------------------------------
(* The inductive invariant.                                                *)

LEMMA ProcessLinksInv ==
  ASSUME TypeOK, LinksInv, NEW w \in Workers, Process(w)
  PROVE  LinksInv'
<1>0. PICK m \in Messages, n \in Nat : m = worker[w].msg /\ n = worker[w].at
  BY DEF TypeOK
<1>1. ASSUME NEW c \in Messages, Claim(w, c)
      PROVE  LinksInv'
  <2>1. /\ worker'[w] = [stage |-> "next", msg |-> c, at |-> 1]
        /\ \A v \in Workers \ {w} : worker'[v] = worker[v]
        /\ \A v \in Workers : ~(Busy(v) /\ worker[v].msg = c)
        /\ UNCHANGED records
    BY <1>1 DEF Claim, Holds, Busy, TypeOK
  <2>2. OneWorker'
    BY <2>1 DEF LinksInv, OneWorker, Busy
  <2>3. WorkerOK(w)'
    <3>1. \A i \in 1..Len(LinksOf[c]) : ~(i < 1)
      BY RowsAreLinks
    <3> QED
      BY <2>1, <3>1 DEF WorkerOK
  <2>4. \A x \in Messages : status'[x] = "COMPLETED" => status[x] = "COMPLETED"
    BY <1>1 DEF Claim, TypeOK
  <2> QED
    BY <2>1, <2>2, <2>3, <2>4, WorkersStay, RecordsStay DEF LinksInv, records
<1>2. ASSUME worker' = [worker EXCEPT ![w] = Idle], UNCHANGED records,
             \A x \in Messages : status'[x] = "COMPLETED" =>
               status[x] = "COMPLETED" \/ \A l \in RowsOf(x) : Settled(l)
      PROVE  LinksInv'
  <2>1. ~Busy(w)' /\ \A v \in Workers \ {w} : worker'[v] = worker[v]
    BY <1>2 DEF Busy, Idle, TypeOK
  <2>2. OneWorker' /\ WorkerOK(w)'
    BY <2>1 DEF LinksInv, OneWorker, Busy, WorkerOK
  <2> QED
    BY <1>2, <2>1, <2>2, WorkersStay, RecordsStay DEF LinksInv, records
<1>3. CASE Fail(w)
  BY <1>2, <1>3 DEF Fail, TypeOK
<1>4. CASE Complete(w)
  <2>1. \A l \in RowsOf(m) : Settled(l)
    BY <1>0, <1>4, RowsAreLinks DEF Complete, LinksInv, WorkerOK, Busy, RowsOf
  <2>2. \A x \in Messages \ {m} : status'[x] = status[x]
    BY <1>0, <1>4 DEF Complete, TypeOK
  <2> QED
    BY <1>0, <1>2, <1>4, <2>1, <2>2 DEF Complete
<1>5. ASSUME Busy(w), NEW s \in {"resolving", "product", "duplicate", "new"}, To(w, s)
      PROVE  /\ worker'[w].stage = s /\ worker'[w].msg = m /\ worker'[w].at = n
             /\ \A v \in Workers \ {w} : worker'[v] = worker[v]
  BY <1>0, <1>5 DEF To, TypeOK
<1>6. CASE Receive(w)
  <2>1. Busy(w) /\ worker[w].at <= Len(LinksOf[worker[w].msg])
    BY <1>6 DEF Receive, Busy
  <2>2. PICK l \in RowsOf(m) : l = Mine(w) /\ l \in Links /\ n \in 1..Len(LinksOf[m])
                                /\ l = LinksOf[m][n]
    BY <1>0, <2>1, AtLink
  <2>3. CASE ~Settled(l)
    <3>1. /\ link'[l] = "RECEIVED" /\ \A k \in Links \ {l} : link'[k] = link[k]
          /\ To(w, "resolving")
      BY <1>6, <2>2, <2>3 DEF Receive, Settled, TypeOK
    <3>2. /\ worker'[w].stage = "resolving" /\ worker'[w].msg = m /\ worker'[w].at = n
          /\ \A v \in Workers \ {w} : worker'[v] = worker[v]
      BY <1>5, <2>1, <3>1
    <3>3. /\ OneWorker'
          /\ \A v \in Workers \ {w} : WorkerOK(v)'
          /\ \A k \in Links : Settled(k) => Settled(k)' /\ link'[k] = link[k]
          /\ \A k \in Links : HasOriginal(k) => HasOriginal(k)'
      BY <1>0, <2>1, <2>2, <2>3, <3>1, <3>2, LinkStep
    <3>4. WorkerOK(w)'
      <4>1. \A i \in 1..Len(LinksOf[m]) : i < n => Settled(LinksOf[m][i])'
        BY <1>0, <2>1, <3>3, RowsAreLinks DEF LinksInv, WorkerOK
      <4> QED
        BY <2>2, <3>1, <3>2, <4>1 DEF WorkerOK
    <3>5. UNCHANGED <<messages, candidate, exists, processed>>
      BY <1>6 DEF Receive
    <3>6. RecordedIsRetained'
      BY <3>3, <3>5 DEF LinksInv, RecordedIsRetained, Seen, Retained, Settled
    <3>7. DuplicateHasOriginal'
      <4> SUFFICES ASSUME NEW k \in Links, link'[k] = "DUPLICATE_CANONICAL"
                   PROVE  HasOriginal(k)'
        BY DEF DuplicateHasOriginal, HasOriginal, Retained
      <4>1. HasOriginal(k)
        BY <3>1 DEF LinksInv, DuplicateHasOriginal, HasOriginal, Retained
      <4> QED
        BY <3>3, <4>1
    <3>8. CompletedIsSettled'
      BY <3>3, <3>5, RowsAreLinks DEF LinksInv, CompletedIsSettled, messages
    <3>9. ProductsLead'
      BY <3>1, <3>5 DEF LinksInv, ProductsLead, LeadsToOwn
    <3> QED
      BY <3>3, <3>4, <3>6, <3>7, <3>8, <3>9 DEF LinksInv
  <2>4. CASE Settled(l)
    <3>1. NextLink(w) /\ UNCHANGED records /\ UNCHANGED messages
      BY <1>6, <2>2, <2>4 DEF Receive, Settled, records
    <3>2. UNCHANGED <<link, status>>
      BY <3>1 DEF records, messages
    <3>3. \A k \in Links : Settled(k) => Settled(k)'
      BY <3>2 DEF Settled
    <3>4. /\ WorkerOK(w)' /\ Busy(w)' /\ worker'[w].msg = worker[w].msg
          /\ \A v \in Workers \ {w} : worker'[v] = worker[v]
      BY <1>0, <2>1, <2>2, <2>4, <3>1, <3>2, <3>3, Advance
    <3>5. OneWorker'
      BY <2>1, <3>4 DEF LinksInv, OneWorker, Busy
    <3> QED
      BY <3>1, <3>2, <3>4, <3>5, WorkersStay, RecordsStay DEF LinksInv
  <2> QED
    BY <2>3, <2>4
<1>7. ASSUME worker[w].stage \notin {"idle", "next"}
      PROVE  /\ Busy(w) /\ n \in 1..Len(LinksOf[m]) /\ Mine(w) = LinksOf[m][n]
             /\ Mine(w) \in Links /\ link[Mine(w)] = "RECEIVED" /\ WorkerOK(w)
  <2>1. Busy(w) /\ WorkerOK(w)
    BY <1>7 DEF Busy, LinksInv
  <2>2. n \in 1..Len(LinksOf[m]) /\ Mine(w) = LinksOf[m][n] /\ Mine(w) \in Links
    BY <1>0, <1>7, <2>1, AtLink
  <2> QED
    BY <1>0, <1>7, <2>1, <2>2 DEF WorkerOK
<1>8. CASE Settle(w)
  <2>1. PICK l \in Links : l = Mine(w) /\ link[l] = "RECEIVED" /\ Busy(w)
                           /\ n \in 1..Len(LinksOf[m])
    BY <1>7, <1>8 DEF Settle
  <2>2. PICK s \in Refusals(l) : SetOutcome(l, s)
    BY <1>8, <2>1 DEF Settle
  <2>3. s \in {"IGNORED", "REJECTED", "MANUAL_REVIEW"}
    BY <2>2, RefusalsType
  <2>4. NextLink(w) /\ UNCHANGED messages /\ UNCHANGED <<candidate, exists, processed>>
    BY <1>8 DEF Settle
  <2>5. \A i \in Items : Seen(i)' => Seen(i)
    BY <2>4 DEF Seen
  <2>6. \A k \in Links \ {l} : candidate'[k] = candidate[k]
    BY <2>4
  <2>7. worker[w].at \in 1..Len(LinksOf[worker[w].msg]) /\ exists \subseteq exists'
    BY <1>0, <2>1, <2>4
  <2>8. /\ s \in LinkState \ {"none", "RECEIVED"}
        /\ s # "DUPLICATE_CANONICAL" /\ s # "PENDING_AFFILIATE"
    BY <2>3 DEF LinkState
  <2> QED
    <3>1. Outcome(w, l, s)
      BY <2>1, <2>2, <2>4, <2>5, <2>6, <2>7, <2>8 DEF Outcome
    <3> QED
      BY <2>1, <2>7, <3>1, OutcomeStep
\* A step that only finds out more about the link.
<1>9. ASSUME Busy(w), UNCHANGED <<messages, records>>,
             NEW s \in {"product", "duplicate", "new"}, To(w, s),
             worker[w].stage \notin {"idle", "next"},
             ItemOf[Mine(w)] # NoItem, s = "duplicate" => HasOriginal(Mine(w))
      PROVE  LinksInv'
  <2>1. /\ worker'[w].stage = s /\ worker'[w].msg = m /\ worker'[w].at = n
        /\ \A v \in Workers \ {w} : worker'[v] = worker[v]
    BY <1>5, <1>9
  <2>2. OneWorker'
    BY <1>0, <1>9, <2>1 DEF LinksInv, OneWorker, Busy
  <2>3. UNCHANGED <<link, status>>
    BY <1>9 DEF records, messages
  <2>4. \A k \in Links : HasOriginal(k) => HasOriginal(k)'
    BY <2>3 DEF HasOriginal, Retained
  <2>5. WorkerOK(w)'
    BY <1>0, <1>7, <1>9, <2>1, <2>3, <2>4 DEF WorkerOK, Busy, Settled
  <2> QED
    BY <1>9, <2>1, <2>2, <2>3, <2>5, WorkersStay, RecordsStay DEF LinksInv
<1>10. CASE Resolve(w)
  BY <1>7, <1>9, <1>10 DEF Resolve
<1>11. CASE Find(w)
  <2>1. PICK l \in Links : l = Mine(w) /\ link[l] = "RECEIVED" /\ Busy(w)
                           /\ WorkerOK(w) /\ l = LinksOf[m][n]
    BY <1>7, <1>11 DEF Find
  <2>2. ItemOf[l] \in Items
    BY <1>0, <1>11, <2>1, LinksAssumption DEF Find, WorkerOK
  <2>3. Seen(ItemOf[l]) => HasOriginal(l)
    BY <2>1, <2>2 DEF LinksInv, RecordedIsRetained, HasOriginal, Retained
  <2>4. CASE Seen(ItemOf[l])
    BY <1>9, <1>11, <2>1, <2>2, <2>3, <2>4, LinksAssumption DEF Find
  <2>5. CASE ~Seen(ItemOf[l])
    BY <1>9, <1>11, <2>1, <2>2, <2>5, LinksAssumption DEF Find
  <2> QED
    BY <2>4, <2>5
<1>12. CASE Duplicate(w) \/ Retain(w)
  <2>1. PICK l \in Links : l = Mine(w) /\ link[l] = "RECEIVED" /\ Busy(w)
                           /\ n \in 1..Len(LinksOf[m]) /\ WorkerOK(w) /\ l = LinksOf[m][n]
    BY <1>7, <1>12 DEF Duplicate, Retain
  <2>2. EnsureIfEnriched(l) /\ NextLink(w) /\ UNCHANGED messages
    BY <1>12, <2>1 DEF Duplicate, Retain
  <2>3. /\ \A k \in Links \ {l} : candidate'[k] = candidate[k]
        /\ exists \subseteq exists'
        /\ ItemOf[l] \in Enriched => candidate'[l] = ItemOf[l] /\ ItemOf[l] \in exists'
    BY <2>1, <2>2 DEF EnsureIfEnriched, EnsureForLink, TypeOK
  <2>4. CASE Duplicate(w)
    <3>1. SetOutcome(l, "DUPLICATE_CANONICAL") /\ UNCHANGED processed
      BY <2>1, <2>4 DEF Duplicate
    <3>2. HasOriginal(l)
      BY <1>0, <2>1, <2>4 DEF Duplicate, WorkerOK
    <3>3. \A i \in Items : Seen(i)' => Seen(i)
      BY <3>1 DEF Seen
    <3>4. "DUPLICATE_CANONICAL" \in LinkState \ {"none", "RECEIVED"}
      BY DEF LinkState
    <3>5. worker[w].at \in 1..Len(LinksOf[worker[w].msg])
      BY <1>0, <2>1
    <3>6. Outcome(w, l, "DUPLICATE_CANONICAL")
      BY <2>1, <2>2, <2>3, <3>1, <3>2, <3>3, <3>4 DEF Outcome
    <3> QED
      BY <2>1, <3>5, <3>6, OutcomeStep
  <2>5. CASE Retain(w)
    <3>1. SetOutcome(l, "PENDING_AFFILIATE") /\ Record(ItemOf[l])
      BY <2>1, <2>5 DEF Retain
    <3>2. \A i \in Items : Seen(i)' => Seen(i) \/ ItemOf[l] = i
      BY <3>1 DEF Seen, Record, TypeOK
    <3>3. "PENDING_AFFILIATE" \in LinkState \ {"none", "RECEIVED"}
      BY DEF LinkState
    <3>4. worker[w].at \in 1..Len(LinksOf[worker[w].msg])
      BY <1>0, <2>1
    <3>5. Outcome(w, l, "PENDING_AFFILIATE")
      BY <2>1, <2>2, <2>3, <3>1, <3>2, <3>3 DEF Outcome
    <3> QED
      BY <2>1, <3>4, <3>5, OutcomeStep
  <2> QED
    BY <1>12, <2>4, <2>5
<1> QED
  BY <1>1, <1>3, <1>4, <1>6, <1>8, <1>10, <1>11, <1>12 DEF Process

LEMMA NextLinksInv == TypeOK /\ LinksInv /\ [Next]_vars => LinksInv'
<1> SUFFICES ASSUME TypeOK, LinksInv, [Next]_vars
             PROVE  LinksInv'
  OBVIOUS
\* The workers go on where they were.
<1>1. ASSUME UNCHANGED <<worker, link>>
      PROVE  OneWorker' /\ \A w \in Workers : WorkerOK(w)'
  <2>1. OneWorker'
    BY <1>1 DEF LinksInv, OneWorker, Busy
  <2> QED
    BY <1>1, <2>1, WorkersStay
<1>2. CASE MarkExhausted
  <2>1. \A m \in Messages : status'[m] = "COMPLETED" => status[m] = "COMPLETED"
    BY <1>2 DEF MarkExhausted
  <2> QED
    BY <1>1, <1>2, <2>1, RecordsStay DEF MarkExhausted, LinksInv, records
<1>3. CASE Backfill
  <2>1. PICK S \in SUBSET Unattached :
          /\ candidate' = [l \in Links |-> IF l \in S THEN Bare[ItemOf[l]] ELSE candidate[l]]
          /\ exists' = exists \cup {Bare[ItemOf[l]] : l \in S}
          /\ UNCHANGED <<messages, link, processed, worker>>
    BY <1>3 DEF Backfill
  <2>2. /\ RecordedIsRetained' /\ DuplicateHasOriginal' /\ CompletedIsSettled'
    BY <2>1 DEF LinksInv, RecordedIsRetained, DuplicateHasOriginal, CompletedIsSettled,
                Seen, Retained, Settled, messages
  <2>3. ProductsLead'
    <3> SUFFICES ASSUME NEW l \in Links,
                        link[l] \in {"PENDING_AFFILIATE", "DUPLICATE_CANONICAL"},
                        ItemOf[l] \in Enriched
                 PROVE  LeadsToOwn(l)'
      BY <2>1 DEF ProductsLead
    <3>1. LeadsToOwn(l)
      BY DEF LinksInv, ProductsLead
    <3>2. CASE l \in S
      <4>1. candidate[l] = NoItem /\ ItemOf[l] \in Items
        BY <3>2, ItemsAssumption DEF Unattached
      <4>2. l \in Old
        BY <3>1, <4>1, LinksAssumption DEF LeadsToOwn
      <4>3. candidate'[l] = Bare[ItemOf[l]] /\ Bare[ItemOf[l]] \in exists'
        BY <2>1, <3>2
      <4> QED
        BY <4>2, <4>3 DEF LeadsToOwn
    <3>3. CASE l \notin S
      <4>1. candidate'[l] = candidate[l] /\ exists \subseteq exists'
        BY <2>1, <3>3
      <4> QED
        BY <3>1, <4>1 DEF LeadsToOwn
    <3> QED
      BY <3>2, <3>3
  <2> QED
    BY <1>1, <2>1, <2>2, <2>3 DEF LinksInv
<1>4. CASE Crash
  <2>1. \A w \in Workers : worker'[w] = Idle
    BY <1>4 DEF Crash
  <2>4. Idle.stage = "idle"
    BY DEF Idle
  <2>2. \A w \in Workers : ~Busy(w)'
    BY <2>1, <2>4 DEF Busy
  <2>3. OneWorker' /\ \A w \in Workers : WorkerOK(w)'
    BY <2>2 DEF OneWorker, WorkerOK
  <2> QED
    BY <1>4, <2>3, RecordsStay DEF Crash, LinksInv, messages
<1>5. CASE UNCHANGED vars
  BY <1>1, <1>5, RecordsStay DEF vars, messages, records, LinksInv
<1> QED
  BY <1>2, <1>3, <1>4, <1>5, ProcessLinksInv DEF Next

LEMMA LinksInvAlways == Spec => [](TypeOK /\ LinksInv)
<1>1. Init => TypeOK /\ LinksInv
  BY InitTypeOK, InitLinksInv
<1>2. TypeOK /\ LinksInv /\ [Next]_vars => (TypeOK /\ LinksInv)'
  BY NextTypeOK, NextLinksInv
<1> QED
  BY <1>1, <1>2, PTL DEF Spec

\* Whatever the retries, crashes and workers, a link that _process_link calls a
\* duplicate has another link of its product that was retained: find answers
\* before the link's own record, and record and set_outcome are one transaction.
THEOREM DuplicateHasOriginalHolds == Spec => []DuplicateHasOriginal
<1>1. LinksInv => DuplicateHasOriginal
  BY DEF LinksInv
<1> QED
  BY <1>1, LinksInvAlways, PTL

\* complete is reached only behind the last link, and every link a worker goes
\* past is settled; no product leads to the candidate of another one, and none
\* but a link older than the candidates leads to none.
THEOREM LinksAreCoveredHolds == Spec => []LinksAreCovered
<1>1. LinksInv => LinksAreCovered
  BY DEF LinksInv, LinksAreCovered, CompletedIsSettled, ProductsLead, Settled
<1> QED
  BY <1>1, LinksInvAlways, PTL
=============================================================================
