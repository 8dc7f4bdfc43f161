------------------------ MODULE DiscoveryRuns_proofs ------------------------
(* Proofs about DiscoveryRuns for every value of its constants: one inductive *)
(* invariant, DiscoveryInv, and what follows from it.  A live page is         *)
(* recorded by a recursive function, so what it leaves is proved by induction *)
(* over its items (EveryNumber, from the least element of a set of numbers).  *)
EXTENDS DiscoveryRuns, FiniteSetTheorems, WellFoundedInduction, TLAPS

-----------------------------------------------------------------------------
(* Induction over numbers, for sets: the least element of a set of them.    *)

LEMMA LeastElement ==
  ASSUME NEW T \in SUBSET Nat, T # {}
  PROVE  \E n \in T : \A m \in T : n <= m
<1>1. \E x \in T : \A y \in T : <<y, x>> \notin OpToRel(<, Nat)
  BY NatLessThanWellFounded, WFMin
<1>2. PICK n \in T : \A y \in T : <<y, n>> \notin OpToRel(<, Nat)
  BY <1>1
<1>3. \A m \in T : ~(m < n)
  BY <1>2 DEF OpToRel
<1> QED
  BY <1>3

LEMMA EveryNumber ==
  ASSUME NEW S, 0 \in S, \A n \in Nat : n \in S => n + 1 \in S
  PROVE  \A n \in Nat : n \in S
<1> SUFFICES ASSUME Nat \ S # {}
             PROVE  FALSE
  OBVIOUS
<1>1. PICK n \in Nat \ S : \A m \in Nat \ S : n <= m
  BY LeastElement
<1>2. n # 0 /\ n - 1 \in Nat
  BY <1>1
<1>3. n - 1 \in S
  BY <1>1, <1>2
<1>4. n = (n - 1) + 1
  BY <1>1
<1> QED
  BY <1>1, <1>2, <1>3, <1>4

-----------------------------------------------------------------------------
(* Prices.                                                                  *)

\* The k-th price exists.
LEMMA NthIsPrice ==
  ASSUME NEW s, IsFiniteSet(s), \A x \in s : x[3] \in Nat, NEW k \in 1..Cardinality(s)
  PROVE  Nth(s, k) \in Nat
<1> DEFINE upto(v) == {x \in s : x[3] <= v}
           enough == {v \in Nat : Cardinality(upto(v)) >= k}
<1>1. Cardinality(s) \in Nat /\ k \in Nat /\ k >= 1
  BY FS_CardinalityType
<1>2. \A v \in Nat : IsFiniteSet(upto(v)) /\ Cardinality(upto(v)) \in Nat
  BY FS_Subset, FS_CardinalityType
<1>3. enough # {}
  <2> DEFINE f == [x \in s |-> x[3]]
             p == {x[3] : x \in s}
  <2>1. f \in Surjection(s, p)
    BY DEF Surjection
  <2>2. IsFiniteSet(p)
    BY <2>1, FS_Surjection
  <2>3. \E v \in Nat : \A x \in p : x <= v
    <3> DEFINE S == {n \in Nat : \A q \in SUBSET Nat :
                        IsFiniteSet(q) /\ Cardinality(q) = n => \E v \in Nat : \A x \in q : x <= v}
    <3>1. 0 \in S
      BY FS_EmptySet
    <3>2. ASSUME NEW n \in Nat, n \in S
          PROVE  n + 1 \in S
      <4> SUFFICES ASSUME NEW q \in SUBSET Nat, IsFiniteSet(q), Cardinality(q) = n + 1
                   PROVE  \E v \in Nat : \A x \in q : x <= v
        BY <3>2
      <4>0. q # {}
        BY FS_EmptySet
      <4>1. PICK y : y \in q
        BY <4>0
      <4>2. IsFiniteSet(q \ {y}) /\ Cardinality(q \ {y}) = n
        <5>1. IsFiniteSet(q \ {y}) /\ Cardinality(q \ {y}) = Cardinality(q) - 1
          BY <4>1, FS_RemoveElement
        <5> QED
          BY <5>1
      <4>3. PICK v \in Nat : \A x \in q \ {y} : x <= v
        BY <3>2, <4>2
      <4>4. CASE y <= v
        BY <4>3, <4>4
      <4>5. CASE ~(y <= v)
        BY <4>1, <4>3, <4>5
      <4> QED
        BY <4>4, <4>5
    <3> HIDE DEF S
    <3>3. \A n \in Nat : n \in S
      BY <3>1, <3>2, EveryNumber
    <3>4. p \in SUBSET Nat /\ Cardinality(p) \in Nat
      BY <2>2, FS_CardinalityType
    <3> QED
      BY <2>2, <3>3, <3>4 DEF S
  <2>4. PICK v \in Nat : \A x \in p : x <= v
    BY <2>3
  <2>5. upto(v) = s
    BY <2>4
  <2> QED
    BY <1>1, <2>5
<1>4. PICK v \in enough : \A w \in enough : v <= w
  BY <1>3, LeastElement
<1>5. v \in Nat /\ Cardinality(upto(v)) >= k
  BY <1>4
<1>6. Cardinality({x \in s : x[3] < v}) < k
  <2>1. CASE v = 0
    <3>1. {x \in s : x[3] < v} = {}
      BY <2>1
    <3>2. Cardinality({x \in s : x[3] < v}) = 0
      BY <3>1, FS_EmptySet
    <3> QED
      BY <1>1, <3>2
  <2>2. CASE v # 0
    <3>1. v - 1 \in Nat /\ v - 1 \notin enough
      BY <1>4, <1>5, <2>2
    <3>2. {x \in s : x[3] < v} = upto(v - 1)
      BY <1>5
    <3>3. ~(Cardinality(upto(v - 1)) >= k)
      BY <3>1
    <3>5. Cardinality(upto(v - 1)) \in Nat
      BY <1>2, <3>1
    <3> HIDE DEF upto, enough
    <3>4. Cardinality(upto(v - 1)) < k
      BY <1>1, <3>3, <3>5
    <3> QED
      BY <3>2, <3>4 DEF upto
  <2> QED
    BY <2>1, <2>2
<1>7. \E x \in s : x[3] = v
  <2> SUFFICES ASSUME \A x \in s : x[3] # v
               PROVE  FALSE
    OBVIOUS
  <2>1. upto(v) = {x \in s : x[3] < v}
    BY <1>5
  <2> QED
    BY <1>1, <1>2, <1>5, <1>6, <2>1
<1>8. \E u \in {x[3] : x \in s} : /\ Cardinality({x \in s : x[3] < u}) < k
                                  /\ Cardinality({x \in s : x[3] <= u}) >= k
  BY <1>5, <1>6, <1>7
<1> QED
  BY <1>8 DEF Nth

LEMMA MedianIsNumber ==
  ASSUME NEW s, IsFiniteSet(s), \A x \in s : x[3] \in Nat, Cardinality(s) >= 1
  PROVE  Median2(s) \in Nat
<1>1. Cardinality(s) \in Nat
  BY FS_CardinalityType
<1>2. /\ (Cardinality(s) + 1) \div 2 \in 1..Cardinality(s)
      /\ Cardinality(s) >= 2 => Cardinality(s) \div 2 + 1 \in 1..Cardinality(s)
      /\ Cardinality(s) = 1 => Cardinality(s) \div 2 + 1 = 1
  BY <1>1
<1> QED
  BY <1>1, <1>2, NthIsPrice DEF Median2

\* What other runs observed is finite, and its prices are numbers.
LEMMA OthersAreFinite ==
  ASSUME NEW table, NEW D, IsFiniteSet(D), table \in [D -> [Products -> Seq(Nat)]],
         NEW r, NEW p \in Products
  PROVE  /\ IsFiniteSet(Others(table, r, p))
         /\ \A x \in Others(table, r, p) : x[3] \in Nat
<1> DEFINE of(o) == {<<o, i, table[o][p][i]>> : i \in DOMAIN table[o][p]}
           all == {of(o) : o \in D \ {r}}
<1>1. ASSUME NEW o \in D
      PROVE  IsFiniteSet(of(o))
  <2>1. table[o][p] \in Seq(Nat)
    OBVIOUS
  <2>2. DOMAIN table[o][p] = 1..Len(table[o][p]) /\ Len(table[o][p]) \in Nat
    BY <2>1
  <2>3. IsFiniteSet(DOMAIN table[o][p])
    BY <2>2, FS_Interval
  <2>4. [i \in DOMAIN table[o][p] |-> <<o, i, table[o][p][i]>>]
          \in Surjection(DOMAIN table[o][p], of(o))
    BY DEF Surjection
  <2> QED
    BY <2>3, <2>4, FS_Surjection
<1>2. IsFiniteSet(D \ {r})
  BY FS_Subset
<1> HIDE DEF of
<1>3. [o \in D \ {r} |-> of(o)] \in Surjection(D \ {r}, all)
  BY DEF Surjection
<1>4. IsFiniteSet(all)
  BY <1>2, <1>3, FS_Surjection
<1>5. IsFiniteSet(UNION all)
  BY <1>1, <1>4, FS_UNION
<1>6. Others(table, r, p) = UNION all
  BY DEF Others, of
<1>7. ASSUME NEW x \in Others(table, r, p)
      PROVE  x[3] \in Nat
  <2>1. PICK o \in D : \E i \in DOMAIN table[o][p] : x = <<o, i, table[o][p][i]>>
    BY <1>7 DEF Others
  <2>2. table[o][p] \in Seq(Nat)
    OBVIOUS
  <2> QED
    BY <2>1, <2>2
<1> QED
  BY <1>5, <1>6, <1>7

\* A product gets a class and a score that is a number, the one that drops
\* in price included.
LEMMA RankIsTyped ==
  ASSUME NEW s, IsFiniteSet(s), \A x \in s : x[3] \in Nat, NEW item \in Offers
  PROVE  /\ Rank(s, item).class \in {"INSUFFICIENT_DATA", "HISTORY_BACKED_PRICE_DROP",
                                     "PROVIDER_DISCOUNT_ONLY", "BASELINE_ONLY"}
         /\ Rank(s, item).score \in Nat
<1>1. item.price \in Nat /\ item.discount \in Nat
  BY DEF Offers
<1>2. ASSUME Drops(s, item.price), item.price # 0
      PROVE  /\ Median2(s) \in Nat \ {0}
             /\ Median2(s) - 2 * item.price \in Nat
  <2>1. Median2(s) \in Nat
    BY <1>2, MedianIsNumber, FS_CardinalityType DEF Drops
  <2>2. MinimumDrop \in Nat
    BY DiscoveryAssumption DEF ProfileIsValid
  <2>3. MinimumDrop * Median2(s) >= 0
    BY <2>1, <2>2
  <2>4. 100 * (Median2(s) - 2 * item.price) >= MinimumDrop * Median2(s)
    BY <1>2 DEF Drops
  <2> HIDE DEF Drops
  <2>5. \A n, m \in Int : m >= 0 /\ 100 * n >= m => n >= 0
    OBVIOUS
  <2>6. Median2(s) - 2 * item.price \in Int /\ MinimumDrop * Median2(s) \in Int
    BY <1>1, <2>1, <2>2
  <2>7. Median2(s) - 2 * item.price >= 0
    BY <2>3, <2>4, <2>5, <2>6
  <2> QED
    BY <1>1, <1>2, <2>1, <2>7
<1>3. item.price # 0 => HistoryScore(s, item.price) \in Nat
  <2>1. CASE ~Drops(s, item.price)
    BY <2>1 DEF HistoryScore
  <2>2. CASE Drops(s, item.price) /\ item.price # 0
    <3>1. \A m \in Nat \ {0}, n \in Nat : (200 * n) \div m \in Nat
      OBVIOUS
    <3>2. (200 * (Median2(s) - 2 * item.price)) \div Median2(s) \in Nat
      BY <1>2, <2>2, <3>1
    <3> QED
      BY <3>2 DEF HistoryScore
  <2> QED
    BY <2>1, <2>2
<1>4. (IF item.discount \div 2 > 15 THEN 15 ELSE item.discount \div 2) \in Nat
  BY <1>1
<1>5. (IF item.price = 0 THEN 0 ELSE 1 + HistoryScore(s, item.price)) \in Nat
  BY <1>3
<1>6. Rank(s, item).score \in Nat
  BY <1>4, <1>5 DEF Rank
<1> QED
  BY <1>6 DEF Rank

-----------------------------------------------------------------------------
(* The rows of a scan, as a transaction leaves them.                        *)

Priced(table, r) == {p \in Products : table[r][p] # <<>>}

ScanPrice(row) == IF row # None /\ row.origin = "LIVE" /\ row.price > 0
                  THEN <<row.price>> ELSE <<>>

In(rows) == {p \in Products : rows[p] # None}

ScanRows == [rows : [Products -> Result \cup {None}], listed : Nat, snaps : Nat,
             prices : [Products -> Seq(Nat)], cut : BOOLEAN]

\* The counters are those of the rows, and each live price is observed once.
Consistent(w) ==
  /\ w \in ScanRows
  /\ w.listed = Cardinality(In(w.rows))
  /\ w.snaps = Cardinality({p \in Products : w.prices[p] # <<>>})
  /\ \A p \in Products : w.prices[p] = ScanPrice(w.rows[p])

Prices(rs) == [rs -> [Products -> Seq(Nat)]]

LEMMA ProductsOf ==
  ASSUME NEW P \in SUBSET Products
  PROVE  IsFiniteSet(P) /\ Cardinality(P) \in Nat
BY DiscoveryAssumption, FS_Subset, FS_CardinalityType

\* One product more, or the same products.
LEMMA CountOneMore ==
  ASSUME NEW P \in SUBSET Products, NEW p \in Products
  PROVE  /\ p \notin P => Cardinality(P \cup {p}) = Cardinality(P) + 1
         /\ p \in P => P \cup {p} = P
BY ProductsOf, FS_AddElement

LEMMA RecordedIsConsistent ==
  ASSUME observed \in Prices(Earlier \cup Scans), NEW r \in Scans,
         NEW w, Consistent(w), NEW item \in Offers, NEW origin \in {"LIVE", "CACHE"}
  PROVE  LET new == Recorded(r, w, item, origin)
         IN  /\ Consistent(new)
             /\ In(new.rows) = In(w.rows) \cup {item.product}
             /\ new.listed <= w.listed + 1
             /\ new.cut \in {w.cut, FALSE}
<1> DEFINE p == item.product
           old == w.rows[p]
           rank == Rank(Others(observed, r, p), item)
           row == [origin |-> origin, price |-> item.price, class |-> rank.class,
                   score |-> rank.score]
           snap == origin = "LIVE" /\ item.price > 0
           rows == [w.rows EXCEPT ![p] = row]
           listed == IF old = None THEN w.listed + 1 ELSE w.listed
           snaps == IF snap THEN w.snaps + 1 ELSE w.snaps
           prices == IF snap THEN [w.prices EXCEPT ![p] = Append(@, item.price)] ELSE w.prices
           new == [rows |-> rows, listed |-> listed, snaps |-> snaps, prices |-> prices,
                   cut |-> FALSE]
<1>1. p \in Products /\ item.price \in Nat
  BY DEF Offers
<1>2. /\ w.rows \in [Products -> Result \cup {None}] /\ w.listed \in Nat /\ w.snaps \in Nat
      /\ w.prices \in [Products -> Seq(Nat)] /\ w.cut \in BOOLEAN
  BY DEF Consistent, ScanRows
<1>3. row \in Result /\ row # None
  <2>1. IsFiniteSet(Earlier \cup Scans)
    BY DiscoveryAssumption, FS_Union
  <2>2. /\ IsFiniteSet(Others(observed, r, p))
        /\ \A x \in Others(observed, r, p) : x[3] \in Nat
    BY <1>1, <2>1, OthersAreFinite DEF Prices
  <2>3. /\ rank.class \in {"INSUFFICIENT_DATA", "HISTORY_BACKED_PRICE_DROP",
                           "PROVIDER_DISCOUNT_ONLY", "BASELINE_ONLY"}
        /\ rank.score \in Nat
    BY <2>2, RankIsTyped
  <2> HIDE DEF rank
  <2>4. row \in Result
    BY <1>1, <2>3 DEF Result
  <2> QED
    BY <2>4, NoneAssumption
<1> HIDE DEF row
<1>4. CASE old # None /\ (old.origin = "LIVE" \/ origin = "CACHE")
  <2>1. Recorded(r, w, item, origin) = w
    BY <1>4 DEF Recorded
  <2>2. p \in In(w.rows)
    BY <1>1, <1>4 DEF In
  <2> QED
    BY <1>2, <2>1, <2>2
<1>5. CASE ~(old # None /\ (old.origin = "LIVE" \/ origin = "CACHE"))
  <2>1. Recorded(r, w, item, origin) = new
    BY <1>5 DEF Recorded, row
  <2>2. /\ rows \in [Products -> Result \cup {None}] /\ rows[p] = row
        /\ \A q \in Products \ {p} : rows[q] = w.rows[q]
    BY <1>1, <1>2, <1>3
  <2>3. In(rows) = In(w.rows) \cup {p}
    BY <1>1, <1>3, <2>2 DEF In
  <2>4. listed = Cardinality(In(rows)) /\ listed \in Nat /\ listed <= w.listed + 1
    <3>1. In(w.rows) \in SUBSET Products /\ w.listed = Cardinality(In(w.rows))
      BY DEF In, Consistent
    <3>2. p \in In(w.rows) <=> old # None
      BY <1>1 DEF In
    <3> HIDE DEF rows, p
    <3>3. CASE old = None
      <4>1. Cardinality(In(rows)) = Cardinality(In(w.rows)) + 1
        BY <1>1, <2>3, <3>1, <3>2, <3>3, CountOneMore
      <4> QED
        BY <1>2, <3>1, <3>3, <4>1
    <3>4. CASE old # None
      <4>1. In(rows) = In(w.rows)
        BY <1>1, <2>3, <3>1, <3>2, <3>4, CountOneMore
      <4> QED
        BY <1>2, <3>1, <3>4, <4>1
    <3> QED
      BY <3>3, <3>4
  <2>5. w.prices[p] = <<>>
    BY <1>1, <1>5 DEF Consistent, ScanPrice
  <2>6. /\ row.origin = origin /\ row.price = item.price
    BY DEF row
  <2>7. /\ prices \in [Products -> Seq(Nat)]
        /\ prices[p] = IF snap THEN <<item.price>> ELSE <<>>
        /\ \A q \in Products \ {p} : prices[q] = w.prices[q]
    BY <1>1, <1>2, <2>5
  <2>8. \A q \in Products : prices[q] = ScanPrice(rows[q])
    <3>1. prices[p] = ScanPrice(rows[p])
      BY <1>3, <2>2, <2>6, <2>7 DEF ScanPrice
    <3>2. ASSUME NEW q \in Products \ {p}
          PROVE  prices[q] = ScanPrice(rows[q])
      BY <2>2, <2>7 DEF Consistent
    <3> QED
      BY <3>1, <3>2
  <2>9. snaps = Cardinality({q \in Products : prices[q] # <<>>}) /\ snaps \in Nat
    <3> DEFINE before == {q \in Products : w.prices[q] # <<>>}
               after == {q \in Products : prices[q] # <<>>}
    <3>1. w.snaps = Cardinality(before) /\ p \notin before /\ before \in SUBSET Products
      BY <2>5 DEF Consistent
    <3>2. CASE snap
      <4>0. \A n \in Nat : <<n>> # <<>>
        OBVIOUS
      <4>1. prices[p] # <<>>
        <5> HIDE DEF prices, p
        <5> QED
          BY <1>1, <2>7, <3>2, <4>0
      <4>2. after = before \cup {p}
        BY <1>1, <2>7, <4>1
      <4> HIDE DEF before, after
      <4>3. Cardinality(after) = Cardinality(before) + 1
        BY <1>1, <3>1, <4>2, CountOneMore
      <4> QED
        BY <1>2, <3>1, <3>2, <4>3 DEF after
    <3>3. CASE ~snap
      <4>1. after = before
        BY <2>5, <2>7, <3>3
      <4> QED
        BY <1>2, <3>1, <3>3, <4>1
    <3> QED
      BY <3>2, <3>3
  <2> HIDE DEF rows, listed, snaps, prices
  <2>10. new \in ScanRows
    BY <2>2, <2>4, <2>7, <2>9 DEF ScanRows
  <2>11. Consistent(new)
    BY <2>4, <2>8, <2>9, <2>10 DEF Consistent
  <2>12. In(new.rows) = In(w.rows) \cup {p} /\ new.listed <= w.listed + 1 /\ new.cut = FALSE
    BY <2>3, <2>4
  <2> QED
    BY <2>1, <2>11, <2>12
<1> QED
  BY <1>4, <1>5

-----------------------------------------------------------------------------
(* A live page, item by item.                                               *)

\* after[i]: the rows after i items of the page, up to the n-th.
AfterItems(r, pg, n, after) ==
  after = [i \in 0..n |-> IF i = 0 THEN Rows(r)
                                   ELSE RecordLive(r, after[i - 1], pg.items[i])]

LEMMA AfterItemsExists ==
  ASSUME NEW r, NEW pg
  PROVE  \A n \in Nat : \E after : AfterItems(r, pg, n, after)
<1> DEFINE S == {n \in Nat : \E after : AfterItems(r, pg, n, after)}
<1>1. 0 \in S
  <2>1. AfterItems(r, pg, 0, [i \in 0..0 |-> Rows(r)])
    BY DEF AfterItems
  <2> QED
    BY <2>1
<1>2. ASSUME NEW n \in Nat, n \in S
      PROVE  n + 1 \in S
  <2>1. PICK after : AfterItems(r, pg, n, after)
    BY <1>2
  <2> DEFINE last == RecordLive(r, after[n], pg.items[n + 1])
             next == [i \in 0..(n + 1) |-> IF i = n + 1 THEN last ELSE after[i]]
  <2>2. \A i \in 0..n : next[i] = after[i]
    OBVIOUS
  <2>3. \A i \in 0..n : after[i] = IF i = 0 THEN Rows(r)
                                   ELSE RecordLive(r, after[i - 1], pg.items[i])
    BY <2>1 DEF AfterItems
  <2>4. \A i \in 0..(n + 1) : next[i] = IF i = 0 THEN Rows(r)
                                        ELSE RecordLive(r, next[i - 1], pg.items[i])
    <3>1. ASSUME NEW i \in 0..n
          PROVE  next[i] = IF i = 0 THEN Rows(r) ELSE RecordLive(r, next[i - 1], pg.items[i])
      <4>1. i # 0 => i - 1 \in 0..n
        OBVIOUS
      <4>2. i # 0 => next[i - 1] = after[i - 1]
        BY <2>2, <4>1
      <4> HIDE DEF next
      <4> QED
        BY <2>2, <2>3, <4>2
    <3>2. next[n + 1] = RecordLive(r, next[n], pg.items[n + 1])
      OBVIOUS
    <3> HIDE DEF next
    <3> QED
      BY <3>1, <3>2
  <2>5. next = [i \in 0..(n + 1) |-> IF i = 0 THEN Rows(r)
                                     ELSE RecordLive(r, next[i - 1], pg.items[i])]
    <3>1. next = [i \in 0..(n + 1) |-> next[i]]
      OBVIOUS
    <3> HIDE DEF next
    <3> QED
      BY <2>4, <3>1
  <2>6. AfterItems(r, pg, n + 1, next)
    BY <2>5 DEF AfterItems
  <2> HIDE DEF next
  <2> QED
    BY <2>6
<1> HIDE DEF S
<1>3. \A n \in Nat : n \in S
  BY <1>1, <1>2, EveryNumber
<1> QED
  BY <1>3 DEF S

LEMMA RecordPageIsLast ==
  ASSUME NEW r, NEW pg, Len(pg.items) \in Nat
  PROVE  \E after : /\ AfterItems(r, pg, Len(pg.items), after)
                    /\ RecordPage(r, pg) = after[Len(pg.items)]
<1> DEFINE after == CHOOSE a : AfterItems(r, pg, Len(pg.items), a)
<1>1. AfterItems(r, pg, Len(pg.items), after)
  BY AfterItemsExists
<1>2. RecordPage(r, pg) = after[Len(pg.items)]
  BY DEF RecordPage, AfterItems
<1> HIDE DEF after
<1> QED
  BY <1>1, <1>2

\* A page leaves counters that are those of its rows.  It lists all of its
\* products unless it stopped at max_results.
LEMMA RecordPageIsConsistent ==
  ASSUME observed \in Prices(Earlier \cup Scans), NEW r \in Scans, NEW pg \in Pages,
         Consistent(Rows(r)), Rows(r).listed <= MaxResults
  PROVE  LET new == RecordPage(r, pg)
         IN  /\ Consistent(new)
             /\ new.listed <= MaxResults
             /\ new.cut => new.listed = MaxResults
             /\ ~new.cut => In(new.rows) = In(Rows(r).rows) \cup PageProducts(pg)
<1> DEFINE n == Len(pg.items)
<1>1. n \in Nat /\ \A i \in 1..n : pg.items[i] \in Offers
  BY DiscoveryAssumption
<1>2. PICK after : AfterItems(r, pg, n, after) /\ RecordPage(r, pg) = after[n]
  BY <1>1, RecordPageIsLast
<1>3. /\ after[0] = Rows(r)
      /\ \A i \in 1..n : after[i] = RecordLive(r, after[i - 1], pg.items[i])
  <2> HIDE DEF n
  <2>1. \A i \in 0..n : after[i] = IF i = 0 THEN Rows(r)
                                   ELSE RecordLive(r, after[i - 1], pg.items[i])
    BY <1>2 DEF AfterItems
  <2>2. \A i \in 1..n : i \in 0..n /\ i # 0
    BY <1>1
  <2>3. 0 \in 0..n
    BY <1>1
  <2> QED
    BY <2>1, <2>2, <2>3
<1> DEFINE first(i) == {pg.items[j].product : j \in 1..i}
           OK(i, w) == /\ Consistent(w)
                       /\ w.listed <= MaxResults
                       /\ w.cut => w.listed = MaxResults
                       /\ ~w.cut => In(w.rows) = In(Rows(r).rows) \cup first(i)
           S == {i \in Nat : i <= n => OK(i, after[i])}
<1>4. 0 \in S
  <2>1. Rows(r).cut = FALSE
    BY DEF Rows
  <2>2. first(0) = {}
    OBVIOUS
  <2> HIDE DEF first
  <2> QED
    BY <1>3, <2>1, <2>2
<1>5. ASSUME NEW i \in Nat, i \in S
      PROVE  i + 1 \in S
  <2> SUFFICES ASSUME i + 1 <= n
               PROVE  OK(i + 1, after[i + 1])
    BY <1>5
  <2> DEFINE item == pg.items[i + 1]
             w == after[i]
  <2>1. OK(i, w)
    BY <1>1, <1>5
  <2>2. item \in Offers /\ after[i + 1] = RecordLive(r, w, item)
    BY <1>1, <1>3
  <2>3. first(i + 1) = first(i) \cup {item.product}
    <3>1. 1..(i + 1) = 1..i \cup {i + 1}
      OBVIOUS
    <3> QED
      BY <3>1
  <2>4. w \in ScanRows /\ w.listed \in Nat /\ w.cut \in BOOLEAN /\ MaxResults \in Nat
    BY <2>1, DiscoveryAssumption DEF Consistent, ScanRows, ProfileIsValid
  <2> HIDE DEF first, item, w
  <2>5. CASE w.listed >= MaxResults
    <3> DEFINE new == [w EXCEPT !.cut = TRUE]
    <3>1. after[i + 1] = new
      BY <2>2, <2>5 DEF RecordLive
    <3>2. /\ new \in ScanRows /\ new.cut = TRUE /\ new.rows = w.rows
          /\ new.listed = w.listed /\ new.snaps = w.snaps /\ new.prices = w.prices
      BY <2>4 DEF ScanRows
    <3>3. Consistent(new)
      BY <2>1, <3>2 DEF Consistent
    <3>4. w.listed = MaxResults
      BY <2>1, <2>4, <2>5
    <3> HIDE DEF new
    <3> QED
      BY <2>1, <3>1, <3>2, <3>3, <3>4
  <2>6. CASE ~(w.listed >= MaxResults)
    <3> DEFINE new == Recorded(r, w, item, "LIVE")
    <3>1. after[i + 1] = new
      BY <2>2, <2>6 DEF RecordLive
    <3>2. /\ Consistent(new) /\ In(new.rows) = In(w.rows) \cup {item.product}
          /\ new.listed <= w.listed + 1 /\ new.cut \in {w.cut, FALSE}
      <4>1. Consistent(w) /\ item \in Offers
        BY <2>1, <2>2
      <4> HIDE DEF OK, S
      <4> QED
        BY <4>1, RecordedIsConsistent, ZenonT(40)
    <3>3. ~w.cut
      BY <2>1, <2>4, <2>6
    <3>4. new.listed \in Nat
      BY <3>2 DEF Consistent, ScanRows
    <3> HIDE DEF new
    <3>5. new.listed <= MaxResults
      BY <2>4, <2>6, <3>2, <3>4
    <3>6. In(new.rows) = In(Rows(r).rows) \cup first(i + 1)
      BY <2>1, <2>3, <3>2, <3>3
    <3> QED
      BY <2>4, <3>1, <3>2, <3>3, <3>5, <3>6
  <2> QED
    BY <2>5, <2>6
<1>6. OK(n, after[n])
  <2> HIDE DEF OK
  <2>1. n \in S
    <3> HIDE DEF S
    <3>1. \A i \in Nat : i \in S
      BY <1>4, <1>5, EveryNumber
    <3> QED
      BY <1>1, <3>1
  <2> QED
    BY <1>1, <2>1
<1>7. first(n) = PageProducts(pg)
  BY DEF PageProducts
<1> HIDE DEF first
<1> QED
  BY <1>2, <1>6, <1>7

-----------------------------------------------------------------------------
(* The shortlist: no two products of a scan have the same place, so that    *)
(* every place is taken.                                                    *)

LEMMA ShortlistIsListed ==
  ASSUME NEW o, results[o] \in [Products -> Result \cup {None}]
  PROVE  /\ Shortlist(o) \in Seq(Products)
         /\ IsInjective(Shortlist(o))
         /\ Range(Shortlist(o)) \subseteq Listed(results, o)
<1> DEFINE L == Listed(results, o)
           n == Cardinality(L)
           Better(a, b) == \/ results[o][a].score > results[o][b].score
                           \/ results[o][a].score = results[o][b].score /\ a < b
           ahead(p) == {q \in L : Better(q, p)}
<1>1. L \in SUBSET Products /\ IsFiniteSet(L) /\ n \in Nat
  BY ProductsOf DEF Listed
<1>2. \A p \in L : p \in Nat /\ results[o][p].score \in Nat
  BY DiscoveryAssumption DEF Listed, Result
<1>3. \A p \in L : Place(o, p) = Cardinality(ahead(p))
  BY DEF Place
<1> HIDE DEF L
<1>4. \A a, b \in L : a # b => Better(a, b) \/ Better(b, a)
  BY <1>2
<1>5. \A a, b, c \in L : Better(a, b) /\ Better(b, c) => Better(a, c)
  BY <1>2
<1>6. \A a \in L : ~Better(a, a)
  BY <1>2
<1> HIDE DEF Better
<1>7. \A p \in L : IsFiniteSet(ahead(p)) /\ Cardinality(ahead(p)) \in Nat
  BY <1>1, FS_Subset, FS_CardinalityType
<1>8. ASSUME NEW a \in L, NEW b \in L, Better(a, b)
      PROVE  Cardinality(ahead(a)) < Cardinality(ahead(b))
  <2>1. ahead(a) \in SUBSET ahead(b) /\ a \in ahead(b) /\ a \notin ahead(a)
    BY <1>5, <1>6, <1>8
  <2> HIDE DEF ahead
  <2>2. Cardinality(ahead(a)) <= Cardinality(ahead(b))
        /\ Cardinality(ahead(a)) # Cardinality(ahead(b))
    BY <1>7, <2>1, FS_Subset
  <2> QED
    BY <1>7, <2>2
<1>9. \A p \in L : Cardinality(ahead(p)) \in 0..(n - 1)
  <2> SUFFICES ASSUME NEW p \in L
               PROVE  Cardinality(ahead(p)) \in 0..(n - 1)
    OBVIOUS
  <2>1. ahead(p) \in SUBSET (L \ {p})
    BY <1>6
  <2>2. IsFiniteSet(L \ {p}) /\ Cardinality(L \ {p}) = n - 1
    BY <1>1, FS_RemoveElement
  <2>3. Cardinality(ahead(p)) <= n - 1
    BY <2>1, <2>2, FS_Subset
  <2>4. Cardinality(ahead(p)) \in Nat
    BY <1>7
  <2> HIDE DEF ahead, n
  <2> QED
    BY <1>1, <2>3, <2>4
<1> DEFINE place == [p \in L |-> Place(o, p)]
<1>10. place \in Surjection(L, 0..(n - 1))
  <2>1. place \in Injection(L, 0..(n - 1))
    <3>1. place \in [L -> 0..(n - 1)]
      BY <1>3, <1>9
    <3>2. ASSUME NEW a \in L, NEW b \in L, place[a] = place[b]
          PROVE  a = b
      <4>1. Cardinality(ahead(a)) = Cardinality(ahead(b))
        BY <1>3, <3>2
      <4> HIDE DEF ahead
      <4> QED
        BY <1>4, <1>7, <1>8, <4>1
    <3> QED
      BY <3>1, <3>2 DEF Injection, IsInjective
  <2>2. IsFiniteSet(0..(n - 1)) /\ Cardinality(0..(n - 1)) = n
    <3>1. 0 \in Int /\ n - 1 \in Int
      BY <1>1
    <3>2. /\ IsFiniteSet(0..(n - 1))
          /\ Cardinality(0..(n - 1)) = IF 0 > n - 1 THEN 0 ELSE (n - 1) - 0 + 1
      BY <3>1, FS_Interval
    <3> HIDE DEF n
    <3> QED
      BY <1>1, <3>2
  <2> HIDE DEF place
  <2> QED
    BY <2>1, <2>2, FS_Injection
<1>11. \A i \in 0..(n - 1) : \E p \in L : Place(o, p) = i
  BY <1>10 DEF Surjection
<1> DEFINE k == Least(n, MaxRefined)
           nth(i) == CHOOSE p \in L : Place(o, p) = i - 1
<1>12. k \in Nat /\ k <= n
  BY <1>1, DiscoveryAssumption DEF Least, ProfileIsValid
<1>13. Shortlist(o) = [i \in 1..k |-> nth(i)]
  BY DEF Shortlist, L
<1> HIDE DEF n, k
<1>14. \A i \in 1..k : nth(i) \in L /\ Place(o, nth(i)) = i - 1
  <2> SUFFICES ASSUME NEW i \in 1..k
               PROVE  nth(i) \in L /\ Place(o, nth(i)) = i - 1
    OBVIOUS
  <2>1. i - 1 \in 0..(n - 1)
    BY <1>1, <1>12
  <2> QED
    BY <1>11, <2>1
<1> HIDE DEF nth
<1>15. Shortlist(o) \in Seq(Products)
  <2>1. Shortlist(o) \in [1..k -> Products]
    BY <1>1, <1>13, <1>14
  <2> QED
    BY <1>12, <2>1
<1>16. IsInjective(Shortlist(o))
  BY <1>13, <1>14 DEF IsInjective
<1>17. Range(Shortlist(o)) \subseteq L
  BY <1>13, <1>14 DEF Range
<1> QED
  BY <1>15, <1>16, <1>17 DEF L

-----------------------------------------------------------------------------
(* The inductive invariant.                                                 *)

Stages == {"idle", "chosen", "next", "call", "items", "settle", "ended"}

\* The ends a process may have in mind for its run.
Ends == {<<"none", "none">>, <<"STOPPED", "none">>}
        \cup {"COMPLETED"} \X {"MAX_RESULTS", "MAX_API_CALLS", "SHORT_PAGE", "MAX_PAGES",
                              "SHORTLIST_COMPLETED"}

ScanProc == [at : Stages, kw : 1..Keywords, page : 1..MaxPages, todo : Seq(Offers),
             held : Pages \cup {None}, end : Ends, got : SUBSET Products]

Alternatives == UNION {Skus[p] : p \in Products}

RefineProc == [at : Stages, kw : 1..Keywords, page : 1..MaxPages, todo : Seq(Products),
               held : Alternatives \cup {None}, end : Ends, got : SUBSET Products]

PageAnswers == [answer : Pages, fresh : BOOLEAN]
SkuAnswers(p) == [answer : Skus[p], fresh : BOOLEAN]

RowTypes ==
  /\ run \in [Runs -> RunRow]
  /\ results \in [Scans -> [Products -> Result \cup {None}]]
  /\ items \in [Refinements -> [Products -> Item \cup {None}]]
  /\ observed \in Prices(Earlier \cup Scans)
  /\ skuObserved \in Prices(Earlier \cup Refinements)

\* Scans make queries for pages, refinements queries for products.
QueryTypes ==
  /\ claim \in [Query -> Runs \cup {None}]
  /\ DOMAIN cache = Query
  /\ \A q \in PageQuery : claim[q] \in Scans \cup {None} /\ cache[q] \in PageAnswers \cup {None}
  /\ \A p \in Products : /\ claim[<<p>>] \in Refinements \cup {None}
                         /\ cache[<<p>>] \in SkuAnswers(p) \cup {None}

ProcTypes ==
  /\ DOMAIN proc = Runs
  /\ \A r \in Scans : proc[r] \in ScanProc
  /\ \A r \in Refinements : proc[r] \in RefineProc

Types == RowTypes /\ QueryTypes /\ ProcTypes

Limit(r) == IF r \in Scans THEN MaxCalls ELSE MaxSkuCalls

\* The row of a run goes with its process: a run that was never begun has
\* none, one that completed has none any more, and a process that ends a run
\* for want of calls has spent them.
RunOK(r) ==
  /\ run[r].calls <= Limit(r)
  /\ run[r].live => Active(r)
  /\ proc[r].at \in {"idle", "chosen"} <=> run[r].state = "none"
  /\ proc[r].at \in {"idle", "chosen"} => run[r] = NoRun
  /\ run[r].state = "COMPLETED" => proc[r].at = "ended"
  /\ proc[r].at = "settle" => /\ proc[r].end # <<"none", "none">>
                              /\ proc[r].end[2] = "MAX_API_CALLS" => run[r].calls = Limit(r)
  /\ run[r].state = "COMPLETED" /\ run[r].reason = "MAX_API_CALLS" => run[r].calls = Limit(r)

\* The query that a run makes.
Asked(r) == IF r \in Scans THEN At(r) ELSE Of(r)

\* A claim is that of an open run whose process makes the query, or ended in
\* the middle of it.
ClaimOK(q) ==
  claim[q] # None =>
    /\ cache[q] = None
    /\ Active(claim[q])
    /\ proc[claim[q]].at \in {"call", "ended"}
    /\ proc[claim[q]].at = "call" => q = Asked(claim[q])

ClaimsOK == \A q \in Query : ClaimOK(q)

\* What holds of a scan that ends, or has ended, for a reason.
ScanIsWhole(r, reason) ==
  /\ reason = "MAX_RESULTS" => run[r].listed = MaxResults
  /\ reason # "MAX_RESULTS" => Listed(results, r) = proc[r].got

\* Between two pages a scan lists what it was given; within a page that was
\* kept it still lacks what is left to do.
ScanOK(r) ==
  /\ Consistent(Rows(r))
  /\ run[r].listed <= MaxResults
  /\ proc[r].at \in {"idle", "next", "call"} => Listed(results, r) = proc[r].got
  /\ proc[r].at = "items" => proc[r].held \in Pages
  /\ proc[r].at = "items" =>
       proc[r].got = Listed(results, r) \cup {x.product : x \in Range(proc[r].todo)}
  /\ proc[r].at = "settle" /\ proc[r].end[1] = "COMPLETED" => ScanIsWhole(r, proc[r].end[2])
  /\ run[r].state = "COMPLETED" => ScanIsWhole(r, run[r].reason)

SkuPrice(row) == IF row # None /\ row.origin = "LIVE" /\ row.match = "MATCHED"
                 THEN <<row.price>> ELSE <<>>

\* What is left of a shortlist are the products that have no item, each once.
Turns(r) ==
  /\ IsInjective(proc[r].todo)
  /\ Range(proc[r].todo) \cap Listed(items, r) = {}
  /\ proc[r].got = Listed(items, r) \cup Range(proc[r].todo)

ItemsOK(r) ==
  /\ run[r].listed = Cardinality(Listed(items, r))
  /\ run[r].snaps = Cardinality(Priced(skuObserved, r))
  /\ \A p \in Products : skuObserved[r][p] = SkuPrice(items[r][p])

Ranked(r) ==
  IF run[r].state = "COMPLETED"
  THEN \A p \in Listed(items, r) : (items[r][p].match = "MATCHED") = (items[r][p].class # "none")
  ELSE \A p \in Listed(items, r) : items[r][p].class = "none"

RefineOK(r) ==
  /\ ItemsOK(r)
  /\ Ranked(r)
  /\ proc[r].at \in {"idle", "chosen"} => Listed(items, r) = {}
  /\ proc[r].at \in {"chosen", "next", "call", "items"} => Turns(r)
  /\ proc[r].at \in {"call", "items"} => proc[r].todo # <<>>
  /\ proc[r].at = "items" => proc[r].held \in Skus[Head(proc[r].todo)]
  /\ proc[r].at = "settle" /\ proc[r].end[2] = "SHORTLIST_COMPLETED" =>
       Listed(items, r) = proc[r].got
  /\ run[r].state = "COMPLETED" /\ run[r].reason = "SHORTLIST_COMPLETED" =>
       Listed(items, r) = proc[r].got

DiscoveryInv ==
  /\ Types
  /\ \A r \in Runs : RunOK(r)
  /\ ClaimsOK
  /\ \A r \in Scans : ScanOK(r)
  /\ \A r \in Refinements : RefineOK(r)

-----------------------------------------------------------------------------
(* Steps.                                                                   *)

\* A step of one run leaves the row of another as it is, or gives it up when
\* its lease ended.
RowKept(o) ==
  \/ run'[o] = run[o]
  \/ Expired(o) /\ run'[o] = Closed(run[o], "UNCERTAIN", "none")

TablesKept(o) ==
  /\ o \in Scans => results'[o] = results[o] /\ observed'[o] = observed[o]
  /\ o \in Refinements => items'[o] = items[o] /\ skuObserved'[o] = skuObserved[o]

OthersKept(r) ==
  \A o \in Runs \ {r} : proc'[o] = proc[o] /\ RowKept(o) /\ TablesKept(o)

\* What SettledRunsStay says of one run.
StaysSettled(r) ==
  /\ run[r].state \notin {"none", "RUNNING"} =>
       /\ run'[r].state = run[r].state /\ run'[r].reason = run[r].reason
       /\ r \in Refinements => items'[r] = items[r] /\ skuObserved'[r] = skuObserved[r]
  /\ r \in Scans /\ run[r].state = "COMPLETED" =>
       run'[r] = run[r] /\ results'[r] = results[r] /\ observed'[r] = observed[r]

RunKeeps(r) ==
  /\ RunOK(r)'
  /\ r \in Scans => ScanOK(r)'
  /\ r \in Refinements => RefineOK(r)'
  /\ StaysSettled(r)

StepKeeps(r) == Types' /\ ClaimsOK' /\ OthersKept(r) /\ RunKeeps(r)

LEMMA QueriesDiffer ==
  /\ \A p \in Products : <<p>> \in Query /\ <<p>> \notin PageQuery
  /\ \A q \in PageQuery : q \in Query /\ q \notin SkuQuery
  /\ \A q \in Query : q \notin PageQuery => \E p \in Products : q = <<p>>
<1>1. \A q \in PageQuery : Len(q) = 2
  BY DEF PageQuery
<1>2. \A p \in Products : Len(<<p>>) = 1
  OBVIOUS
<1> QED
  BY <1>1, <1>2 DEF Query, SkuQuery

\* A run whose process stands still, and whose row is kept.
LEMMA OthersStay ==
  ASSUME DiscoveryInv, NEW r \in Runs, OthersKept(r), NEW o \in Runs \ {r}
  PROVE  RunKeeps(o)
<1>1. proc'[o] = proc[o] /\ RowKept(o) /\ TablesKept(o)
  BY DEF OthersKept
<1>2. run[o] \in RunRow /\ RunOK(o)
  BY DEF DiscoveryInv, Types, RowTypes
<1>3. /\ run'[o].listed = run[o].listed /\ run'[o].snaps = run[o].snaps
      /\ run'[o].calls = run[o].calls
      /\ run'[o] # run[o] => /\ run[o].state = "RUNNING" /\ run'[o].state = "UNCERTAIN"
                             /\ run'[o].live = FALSE
  BY <1>1, <1>2 DEF RowKept, RunRow, Closed, Expired, Active
<1>4. RunOK(o)'
  BY <1>1, <1>2, <1>3 DEF RunOK, Limit, Active, NoRun
<1>5. ASSUME o \in Scans
      PROVE  ScanOK(o)'
  <2>1. ScanOK(o) /\ results'[o] = results[o] /\ observed'[o] = observed[o]
    BY <1>1, <1>5 DEF DiscoveryInv, TablesKept
  <2>2. Rows(o)' = Rows(o) /\ Listed(results, o)' = Listed(results, o)
    BY <1>3, <2>1 DEF Rows, Listed
  <2> QED
    BY <1>1, <1>3, <2>1, <2>2 DEF ScanOK, ScanIsWhole, Consistent
<1>6. ASSUME o \in Refinements
      PROVE  RefineOK(o)'
  <2>1. RefineOK(o) /\ items'[o] = items[o] /\ skuObserved'[o] = skuObserved[o]
    BY <1>1, <1>6 DEF DiscoveryInv, TablesKept
  <2>2. /\ Listed(items, o)' = Listed(items, o)
        /\ Priced(skuObserved, o)' = Priced(skuObserved, o)
    BY <2>1 DEF Listed, Priced
  <2>3. ItemsOK(o)' /\ Ranked(o)'
    BY <1>3, <2>1, <2>2 DEF RefineOK, ItemsOK, Ranked
  <2>4. Turns(o)' = Turns(o)
    BY <1>1, <2>2 DEF Turns
  <2> QED
    BY <1>1, <1>3, <2>1, <2>2, <2>3, <2>4 DEF RefineOK
<1>7. StaysSettled(o)
  BY <1>1, <1>3 DEF StaysSettled, TablesKept
<1> QED
  BY <1>4, <1>5, <1>6, <1>7 DEF RunKeeps

\* The claims of others, where their runs stay open and no answer comes.
LEMMA ClaimsStay ==
  ASSUME DiscoveryInv, NEW r \in Runs, OthersKept(r), Types',
         \A q \in Query : claim'[q] # None =>
           \/ /\ claim'[q] = claim[q] /\ claim[q] # r
              /\ cache[q] = None => cache'[q] = None
              /\ Active(claim[q]) => run'[claim[q]].state = "RUNNING"
           \/ claim'[q] = r /\ ClaimOK(q)'
  PROVE  ClaimsOK'
<1> SUFFICES ASSUME NEW q \in Query, claim'[q] # None
             PROVE  ClaimOK(q)'
  BY DEF ClaimsOK, ClaimOK
<1>1. CASE claim'[q] = r /\ ClaimOK(q)'
  BY <1>1
<1>2. CASE /\ claim'[q] = claim[q] /\ claim[q] # r
           /\ cache[q] = None => cache'[q] = None
           /\ Active(claim[q]) => run'[claim[q]].state = "RUNNING"
  <2> PICK o : o = claim[q]
    OBVIOUS
  <2>1. o \in Runs \ {r} /\ ClaimOK(q)
    BY <1>2 DEF DiscoveryInv, ClaimsOK, Types, QueryTypes
  <2>2. proc'[o] = proc[o]
    BY <2>1 DEF OthersKept
  <2>3. claim'[q] = o
    BY <1>2
  <2> QED
    BY <1>2, <2>1, <2>2, <2>3 DEF ClaimOK, Active, Asked, At, Of
<1> QED
  BY <1>1, <1>2

\* The process of one run takes a step.
LEMMA StepOf ==
  ASSUME ProcTypes, NEW r \in Runs, NEW p, Step(r, p),
         r \in Scans => p \in ScanProc, r \in Refinements => p \in RefineProc
  PROVE  ProcTypes' /\ proc'[r] = p /\ \A o \in Runs \ {r} : proc'[o] = proc[o]
<1>1. DOMAIN proc' = Runs /\ proc'[r] = p /\ \A o \in Runs \ {r} : proc'[o] = proc[o]
  BY DEF ProcTypes, Step
<1> QED
  BY <1>1 DEF ProcTypes, Runs

\* An ended process has a type.
LEMMA IdleIsTyped ==
  ASSUME NEW at \in Stages, NEW got \in SUBSET Products
  PROVE  /\ LET p == [Idle EXCEPT !.at = at]
            IN  p \in ScanProc /\ p \in RefineProc /\ p.at = at
         /\ LET p == [Idle EXCEPT !.at = at, !.got = got]
            IN  p \in ScanProc /\ p \in RefineProc /\ p.at = at /\ p.got = got
<1>1. 1 \in 1..Keywords /\ 1 \in 1..MaxPages
  BY DiscoveryAssumption DEF ProfileIsValid
<1>2. <<"none", "none">> \in Ends
  BY DEF Ends
<1>3. <<>> \in Seq(Offers) /\ <<>> \in Seq(Products)
  OBVIOUS
<1> HIDE DEF Ends
<1> QED
  BY <1>1, <1>2, <1>3 DEF ScanProc, RefineProc, Idle, Stages

\* The invariant from the parts that an action shows.
LEMMA StepKeepsInv ==
  ASSUME DiscoveryInv, NEW r \in Runs, StepKeeps(r)
  PROVE  DiscoveryInv' /\ \A o \in Runs : StaysSettled(o)
<1>1. \A o \in Runs : RunKeeps(o)
  BY OthersStay DEF StepKeeps
<1> QED
  BY <1>1 DEF StepKeeps, RunKeeps, DiscoveryInv, Runs

\* A step that writes the row of its own run only, and claims nothing.
LEMMA OwnStep ==
  ASSUME DiscoveryInv, NEW r \in Runs, NEW p, Step(r, p),
         r \in Scans => p \in ScanProc, r \in Refinements => p \in RefineProc,
         RowTypes', QueryTypes',
         \A o \in Runs \ {r} : run'[o] = run[o] /\ TablesKept(o),
         \A q \in Query : claim'[q] # None =>
           /\ claim'[q] = claim[q] /\ claim[q] # r
           /\ cache[q] = None => cache'[q] = None
  PROVE  Types' /\ OthersKept(r) /\ ClaimsOK' /\ proc'[r] = p
<1>1. ProcTypes' /\ proc'[r] = p /\ \A o \in Runs \ {r} : proc'[o] = proc[o]
  BY StepOf DEF DiscoveryInv, Types
<1>2. Types' /\ OthersKept(r)
  BY <1>1 DEF Types, OthersKept, RowKept
<1>3. ASSUME NEW q \in Query, claim'[q] # None
      PROVE  /\ claim'[q] = claim[q] /\ claim[q] # r
             /\ cache[q] = None => cache'[q] = None
             /\ Active(claim[q]) => run'[claim[q]].state = "RUNNING"
  <2>1. /\ claim'[q] = claim[q] /\ claim[q] # r /\ cache[q] = None => cache'[q] = None
        /\ claim[q] \in Runs
    BY <1>3 DEF DiscoveryInv, Types, QueryTypes
  <2> QED
    BY <2>1, <1>3 DEF Active
<1>4. ClaimsOK'
  BY <1>2, <1>3, ClaimsStay
<1> QED
  BY <1>1, <1>2, <1>4

\* Only a process that makes a query has a claim.
LEMMA NoClaim ==
  ASSUME DiscoveryInv, NEW r \in Runs, proc[r].at \in {"idle", "chosen", "next", "items", "settle"},
         NEW q \in Query
  PROVE  claim[q] # r
BY NoneAssumption DEF DiscoveryInv, ClaimsOK, ClaimOK

\* The claims after the one of a query that was made is given up.
LEMMA ReleasedClaims ==
  ASSUME DiscoveryInv, NEW r \in Runs, proc[r].at = "call"
  PROVE  /\ Released(r, Asked(r)) \in [Query -> Runs \cup {None}]
         /\ \A q \in Query : /\ Released(r, Asked(r))[q] \in {claim[q], None}
                             /\ Released(r, Asked(r))[q] # r
                             /\ q = Asked(r) => Released(r, Asked(r))[q] \in {None, claim[q]} \ {r}
<1>1. PICK q0 : q0 = Asked(r)
  OBVIOUS
<1>2. \A q \in Query : claim[q] = r => q = q0
  BY <1>1, NoneAssumption DEF DiscoveryInv, ClaimsOK, ClaimOK
<1>3. claim \in [Query -> Runs \cup {None}] /\ None # r
  BY NoneAssumption DEF DiscoveryInv, Types, QueryTypes
<1>4. PICK c : c = Released(r, q0)
  OBVIOUS
<1>5. c \in [Query -> Runs \cup {None}] /\ \A q \in Query : c[q] \in {claim[q], None} /\ c[q] # r
  BY <1>2, <1>3, <1>4 DEF Released
<1> QED
  BY <1>1, <1>4, <1>5

-----------------------------------------------------------------------------
(* What both kinds of run do.                                               *)

\* A process that ends without a word leaves its run and its claims.
LEMMA RaiseKeeps ==
  ASSUME DiscoveryInv, NEW r \in Runs, Raise(r),
         proc[r].at \in {"next", "call", "items", "settle"}
  PROVE  StepKeeps(r)
<1> DEFINE p == [Idle EXCEPT !.at = "ended"]
<1>1. p \in ScanProc /\ p \in RefineProc /\ p.at = "ended"
  BY IdleIsTyped DEF Stages
<1>2. Step(r, p) /\ UNCHANGED tables
  BY DEF Raise, Step
<1> HIDE DEF p
<1>3. ProcTypes' /\ proc'[r] = p /\ \A o \in Runs \ {r} : proc'[o] = proc[o]
  BY <1>1, <1>2, StepOf DEF DiscoveryInv, Types
<1>4. Types'
  BY <1>2, <1>3 DEF DiscoveryInv, Types, RowTypes, QueryTypes, tables
<1>5. OthersKept(r)
  BY <1>2, <1>3 DEF OthersKept, RowKept, TablesKept, tables
<1>6. ClaimsOK'
  <2> SUFFICES ASSUME NEW q \in Query, claim[q] # None
               PROVE  ClaimOK(q)'
    BY <1>2 DEF ClaimsOK, ClaimOK, tables
  <2>1. ClaimOK(q) /\ claim'[q] = claim[q] /\ cache'[q] = cache[q]
    BY <1>2 DEF DiscoveryInv, ClaimsOK, tables
  <2>2. PICK o \in Runs : o = claim[q]
    BY DEF DiscoveryInv, Types, QueryTypes
  <2>3. run'[o] = run[o]
    BY <1>2 DEF tables
  <2>4. CASE o = r
    BY <1>1, <1>3, <2>1, <2>2, <2>3, <2>4 DEF ClaimOK, Active
  <2>5. CASE o # r
    <3>1. proc'[o] = proc[o]
      BY <1>3, <2>5
    <3> QED
      BY <2>1, <2>2, <2>3, <3>1 DEF ClaimOK, Active, Asked, At, Of
  <2> QED
    BY <2>4, <2>5
<1>7. RunOK(r)'
  BY <1>1, <1>2, <1>3 DEF DiscoveryInv, RunOK, Limit, Active, tables
<1>8. run[r].state # "COMPLETED"
  BY DEF DiscoveryInv, RunOK
<1>9. ASSUME r \in Scans
      PROVE  ScanOK(r)'
  BY <1>1, <1>2, <1>3, <1>8, <1>9 DEF DiscoveryInv, ScanOK, Rows, Consistent, tables
<1>10. ASSUME r \in Refinements
       PROVE  RefineOK(r)'
  BY <1>1, <1>2, <1>3, <1>8, <1>10
     DEF DiscoveryInv, RefineOK, ItemsOK, Ranked, Priced, Listed, tables
<1>11. StaysSettled(r)
  BY <1>2 DEF StaysSettled, tables
<1> QED
  BY <1>4, <1>5, <1>6, <1>7, <1>9, <1>10, <1>11 DEF StepKeeps, RunKeeps

\* The end of a lease.
LEMMA LeaseExpiresKeeps ==
  ASSUME DiscoveryInv, NEW r \in Runs, LeaseExpires(r)
  PROVE  StepKeeps(r)
<1>1. /\ run' = [run EXCEPT ![r].live = FALSE] /\ Active(r)
      /\ UNCHANGED <<results, items, observed, skuObserved, claim, cache, proc>>
  BY DEF LeaseExpires
<1>2. run \in [Runs -> RunRow] /\ run[r] \in RunRow
  BY DEF DiscoveryInv, Types, RowTypes
<1>3. /\ run' \in [Runs -> RunRow]
      /\ \A o \in Runs \ {r} : run'[o] = run[o]
      /\ run'[r] = [run[r] EXCEPT !.live = FALSE]
  BY <1>1, <1>2 DEF RunRow
<1>4. /\ run'[r].state = run[r].state /\ run'[r].reason = run[r].reason
      /\ run'[r].calls = run[r].calls /\ run'[r].listed = run[r].listed
      /\ run'[r].snaps = run[r].snaps /\ run'[r].live = FALSE
  BY <1>2, <1>3 DEF RunRow
<1>5. Types'
  BY <1>1, <1>3 DEF DiscoveryInv, Types, RowTypes, QueryTypes, ProcTypes
<1>6. OthersKept(r)
  BY <1>1, <1>3 DEF OthersKept, RowKept, TablesKept
<1>7. ClaimsOK'
  <2> SUFFICES ASSUME NEW q \in Query, claim[q] # None
               PROVE  ClaimOK(q)'
    BY <1>1 DEF ClaimsOK, ClaimOK
  <2>1. ClaimOK(q) /\ claim'[q] = claim[q] /\ cache'[q] = cache[q]
    BY <1>1 DEF DiscoveryInv, ClaimsOK
  <2>2. PICK o \in Runs : o = claim[q]
    BY DEF DiscoveryInv, Types, QueryTypes
  <2>3. run'[o].state = run[o].state /\ proc'[o] = proc[o]
    BY <1>1, <1>3, <1>4
  <2> QED
    BY <2>1, <2>2, <2>3 DEF ClaimOK, Active, Asked, At, Of
<1>8. RunOK(r)'
  BY <1>1, <1>4 DEF DiscoveryInv, RunOK, Limit, Active
<1>9. ASSUME r \in Scans
      PROVE  ScanOK(r)'
  <2>1. Rows(r)' = Rows(r) /\ Listed(results, r)' = Listed(results, r)
    BY <1>1, <1>4 DEF Rows, Listed
  <2> QED
    BY <1>1, <1>4, <1>9, <2>1, SMTT(30) DEF DiscoveryInv, ScanOK, ScanIsWhole, Consistent
<1>10. ASSUME r \in Refinements
       PROVE  RefineOK(r)'
  <2>1. Listed(items, r)' = Listed(items, r) /\ Priced(skuObserved, r)' = Priced(skuObserved, r)
    BY <1>1 DEF Listed, Priced
  <2>2. ItemsOK(r)' /\ Ranked(r)'
    BY <1>1, <1>4, <1>10, <2>1 DEF DiscoveryInv, RefineOK, ItemsOK, Ranked
  <2>3. Turns(r)' = Turns(r)
    BY <1>1, <2>1 DEF Turns
  <2> QED
    BY <1>1, <1>4, <1>10, <2>1, <2>2, <2>3 DEF DiscoveryInv, RefineOK
<1>11. StaysSettled(r)
  BY <1>1, <1>4 DEF StaysSettled, Active
<1> QED
  BY <1>5, <1>6, <1>7, <1>8, <1>9, <1>10, <1>11 DEF StepKeeps, RunKeeps

\* The row of a run that is given an end.
LEMMA ClosedRow ==
  ASSUME NEW row \in RunRow, NEW state \in States, NEW reason \in Reasons
  PROVE  /\ Closed(row, state, reason) \in RunRow
         /\ Closed(row, state, reason).state = state
         /\ Closed(row, state, reason).reason = reason
         /\ Closed(row, state, reason).live = FALSE
         /\ Closed(row, state, reason).calls = row.calls
         /\ Closed(row, state, reason).listed = row.listed
         /\ Closed(row, state, reason).snaps = row.snaps
BY DEF Closed, RunRow

\* A call that fails gives up the claim and the run together.
LEMMA FailsKeeps ==
  ASSUME DiscoveryInv, NEW r \in Runs, Fails(r, Asked(r))
  PROVE  StepKeeps(r)
<1> DEFINE q0 == Asked(r)
           p == [Idle EXCEPT !.at = "ended", !.got = proc[r].got]
<1>1. proc[r].at = "call"
  BY DEF Fails
<1>2. CASE ~MayFinish(r) /\ Raise(r)
  BY <1>1, <1>2, RaiseKeeps
<1>3. CASE ~(~MayFinish(r) /\ Raise(r))
  <2>1. PICK state \in {"UNCERTAIN", "REVIEW_REQUIRED"} :
          run' = [run EXCEPT ![r] = Closed(run[r], state, "none")]
    BY <1>3 DEF Fails
  <2>2. /\ Active(r) /\ claim' = Released(r, q0) /\ Step(r, p)
        /\ UNCHANGED <<results, items, observed, skuObserved, cache>>
    BY <1>3 DEF Fails, MayFinish
  <2>3. run \in [Runs -> RunRow] /\ run[r] \in RunRow /\ proc[r].got \in SUBSET Products
    BY DEF DiscoveryInv, Types, RowTypes, ProcTypes, ScanProc, RefineProc, Runs
  <2>4. p \in ScanProc /\ p \in RefineProc /\ p.at = "ended"
    BY <2>3, IdleIsTyped DEF Stages
  <2> HIDE DEF p
  <2>6. /\ run' \in [Runs -> RunRow] /\ \A o \in Runs \ {r} : run'[o] = run[o]
        /\ run'[r].state = state /\ run'[r].reason = "none" /\ run'[r].live = FALSE
        /\ run'[r].calls = run[r].calls /\ run'[r].listed = run[r].listed
        /\ run'[r].snaps = run[r].snaps
    <3>1. state \in States /\ "none" \in Reasons
      BY DEF States, Reasons
    <3> DEFINE new == Closed(run[r], state, "none")
    <3>2. /\ new \in RunRow /\ new.state = state /\ new.reason = "none" /\ new.live = FALSE
          /\ new.calls = run[r].calls /\ new.listed = run[r].listed
          /\ new.snaps = run[r].snaps
      <4>1. \A row \in RunRow :
              LET c == Closed(row, state, "none")
              IN  /\ c \in RunRow /\ c.state = state /\ c.reason = "none" /\ c.live = FALSE
                  /\ c.calls = row.calls /\ c.listed = row.listed /\ c.snaps = row.snaps
        BY <3>1, ClosedRow, ZenonT(40)
      <4>2. run[r] \in RunRow
        BY <2>3
      <4> QED
        BY <4>1, <4>2
    <3> HIDE DEF new
    <3>3. run' = [run EXCEPT ![r] = new]
      BY <2>1 DEF new
    <3> QED
      BY <2>3, <3>2, <3>3
  <2>7. /\ claim' \in [Query -> Runs \cup {None}]
        /\ \A q \in Query : claim'[q] \in {claim[q], None} /\ claim'[q] # r
    BY <1>1, <2>2, ReleasedClaims
  <2>8. RowTypes' /\ QueryTypes'
    BY <2>2, <2>6, <2>7, QueriesDiffer DEF DiscoveryInv, Types, RowTypes, QueryTypes
  <2>9. Types' /\ OthersKept(r) /\ ClaimsOK' /\ proc'[r] = p
    BY <2>2, <2>4, <2>6, <2>7, <2>8, OwnStep DEF TablesKept
  <2>12. RunOK(r)'
    BY <2>4, <2>9, <2>6 DEF DiscoveryInv, RunOK, Limit, Active
  <2>13. ASSUME r \in Scans
         PROVE  ScanOK(r)'
    <3>1. Rows(r)' = Rows(r)
      BY <2>2, <2>6 DEF Rows
    <3> QED
      BY <2>4, <2>9, <2>6, <2>13, <3>1 DEF DiscoveryInv, ScanOK, Consistent
  <2>14. ASSUME r \in Refinements
         PROVE  RefineOK(r)'
    BY <2>2, <2>4, <2>9, <2>6, <2>14
       DEF DiscoveryInv, RefineOK, ItemsOK, Ranked, Priced, Listed, Active
  <2>15. StaysSettled(r)
    BY <2>2 DEF StaysSettled, Active
  <2> QED
    BY <2>9, <2>12, <2>13, <2>14, <2>15 DEF StepKeeps, RunKeeps
<1> QED
  BY <1>2, <1>3

\* A step that writes nothing, of a process that goes on.
LEMMA QuietKeeps ==
  ASSUME DiscoveryInv, NEW r \in Runs, NEW p, Step(r, p), UNCHANGED tables,
         r \in Scans => p \in ScanProc /\ ScanOK(r)',
         r \in Refinements => p \in RefineProc /\ RefineOK(r)',
         proc[r].at \in {"next", "items"}, p.at \in {"next", "items", "settle"},
         p.at = "settle" => /\ p.end # <<"none", "none">>
                            /\ p.end[2] = "MAX_API_CALLS" => run[r].calls = Limit(r)
  PROVE  StepKeeps(r)
<1>1. ProcTypes' /\ proc'[r] = p /\ \A o \in Runs \ {r} : proc'[o] = proc[o]
  BY StepOf DEF DiscoveryInv, Types
<1>2. Types'
  BY <1>1 DEF DiscoveryInv, Types, RowTypes, QueryTypes, tables
<1>3. OthersKept(r)
  BY <1>1 DEF OthersKept, RowKept, TablesKept, tables
<1>4. ClaimsOK'
  <2>1. \A q \in Query : claim'[q] # None =>
          /\ claim'[q] = claim[q] /\ claim[q] # r
          /\ cache[q] = None => cache'[q] = None
          /\ Active(claim[q]) => run'[claim[q]].state = "RUNNING"
    BY DEF DiscoveryInv, ClaimsOK, ClaimOK, Active, tables
  <2> QED
    BY <1>2, <1>3, <2>1, ClaimsStay
<1>5. RunOK(r)'
  BY <1>1 DEF DiscoveryInv, RunOK, Limit, Active, tables
<1>6. StaysSettled(r)
  BY DEF StaysSettled, tables
<1> QED
  BY <1>2, <1>3, <1>4, <1>5, <1>6 DEF StepKeeps, RunKeeps

-----------------------------------------------------------------------------
(* The transaction that claims a query.                                     *)

\* The kind of r and the queries of that kind.
KindOf(r, kind, queries) ==
  \/ r \in Scans /\ kind = Scans /\ queries = PageQuery
  \/ r \in Refinements /\ kind = Refinements /\ queries = SkuQuery

\* What becomes of the rows of runs in it.
RowsRecovered(kind, r, rows) ==
  /\ rows \in [Runs -> RunRow]
  /\ rows[r].live = TRUE
  /\ rows[r].state = run[r].state /\ rows[r].reason = run[r].reason
  /\ rows[r].calls = run[r].calls /\ rows[r].listed = run[r].listed
  /\ rows[r].snaps = run[r].snaps
  /\ \A o \in Runs \ {r} :
       \/ rows[o] = run[o] /\ ~(o \in kind /\ Expired(o))
       \/ o \in kind /\ Expired(o) /\ rows[o] = Closed(run[o], "UNCERTAIN", "none")

LEMMA RecoveredRows ==
  ASSUME RowTypes, NEW r \in Runs, NEW kind
  PROVE  RowsRecovered(kind, r, Recovered(kind, r))
<1>0. PICK rows : rows = Recovered(kind, r)
  OBVIOUS
<1>1. "UNCERTAIN" \in States /\ "none" \in Reasons
  BY DEF States, Reasons
<1>2. \A o \in Runs : run[o] \in RunRow
  BY DEF RowTypes
<1>3. \A o \in Runs : Closed(run[o], "UNCERTAIN", "none") \in RunRow
  BY <1>1, <1>2, ClosedRow
<1>4. \A o \in Runs \ {r} : rows[o] = IF o \in kind /\ Expired(o)
                                      THEN Closed(run[o], "UNCERTAIN", "none") ELSE run[o]
  BY <1>0 DEF Recovered
<1>5. rows[r] = [run[r] EXCEPT !.live = TRUE]
  BY <1>0 DEF Recovered
<1>6. /\ rows[r] \in RunRow /\ rows[r].live = TRUE
      /\ rows[r].state = run[r].state /\ rows[r].reason = run[r].reason
      /\ rows[r].calls = run[r].calls /\ rows[r].listed = run[r].listed
      /\ rows[r].snaps = run[r].snaps
  BY <1>2, <1>5 DEF RunRow
<1>7. rows = [o \in Runs |-> rows[o]]
  BY <1>0 DEF Recovered
<1>8. \A o \in Runs : rows[o] \in RunRow
  BY <1>2, <1>3, <1>4, <1>6
<1>9. RowsRecovered(kind, r, rows)
  BY <1>4, <1>6, <1>7, <1>8 DEF RowsRecovered
<1> QED
  BY <1>0, <1>9

\* The claims and the answers that have not expired.
LEMMA UnexpiredClaims ==
  ASSUME DiscoveryInv, NEW r \in Runs, NEW kind, NEW queries, KindOf(r, kind, queries),
         proc[r].at = "next", NEW q \in Query
  PROVE  /\ Unexpired(queries)[q] \in {claim[q], None}
         /\ Fresh(queries)[q] \in {cache[q], None}
         /\ Unexpired(queries)[q] # None =>
              /\ claim[q] \in Runs \ {r}
              /\ Active(claim[q])
              /\ ~(claim[q] \in kind /\ Expired(claim[q]))
              /\ cache[q] = None
<1>1. /\ Unexpired(queries)[q] = IF q \in queries /\ claim[q] # None /\ ~run[claim[q]].live
                                 THEN None ELSE claim[q]
      /\ Fresh(queries)[q] \in {cache[q], None}
  BY DEF Unexpired, Fresh
<1>2. ASSUME Unexpired(queries)[q] # None
      PROVE  /\ claim[q] \in Runs \ {r} /\ Active(claim[q]) /\ cache[q] = None
             /\ q \in queries => run[claim[q]].live
  BY <1>1, <1>2 DEF DiscoveryInv, ClaimsOK, ClaimOK, Types, QueryTypes
<1>3. ASSUME Unexpired(queries)[q] # None, claim[q] \in kind
      PROVE  q \in queries
  <2>1. claim[q] # None
    BY <1>1, <1>3
  <2>2. CASE kind = Scans /\ queries = PageQuery
    <3>1. ASSUME q \notin PageQuery
          PROVE  FALSE
      <4>1. PICK p \in Products : q = <<p>>
        BY <3>1, QueriesDiffer
      <4>2. claim[q] \in Refinements
        BY <2>1, <4>1 DEF DiscoveryInv, Types, QueryTypes
      <4> QED
        BY <1>3, <2>2, <4>2, DiscoveryAssumption
    <3> QED
      BY <2>2, <3>1
  <2>3. CASE kind = Refinements /\ queries = SkuQuery
    <3>1. ASSUME q \in PageQuery
          PROVE  FALSE
      <4>1. claim[q] \in Scans
        BY <2>1, <3>1 DEF DiscoveryInv, Types, QueryTypes
      <4> QED
        BY <1>3, <2>3, <4>1, DiscoveryAssumption
    <3> QED
      BY <2>3, <3>1 DEF Query
  <2> QED
    BY <2>2, <2>3 DEF KindOf
<1> QED
  BY <1>1, <1>2, <1>3 DEF Expired

LEMMA ClaimInKeeps ==
  ASSUME DiscoveryInv, NEW r \in Runs, NEW kind, NEW queries, KindOf(r, kind, queries),
         proc[r].at = "next", Active(r), Asked(r) \in queries, NEW given,
         ClaimIn(kind, queries, r, Asked(r), Limit(r), given),
         UNCHANGED <<results, items, observed, skuObserved>>,
         r \in Refinements => proc[r].todo # <<>>,
         Fresh(queries)[Asked(r)] # None =>
           /\ given.at = "items"
           /\ r \in Scans => /\ given \in ScanProc /\ given.held \in Pages
                             /\ given.got = Listed(results, r)
                                              \cup {x.product : x \in Range(given.todo)}
           /\ r \in Refinements => /\ given \in RefineProc
                                   /\ given.todo = proc[r].todo /\ given.got = proc[r].got
                                   /\ given.held \in Skus[Head(proc[r].todo)]
  PROVE  StepKeeps(r)
<1> DEFINE q0 == Asked(r)
           claims == Unexpired(queries)
           kept == Fresh(queries)
<1> PICK rows : rows = Recovered(kind, r)
  OBVIOUS
<1>1. /\ run \in [Runs -> RunRow] /\ run[r] \in RunRow
      /\ r \in Scans => proc[r] \in ScanProc
      /\ r \in Refinements => proc[r] \in RefineProc
      /\ RunOK(r) /\ RowTypes
      /\ r \in Scans => ScanOK(r) /\ r \notin Refinements
      /\ r \in Refinements => RefineOK(r) /\ r \notin Scans
      /\ q0 \in Query
  BY DiscoveryAssumption DEF DiscoveryInv, Types, RowTypes, ProcTypes, KindOf, Query
<1>0. kept[q0] # None =>
        /\ given.at = "items"
        /\ r \in Scans => /\ given \in ScanProc /\ given.held \in Pages
                          /\ given.got = Listed(results, r)
                                           \cup {x.product : x \in Range(given.todo)}
        /\ r \in Refinements => /\ given \in RefineProc
                                /\ given.todo = proc[r].todo /\ given.got = proc[r].got
                                /\ given.held \in Skus[Head(proc[r].todo)]
  OBVIOUS
<1>2. Limit(r) \in Nat /\ run[r].calls \in Nat
  BY <1>1, DiscoveryAssumption, SMTT(30) DEF ProfileIsValid, Limit, RunRow
<1>3. CASE /\ kept[q0] = None /\ claims[q0] = None /\ run[r].calls >= Limit(r)
           /\ Step(r, Ending(proc[r], "COMPLETED", "MAX_API_CALLS"))
           /\ UNCHANGED <<run, claim, cache>>
  <2> DEFINE p == Ending(proc[r], "COMPLETED", "MAX_API_CALLS")
  <2>1. UNCHANGED tables
    BY <1>3 DEF tables
  <2>2. <<"COMPLETED", "MAX_API_CALLS">> \in Ends
    BY DEF Ends
  <2>3. /\ r \in Scans => p \in ScanProc
        /\ r \in Refinements => p \in RefineProc
        /\ p.at = "settle" /\ p.end = <<"COMPLETED", "MAX_API_CALLS">>
        /\ p.got = proc[r].got
    <3> HIDE DEF Ends
    <3>1. CASE r \in Scans
      BY <1>1, <2>2, <3>1 DEF Ending, ScanProc, Stages
    <3>2. CASE r \in Refinements
      BY <1>1, <2>2, <3>2 DEF Ending, RefineProc, Stages
    <3> QED
      BY <3>1, <3>2 DEF Runs
  <2>4. Step(r, p)
    BY <1>3
  <2> HIDE DEF p
  <2>5. proc'[r] = p
    BY <2>3, <2>4, StepOf DEF DiscoveryInv, Types
  <2>6. r \in Scans => ScanOK(r)'
    <3> SUFFICES ASSUME r \in Scans
                 PROVE  ScanOK(r)'
      OBVIOUS
    <3>1. Rows(r)' = Rows(r) /\ Listed(results, r)' = Listed(results, r)
      BY <2>1 DEF Rows, Listed, tables
    <3>2. run[r].state # "COMPLETED" /\ run' = run
      BY <2>1 DEF Active, tables
    <3> QED
      BY <1>1, <2>3, <2>5, <3>1, <3>2 DEF ScanOK, ScanIsWhole, Consistent
  <2>7. r \in Refinements => RefineOK(r)'
    BY <1>1, <2>1, <2>3, <2>5 DEF RefineOK, ItemsOK, Ranked, Priced, Listed, Active, tables
  <2>8. run[r].calls = Limit(r)
    BY <1>1, <1>2, <1>3 DEF RunOK
  <2> QED
    BY <2>1, <2>3, <2>4, <2>6, <2>7, <2>8, QuietKeeps
<1>4. CASE \/ /\ kept[q0] # None
              /\ run' = rows /\ claim' = claims /\ cache' = kept
              /\ Step(r, given)
           \/ /\ kept[q0] = None /\ claims[q0] # None
              /\ run' = rows /\ claim' = claims /\ cache' = kept
              /\ Step(r, Ending(proc[r], "STOPPED", "none"))
           \/ /\ kept[q0] = None /\ claims[q0] = None
              /\ run[r].calls < Limit(r)
              /\ run' = [rows EXCEPT ![r].calls = @ + 1]
              /\ claim' = [claims EXCEPT ![q0] = r]
              /\ cache' = kept
              /\ Step(r, [proc[r] EXCEPT !.at = "call"])
  <2>1. PICK p : /\ Step(r, p)
                 /\ \/ kept[q0] # None /\ p = given
                    \/ p = Ending(proc[r], "STOPPED", "none")
                    \/ p = [proc[r] EXCEPT !.at = "call"]
                 /\ p.at = "call" =>
                      /\ kept[q0] = None
                      /\ claim' = [claims EXCEPT ![q0] = r]
                 /\ p.at # "call" => claim' = claims
    <3>1. given.at = "items" \/ kept[q0] = None
      OBVIOUS
    <3>2. Ending(proc[r], "STOPPED", "none").at = "settle"
          /\ [proc[r] EXCEPT !.at = "call"].at = "call"
      BY <1>1 DEF Ending, ScanProc, RefineProc, KindOf
    <3> HIDE DEF kept, claims, q0
    <3>3. CASE kept[q0] # None /\ claim' = claims /\ Step(r, given)
      BY <3>1, <3>3
    <3>4. CASE claim' = claims /\ Step(r, Ending(proc[r], "STOPPED", "none"))
      BY <3>2, <3>4
    <3>5. CASE /\ kept[q0] = None /\ claim' = [claims EXCEPT ![q0] = r]
               /\ Step(r, [proc[r] EXCEPT !.at = "call"])
      BY <3>2, <3>5
    <3> QED
      BY <1>4, <3>3, <3>4, <3>5
  <2>2. /\ r \in Scans => p \in ScanProc
        /\ r \in Refinements => p \in RefineProc
        /\ p.at \in {"items", "settle", "call"}
        /\ p.at = "items" => p = given /\ kept[q0] # None
        /\ p.at = "settle" => p.end = <<"STOPPED", "none">>
        /\ p.at = "call" => /\ p.kw = proc[r].kw /\ p.page = proc[r].page
                            /\ p.todo = proc[r].todo /\ p.got = proc[r].got
    <3>1. <<"STOPPED", "none">> \in Ends
      BY DEF Ends
    <3> HIDE DEF Ends
    <3>2. CASE kept[q0] # None /\ p = given
      BY <3>2
    <3>3. CASE p = Ending(proc[r], "STOPPED", "none") \/ p = [proc[r] EXCEPT !.at = "call"]
      BY <1>1, <3>1, <3>3 DEF Ending, ScanProc, RefineProc, Stages, KindOf
    <3> QED
      BY <2>1, <3>2, <3>3
  <2>3. ProcTypes' /\ proc'[r] = p /\ \A o \in Runs \ {r} : proc'[o] = proc[o]
    BY <2>1, <2>2, StepOf DEF DiscoveryInv, Types
  <2>4. /\ rows \in [Runs -> RunRow]
        /\ rows[r].live = TRUE
        /\ rows[r].state = run[r].state /\ rows[r].reason = run[r].reason
        /\ rows[r].calls = run[r].calls /\ rows[r].listed = run[r].listed
        /\ rows[r].snaps = run[r].snaps
        /\ \A o \in Runs \ {r} :
             \/ rows[o] = run[o] /\ ~(o \in kind /\ Expired(o))
             \/ o \in kind /\ Expired(o) /\ rows[o] = Closed(run[o], "UNCERTAIN", "none")
    <3>1. RowsRecovered(kind, r, rows)
      BY <1>1, RecoveredRows
    <3> QED
      BY <3>1 DEF RowsRecovered
  <2>5. \A q \in Query :
          /\ claims[q] \in {claim[q], None} /\ kept[q] \in {cache[q], None}
          /\ claims[q] # None => /\ claim[q] \in Runs \ {r} /\ Active(claim[q])
                                 /\ ~(claim[q] \in kind /\ Expired(claim[q]))
                                 /\ cache[q] = None
    BY UnexpiredClaims
  <2>6. /\ DOMAIN claims = Query /\ claims = [q \in Query |-> claims[q]]
        /\ DOMAIN kept = Query
    BY DEF Unexpired, Fresh
  <2> HIDE DEF claims, kept
  <2>7. /\ run' \in [Runs -> RunRow] /\ run'[r].live = TRUE
        /\ run'[r].state = run[r].state /\ run'[r].reason = run[r].reason
        /\ run'[r].listed = run[r].listed /\ run'[r].snaps = run[r].snaps
        /\ run'[r].calls <= Limit(r)
        /\ \A o \in Runs \ {r} : run'[o] = rows[o]
    <3>1. CASE run' = rows
      BY <1>1, <2>4, <3>1 DEF RunOK
    <3>2. CASE run' = [rows EXCEPT ![r].calls = @ + 1] /\ run[r].calls < Limit(r)
      <4>1. rows[r] \in RunRow
        BY <2>4
      <4>2. /\ [rows[r] EXCEPT !.calls = @ + 1] \in RunRow
            /\ [rows[r] EXCEPT !.calls = @ + 1].live = rows[r].live
            /\ [rows[r] EXCEPT !.calls = @ + 1].state = rows[r].state
            /\ [rows[r] EXCEPT !.calls = @ + 1].reason = rows[r].reason
            /\ [rows[r] EXCEPT !.calls = @ + 1].listed = rows[r].listed
            /\ [rows[r] EXCEPT !.calls = @ + 1].snaps = rows[r].snaps
            /\ [rows[r] EXCEPT !.calls = @ + 1].calls = rows[r].calls + 1
        BY <4>1 DEF RunRow
      <4>3. /\ run'[r] = [rows[r] EXCEPT !.calls = @ + 1]
            /\ \A o \in Runs \ {r} : run'[o] = rows[o]
            /\ run' = [o \in Runs |-> run'[o]]
        BY <2>4, <3>2
      <4>4. \A o \in Runs : run'[o] \in RunRow
        BY <2>4, <4>2, <4>3
      <4>5. run' \in [Runs -> RunRow]
        BY <4>3, <4>4
      <4>6. rows[r].calls + 1 <= Limit(r)
        BY <1>2, <2>4, <3>2
      <4> QED
        BY <2>4, <4>2, <4>3, <4>5, <4>6
    <3> QED
      BY <1>4, <3>1, <3>2
  <2>8. cache' = kept
    BY <1>4
  <2>9. \A q \in Query : claim'[q] # None =>
          \/ claim'[q] = r /\ q = q0 /\ p.at = "call" /\ kept[q0] = None
          \/ claim'[q] = claims[q]
    <3> HIDE DEF q0
    <3> QED
      BY <1>1, <2>1, <2>6
  <2>10. Types'
    <3>1. claim' \in [Query -> Runs \cup {None}]
      <4>1. claim' = [q \in Query |-> claim'[q]]
        <5> HIDE DEF q0
        <5> QED
          BY <2>1, <2>6
      <4>2. \A q \in Query : claim'[q] \in Runs \cup {None}
        BY <2>5, <2>9
      <4> QED
        BY <4>1, <4>2
    <3>2. \A q \in PageQuery : claim'[q] \in Scans \cup {None}
      <4> SUFFICES ASSUME NEW q \in PageQuery, claim'[q] # None
                   PROVE  claim'[q] \in Scans
        OBVIOUS
      <4>1. q \in Query /\ q \notin SkuQuery
        BY QueriesDiffer
      <4>2. CASE claim'[q] = r /\ q = q0
        BY <4>1, <4>2 DEF KindOf
      <4>3. CASE claim'[q] = claims[q]
        BY <2>5, <4>1, <4>3 DEF DiscoveryInv, Types, QueryTypes
      <4> QED
        BY <2>9, <4>1, <4>2, <4>3
    <3>3. \A x \in Products : claim'[<<x>>] \in Refinements \cup {None}
      <4> SUFFICES ASSUME NEW x \in Products, claim'[<<x>>] # None
                   PROVE  claim'[<<x>>] \in Refinements
        OBVIOUS
      <4>1. <<x>> \in Query /\ <<x>> \notin PageQuery
        BY QueriesDiffer
      <4>2. CASE claim'[<<x>>] = r /\ <<x>> = q0
        BY <4>1, <4>2 DEF KindOf
      <4>3. CASE claim'[<<x>>] = claims[<<x>>]
        BY <2>5, <4>1, <4>3 DEF DiscoveryInv, Types, QueryTypes
      <4> QED
        BY <2>9, <4>1, <4>2, <4>3
    <3>4. QueryTypes'
      BY <2>5, <2>6, <2>8, <3>1, <3>2, <3>3, QueriesDiffer DEF DiscoveryInv, Types, QueryTypes
    <3> QED
      BY <1>1, <2>3, <2>7, <3>4 DEF Types, RowTypes
  <2>11. OthersKept(r)
    BY <2>3, <2>4, <2>7 DEF OthersKept, RowKept, TablesKept
  <2>12. ClaimsOK'
    <3> SUFFICES ASSUME NEW q \in Query, claim'[q] # None
                 PROVE  \/ /\ claim'[q] = claim[q] /\ claim[q] # r
                           /\ cache[q] = None => cache'[q] = None
                           /\ Active(claim[q]) => run'[claim[q]].state = "RUNNING"
                        \/ claim'[q] = r /\ ClaimOK(q)'
      BY <2>10, <2>11, ClaimsStay
    <3>1. CASE claim'[q] = r /\ q = q0 /\ p.at = "call" /\ kept[q0] = None
      <4>1. cache'[q] = None /\ Active(r)' /\ proc'[r].at = "call"
        BY <2>3, <2>7, <2>8, <3>1 DEF Active
      <4>2. Asked(r)' = q
        <5>1. At(r)' = At(r) /\ Of(r)' = Of(r)
          BY <2>2, <2>3, <3>1 DEF At, Of
        <5> QED
          BY <3>1, <5>1 DEF Asked
      <4> QED
        BY <3>1, <4>1, <4>2 DEF ClaimOK
    <3>2. CASE claim'[q] = claims[q]
      <4>1. /\ claim'[q] = claim[q] /\ claim[q] \in Runs \ {r} /\ Active(claim[q])
            /\ ~(claim[q] \in kind /\ Expired(claim[q])) /\ cache[q] = None
        BY <2>5, <3>2
      <4>2. run'[claim[q]] = run[claim[q]]
        BY <2>4, <2>7, <4>1
      <4>3. cache'[q] = None
        BY <2>5, <2>8, <4>1
      <4> QED
        BY <4>1, <4>2, <4>3 DEF Active
    <3> QED
      BY <2>9, <3>1, <3>2
  <2>13. RunOK(r)'
    BY <1>1, <2>2, <2>3, <2>7 DEF RunOK, Limit, Active
  <2>14. r \in Scans => ScanOK(r)'
    <3> SUFFICES ASSUME r \in Scans
                 PROVE  ScanOK(r)'
      OBVIOUS
    <3>1. Rows(r)' = Rows(r) /\ Listed(results, r)' = Listed(results, r)
      BY <2>7 DEF Rows, Listed
    <3>2. run'[r].state # "COMPLETED"
      BY <2>7 DEF Active
    <3>3. ScanOK(r)
      BY <1>1
    <3>4. Consistent(Rows(r))' /\ run'[r].listed <= MaxResults
      BY <2>7, <3>1, <3>3 DEF ScanOK, Consistent
    <3>5. CASE p.at = "items"
      <4>1. /\ p.held \in Pages
            /\ p.got = Listed(results, r) \cup {x.product : x \in Range(p.todo)}
        BY <1>0, <2>2, <3>5
      <4> QED
        BY <2>3, <3>1, <3>2, <3>4, <3>5, <4>1 DEF ScanOK
    <3>6. CASE p.at = "settle"
      BY <2>2, <2>3, <3>2, <3>4, <3>6 DEF ScanOK
    <3>7. CASE p.at = "call"
      BY <2>2, <2>3, <3>1, <3>2, <3>3, <3>4, <3>7 DEF ScanOK
    <3> QED
      BY <2>2, <3>5, <3>6, <3>7
  <2>15. r \in Refinements => RefineOK(r)'
    <3> SUFFICES ASSUME r \in Refinements
                 PROVE  RefineOK(r)'
      OBVIOUS
    <3>1. /\ Listed(items, r)' = Listed(items, r)
          /\ Priced(skuObserved, r)' = Priced(skuObserved, r)
      BY DEF Listed, Priced
    <3>2. ItemsOK(r)' /\ Ranked(r)' /\ run'[r].state # "COMPLETED"
      BY <1>1, <2>7, <3>1 DEF RefineOK, ItemsOK, Ranked, Active
    <3>3. p.at # "settle" => p.todo = proc[r].todo /\ p.got = proc[r].got
      BY <1>0, <2>2
    <3>4. p.at # "settle" => Turns(r)'
      BY <1>1, <2>3, <3>1, <3>3 DEF Turns, RefineOK
    <3>5. p.at = "items" => p.held \in Skus[Head(proc[r].todo)]
      BY <1>0, <2>2
    <3> QED
      BY <2>2, <2>3, <3>2, <3>3, <3>4, <3>5 DEF RefineOK
  <2>16. StaysSettled(r)
    BY DEF StaysSettled, Active
  <2> QED
    BY <2>10, <2>11, <2>12, <2>13, <2>14, <2>15, <2>16 DEF StepKeeps, RunKeeps
<1> QED
  BY <1>3, <1>4 DEF ClaimIn

-----------------------------------------------------------------------------
(* Sequences of what is left to do.                                         *)

LEMMA HeadAndTail ==
  ASSUME NEW S, NEW s \in Seq(S), s # <<>>
  PROVE  /\ Head(s) \in S /\ Tail(s) \in Seq(S)
         /\ Range(s) = {Head(s)} \cup Range(Tail(s))
         /\ IsInjective(s) => IsInjective(Tail(s)) /\ Head(s) \notin Range(Tail(s))
<1>1. /\ Len(s) \in Nat /\ Len(s) >= 1 /\ DOMAIN s = 1..Len(s)
      /\ Head(s) = s[1] /\ Head(s) \in S
  OBVIOUS
<1>2. /\ Tail(s) \in Seq(S) /\ DOMAIN Tail(s) = 1..(Len(s) - 1)
      /\ \A i \in 1..(Len(s) - 1) : Tail(s)[i] = s[i + 1]
  OBVIOUS
<1>3. ASSUME NEW i \in 1..Len(s), i # 1
      PROVE  i - 1 \in 1..(Len(s) - 1) /\ Tail(s)[i - 1] = s[i]
  <2>1. i - 1 \in 1..(Len(s) - 1) /\ (i - 1) + 1 = i
    BY <1>1, <1>3
  <2> QED
    BY <1>2, <2>1
<1>4. \A i \in 1..(Len(s) - 1) : i + 1 \in 1..Len(s) /\ i + 1 # 1
  BY <1>1
<1>5. Range(s) = {Head(s)} \cup Range(Tail(s))
  <2>1. ASSUME NEW x \in Range(s)
        PROVE  x \in {Head(s)} \cup Range(Tail(s))
    <3>1. PICK i \in 1..Len(s) : x = s[i]
      BY <1>1, <2>1 DEF Range
    <3> QED
      BY <1>1, <1>2, <1>3, <3>1 DEF Range
  <2>2. ASSUME NEW x \in {Head(s)} \cup Range(Tail(s))
        PROVE  x \in Range(s)
    <3>1. 1 \in 1..Len(s)
      BY <1>1
    <3> QED
      BY <1>1, <1>2, <1>4, <2>2, <3>1 DEF Range
  <2> QED
    BY <2>1, <2>2
<1>6. ASSUME IsInjective(s)
      PROVE  IsInjective(Tail(s)) /\ Head(s) \notin Range(Tail(s))
  <2>1. \A i, j \in 1..Len(s) : s[i] = s[j] => i = j
    BY <1>1, <1>6 DEF IsInjective
  <2>2. ASSUME NEW i \in 1..(Len(s) - 1), NEW j \in 1..(Len(s) - 1), Tail(s)[i] = Tail(s)[j]
        PROVE  i = j
    <3>1. s[i + 1] = s[j + 1]
      BY <1>2, <2>2
    <3>2. i + 1 = j + 1
      BY <1>4, <2>1, <3>1
    <3> QED
      BY <3>2
  <2>3. \A i \in 1..(Len(s) - 1) : Tail(s)[i] # Head(s)
    <3> SUFFICES ASSUME NEW i \in 1..(Len(s) - 1)
                 PROVE  Tail(s)[i] # Head(s)
      OBVIOUS
    <3>1. 1 \in 1..Len(s)
      BY <1>1
    <3> QED
      BY <1>1, <1>2, <1>4, <2>1, <3>1
  <2> QED
    BY <1>2, <2>2, <2>3 DEF IsInjective, Range
<1> QED
  BY <1>1, <1>2, <1>5, <1>6

-----------------------------------------------------------------------------
(* Scans.                                                                   *)

LEMMA ScanIsTyped ==
  ASSUME DiscoveryInv, NEW r \in Scans
  PROVE  /\ r \in Runs /\ r \notin Refinements
         /\ run[r] \in RunRow /\ RunOK(r) /\ ScanOK(r)
         /\ proc[r] \in ScanProc /\ proc[r].todo \in Seq(Offers)
         /\ proc[r].got \in SUBSET Products
         /\ At(r) \in PageQuery /\ At(r) \in Query
         /\ Limit(r) = MaxCalls /\ Asked(r) = At(r)
<1>1. proc[r] \in ScanProc
  BY DEF DiscoveryInv, Types, ProcTypes
<1>2. At(r) \in PageQuery
  BY <1>1 DEF ScanProc, At, PageQuery
<1> QED
  BY <1>1, <1>2, DiscoveryAssumption
     DEF DiscoveryInv, Types, RowTypes, Runs, Query, Limit, Asked, ScanProc

LEMMA ScanKeeps ==
  ASSUME DiscoveryInv, NEW r \in Scans, Scan(r)
  PROVE  StepKeeps(r)
<1> DEFINE p == [proc[r] EXCEPT !.at = "next"]
           row == [NoRun EXCEPT !.state = "RUNNING", !.live = TRUE]
<1>1. /\ r \in Runs /\ r \notin Refinements /\ RunOK(r) /\ ScanOK(r) /\ proc[r] \in ScanProc
      /\ Limit(r) = MaxCalls
  BY ScanIsTyped
<1>2. /\ proc[r].at = "idle" /\ run' = [run EXCEPT ![r] = row] /\ Step(r, p)
      /\ UNCHANGED <<results, items, observed, skuObserved, claim, cache>>
  BY DEF Scan
<1>3. p \in ScanProc /\ p.at = "next" /\ p.got = proc[r].got
  BY <1>1 DEF ScanProc, Stages
<1>4. row \in RunRow /\ row.state = "RUNNING" /\ row.reason = "none" /\ row.live = TRUE
      /\ row.calls = 0 /\ row.listed = 0 /\ row.snaps = 0
  BY DEF RunRow, NoRun, States, Reasons
<1> HIDE DEF p, row
<1>5. run' \in [Runs -> RunRow] /\ run'[r] = row /\ \A o \in Runs \ {r} : run'[o] = run[o]
  BY <1>1, <1>2, <1>4 DEF DiscoveryInv, Types, RowTypes
<1>6. \A q \in Query : claim[q] # r
  BY <1>1, <1>2, NoClaim
<1>7. RowTypes' /\ QueryTypes'
  BY <1>2, <1>5 DEF DiscoveryInv, Types, RowTypes, QueryTypes
<1>8. Types' /\ OthersKept(r) /\ ClaimsOK' /\ proc'[r] = p
  BY <1>1, <1>2, <1>3, <1>5, <1>6, <1>7, OwnStep DEF TablesKept
<1>9. run[r] = NoRun /\ run[r].listed = 0 /\ run[r].snaps = 0 /\ run[r].state = "none"
  BY <1>1, <1>2 DEF RunOK, NoRun
<1>10. Rows(r)' = Rows(r)
  BY <1>2, <1>4, <1>5, <1>9 DEF Rows
<1>11. RunOK(r)'
  BY <1>1, <1>3, <1>4, <1>5, <1>8, DiscoveryAssumption DEF RunOK, Active, Limit, ProfileIsValid
<1>12. ScanOK(r)'
  <2>1. Listed(results, r)' = Listed(results, r)
    BY <1>2 DEF Listed
  <2>2. 0 <= MaxResults
    BY DiscoveryAssumption DEF ProfileIsValid
  <2> QED
    BY <1>1, <1>2, <1>3, <1>4, <1>5, <1>8, <1>10, <2>1, <2>2 DEF ScanOK, Consistent
<1>13. StaysSettled(r)
  BY <1>9 DEF StaysSettled
<1> QED
  BY <1>1, <1>8, <1>11, <1>12, <1>13 DEF StepKeeps, RunKeeps

\* The products of a page that may be answered.
LEMMA PageOffers ==
  ASSUME NEW pg \in Pages
  PROVE  /\ pg.items \in Seq(Offers) /\ pg.rejected \in Nat
         /\ PageProducts(pg) \in SUBSET Products
         /\ PageProducts(pg) = {x.product : x \in Range(pg.items)}
<1>1. pg.items \in Seq(Offers) /\ pg.rejected \in Nat
  BY DiscoveryAssumption
<1>2. DOMAIN pg.items = 1..Len(pg.items) /\ \A i \in 1..Len(pg.items) : pg.items[i] \in Offers
  BY <1>1
<1> QED
  BY <1>1, <1>2 DEF PageProducts, Range, Offers

\* A process goes on with another page, or ends the run.
LEMMA AfterIsTyped ==
  ASSUME NEW p \in ScanProc, NEW pg \in Pages
  PROVE  /\ After(p, pg) \in ScanProc
         /\ After(p, pg).got = p.got
         /\ \/ After(p, pg).at = "next"
            \/ /\ After(p, pg).at = "settle"
               /\ After(p, pg).end \in {<<"COMPLETED", "SHORT_PAGE">>, <<"COMPLETED", "MAX_PAGES">>}
<1>1. /\ <<"COMPLETED", "SHORT_PAGE">> \in Ends /\ <<"COMPLETED", "MAX_PAGES">> \in Ends
  BY DEF Ends
<1>2. /\ p.kw \in 1..Keywords /\ p.page \in 1..MaxPages
      /\ Keywords \in Nat /\ MaxPages \in Nat /\ 1 \in 1..MaxPages
  BY DiscoveryAssumption DEF ScanProc, ProfileIsValid
<1> DEFINE short == Len(pg.items) + pg.rejected < PageSize
<1> HIDE DEF Ends, short
<1>3. CASE ~short /\ p.page < MaxPages
  <2>1. After(p, pg) = [p EXCEPT !.at = "next", !.page = p.page + 1]
    BY <1>3 DEF After, short
  <2>2. p.page + 1 \in 1..MaxPages
    BY <1>2, <1>3
  <2> QED
    BY <2>1, <2>2 DEF ScanProc, Stages
<1>4. CASE ~(~short /\ p.page < MaxPages) /\ p.kw < Keywords
  <2>1. After(p, pg) = [p EXCEPT !.at = "next", !.kw = p.kw + 1, !.page = 1]
    BY <1>4 DEF After, short
  <2>2. p.kw + 1 \in 1..Keywords
    BY <1>2, <1>4
  <2> QED
    BY <1>2, <2>1, <2>2 DEF ScanProc, Stages
<1>5. CASE ~(~short /\ p.page < MaxPages) /\ ~(p.kw < Keywords)
  <2>1. PICK reason \in {"SHORT_PAGE", "MAX_PAGES"} : After(p, pg) = Ending(p, "COMPLETED", reason)
    BY <1>5 DEF After, short
  <2>2. <<"COMPLETED", reason>> \in Ends
    BY <1>1
  <2> QED
    BY <2>1, <2>2 DEF ScanProc, Stages, Ending
<1> QED
  BY <1>3, <1>4, <1>5

\* A scan that has all it may list ends its run; else it claims a page.
LEMMA ClaimQueryKeeps ==
  ASSUME DiscoveryInv, NEW r \in Scans, ClaimQuery(r)
  PROVE  StepKeeps(r)
<1>1. /\ r \in Runs /\ r \notin Refinements /\ run[r] \in RunRow /\ RunOK(r) /\ ScanOK(r)
      /\ proc[r] \in ScanProc /\ proc[r].got \in SUBSET Products
      /\ At(r) \in PageQuery /\ At(r) \in Query
      /\ Limit(r) = MaxCalls /\ Asked(r) = At(r)
  BY ScanIsTyped
<1>2. proc[r].at = "next"
  BY DEF ClaimQuery
<1>3. CASE ~Full(r) /\ ~Active(r) /\ Raise(r)
  BY <1>1, <1>2, <1>3, RaiseKeeps
<1>4. CASE Full(r) /\ Step(r, Ending(proc[r], "COMPLETED", "MAX_RESULTS")) /\ UNCHANGED tables
  <2> DEFINE p == Ending(proc[r], "COMPLETED", "MAX_RESULTS")
  <2>1. <<"COMPLETED", "MAX_RESULTS">> \in Ends
    BY DEF Ends
  <2>2. p \in ScanProc /\ p.at = "settle" /\ p.end = <<"COMPLETED", "MAX_RESULTS">>
    <3> HIDE DEF Ends
    <3> QED
      BY <1>1, <2>1 DEF ScanProc, Stages, Ending
  <2>3. Step(r, p)
    BY <1>4
  <2> HIDE DEF p
  <2>4. proc'[r] = p
    BY <1>1, <2>2, <2>3, StepOf DEF DiscoveryInv, Types
  <2>5. run[r].listed = MaxResults
    <3>1. run[r].listed \in Nat /\ MaxResults \in Nat
      BY <1>1, DiscoveryAssumption DEF RunRow, ProfileIsValid
    <3>2. run[r].listed <= MaxResults
      BY <1>1 DEF ScanOK
    <3> QED
      BY <1>4, <3>1, <3>2 DEF Full
  <2>6. ScanOK(r)'
    <3>1. Rows(r)' = Rows(r) /\ run' = run
      BY <1>4 DEF Rows, tables
    <3>2. run[r].state # "COMPLETED"
      BY <1>1, <1>2 DEF RunOK
    <3> QED
      BY <1>1, <2>2, <2>4, <2>5, <3>1, <3>2 DEF ScanOK, ScanIsWhole, Consistent
  <2> QED
    BY <1>1, <1>2, <1>4, <2>2, <2>3, <2>6, QuietKeeps
<1>5. CASE /\ ~Full(r) /\ Active(r)
           /\ UNCHANGED <<results, items, observed, skuObserved>>
  <2> DEFINE pg == Fresh(PageQuery)[At(r)].answer
             given == [proc[r] EXCEPT !.at = "items", !.todo = pg.items, !.held = pg,
                                      !.got = @ \cup PageProducts(pg)]
  <2>1. ClaimIn(Scans, PageQuery, r, Asked(r), Limit(r), given)
    BY <1>1, <1>5 DEF ClaimQuery
  <2>2. ASSUME Fresh(PageQuery)[At(r)] # None
        PROVE  /\ given \in ScanProc /\ given.at = "items" /\ given.held \in Pages
               /\ given.got = Listed(results, r) \cup {x.product : x \in Range(given.todo)}
    <3>1. pg \in Pages
      BY <1>1, <2>2 DEF DiscoveryInv, Types, QueryTypes, Fresh, PageAnswers
    <3> HIDE DEF pg
    <3>2. /\ pg.items \in Seq(Offers) /\ PageProducts(pg) \in SUBSET Products
          /\ PageProducts(pg) = {x.product : x \in Range(pg.items)}
      BY <3>1, PageOffers
    <3>3. /\ given.at = "items" /\ given.todo = pg.items /\ given.held = pg
          /\ given.got = proc[r].got \cup PageProducts(pg) /\ given \in ScanProc
      BY <1>1, <3>1, <3>2 DEF ScanProc, Stages
    <3>4. proc[r].got = Listed(results, r)
      BY <1>1, <1>2 DEF ScanOK
    <3> HIDE DEF given
    <3> QED
      BY <3>1, <3>2, <3>3, <3>4
  <2> HIDE DEF given
  <2>3. KindOf(r, Scans, PageQuery)
    BY DEF KindOf
  <2> QED
    BY <1>1, <1>2, <1>5, <2>1, <2>2, <2>3, ClaimInKeeps
<1> QED
  BY <1>3, <1>4, <1>5 DEF ClaimQuery

\* The rows of a scan as a transaction wrote them.
LEMMA WrittenRows ==
  ASSUME RowTypes, NEW r \in Scans, r \notin Refinements,
         NEW w, Consistent(w), Written(r, w), UNCHANGED <<items, skuObserved>>
  PROVE  /\ RowTypes' /\ Consistent(Rows(r)')
         /\ run'[r].state = run[r].state /\ run'[r].reason = run[r].reason
         /\ run'[r].live = run[r].live /\ run'[r].calls = run[r].calls
         /\ run'[r].listed = w.listed /\ Listed(results, r)' = In(w.rows)
         /\ \A o \in Runs \ {r} : run'[o] = run[o] /\ TablesKept(o)
<1>1. /\ w.rows \in [Products -> Result \cup {None}] /\ w.listed \in Nat /\ w.snaps \in Nat
      /\ w.prices \in [Products -> Seq(Nat)] /\ w.cut \in BOOLEAN
  BY DEF Consistent, ScanRows
<1>2. run[r] \in RunRow /\ r \in Runs
  BY DEF RowTypes, Runs
<1> DEFINE row == [run[r] EXCEPT !.listed = w.listed, !.snaps = w.snaps]
<1>3. /\ row \in RunRow /\ row.state = run[r].state /\ row.reason = run[r].reason
      /\ row.live = run[r].live /\ row.calls = run[r].calls
      /\ row.listed = w.listed /\ row.snaps = w.snaps
  BY <1>1, <1>2 DEF RunRow
<1>4. run' = [run EXCEPT ![r] = row]
  BY <1>2 DEF Written, RowTypes, RunRow
<1> HIDE DEF row
<1>5. run' \in [Runs -> RunRow] /\ run'[r] = row /\ \A o \in Runs \ {r} : run'[o] = run[o]
  BY <1>2, <1>3, <1>4 DEF RowTypes
<1>6. /\ results' \in [Scans -> [Products -> Result \cup {None}]] /\ results'[r] = w.rows
      /\ \A o \in Scans \ {r} : results'[o] = results[o]
  BY <1>1 DEF Written, RowTypes
<1>7. /\ observed' \in Prices(Earlier \cup Scans) /\ observed'[r] = w.prices
      /\ \A o \in Scans \ {r} : observed'[o] = observed[o]
  BY <1>1 DEF Written, RowTypes, Prices
<1>8. RowTypes'
  BY <1>5, <1>6, <1>7 DEF RowTypes
<1>9. Rows(r)' = [rows |-> w.rows, listed |-> w.listed, snaps |-> w.snaps,
                  prices |-> w.prices, cut |-> FALSE]
  BY <1>3, <1>5, <1>6, <1>7 DEF Rows
<1>10. Consistent(Rows(r)')
  BY <1>1, <1>9 DEF Consistent, ScanRows
<1>11. \A o \in Runs \ {r} : run'[o] = run[o] /\ TablesKept(o)
  BY <1>5, <1>6, <1>7 DEF TablesKept
<1> QED
  BY <1>3, <1>5, <1>6, <1>8, <1>10, <1>11 DEF Listed, In

\* The answer of a page: it is kept, its claim is given up and what it has is
\* listed, all together.
LEMMA PageAnsweredKeeps ==
  ASSUME DiscoveryInv, NEW r \in Scans, NEW pg \in Pages, PageAnswered(r, pg)
  PROVE  StepKeeps(r)
<1>1. /\ r \in Runs /\ r \notin Refinements /\ run[r] \in RunRow /\ RunOK(r) /\ ScanOK(r)
      /\ proc[r] \in ScanProc /\ proc[r].got \in SUBSET Products
      /\ At(r) \in PageQuery /\ At(r) \in Query
      /\ Limit(r) = MaxCalls /\ Asked(r) = At(r)
  BY ScanIsTyped
<1>2. proc[r].at = "call"
  BY DEF PageAnswered
<1>3. CASE ~(HoldsClaim(r, At(r)) /\ cache[At(r)] = None) /\ Raise(r)
  BY <1>1, <1>2, <1>3, RaiseKeeps
<1>4. CASE ~(~(HoldsClaim(r, At(r)) /\ cache[At(r)] = None) /\ Raise(r))
  <2> DEFINE p0 == [proc[r] EXCEPT !.got = @ \cup PageProducts(pg)]
  <2>1. PICK w : w = RecordPage(r, pg)
    OBVIOUS
  <2>2. PICK p : p = IF w.cut THEN Ending(p0, "COMPLETED", "MAX_RESULTS") ELSE After(p0, pg)
    OBVIOUS
  <2>3. /\ HoldsClaim(r, At(r)) /\ cache[At(r)] = None
        /\ Written(r, w) /\ Step(r, p)
        /\ claim' = Released(r, At(r))
        /\ cache' = [cache EXCEPT ![At(r)] = [answer |-> pg, fresh |-> TRUE]]
        /\ UNCHANGED <<items, skuObserved>>
    BY <1>4, <2>1, <2>2 DEF PageAnswered
  <2>4. /\ RowTypes /\ observed \in Prices(Earlier \cup Scans)
        /\ Consistent(Rows(r)) /\ Rows(r).listed <= MaxResults
    BY <1>1 DEF DiscoveryInv, Types, RowTypes, ScanOK, Rows
  <2>5. /\ Consistent(w) /\ w.listed <= MaxResults /\ w.cut \in BOOLEAN
        /\ w.cut => w.listed = MaxResults
        /\ ~w.cut => In(w.rows) = In(Rows(r).rows) \cup PageProducts(pg)
    <3>1. /\ Consistent(w) /\ w.listed <= MaxResults
          /\ w.cut => w.listed = MaxResults
          /\ ~w.cut => In(w.rows) = In(Rows(r).rows) \cup PageProducts(pg)
      BY <2>1, <2>4, RecordPageIsConsistent, ZenonT(40)
    <3>2. w.cut \in BOOLEAN
      BY <3>1 DEF Consistent, ScanRows
    <3> QED
      BY <3>1, <3>2
  <2>6. /\ RowTypes' /\ Consistent(Rows(r)')
        /\ run'[r].state = run[r].state /\ run'[r].reason = run[r].reason
        /\ run'[r].live = run[r].live /\ run'[r].calls = run[r].calls
        /\ run'[r].listed = w.listed /\ Listed(results, r)' = In(w.rows)
        /\ \A o \in Runs \ {r} : run'[o] = run[o] /\ TablesKept(o)
    BY <1>1, <2>3, <2>4, <2>5, WrittenRows
  <2>7. /\ p0 \in ScanProc /\ p0.got = proc[r].got \cup PageProducts(pg)
    BY <1>1, PageOffers DEF ScanProc
  <2>8. /\ p \in ScanProc /\ p.got = p0.got
        /\ w.cut => p.at = "settle" /\ p.end = <<"COMPLETED", "MAX_RESULTS">>
        /\ ~w.cut => \/ p.at = "next"
                     \/ /\ p.at = "settle"
                        /\ p.end \in {<<"COMPLETED", "SHORT_PAGE">>, <<"COMPLETED", "MAX_PAGES">>}
    <3>1. <<"COMPLETED", "MAX_RESULTS">> \in Ends
      BY DEF Ends
    <3> HIDE DEF p0
    <3>2. CASE w.cut
      <4> HIDE DEF Ends
      <4> QED
        BY <2>2, <2>7, <3>1, <3>2 DEF Ending, ScanProc, Stages
    <3>3. CASE ~w.cut
      BY <2>2, <2>7, <3>3, AfterIsTyped
    <3> QED
      BY <3>2, <3>3
  <2> HIDE DEF p0
  <2>9. /\ claim' \in [Query -> Runs \cup {None}]
        /\ \A q \in Query : claim'[q] \in {claim[q], None} /\ claim'[q] # r
    BY <1>1, <1>2, <2>3, ReleasedClaims
  <2>10. /\ DOMAIN cache' = Query /\ cache'[At(r)] \in PageAnswers
         /\ \A q \in Query \ {At(r)} : cache'[q] = cache[q]
    BY <1>1, <2>3 DEF DiscoveryInv, Types, QueryTypes, PageAnswers
  <2>11. QueryTypes'
    BY <1>1, <2>9, <2>10, QueriesDiffer DEF DiscoveryInv, Types, QueryTypes
  <2>12. \A q \in Query : claim'[q] # None =>
           /\ claim'[q] = claim[q] /\ claim[q] # r
           /\ cache[q] = None => cache'[q] = None
    BY <2>3, <2>9, <2>10 DEF HoldsClaim
  <2>13. Types' /\ OthersKept(r) /\ ClaimsOK' /\ proc'[r] = p
    BY <1>1, <2>3, <2>6, <2>8, <2>11, <2>12, OwnStep
  <2>14. Active(r)
    BY <1>1, <2>3 DEF HoldsClaim, RunOK
  <2>15. RunOK(r)'
    <3>1. /\ p.at \in {"next", "settle"}
          /\ p.at = "settle" => p.end # <<"none", "none">> /\ p.end[2] # "MAX_API_CALLS"
      BY <2>8
    <3> QED
      BY <1>1, <2>6, <2>13, <2>14, <3>1 DEF RunOK, Limit, Active
  <2>16. ScanOK(r)'
    <3>1. Rows(r).rows = results[r] /\ In(Rows(r).rows) = Listed(results, r)
      BY DEF Rows, In, Listed
    <3>2. Listed(results, r) = proc[r].got
      BY <1>1, <1>2 DEF ScanOK
    <3>3. ~w.cut => Listed(results, r)' = p.got
      BY <2>5, <2>6, <2>7, <2>8, <3>1, <3>2
    <3>4. run'[r].state # "COMPLETED"
      BY <2>6, <2>14 DEF Active
    <3>5. p.at = "settle" =>
            /\ p.end[2] = "MAX_RESULTS" => run'[r].listed = MaxResults
            /\ p.end[2] # "MAX_RESULTS" => Listed(results, r)' = p.got
      BY <2>5, <2>6, <2>8, <3>3
    <3>6. p.at = "next" => Listed(results, r)' = p.got
      BY <2>8, <3>3
    <3> QED
      BY <2>5, <2>6, <2>8, <2>13, <3>4, <3>5, <3>6 DEF ScanOK, ScanIsWhole
  <2>17. StaysSettled(r)
    BY <1>1, <2>6, <2>14 DEF StaysSettled, Active
  <2> QED
    BY <1>1, <2>13, <2>15, <2>16, <2>17 DEF StepKeeps, RunKeeps
<1> QED
  BY <1>3, <1>4

\* An item of a kept page is listed, whatever became of the run meanwhile.
LEMMA RecordKeptKeeps ==
  ASSUME DiscoveryInv, NEW r \in Scans, RecordKept(r)
  PROVE  StepKeeps(r)
<1>1. /\ r \in Runs /\ r \notin Refinements /\ run[r] \in RunRow /\ RunOK(r) /\ ScanOK(r)
      /\ proc[r] \in ScanProc /\ proc[r].todo \in Seq(Offers) /\ proc[r].got \in SUBSET Products
  BY ScanIsTyped
<1>2. /\ proc[r].at = "items" /\ proc[r].held \in Pages
      /\ proc[r].got = Listed(results, r) \cup {x.product : x \in Range(proc[r].todo)}
      /\ Consistent(Rows(r)) /\ run[r].listed <= MaxResults /\ run[r].state # "COMPLETED"
  BY <1>1 DEF RecordKept, ScanOK, RunOK
<1>0. run[r].listed \in Nat /\ MaxResults \in Nat
  BY <1>1, DiscoveryAssumption DEF RunRow, ProfileIsValid
<1>3. CASE /\ proc[r].todo = <<>>
           /\ Step(r, [After(proc[r], proc[r].held) EXCEPT !.held = None])
           /\ UNCHANGED tables
  <2>1. PICK p : p = [After(proc[r], proc[r].held) EXCEPT !.held = None]
    OBVIOUS
  <2>2. /\ p \in ScanProc /\ p.got = proc[r].got
        /\ \/ p.at = "next"
           \/ /\ p.at = "settle"
              /\ p.end \in {<<"COMPLETED", "SHORT_PAGE">>, <<"COMPLETED", "MAX_PAGES">>}
    <3>1. PICK pg \in Pages : pg = proc[r].held
      BY <1>2
    <3>2. PICK p1 : p1 = After(proc[r], pg)
      OBVIOUS
    <3>3. /\ p1 \in ScanProc /\ p1.got = proc[r].got
          /\ \/ p1.at = "next"
             \/ /\ p1.at = "settle"
                /\ p1.end \in {<<"COMPLETED", "SHORT_PAGE">>, <<"COMPLETED", "MAX_PAGES">>}
      BY <1>1, <3>2, AfterIsTyped
    <3>4. p = [p1 EXCEPT !.held = None]
      BY <2>1, <3>1, <3>2
    <3> QED
      BY <3>3, <3>4 DEF ScanProc
  <2>3. Step(r, p)
    BY <1>3, <2>1
  <2>4. proc'[r] = p
    BY <1>1, <2>2, <2>3, StepOf DEF DiscoveryInv, Types
  <2>5. proc[r].got = Listed(results, r)
    BY <1>2, <1>3 DEF Range
  <2>6. ScanOK(r)'
    <3>1. /\ Rows(r)' = Rows(r) /\ run' = run
          /\ Listed(results, r)' = Listed(results, r)
      BY <1>3 DEF Rows, Listed, tables
    <3>2. p.at = "settle" => p.end[2] # "MAX_RESULTS"
      BY <2>2
    <3> QED
      BY <1>1, <1>2, <2>2, <2>4, <2>5, <3>1, <3>2 DEF ScanOK, ScanIsWhole, Consistent
  <2>7. p.at = "settle" => p.end # <<"none", "none">> /\ p.end[2] # "MAX_API_CALLS"
    BY <2>2
  <2> QED
    BY <1>1, <1>2, <1>3, <2>2, <2>3, <2>6, <2>7, QuietKeeps
<1>4. CASE /\ proc[r].todo # <<>> /\ Full(r)
           /\ Step(r, Ending([proc[r] EXCEPT !.todo = <<>>, !.held = None],
                             "COMPLETED", "MAX_RESULTS"))
           /\ UNCHANGED tables
  <2>1. <<"COMPLETED", "MAX_RESULTS">> \in Ends /\ <<>> \in Seq(Offers)
    BY DEF Ends
  <2>2. PICK p : p = Ending([proc[r] EXCEPT !.todo = <<>>, !.held = None],
                            "COMPLETED", "MAX_RESULTS")
    OBVIOUS
  <2>3. p \in ScanProc /\ p.at = "settle" /\ p.end = <<"COMPLETED", "MAX_RESULTS">>
    <3> HIDE DEF Ends
    <3> QED
      BY <1>1, <2>1, <2>2 DEF ScanProc, Stages, Ending
  <2>4. proc'[r] = p
    BY <1>1, <1>4, <2>2, <2>3, StepOf DEF DiscoveryInv, Types
  <2>5. run[r].listed = MaxResults
    BY <1>0, <1>2, <1>4 DEF Full
  <2>6. ScanOK(r)'
    <3>1. Rows(r)' = Rows(r) /\ run' = run
      BY <1>4 DEF Rows, tables
    <3> QED
      BY <1>1, <1>2, <2>3, <2>4, <2>5, <3>1 DEF ScanOK, ScanIsWhole, Consistent
  <2> QED
    BY <1>1, <1>2, <1>4, <2>2, <2>3, <2>6, QuietKeeps
<1>5. CASE /\ proc[r].todo # <<>> /\ ~Full(r)
           /\ Written(r, Recorded(r, Rows(r), Head(proc[r].todo), "CACHE"))
           /\ Step(r, [proc[r] EXCEPT !.todo = Tail(@)])
           /\ UNCHANGED <<items, skuObserved, claim, cache>>
  <2>1. PICK w : w = Recorded(r, Rows(r), Head(proc[r].todo), "CACHE")
    OBVIOUS
  <2>2. PICK p : p = [proc[r] EXCEPT !.todo = Tail(@)]
    OBVIOUS
  <2>3. /\ Head(proc[r].todo) \in Offers /\ Tail(proc[r].todo) \in Seq(Offers)
        /\ Range(proc[r].todo) = {Head(proc[r].todo)} \cup Range(Tail(proc[r].todo))
    BY <1>1, <1>5, HeadAndTail
  <2>4. /\ p \in ScanProc /\ p.at = "items" /\ p.got = proc[r].got
        /\ p.todo = Tail(proc[r].todo) /\ p.held = proc[r].held
    BY <1>1, <1>2, <2>2, <2>3 DEF ScanProc
  <2>5. RowTypes /\ observed \in Prices(Earlier \cup Scans)
    BY DEF DiscoveryInv, Types, RowTypes
  <2>6. /\ Consistent(w) /\ w.listed <= Rows(r).listed + 1
        /\ In(w.rows) = In(Rows(r).rows) \cup {Head(proc[r].todo).product}
    BY <1>2, <2>1, <2>3, <2>5, RecordedIsConsistent, ZenonT(40)
  <2>7. /\ RowTypes' /\ Consistent(Rows(r)')
        /\ run'[r].state = run[r].state /\ run'[r].reason = run[r].reason
        /\ run'[r].live = run[r].live /\ run'[r].calls = run[r].calls
        /\ run'[r].listed = w.listed /\ Listed(results, r)' = In(w.rows)
        /\ \A o \in Runs \ {r} : run'[o] = run[o] /\ TablesKept(o)
    BY <1>1, <1>5, <2>1, <2>5, <2>6, WrittenRows
  <2>8. Step(r, p) /\ claim' = claim /\ cache' = cache
    BY <1>5, <2>2
  <2>9. QueryTypes' /\ \A q \in Query : claim[q] # r
    BY <1>1, <1>2, <2>8, NoClaim DEF DiscoveryInv, Types, QueryTypes
  <2>10. Types' /\ OthersKept(r) /\ ClaimsOK' /\ proc'[r] = p
    BY <1>1, <2>4, <2>7, <2>8, <2>9, OwnStep
  <2>11. RunOK(r)'
    BY <1>1, <1>2, <2>4, <2>7, <2>10 DEF RunOK, Limit, Active
  <2>12. ScanOK(r)'
    <3>1. Rows(r).listed = run[r].listed /\ In(Rows(r).rows) = Listed(results, r)
      BY DEF Rows, In, Listed
    <3>2. w.listed <= MaxResults
      <4>1. w.listed \in Nat
        BY <2>6 DEF Consistent, ScanRows
      <4> QED
        BY <1>0, <1>5, <2>6, <3>1, <4>1 DEF Full
    <3>3. p.got = Listed(results, r)' \cup {x.product : x \in Range(p.todo)}
      BY <1>2, <2>3, <2>4, <2>6, <2>7, <3>1
    <3> QED
      BY <1>2, <2>4, <2>7, <2>10, <3>2, <3>3 DEF ScanOK
  <2>13. StaysSettled(r)
    BY <1>1, <1>2, <2>7 DEF StaysSettled
  <2> QED
    BY <1>1, <2>10, <2>11, <2>12, <2>13 DEF StepKeeps, RunKeeps
<1> QED
  BY <1>3, <1>4, <1>5 DEF RecordKept

\* The row of a run, and its process, after the end its process had in mind.
LEMMA FinishedRun ==
  ASSUME DiscoveryInv, NEW r \in Runs, proc[r].at = "settle", MayFinish(r),
         run' = [run EXCEPT ![r] = Closed(@, proc[r].end[1], proc[r].end[2])],
         Step(r, [Idle EXCEPT !.at = "ended", !.got = proc[r].got]),
         UNCHANGED <<results, observed, skuObserved, claim, cache>>,
         items' \in [Refinements -> [Products -> Item \cup {None}]],
         \A o \in Refinements \ {r} : items'[o] = items[o]
  PROVE  /\ Types' /\ OthersKept(r) /\ ClaimsOK' /\ RunOK(r)' /\ Active(r)
         /\ run'[r].state = proc[r].end[1] /\ run'[r].reason = proc[r].end[2]
         /\ run'[r].listed = run[r].listed /\ run'[r].snaps = run[r].snaps
         /\ proc'[r].at = "ended" /\ proc'[r].got = proc[r].got
<1> DEFINE p == [Idle EXCEPT !.at = "ended", !.got = proc[r].got]
<1>1. /\ proc[r].got \in SUBSET Products /\ proc[r].end \in Ends
      /\ RunOK(r) /\ run \in [Runs -> RunRow] /\ run[r] \in RunRow
  BY DEF DiscoveryInv, Types, ProcTypes, RowTypes, ScanProc, RefineProc, Runs
<1>2. p \in ScanProc /\ p \in RefineProc /\ p.at = "ended" /\ p.got = proc[r].got
  BY <1>1, IdleIsTyped DEF Stages
<1>3. Step(r, p)
  OBVIOUS
<1> HIDE DEF p
<1>4. PICK state, reason : state = proc[r].end[1] /\ reason = proc[r].end[2]
  OBVIOUS
<1>5. state \in {"STOPPED", "COMPLETED"} /\ state \in States /\ reason \in Reasons
  BY <1>1, <1>4 DEF RunOK, Ends, States, Reasons
<1>6. PICK row : row = Closed(run[r], state, reason)
  OBVIOUS
<1>7. /\ row \in RunRow /\ row.state = state /\ row.reason = reason /\ row.live = FALSE
      /\ row.calls = run[r].calls /\ row.listed = run[r].listed /\ row.snaps = run[r].snaps
  BY <1>1, <1>5, <1>6 DEF Closed, RunRow
<1>8. run' \in [Runs -> RunRow] /\ run'[r] = row /\ \A o \in Runs \ {r} : run'[o] = run[o]
  BY <1>1, <1>4, <1>6, <1>7
<1>9. RowTypes' /\ QueryTypes' /\ \A o \in Runs \ {r} : TablesKept(o)
  BY <1>8 DEF DiscoveryInv, Types, RowTypes, QueryTypes, TablesKept
<1>10. \A q \in Query : claim[q] # r
  BY NoClaim
<1>11. Types' /\ OthersKept(r) /\ ClaimsOK' /\ proc'[r] = p
  BY <1>2, <1>3, <1>8, <1>9, <1>10, OwnStep
<1>12. reason = "MAX_API_CALLS" => run[r].calls = Limit(r)
  BY <1>1, <1>4 DEF RunOK
<1>13. RunOK(r)'
  BY <1>1, <1>2, <1>5, <1>7, <1>8, <1>11, <1>12 DEF RunOK, Limit, Active
<1> QED
  BY <1>2, <1>4, <1>7, <1>8, <1>11, <1>13 DEF MayFinish

LEMMA FinishKeeps ==
  ASSUME DiscoveryInv, NEW r \in Scans, Finish(r)
  PROVE  StepKeeps(r)
<1>1. /\ r \in Runs /\ r \notin Refinements /\ ScanOK(r) /\ proc[r].at = "settle"
  BY ScanIsTyped DEF Finish
<1>2. CASE ~MayFinish(r) /\ Raise(r)
  BY <1>1, <1>2, RaiseKeeps
<1>3. CASE ~(~MayFinish(r) /\ Raise(r))
  <2>1. /\ MayFinish(r)
        /\ run' = [run EXCEPT ![r] = Closed(@, proc[r].end[1], proc[r].end[2])]
        /\ Step(r, [Idle EXCEPT !.at = "ended", !.got = proc[r].got])
        /\ UNCHANGED <<results, items, observed, skuObserved, claim, cache>>
    BY <1>3 DEF Finish
  <2>2. items' \in [Refinements -> [Products -> Item \cup {None}]]
    BY <2>1 DEF DiscoveryInv, Types, RowTypes
  <2>3. /\ Types' /\ OthersKept(r) /\ ClaimsOK' /\ RunOK(r)' /\ Active(r)
        /\ run'[r].state = proc[r].end[1] /\ run'[r].reason = proc[r].end[2]
        /\ run'[r].listed = run[r].listed /\ run'[r].snaps = run[r].snaps
        /\ proc'[r].at = "ended" /\ proc'[r].got = proc[r].got
    BY <1>1, <2>1, <2>2, FinishedRun
  <2>4. ScanOK(r)'
    <3>1. Rows(r)' = Rows(r) /\ Listed(results, r)' = Listed(results, r)
      BY <2>1, <2>3 DEF Rows, Listed
    <3> QED
      BY <1>1, <2>3, <3>1 DEF ScanOK, ScanIsWhole, Consistent
  <2>5. StaysSettled(r)
    BY <2>3 DEF StaysSettled, Active
  <2> QED
    BY <1>1, <2>3, <2>4, <2>5 DEF StepKeeps, RunKeeps
<1> QED
  BY <1>2, <1>3

-----------------------------------------------------------------------------
(* Refinements.                                                             *)

LEMMA RefineIsTyped ==
  ASSUME DiscoveryInv, NEW r \in Refinements
  PROVE  /\ r \in Runs /\ r \notin Scans
         /\ run[r] \in RunRow /\ RunOK(r) /\ RefineOK(r)
         /\ proc[r] \in RefineProc /\ proc[r].todo \in Seq(Products)
         /\ proc[r].got \in SUBSET Products
         /\ Limit(r) = MaxSkuCalls /\ Asked(r) = Of(r)
         /\ proc[r].todo # <<>> => Of(r) \in SkuQuery /\ Of(r) \in Query
<1>1. proc[r] \in RefineProc
  BY DEF DiscoveryInv, Types, ProcTypes
<1>2. proc[r].todo \in Seq(Products) /\ proc[r].got \in SUBSET Products
  BY <1>1 DEF RefineProc
<1>3. proc[r].todo # <<>> => Head(proc[r].todo) \in Products
  BY <1>2
<1> QED
  BY <1>1, <1>2, <1>3, DiscoveryAssumption
     DEF DiscoveryInv, Types, RowTypes, Runs, Query, SkuQuery, Limit, Asked, Of

LEMMA ReadShortlistKeeps ==
  ASSUME DiscoveryInv, NEW r \in Refinements, NEW o \in Scans, ReadShortlist(r, o)
  PROVE  StepKeeps(r)
<1>1. /\ r \in Runs /\ r \notin Scans /\ RunOK(r) /\ RefineOK(r) /\ proc[r] \in RefineProc
  BY RefineIsTyped
<1>2. PICK s : s = Shortlist(o)
  OBVIOUS
<1>3. PICK p : p = [proc[r] EXCEPT !.at = "chosen", !.todo = s, !.got = Range(s)]
  OBVIOUS
<1>4. proc[r].at = "idle" /\ Step(r, p) /\ UNCHANGED tables
  BY <1>2, <1>3 DEF ReadShortlist
<1>5. s \in Seq(Products) /\ IsInjective(s) /\ Range(s) \in SUBSET Products
  <2>1. results[o] \in [Products -> Result \cup {None}]
    BY DEF DiscoveryInv, Types, RowTypes
  <2> QED
    BY <1>2, <2>1, ShortlistIsListed DEF Listed
<1>6. p \in RefineProc /\ p.at = "chosen" /\ p.todo = s /\ p.got = Range(s)
  BY <1>1, <1>3, <1>5 DEF RefineProc, Stages
<1>7. RowTypes' /\ QueryTypes' /\ \A x \in Runs \ {r} : run'[x] = run[x] /\ TablesKept(x)
  BY <1>4 DEF DiscoveryInv, Types, RowTypes, QueryTypes, TablesKept, tables
<1>8. \A q \in Query : claim[q] # r
  BY <1>1, <1>4, NoClaim
<1>9. UNCHANGED <<claim, cache>>
  BY <1>4 DEF tables
<1>10. Types' /\ OthersKept(r) /\ ClaimsOK' /\ proc'[r] = p
  BY <1>1, <1>4, <1>6, <1>7, <1>8, <1>9, OwnStep
<1>11. run[r].state = "none" /\ run' = run
  BY <1>1, <1>4 DEF RunOK, tables
<1>12. RunOK(r)'
  BY <1>1, <1>4, <1>6, <1>10, <1>11 DEF RunOK, Active, Limit
<1>13. RefineOK(r)'
  <2>1. /\ Listed(items, r)' = Listed(items, r) /\ Listed(items, r) = {}
        /\ Priced(skuObserved, r)' = Priced(skuObserved, r)
    BY <1>1, <1>4 DEF Listed, Priced, RefineOK, tables
  <2>2. ItemsOK(r)' /\ Ranked(r)'
    BY <1>1, <1>4, <1>11, <2>1 DEF RefineOK, ItemsOK, Ranked, tables
  <2>3. Turns(r)'
    BY <1>5, <1>6, <1>10, <2>1 DEF Turns
  <2> QED
    BY <1>6, <1>10, <1>11, <2>1, <2>2, <2>3 DEF RefineOK
<1>14. StaysSettled(r)
  BY <1>1, <1>11 DEF StaysSettled
<1> QED
  BY <1>1, <1>10, <1>12, <1>13, <1>14 DEF StepKeeps, RunKeeps

LEMMA RefineKeeps ==
  ASSUME DiscoveryInv, NEW r \in Refinements, Refine(r)
  PROVE  StepKeeps(r)
<1> DEFINE row == [NoRun EXCEPT !.state = "RUNNING", !.live = TRUE]
<1>1. /\ r \in Runs /\ r \notin Scans /\ RunOK(r) /\ RefineOK(r) /\ proc[r] \in RefineProc
      /\ Limit(r) = MaxSkuCalls
  BY RefineIsTyped
<1>3. PICK p : p = [proc[r] EXCEPT !.at = "next"]
  OBVIOUS
<1>4. /\ proc[r].at = "chosen" /\ run' = [run EXCEPT ![r] = row] /\ Step(r, p)
      /\ UNCHANGED <<results, items, observed, skuObserved, claim, cache>>
  BY <1>3 DEF Refine
<1>6. p \in RefineProc /\ p.at = "next" /\ p.todo = proc[r].todo /\ p.got = proc[r].got
  BY <1>1, <1>3 DEF RefineProc, Stages
<1>7. row \in RunRow /\ row.state = "RUNNING" /\ row.reason = "none" /\ row.live = TRUE
      /\ row.calls = 0 /\ row.listed = 0 /\ row.snaps = 0
  BY DEF RunRow, NoRun, States, Reasons
<1> HIDE DEF row
<1>8. run' \in [Runs -> RunRow] /\ run'[r] = row /\ \A x \in Runs \ {r} : run'[x] = run[x]
  BY <1>1, <1>4, <1>7 DEF DiscoveryInv, Types, RowTypes
<1>9. RowTypes' /\ QueryTypes' /\ \A x \in Runs \ {r} : TablesKept(x)
  BY <1>4, <1>8 DEF DiscoveryInv, Types, RowTypes, QueryTypes, TablesKept
<1>10. \A q \in Query : claim[q] # r
  BY <1>1, <1>4, NoClaim
<1>11. Types' /\ OthersKept(r) /\ ClaimsOK' /\ proc'[r] = p
  BY <1>1, <1>4, <1>6, <1>8, <1>9, <1>10, OwnStep
<1>12. run[r].listed = 0 /\ run[r].snaps = 0 /\ run[r].state = "none"
  BY <1>1, <1>4 DEF RunOK, NoRun
<1>13. RunOK(r)'
  BY <1>1, <1>6, <1>7, <1>8, <1>11, DiscoveryAssumption DEF RunOK, Active, Limit, ProfileIsValid
<1>14. RefineOK(r)'
  <2>1. /\ Listed(items, r)' = Listed(items, r) /\ Listed(items, r) = {}
        /\ Priced(skuObserved, r)' = Priced(skuObserved, r)
    BY <1>1, <1>4 DEF Listed, Priced, RefineOK
  <2>2. ItemsOK(r)' /\ Ranked(r)'
    BY <1>1, <1>4, <1>7, <1>8, <1>12, <2>1 DEF RefineOK, ItemsOK, Ranked
  <2>3. Turns(r)'
    BY <1>1, <1>4, <1>6, <1>11, <2>1 DEF RefineOK, Turns
  <2> QED
    BY <1>6, <1>7, <1>8, <1>11, <2>2, <2>3 DEF RefineOK
<1>15. StaysSettled(r)
  BY <1>1, <1>12 DEF StaysSettled
<1> QED
  BY <1>1, <1>11, <1>13, <1>14, <1>15 DEF StepKeeps, RunKeeps

LEMMA ClaimSkuKeeps ==
  ASSUME DiscoveryInv, NEW r \in Refinements, ClaimSku(r)
  PROVE  StepKeeps(r)
<1>1. /\ r \in Runs /\ r \notin Scans /\ run[r] \in RunRow /\ RunOK(r) /\ RefineOK(r)
      /\ proc[r] \in RefineProc
      /\ Limit(r) = MaxSkuCalls /\ Asked(r) = Of(r)
      /\ proc[r].todo # <<>> => Of(r) \in SkuQuery /\ Of(r) \in Query
  BY RefineIsTyped
<1>2. proc[r].at = "next"
  BY DEF ClaimSku
<1>3. CASE ~Active(r) /\ Raise(r)
  BY <1>1, <1>2, <1>3, RaiseKeeps
<1>4. CASE /\ proc[r].todo = <<>> /\ UNCHANGED tables
           /\ Step(r, Ending(proc[r], "COMPLETED", "SHORTLIST_COMPLETED"))
  <2>1. <<"COMPLETED", "SHORTLIST_COMPLETED">> \in Ends
    BY DEF Ends
  <2>2. PICK p : p = Ending(proc[r], "COMPLETED", "SHORTLIST_COMPLETED")
    OBVIOUS
  <2>3. /\ p \in RefineProc /\ p.at = "settle" /\ p.end = <<"COMPLETED", "SHORTLIST_COMPLETED">>
        /\ p.got = proc[r].got
    <3> HIDE DEF Ends
    <3> QED
      BY <1>1, <2>1, <2>2 DEF RefineProc, Stages, Ending
  <2>4. proc'[r] = p
    BY <1>1, <1>4, <2>2, <2>3, StepOf DEF DiscoveryInv, Types
  <2>5. Listed(items, r) = proc[r].got
    <3>1. Turns(r)
      BY <1>1, <1>2 DEF RefineOK
    <3>2. Range(<<>>) = {}
      BY DEF Range
    <3> QED
      BY <1>4, <3>1, <3>2 DEF Turns
  <2>6. RefineOK(r)'
    <3>1. /\ Listed(items, r)' = Listed(items, r) /\ run' = run
          /\ Priced(skuObserved, r)' = Priced(skuObserved, r)
      BY <1>4 DEF Listed, Priced, tables
    <3>2. ItemsOK(r)' /\ Ranked(r)'
      BY <1>1, <1>4, <3>1 DEF RefineOK, ItemsOK, Ranked, tables
    <3> QED
      BY <1>1, <2>3, <2>4, <2>5, <3>1, <3>2 DEF RefineOK
  <2> QED
    BY <1>1, <1>2, <1>4, <2>2, <2>3, <2>6, QuietKeeps
<1>5. CASE /\ proc[r].todo # <<>> /\ Active(r)
           /\ UNCHANGED <<results, items, observed, skuObserved>>
  <2> DEFINE given == [proc[r] EXCEPT !.at = "items", !.held = Fresh(SkuQuery)[Of(r)].answer]
  <2>1. ClaimIn(Refinements, SkuQuery, r, Asked(r), Limit(r), given)
    BY <1>1, <1>5 DEF ClaimSku
  <2>2. ASSUME Fresh(SkuQuery)[Of(r)] # None
        PROVE  /\ given \in RefineProc /\ given.at = "items"
               /\ given.todo = proc[r].todo /\ given.got = proc[r].got
               /\ given.held \in Skus[Head(proc[r].todo)]
    <3>1. PICK a : a = Fresh(SkuQuery)[Of(r)].answer
      OBVIOUS
    <3>2. PICK p \in Products : p = Head(proc[r].todo) /\ Of(r) = <<p>>
      BY <1>1, <1>5 DEF RefineProc, Of
    <3>3. a \in Skus[p]
      BY <1>1, <1>5, <2>2, <3>1, <3>2 DEF DiscoveryInv, Types, QueryTypes, Fresh, SkuAnswers
    <3>4. a \in Alternatives
      BY <3>3 DEF Alternatives
    <3> QED
      BY <1>1, <3>1, <3>2, <3>3, <3>4 DEF RefineProc, Stages
  <2> HIDE DEF given
  <2>3. KindOf(r, Refinements, SkuQuery)
    BY DEF KindOf
  <2> QED
    BY <1>1, <1>2, <1>5, <2>1, <2>2, <2>3, ClaimInKeeps
<1> QED
  BY <1>3, <1>4, <1>5 DEF ClaimSku

\* What may be recorded of a product.
Outcomes == [match : {"MATCHED", "UNMATCHED", "REVIEW_REQUIRED"}, price : Nat]

\* The product whose turn it is has no item yet: it gets its first.
LEMMA RecordItemKeeps ==
  ASSUME DiscoveryInv, NEW r \in Refinements, proc[r].at \in {"call", "items"},
         NEW answer \in Outcomes, NEW origin \in {"LIVE", "CACHE"},
         RecordItem(r, answer, origin), QueryTypes',
         \A q \in Query : claim'[q] # None =>
           /\ claim'[q] = claim[q] /\ claim[q] # r
           /\ cache[q] = None => cache'[q] = None
  PROVE  StepKeeps(r)
<1>1. /\ r \in Runs /\ r \notin Scans /\ run[r] \in RunRow /\ RunOK(r) /\ RefineOK(r)
      /\ proc[r] \in RefineProc /\ proc[r].todo \in Seq(Products)
  BY RefineIsTyped
<1>2. proc[r].todo # <<>> /\ Turns(r) /\ ItemsOK(r)
  BY <1>1 DEF RefineOK
<1>3. PICK p : p = Head(proc[r].todo)
  OBVIOUS
<1>4. /\ p \in Products /\ Tail(proc[r].todo) \in Seq(Products)
      /\ Range(proc[r].todo) = {p} \cup Range(Tail(proc[r].todo))
      /\ IsInjective(Tail(proc[r].todo)) /\ p \notin Range(Tail(proc[r].todo))
  BY <1>1, <1>2, <1>3, HeadAndTail DEF Turns
<1>5. items[r][p] = None /\ p \notin Listed(items, r) /\ skuObserved[r][p] = <<>>
  BY <1>2, <1>4 DEF Turns, Listed, ItemsOK, SkuPrice
<1>6. PICK snap \in BOOLEAN : snap = (answer.match = "MATCHED" /\ origin = "LIVE")
  OBVIOUS
<1>7. PICK it : it = [origin |-> origin, match |-> answer.match, price |-> answer.price,
                      class |-> "none"]
  OBVIOUS
<1>8. PICK next : next = [proc[r] EXCEPT !.at = "next", !.todo = Tail(@), !.held = None]
  OBVIOUS
<1>9. /\ Active(r) /\ items' = [items EXCEPT ![r][p] = it]
      /\ run' = [run EXCEPT ![r].listed = @ + 1, ![r].snaps = @ + (IF snap THEN 1 ELSE 0)]
      /\ skuObserved' = IF snap THEN [skuObserved EXCEPT ![r][p] = Append(@, answer.price)]
                                ELSE skuObserved
      /\ Step(r, next)
      /\ UNCHANGED <<results, observed>>
  BY <1>3, <1>6, <1>7, <1>8 DEF RecordItem
<1>10. /\ it \in Item /\ it # None /\ it.origin = origin /\ it.match = answer.match
       /\ it.price = answer.price /\ it.class = "none" /\ answer.price \in Nat
  <2>1. it \in Item
    BY <1>7 DEF Item, Outcomes
  <2> QED
    BY <1>7, <2>1, NoneAssumption DEF Outcomes
<1>11. /\ next \in RefineProc /\ next.at = "next" /\ next.got = proc[r].got
       /\ next.todo = Tail(proc[r].todo)
  BY <1>1, <1>4, <1>8 DEF RefineProc, Stages
<1>12. /\ run' \in [Runs -> RunRow]
       /\ \A o \in Runs \ {r} : run'[o] = run[o]
       /\ run'[r].state = "RUNNING" /\ run'[r].live = run[r].live
       /\ run'[r].calls = run[r].calls /\ run'[r].listed = run[r].listed + 1
       /\ run'[r].snaps = run[r].snaps + (IF snap THEN 1 ELSE 0)
  <2>0. PICK m \in Nat, n \in Nat : /\ m = run[r].listed + 1
                                    /\ n = run[r].snaps + (IF snap THEN 1 ELSE 0)
    BY <1>1 DEF RunRow
  <2>1. PICK row : row = [run[r] EXCEPT !.listed = m, !.snaps = n]
    OBVIOUS
  <2>2. run' = [run EXCEPT ![r] = row]
    BY <1>1, <1>9, <2>0, <2>1 DEF DiscoveryInv, Types, RowTypes, RunRow
  <2>3. /\ row \in RunRow /\ row.state = run[r].state /\ row.live = run[r].live
        /\ row.calls = run[r].calls /\ row.listed = m /\ row.snaps = n
    BY <1>1, <2>1 DEF RunRow
  <2> QED
    BY <1>1, <1>9, <2>0, <2>2, <2>3 DEF DiscoveryInv, Types, RowTypes, Active
<1>13. /\ items' \in [Refinements -> [Products -> Item \cup {None}]]
       /\ items'[r][p] = it /\ \A x \in Products \ {p} : items'[r][x] = items[r][x]
       /\ \A o \in Refinements \ {r} : items'[o] = items[o]
  BY <1>4, <1>9, <1>10 DEF DiscoveryInv, Types, RowTypes
<1>14. /\ skuObserved' \in Prices(Earlier \cup Refinements)
       /\ skuObserved'[r][p] = IF snap THEN <<answer.price>> ELSE <<>>
       /\ \A x \in Products \ {p} : skuObserved'[r][x] = skuObserved[r][x]
       /\ \A o \in Refinements \ {r} : skuObserved'[o] = skuObserved[o]
  <2>1. skuObserved \in Prices(Earlier \cup Refinements)
    BY DEF DiscoveryInv, Types, RowTypes
  <2>2. CASE snap
    BY <1>4, <1>5, <1>9, <1>10, <2>1, <2>2 DEF Prices
  <2>3. CASE ~snap
    BY <1>4, <1>5, <1>9, <2>1, <2>3
  <2> QED
    BY <2>2, <2>3
<1>15. RowTypes'
  BY <1>9, <1>12, <1>13, <1>14 DEF DiscoveryInv, Types, RowTypes
<1>16. \A o \in Runs \ {r} : run'[o] = run[o] /\ TablesKept(o)
  BY <1>9, <1>12, <1>13, <1>14 DEF TablesKept
<1>17. Types' /\ OthersKept(r) /\ ClaimsOK' /\ proc'[r] = next
  BY <1>1, <1>9, <1>11, <1>15, <1>16, OwnStep
<1>18. RunOK(r)'
  BY <1>1, <1>9, <1>11, <1>12, <1>17 DEF RunOK, Limit, Active
<1>19. Listed(items, r)' = Listed(items, r) \cup {p}
  BY <1>4, <1>10, <1>13 DEF Listed
<1>20. ItemsOK(r)'
  <2>1. Listed(items, r) \in SUBSET Products /\ Priced(skuObserved, r) \in SUBSET Products
    BY DEF Listed, Priced
  <2>2. PICK L, P : L = Listed(items, r) /\ P = Priced(skuObserved, r)
    OBVIOUS
  <2>3. run'[r].listed = Cardinality(Listed(items, r)')
    <3>1. Cardinality(L \cup {p}) = Cardinality(L) + 1
      BY <1>4, <1>5, <2>1, <2>2, CountOneMore
    <3> QED
      BY <1>2, <1>12, <1>19, <2>2, <3>1 DEF ItemsOK
  <2>4. run'[r].snaps = Cardinality(Priced(skuObserved, r)')
    <3>1. p \notin P
      BY <1>5, <2>2 DEF Priced
    <3>2. CASE snap
      <4>1. \A n \in Nat : <<n>> # <<>>
        OBVIOUS
      <4>2. Priced(skuObserved, r)' = P \cup {p}
        BY <1>4, <1>10, <1>14, <2>2, <3>2, <4>1 DEF Priced
      <4>3. Cardinality(P \cup {p}) = Cardinality(P) + 1
        BY <1>4, <2>1, <2>2, <3>1, CountOneMore
      <4> QED
        BY <1>2, <1>12, <2>2, <3>2, <4>2, <4>3 DEF ItemsOK
    <3>3. CASE ~snap
      <4>1. Priced(skuObserved, r)' = P
        BY <1>4, <1>5, <1>14, <2>2, <3>3 DEF Priced
      <4>2. run[r].snaps \in Nat
        BY <1>1 DEF RunRow
      <4> QED
        BY <1>2, <1>12, <2>2, <3>3, <4>1, <4>2 DEF ItemsOK
    <3> QED
      BY <3>2, <3>3
  <2>5. \A x \in Products : skuObserved'[r][x] = SkuPrice(items'[r][x])
    <3>1. skuObserved'[r][p] = SkuPrice(items'[r][p])
      BY <1>6, <1>10, <1>13, <1>14 DEF SkuPrice
    <3>2. ASSUME NEW x \in Products \ {p}
          PROVE  skuObserved'[r][x] = SkuPrice(items'[r][x])
      BY <1>2, <1>13, <1>14 DEF ItemsOK
    <3> QED
      BY <3>1, <3>2
  <2> QED
    BY <2>3, <2>4, <2>5 DEF ItemsOK
<1>21. Ranked(r)'
  BY <1>1, <1>9, <1>10, <1>12, <1>13, <1>19 DEF RefineOK, Ranked, Active, Listed
<1>22. Turns(r)'
  BY <1>2, <1>4, <1>11, <1>17, <1>19 DEF Turns
<1>23. RefineOK(r)'
  BY <1>11, <1>12, <1>17, <1>20, <1>21, <1>22 DEF RefineOK
<1>24. StaysSettled(r)
  BY <1>1, <1>9 DEF StaysSettled, Active
<1> QED
  BY <1>1, <1>17, <1>18, <1>23, <1>24 DEF StepKeeps, RunKeeps

LEMMA OutcomesAreTyped ==
  /\ Refused \in Outcomes
  /\ \A p \in Products : \A a \in Skus[p] : Matched(a) \in Outcomes
<1>1. Refused \in Outcomes
  BY DEF Refused, Outcomes
<1>2. ASSUME NEW p \in Products, NEW a \in Skus[p]
      PROVE  Matched(a) \in Outcomes
  <2>1. a \in Seq(Nat \ {0})
    BY DiscoveryAssumption
  <2>2. Len(a) = 1 => Head(a) \in Nat
    BY <2>1
  <2> QED
    BY <2>2 DEF Matched, Outcomes
<1> QED
  BY <1>1, <1>2

LEMMA SkuAnsweredKeeps ==
  ASSUME DiscoveryInv, NEW r \in Refinements, SkuAnswered(r)
  PROVE  StepKeeps(r)
<1>1. /\ r \in Runs /\ r \notin Scans /\ RefineOK(r) /\ Asked(r) = Of(r)
      /\ proc[r].todo \in Seq(Products)
      /\ proc[r].todo # <<>> => Of(r) \in SkuQuery /\ Of(r) \in Query
  BY RefineIsTyped
<1>2. proc[r].at = "call" /\ proc[r].todo # <<>>
  BY <1>1 DEF SkuAnswered, RefineOK
<1>3. CASE Raise(r)
  BY <1>1, <1>2, <1>3, RaiseKeeps
<1>4. CASE ~Raise(r)
  <2>1. PICK p \in Products : p = Head(proc[r].todo) /\ Of(r) = <<p>>
    BY <1>1, <1>2 DEF Of
  <2>2. /\ HoldsClaim(r, Of(r)) /\ cache[Of(r)] = None /\ claim' = Released(r, Of(r))
    BY <1>4 DEF SkuAnswered
  <2>3. PICK a \in Skus[p] :
          /\ RecordItem(r, Matched(a), "LIVE")
          /\ cache' = [cache EXCEPT ![Of(r)] = [answer |-> a, fresh |-> TRUE]]
    BY <1>4, <2>1 DEF SkuAnswered
  <2>4. /\ claim' \in [Query -> Runs \cup {None}]
        /\ \A q \in Query : claim'[q] \in {claim[q], None} /\ claim'[q] # r
    BY <1>1, <1>2, <2>2, ReleasedClaims
  <2>5. <<p>> \in Query /\ <<p>> \notin PageQuery
    BY QueriesDiffer
  <2>6. /\ DOMAIN cache' = Query /\ cache'[<<p>>] \in SkuAnswers(p)
        /\ \A q \in Query \ {<<p>>} : cache'[q] = cache[q]
    <3>1. PICK new : new = [answer |-> a, fresh |-> TRUE]
      OBVIOUS
    <3>2. new \in SkuAnswers(p)
      BY <3>1 DEF SkuAnswers
    <3>3. cache' = [cache EXCEPT ![<<p>>] = new] /\ DOMAIN cache = Query
      BY <2>1, <2>3, <3>1 DEF DiscoveryInv, Types, QueryTypes
    <3> QED
      BY <2>5, <3>2, <3>3
  <2>7. QueryTypes'
    <3>1. \A q \in PageQuery : /\ claim'[q] \in Scans \cup {None}
                               /\ cache'[q] \in PageAnswers \cup {None}
      BY <2>4, <2>5, <2>6, QueriesDiffer DEF DiscoveryInv, Types, QueryTypes
    <3>2. ASSUME NEW x \in Products
          PROVE  /\ claim'[<<x>>] \in Refinements \cup {None}
                 /\ cache'[<<x>>] \in SkuAnswers(x) \cup {None}
      <4>1. <<x>> \in Query
        BY QueriesDiffer
      <4>2. claim'[<<x>>] \in Refinements \cup {None}
        BY <2>4, <4>1 DEF DiscoveryInv, Types, QueryTypes
      <4>3. x # p => <<x>> # <<p>>
        OBVIOUS
      <4>4. cache'[<<x>>] \in SkuAnswers(x) \cup {None}
        BY <2>6, <4>1, <4>3 DEF DiscoveryInv, Types, QueryTypes
      <4> QED
        BY <4>2, <4>4
    <3> QED
      BY <2>4, <2>6, <3>1, <3>2 DEF QueryTypes
  <2>8. \A q \in Query : claim'[q] # None =>
          /\ claim'[q] = claim[q] /\ claim[q] # r
          /\ cache[q] = None => cache'[q] = None
    BY <2>1, <2>2, <2>4, <2>6 DEF HoldsClaim
  <2> QED
    BY <1>2, <2>3, <2>7, <2>8, OutcomesAreTyped, RecordItemKeeps
<1> QED
  BY <1>3, <1>4

LEMMA SkuItemRefusedKeeps ==
  ASSUME DiscoveryInv, NEW r \in Refinements, SkuItemRefused(r)
  PROVE  StepKeeps(r)
<1>1. r \in Runs /\ Asked(r) = Of(r) /\ proc[r].at = "call"
  BY RefineIsTyped DEF SkuItemRefused
<1>2. CASE Raise(r)
  BY <1>1, <1>2, RaiseKeeps
<1>3. CASE ~Raise(r)
  <2>1. RecordItem(r, Refused, "LIVE") /\ claim' = Released(r, Of(r)) /\ cache' = cache
    BY <1>3 DEF SkuItemRefused
  <2>2. /\ claim' \in [Query -> Runs \cup {None}]
        /\ \A q \in Query : claim'[q] \in {claim[q], None} /\ claim'[q] # r
    BY <1>1, <2>1, ReleasedClaims
  <2>3. QueryTypes'
    BY <2>1, <2>2, QueriesDiffer DEF DiscoveryInv, Types, QueryTypes
  <2> QED
    BY <1>1, <2>1, <2>2, <2>3, OutcomesAreTyped, RecordItemKeeps
<1> QED
  BY <1>2, <1>3

LEMMA SkuKeptKeeps ==
  ASSUME DiscoveryInv, NEW r \in Refinements, SkuKept(r)
  PROVE  StepKeeps(r)
<1>1. /\ r \in Runs /\ RefineOK(r) /\ proc[r].at = "items" /\ proc[r].todo \in Seq(Products)
  BY RefineIsTyped DEF SkuKept
<1>2. CASE Raise(r)
  BY <1>1, <1>2, RaiseKeeps
<1>3. CASE ~Raise(r)
  <2>1. RecordItem(r, Matched(proc[r].held), "CACHE") /\ UNCHANGED <<claim, cache>>
    BY <1>3 DEF SkuKept
  <2>2. PICK p \in Products : p = Head(proc[r].todo) /\ proc[r].held \in Skus[p]
    BY <1>1 DEF RefineOK
  <2>3. PICK answer \in Outcomes : answer = Matched(proc[r].held)
    BY <2>2, OutcomesAreTyped
  <2>4. QueryTypes' /\ \A q \in Query : claim[q] # r
    BY <1>1, <2>1, NoClaim DEF DiscoveryInv, Types, QueryTypes
  <2>5. RecordItem(r, answer, "CACHE")
    BY <2>1, <2>3
  <2> QED
    BY <1>1, <2>1, <2>4, <2>5, RecordItemKeeps
<1> QED
  BY <1>2, <1>3

\* A refinement that completes is ranked in the same transaction.
LEMMA FinishSkuKeeps ==
  ASSUME DiscoveryInv, NEW r \in Refinements, FinishSku(r)
  PROVE  StepKeeps(r)
<1>1. r \in Runs /\ r \notin Scans /\ RefineOK(r) /\ proc[r].at = "settle"
  BY RefineIsTyped DEF FinishSku
<1>2. CASE ~MayFinish(r) /\ Raise(r)
  BY <1>1, <1>2, RaiseKeeps
<1>3. CASE ~(~MayFinish(r) /\ Raise(r))
  <2>1. PICK ranked : ranked = RankedItems(r)
    OBVIOUS
  <2>2. /\ MayFinish(r)
        /\ items' = IF proc[r].end[1] = "COMPLETED"
                    THEN [items EXCEPT ![r] = ranked] ELSE items
        /\ run' = [run EXCEPT ![r] = Closed(@, proc[r].end[1], proc[r].end[2])]
        /\ Step(r, [Idle EXCEPT !.at = "ended", !.got = proc[r].got])
        /\ UNCHANGED <<results, observed, skuObserved, claim, cache>>
    BY <1>3, <2>1 DEF FinishSku
  <2>3. items \in [Refinements -> [Products -> Item \cup {None}]]
    BY DEF DiscoveryInv, Types, RowTypes
  <2>4. ASSUME NEW p \in Products
        PROVE  /\ ranked[p] \in Item \cup {None}
               /\ items[r][p] = None <=> ranked[p] = None
               /\ items[r][p] # None =>
                    /\ ranked[p].origin = items[r][p].origin
                    /\ ranked[p].match = items[r][p].match
                    /\ ranked[p].price = items[r][p].price
                    /\ items[r][p].class = "none" =>
                         (ranked[p].match = "MATCHED") = (ranked[p].class # "none")
    <3>1. ranked[p] = IF items[r][p] # None /\ items[r][p].match = "MATCHED"
                      THEN [items[r][p] EXCEPT !.class = RankSku(r, p, items[r][p].price)]
                      ELSE items[r][p]
      BY <2>1 DEF RankedItems
    <3>2. PICK it \in Item \cup {None} : it = items[r][p]
      BY <2>3
    <3>3. PICK c \in {"SKU_HISTORY_BACKED_PRICE_DROP", "SKU_BASELINE_ONLY"} :
            c = RankSku(r, p, it.price)
      BY DEF RankSku
    <3>4. CASE it # None /\ it.match = "MATCHED"
      <4>1. ranked[p] = [it EXCEPT !.class = c]
        BY <3>1, <3>2, <3>3, <3>4
      <4>2. ranked[p] \in Item /\ ranked[p].class = c /\ ranked[p].match = it.match
            /\ ranked[p].origin = it.origin /\ ranked[p].price = it.price
        BY <3>4, <4>1 DEF Item
      <4> QED
        BY <3>2, <3>4, <4>2, NoneAssumption
    <3>5. CASE ~(it # None /\ it.match = "MATCHED")
      BY <3>1, <3>2, <3>5
    <3> QED
      BY <3>4, <3>5
  <2>5. ranked \in [Products -> Item \cup {None}]
    <3>1. ranked = [p \in Products |-> ranked[p]]
      BY <2>1 DEF RankedItems
    <3> QED
      BY <2>4, <3>1
  <2>6. /\ items' \in [Refinements -> [Products -> Item \cup {None}]]
        /\ \A o \in Refinements \ {r} : items'[o] = items[o]
        /\ items'[r] = IF proc[r].end[1] = "COMPLETED" THEN ranked ELSE items[r]
    BY <2>2, <2>3, <2>5
  <2>7. /\ Types' /\ OthersKept(r) /\ ClaimsOK' /\ RunOK(r)' /\ Active(r)
        /\ run'[r].state = proc[r].end[1] /\ run'[r].reason = proc[r].end[2]
        /\ run'[r].listed = run[r].listed /\ run'[r].snaps = run[r].snaps
        /\ proc'[r].at = "ended" /\ proc'[r].got = proc[r].got
    BY <1>1, <2>2, <2>6, FinishedRun
  <2>8. \A p \in Products : SkuPrice(items'[r][p]) = SkuPrice(items[r][p])
    BY <2>4, <2>6 DEF SkuPrice
  <2>9. /\ Listed(items, r)' = Listed(items, r)
        /\ Priced(skuObserved, r)' = Priced(skuObserved, r)
    BY <2>2, <2>4, <2>6 DEF Listed, Priced
  <2>10. ItemsOK(r)'
    BY <1>1, <2>2, <2>7, <2>8, <2>9 DEF RefineOK, ItemsOK
  <2>11. Ranked(r)'
    <3>1. \A p \in Listed(items, r) : items[r][p].class = "none"
      BY <1>1, <2>7 DEF RefineOK, Ranked, Active
    <3>2. CASE proc[r].end[1] = "COMPLETED"
      <4>1. \A p \in Listed(items, r) :
              (items'[r][p].match = "MATCHED") = (items'[r][p].class # "none")
        BY <2>4, <2>6, <3>1, <3>2 DEF Listed
      <4> QED
        BY <2>7, <2>9, <3>2, <4>1 DEF Ranked
    <3>3. CASE proc[r].end[1] # "COMPLETED"
      BY <2>6, <2>7, <2>9, <3>1, <3>3 DEF Ranked
    <3> QED
      BY <3>2, <3>3
  <2>12. RefineOK(r)'
    BY <1>1, <2>7, <2>9, <2>10, <2>11 DEF RefineOK
  <2>13. StaysSettled(r)
    BY <1>1, <2>7 DEF StaysSettled, Active
  <2> QED
    BY <1>1, <2>7, <2>12, <2>13 DEF StepKeeps, RunKeeps
<1> QED
  BY <1>2, <1>3

-----------------------------------------------------------------------------
(* The invariant holds at first, and every step keeps it.                   *)

LEMMA InitHolds == Init => DiscoveryInv
<1> SUFFICES ASSUME Init
             PROVE  DiscoveryInv
  OBVIOUS
<1>1. /\ 0 \in Nat /\ <<>> \in Seq(Nat) /\ \A n \in Nat : <<n>> \in Seq(Nat)
  OBVIOUS
<1>2. NoRun \in RunRow
  BY DEF NoRun, RunRow, States, Reasons
<1>3. Idle \in ScanProc /\ Idle \in RefineProc
  <2>1. 1 \in 1..Keywords /\ 1 \in 1..MaxPages
    BY DiscoveryAssumption DEF ProfileIsValid
  <2>2. <<"none", "none">> \in Ends /\ <<>> \in Seq(Offers) /\ <<>> \in Seq(Products)
    BY DEF Ends
  <2> HIDE DEF Ends
  <2> QED
    BY <2>1, <2>2 DEF ScanProc, RefineProc, Idle, Stages
<1>4. \A r \in Earlier \cup Scans, p \in Products :
        observed[r][p] = IF r \in Earlier THEN <<EarlierPrices[r][p]>> ELSE <<>>
  BY DEF Init
<1>5. \A r \in Earlier \cup Refinements, p \in Products :
        skuObserved[r][p] = IF r \in Earlier THEN <<EarlierPrices[r][p]>> ELSE <<>>
  BY DEF Init
<1>6. \A r \in Earlier, p \in Products : <<EarlierPrices[r][p]>> \in Seq(Nat)
  <2>1. \A r \in Earlier, p \in Products : EarlierPrices[r][p] \in Nat
    BY DiscoveryAssumption
  <2> QED
    BY <1>1, <2>1
<1>7. observed \in Prices(Earlier \cup Scans)
  <2>1. \A r \in Earlier \cup Scans : observed[r] \in [Products -> Seq(Nat)]
    <3> SUFFICES ASSUME NEW r \in Earlier \cup Scans
                 PROVE  observed[r] \in [Products -> Seq(Nat)]
      OBVIOUS
    <3>1. observed[r] = [p \in Products |-> observed[r][p]]
      BY DEF Init
    <3>2. \A p \in Products : observed[r][p] \in Seq(Nat)
      BY <1>1, <1>4, <1>6
    <3> QED
      BY <3>1, <3>2
  <2>2. observed = [r \in Earlier \cup Scans |-> observed[r]]
    BY DEF Init
  <2> QED
    BY <2>1, <2>2 DEF Prices
<1>8. skuObserved \in Prices(Earlier \cup Refinements)
  <2>1. \A r \in Earlier \cup Refinements : skuObserved[r] \in [Products -> Seq(Nat)]
    <3> SUFFICES ASSUME NEW r \in Earlier \cup Refinements
                 PROVE  skuObserved[r] \in [Products -> Seq(Nat)]
      OBVIOUS
    <3>1. skuObserved[r] = [p \in Products |-> skuObserved[r][p]]
      BY DEF Init
    <3>2. \A p \in Products : skuObserved[r][p] \in Seq(Nat)
      BY <1>1, <1>5, <1>6
    <3> QED
      BY <3>1, <3>2
  <2>2. skuObserved = [r \in Earlier \cup Refinements |-> skuObserved[r]]
    BY DEF Init
  <2> QED
    BY <2>1, <2>2 DEF Prices
<1>9. RowTypes
  BY <1>2, <1>7, <1>8 DEF Init, RowTypes
<1>10. QueryTypes /\ ClaimsOK
  BY QueriesDiffer DEF Init, QueryTypes, ClaimsOK, ClaimOK
<1>11. ProcTypes
  BY <1>3 DEF Init, ProcTypes, Runs
<1>12. \A r \in Runs : run[r] = NoRun /\ proc[r] = Idle
  BY DEF Init
<1>13. ASSUME NEW r \in Runs
       PROVE  RunOK(r)
  BY <1>12, DiscoveryAssumption DEF RunOK, NoRun, Idle, Active, Limit, ProfileIsValid
<1>14. Cardinality({}) = 0
  BY FS_EmptySet
<1>15. ASSUME NEW r \in Scans
       PROVE  ScanOK(r)
  <2>1. run[r] = NoRun /\ proc[r] = Idle
    BY <1>12 DEF Runs
  <2>2. \A p \in Products : results[r][p] = None /\ observed[r][p] = <<>>
    BY <1>4, DiscoveryAssumption DEF Init
  <2>3. PICK w : w = Rows(r)
    OBVIOUS
  <2>4. /\ w.rows = results[r] /\ w.listed = 0 /\ w.snaps = 0 /\ w.prices = observed[r]
        /\ w.cut = FALSE
    BY <2>1, <2>3 DEF Rows, NoRun
  <2>5. w \in ScanRows
    BY <1>1, <1>9, <2>1, <2>3 DEF RowTypes, Prices, ScanRows, Rows, NoRun
  <2>6. In(w.rows) = {} /\ {p \in Products : w.prices[p] # <<>>} = {}
    BY <2>2, <2>4 DEF In
  <2>7. Consistent(w)
    BY <1>14, <2>2, <2>4, <2>5, <2>6 DEF Consistent, ScanPrice
  <2>8. Listed(results, r) = {}
    BY <2>2 DEF Listed
  <2> QED
    BY <2>1, <2>3, <2>7, <2>8, DiscoveryAssumption DEF ScanOK, NoRun, Idle, ProfileIsValid
<1>16. ASSUME NEW r \in Refinements
       PROVE  RefineOK(r)
  <2>1. run[r] = NoRun /\ proc[r] = Idle
    BY <1>12 DEF Runs
  <2>2. \A p \in Products : items[r][p] = None /\ skuObserved[r][p] = <<>>
    BY <1>5, DiscoveryAssumption DEF Init
  <2>3. Listed(items, r) = {} /\ Priced(skuObserved, r) = {}
    BY <2>2 DEF Listed, Priced
  <2>4. ItemsOK(r)
    BY <1>14, <2>1, <2>2, <2>3 DEF ItemsOK, SkuPrice, NoRun
  <2> QED
    BY <2>1, <2>3, <2>4 DEF RefineOK, Ranked, NoRun, Idle
<1> QED
  BY <1>9, <1>10, <1>11, <1>13, <1>15, <1>16 DEF DiscoveryInv, Types

\* No step of a run but its own changes it, and a step of its own keeps what
\* holds of it.
LEMMA StepsKeep ==
  ASSUME DiscoveryInv, NEW r \in Runs,
         \/ r \in Scans /\ ScanStep(r)
         \/ r \in Refinements /\ RefineStep(r)
         \/ LeaseExpires(r) \/ Crash(r)
  PROVE  StepKeeps(r)
<1>1. CASE r \in Scans /\ ScanStep(r)
  <2>1. Asked(r) = At(r)
    BY <1>1 DEF Asked
  <2>2. CASE Scan(r)
    BY <1>1, <2>2, ScanKeeps
  <2>3. CASE ClaimQuery(r)
    BY <1>1, <2>3, ClaimQueryKeeps
  <2>4. CASE \E pg \in Pages : PageAnswered(r, pg)
    BY <1>1, <2>4, PageAnsweredKeeps
  <2>5. CASE Fails(r, At(r))
    BY <2>1, <2>5, FailsKeeps
  <2>6. CASE RecordKept(r)
    BY <1>1, <2>6, RecordKeptKeeps
  <2>7. CASE Finish(r)
    BY <1>1, <2>7, FinishKeeps
  <2> QED
    BY <1>1, <2>2, <2>3, <2>4, <2>5, <2>6, <2>7 DEF ScanStep
<1>2. CASE r \in Refinements /\ RefineStep(r)
  <2>1. Asked(r) = Of(r)
    BY <1>2, DiscoveryAssumption DEF Asked
  <2>2. CASE Refine(r) \/ \E o \in Scans : ReadShortlist(r, o)
    BY <1>2, <2>2, ReadShortlistKeeps, RefineKeeps
  <2>3. CASE ClaimSku(r)
    BY <1>2, <2>3, ClaimSkuKeeps
  <2>4. CASE SkuAnswered(r)
    BY <1>2, <2>4, SkuAnsweredKeeps
  <2>5. CASE SkuItemRefused(r)
    BY <1>2, <2>5, SkuItemRefusedKeeps
  <2>6. CASE Fails(r, Of(r))
    BY <2>1, <2>6, FailsKeeps
  <2>7. CASE SkuKept(r)
    BY <1>2, <2>7, SkuKeptKeeps
  <2>8. CASE FinishSku(r)
    BY <1>2, <2>8, FinishSkuKeeps
  <2> QED
    BY <1>2, <2>2, <2>3, <2>4, <2>5, <2>6, <2>7, <2>8 DEF RefineStep
<1>3. CASE LeaseExpires(r)
  BY <1>3, LeaseExpiresKeeps
<1>4. CASE Crash(r)
  BY <1>4, RaiseKeeps DEF Crash
<1> QED
  BY <1>1, <1>2, <1>3, <1>4

\* An answer that is no longer fresh is still an answer.
LEMMA AnswerExpiresKeeps ==
  ASSUME DiscoveryInv, NEW q \in Query, AnswerExpires(q)
  PROVE  DiscoveryInv' /\ \A r \in Runs : StaysSettled(r)
<1>1. /\ cache[q] # None /\ cache' = [cache EXCEPT ![q].fresh = FALSE]
      /\ UNCHANGED <<run, results, items, observed, skuObserved, claim, proc>>
  BY DEF AnswerExpires
<1>2. /\ DOMAIN cache' = Query /\ cache'[q] = [cache[q] EXCEPT !.fresh = FALSE]
      /\ \A x \in Query \ {q} : cache'[x] = cache[x]
  BY <1>1 DEF DiscoveryInv, Types, QueryTypes
<1>3. q \in PageQuery => cache'[q] \in PageAnswers
  BY <1>1, <1>2 DEF DiscoveryInv, Types, QueryTypes, PageAnswers
<1>4. \A p \in Products : q = <<p>> => cache'[q] \in SkuAnswers(p)
  BY <1>1, <1>2, ZenonT(40) DEF DiscoveryInv, Types, QueryTypes, SkuAnswers
<1>5. QueryTypes'
  <2>1. \A x \in PageQuery : /\ claim'[x] \in Scans \cup {None}
                             /\ cache'[x] \in PageAnswers \cup {None}
    BY <1>1, <1>2, <1>3, QueriesDiffer DEF DiscoveryInv, Types, QueryTypes
  <2>2. ASSUME NEW p \in Products
        PROVE  /\ claim'[<<p>>] \in Refinements \cup {None}
               /\ cache'[<<p>>] \in SkuAnswers(p) \cup {None}
    <3>1. <<p>> \in Query
      BY QueriesDiffer
    <3> QED
      BY <1>1, <1>2, <1>4, <3>1 DEF DiscoveryInv, Types, QueryTypes
  <2> QED
    BY <1>1, <1>2, <2>1, <2>2 DEF DiscoveryInv, Types, QueryTypes
<1>6. Types'
  BY <1>1, <1>5 DEF DiscoveryInv, Types, RowTypes, ProcTypes
<1>7. ClaimsOK'
  <2> SUFFICES ASSUME NEW x \in Query, claim[x] # None
               PROVE  ClaimOK(x)'
    BY <1>1 DEF ClaimsOK, ClaimOK
  <2>1. ClaimOK(x) /\ claim'[x] = claim[x] /\ cache[x] = None
    BY <1>1 DEF DiscoveryInv, ClaimsOK, ClaimOK
  <2>2. cache'[x] = None
    BY <1>1, <1>2, <2>1
  <2>3. PICK o \in Runs : o = claim[x]
    BY DEF DiscoveryInv, Types, QueryTypes
  <2>4. run'[o] = run[o] /\ proc'[o] = proc[o]
    BY <1>1
  <2> QED
    BY <2>1, <2>2, <2>3, <2>4 DEF ClaimOK, Active, Asked, At, Of
<1>8. \A r \in Runs : RunOK(r)'
  BY <1>1 DEF DiscoveryInv, RunOK, Active, Limit
<1>9. \A r \in Scans : ScanOK(r)'
  BY <1>1, ZenonT(40) DEF DiscoveryInv, ScanOK, ScanIsWhole, Rows, Listed, Consistent
<1>10. \A r \in Refinements : RefineOK(r)'
  BY <1>1, ZenonT(40) DEF DiscoveryInv, RefineOK, ItemsOK, Ranked, Turns, Listed, Priced
<1>11. \A r \in Runs : StaysSettled(r)
  BY <1>1 DEF StaysSettled
<1> QED
  BY <1>6, <1>7, <1>8, <1>9, <1>10, <1>11 DEF DiscoveryInv

LEMMA NextKeeps ==
  ASSUME DiscoveryInv, [Next]_vars
  PROVE  DiscoveryInv' /\ \A r \in Runs : StaysSettled(r)
<1>1. CASE \E r \in Runs : \/ r \in Scans /\ ScanStep(r)
                           \/ r \in Refinements /\ RefineStep(r)
                           \/ LeaseExpires(r) \/ Crash(r)
  <2>1. PICK r \in Runs : StepKeeps(r)
    BY <1>1, StepsKeep
  <2> QED
    BY <2>1, StepKeepsInv
<1>2. CASE \E q \in Query : AnswerExpires(q)
  BY <1>2, AnswerExpiresKeeps
<1>3. CASE UNCHANGED vars
  <2>1. UNCHANGED <<run, results, items, observed, skuObserved, claim, cache, proc>>
    BY <1>3 DEF vars, tables
  <2>2. DiscoveryInv'
    <3>1. Types' = Types
      BY <2>1 DEF Types, RowTypes, QueryTypes, ProcTypes
    <3>2. ClaimsOK' = ClaimsOK
      BY <2>1 DEF ClaimsOK, ClaimOK, Active, Asked, At, Of
    <3>3. \A r \in Runs : RunOK(r)' = RunOK(r)
      BY <2>1 DEF RunOK, Active, Limit
    <3>4. \A r \in Scans : ScanOK(r)' = ScanOK(r)
      BY <2>1 DEF ScanOK, ScanIsWhole, Rows, Listed, Consistent
    <3>5. \A r \in Refinements : RefineOK(r)' = RefineOK(r)
      BY <2>1 DEF RefineOK, ItemsOK, Ranked, Turns, Listed, Priced
    <3> QED
      BY <3>1, <3>2, <3>3, <3>4, <3>5 DEF DiscoveryInv
  <2>3. \A r \in Runs : StaysSettled(r)
    BY <2>1 DEF StaysSettled
  <2> QED
    BY <2>2, <2>3
<1> QED
  BY <1>1, <1>2, <1>3 DEF Next, Runs

-----------------------------------------------------------------------------
(* What is proved of every behaviour.                                       *)

\* Rows, claims, answers and processes fit together in every reachable state.
THEOREM DiscoveryInvAlways == Spec => []DiscoveryInv
<1>1. DiscoveryInv /\ [Next]_vars => DiscoveryInv'
  BY NextKeeps
<1> QED
  BY InitHolds, <1>1, PTL DEF Spec

\* The variables keep their types and no run calls the provider more often
\* than its profile allows.
THEOREM TypeCorrect == Spec => []TypeOK
<1>1. DiscoveryInv => TypeOK
  BY DEF DiscoveryInv, Types, RowTypes, QueryTypes, RunOK, Limit, TypeOK, Stages,
         ProcTypes, ScanProc, RefineProc, Runs
<1> QED
  BY DiscoveryInvAlways, <1>1, PTL

\* Claims belong to open runs, a run gives each product one price of its own,
\* and a completed run is whole, whoever took part and whenever a process
\* ended.
THEOREM RunsAgreeHolds == Spec => []RunsAgree
<1>1. DiscoveryInv => RunsAgree
  <2> SUFFICES ASSUME DiscoveryInv
               PROVE  RunsAgree
    OBVIOUS
  <2>1. ClaimsAreCurrent
    BY DEF DiscoveryInv, ClaimsOK, ClaimOK, ClaimsAreCurrent
  <2>2. OnePricePerRun
    <3>1. ASSUME NEW r \in Scans, NEW p \in Products
          PROVE  observed[r][p] = ScanPrice(results[r][p])
      BY DEF DiscoveryInv, ScanOK, Consistent, Rows
    <3>2. ASSUME NEW r \in Refinements, NEW p \in Products
          PROVE  skuObserved[r][p] = SkuPrice(items[r][p])
      BY DEF DiscoveryInv, RefineOK, ItemsOK
    <3> QED
      BY <3>1, <3>2 DEF OnePricePerRun, ScanPrice, SkuPrice
  <2>3. CompletedRunIsWhole
    <3>1. ASSUME NEW r \in Scans, run[r].state = "COMPLETED"
          PROVE  /\ run[r].listed = Cardinality(Listed(results, r))
                 /\ run[r].snaps = Cardinality({p \in Products : observed[r][p] # <<>>})
                 /\ run[r].reason = "MAX_RESULTS" => run[r].listed = MaxResults
                 /\ run[r].reason = "MAX_API_CALLS" => run[r].calls = MaxCalls
                 /\ run[r].reason # "MAX_RESULTS" => Listed(results, r) = proc[r].got
      <4>1. /\ ScanOK(r) /\ RunOK(r) /\ Limit(r) = MaxCalls
        BY ScanIsTyped
      <4>2. /\ Rows(r).rows = results[r] /\ Rows(r).listed = run[r].listed
            /\ Rows(r).snaps = run[r].snaps /\ Rows(r).prices = observed[r]
        BY DEF Rows
      <4>3. Consistent(Rows(r)) /\ ScanIsWhole(r, run[r].reason)
        BY <3>1, <4>1 DEF ScanOK
      <4> QED
        BY <3>1, <4>1, <4>2, <4>3 DEF Consistent, In, Listed, ScanIsWhole, RunOK
    <3>2. ASSUME NEW r \in Refinements, run[r].state = "COMPLETED"
          PROVE  /\ run[r].listed = Cardinality(Listed(items, r))
                 /\ run[r].snaps = Cardinality({p \in Products : skuObserved[r][p] # <<>>})
                 /\ run[r].reason = "SHORTLIST_COMPLETED" => Listed(items, r) = proc[r].got
                 /\ \A p \in Listed(items, r) :
                      (items[r][p].match = "MATCHED") = (items[r][p].class # "none")
      BY <3>2 DEF DiscoveryInv, RefineOK, ItemsOK, Ranked, Priced
    <3> QED
      BY <3>1, <3>2 DEF CompletedRunIsWhole
  <2> QED
    BY <2>1, <2>2, <2>3 DEF RunsAgree
<1> QED
  BY DiscoveryInvAlways, <1>1, PTL

\* The end of a run is final, and nothing that a completed scan lists, or that
\* an ended refinement made of it, is changed by a late transaction.
THEOREM SettledRunsStayHolds == Spec => SettledRunsStay
<1> DEFINE Stays ==
     /\ \A r \in Runs : run[r].state \notin {"none", "RUNNING"} =>
          run'[r].state = run[r].state /\ run'[r].reason = run[r].reason
     /\ \A r \in Scans : run[r].state = "COMPLETED" =>
          /\ run'[r] = run[r]
          /\ results'[r] = results[r]
          /\ observed'[r] = observed[r]
     /\ \A r \in Refinements : run[r].state \notin {"none", "RUNNING"} =>
          /\ items'[r] = items[r]
          /\ skuObserved'[r] = skuObserved[r]
<1>1. DiscoveryInv /\ [Next]_vars => [Stays]_vars
  <2> SUFFICES ASSUME DiscoveryInv, [Next]_vars
               PROVE  Stays
    OBVIOUS
  <2>1. \A r \in Runs : StaysSettled(r)
    BY NextKeeps
  <2>2. \A r \in Scans : r \in Runs
    BY DEF Runs
  <2>3. \A r \in Refinements : r \in Runs
    BY DEF Runs
  <2> QED
    BY <2>1, <2>2, <2>3 DEF StaysSettled
<1>2. SettledRunsStay <=> [][Stays]_vars
  BY DEF SettledRunsStay
<1> HIDE DEF Stays
<1> QED
  BY DiscoveryInvAlways, <1>1, <1>2, PTL DEF Spec
=============================================================================
