--------------------------- MODULE DiscoveryRuns ---------------------------
(***************************************************************************)
(* Product discovery (discovery/scanner.py) and the refinement of its      *)
(* results to SKUs (discovery/sku_runner.py) on one shadow database.       *)
(*                                                                         *)
(* Scanners and refiners run in processes of their own.  What they share   *)
(* is in the tables: runs with a lease, one claim for a query that is      *)
(* being made, cached answers, and the prices that were observed.  Every   *)
(* action is one transaction or one answer of the provider; a process may  *)
(* end between any two.                                                    *)
(*                                                                         *)
(* The lease of a run and that of its claim are written together and end   *)
(* together, so that one flag (live) stands for both.  All runs share a    *)
(* profile.  Not represented: counters that nothing reads, the fields of a *)
(* product that no score uses, and snapshots older than 30 days.           *)
(***************************************************************************)
EXTENDS Integers, Sequences, FiniteSets, Functions

CONSTANTS
  Scans, Refinements,     \* runs of either kind
  Earlier, EarlierPrices, \* runs of the past and what each observed
  Keywords, MaxPages, PageSize, MaxResults, MaxCalls,     \* the profile
  MaxRefined, MaxSkuCalls, MinimumDrop,
  Products,               \* product ids, numbers
  Pages,                  \* pages the provider may answer
  Skus,                   \* and of the SKUs of a product, the prices of
                          \* those that meet the requirements
  None

\* The limits of a profile and of its refinement.
ProfileIsValid ==
  /\ Keywords \in 1..20
  /\ PageSize \in 1..50
  /\ MaxPages \in 1..5
  /\ MaxResults \in 1..250
  /\ MaxCalls \in 1..20
  /\ MinimumDrop \in 1..100
  /\ MaxRefined \in 1..20
  /\ MaxSkuCalls \in 1..MaxRefined

\* A product of a page; price 0: no price in BRL.
Offers == [product : Products, price : Nat, discount : Nat]

ASSUME DiscoveryAssumption ==
  /\ ProfileIsValid
  /\ Products \subseteq Nat /\ IsFiniteSet(Products)
  /\ IsFiniteSet(Scans) /\ IsFiniteSet(Refinements) /\ IsFiniteSet(Earlier)
  /\ Scans \cap Refinements = {} /\ Earlier \cap (Scans \cup Refinements) = {}
  /\ Pages \subseteq [items : Seq(Offers), rejected : Nat]
  /\ Skus \in [Products -> SUBSET Seq(Nat \ {0})]
  /\ EarlierPrices \in [Earlier -> [Products -> Nat]]

VARIABLES
  run,        \* rows of runs, of both kinds
  results,    \* products of a scan
  items,      \* products of a refinement
  observed,   \* prices (scans) that runs observed of products
  skuObserved,
  claim,      \* the run that makes a query, for pages and for products
  cache,      \* the answer that is kept of a query
  proc        \* the process of a run, between its transactions

tables == <<run, results, items, observed, skuObserved, claim, cache>>
vars == <<tables, proc>>

Runs == Scans \cup Refinements

\* A scan asks for pages of keywords, a refinement for products.
PageQuery == (1..Keywords) \X (1..MaxPages)
SkuQuery == {<<p>> : p \in Products}
Query == PageQuery \cup SkuQuery

-----------------------------------------------------------------------------
\* Prices and scores.

\* The prices of a product in runs other than r, <<run, number, price>> each.
Others(table, r, p) ==
  UNION {{<<o, i, table[o][p][i]>> : i \in DOMAIN table[o][p]} : o \in DOMAIN table \ {r}}

\* The k-th price from below.
Nth(s, k) ==
  CHOOSE v \in {x[3] : x \in s} : /\ Cardinality({x \in s : x[3] < v}) < k
                                /\ Cardinality({x \in s : x[3] <= v}) >= k

\* The median of prices, doubled to stay a number.
Median2(s) ==
  Nth(s, (Cardinality(s) + 1) \div 2) + Nth(s, Cardinality(s) \div 2 + 1)

\* price_drop_percent >= minimum for at least two prices; the drop in
\* percent is (100 * (median - price)) / median.
Drops(s, price) ==
  /\ Cardinality(s) >= 2
  /\ 100 * (Median2(s) - 2 * price) >= MinimumDrop * Median2(s)

HistoryScore(s, price) ==
  LET points == (200 * (Median2(s) - 2 * price)) \div Median2(s)
  IN  IF ~Drops(s, price) THEN 0 ELSE IF points > 60 THEN 60 ELSE points

\* rank_discovery_product.
Rank(prior, item) ==
  [class |-> IF item.price = 0 THEN "INSUFFICIENT_DATA"
             ELSE IF Drops(prior, item.price) THEN "HISTORY_BACKED_PRICE_DROP"
             ELSE IF item.discount > 0 THEN "PROVIDER_DISCOUNT_ONLY"
             ELSE "BASELINE_ONLY",
   score |-> (IF item.price = 0 THEN 0 ELSE 1 + HistoryScore(prior, item.price))
             + (IF item.discount \div 2 > 15 THEN 15 ELSE item.discount \div 2)]

\* rank_sku_price: one price of each run is eligible. The history of a SKU is that
\* of its product, which has no second SKU that could be eligible.
RankSku(r, p, price) ==
  IF Drops({x \in Others(skuObserved, r, p) : x[2] = 1}, price)
  THEN "SKU_HISTORY_BACKED_PRICE_DROP" ELSE "SKU_BASELINE_ONLY"

-----------------------------------------------------------------------------
\* match_discovery_skus: one SKU alone that meets the requirements.
Matched(alternatives) ==
  IF Len(alternatives) = 1 THEN [match |-> "MATCHED", price |-> Head(alternatives)]
                           ELSE [match |-> "UNMATCHED", price |-> 0]

\* What is made of SKUs that parse_discovery_sku_detail or the matcher refuse.
Refused == [match |-> "REVIEW_REQUIRED", price |-> 0]

-----------------------------------------------------------------------------
States == {"none", "RUNNING", "COMPLETED", "STOPPED", "REVIEW_REQUIRED", "UNCERTAIN"}

\* stop_reason of a completed run; that of others repeats their state.
Reasons == {"none", "MAX_RESULTS", "MAX_API_CALLS", "SHORT_PAGE", "MAX_PAGES",
            "SHORTLIST_COMPLETED"}

\* listed: unique_product_count of a scan, refined_count of a refinement.
RunRow == [state : States, reason : Reasons, live : BOOLEAN,
           calls : Nat, listed : Nat, snaps : Nat]

NoRun == [state |-> "none", reason |-> "none", live |-> FALSE,
          calls |-> 0, listed |-> 0, snaps |-> 0]

Result == [origin : {"LIVE", "CACHE"}, price : Nat, score : Nat,
           class : {"INSUFFICIENT_DATA", "HISTORY_BACKED_PRICE_DROP",
                    "PROVIDER_DISCOUNT_ONLY", "BASELINE_ONLY"}]

Item == [origin : {"LIVE", "CACHE"},
         match  : {"MATCHED", "UNMATCHED", "REVIEW_REQUIRED"},
         price  : Nat,
         class  : {"none", "SKU_BASELINE_ONLY", "SKU_HISTORY_BACKED_PRICE_DROP"}]

\* None is neither a run, nor a row, nor an answer.
ASSUME NoneAssumption ==
  /\ None \notin Runs
  /\ None \notin Result /\ None \notin Item
  /\ \A pg \in Pages, b \in BOOLEAN : None # [answer |-> pg, fresh |-> b]
  /\ \A p \in Products : \A a \in Skus[p], b \in BOOLEAN : None # [answer |-> a, fresh |-> b]

\* A process: where it is, the keyword and page a scan has come to, what is
\* left to do (items of a page, products of a shortlist), the answer it
\* holds, and the end it will give its run.  got is read by properties only:
\* the products of the pages or of the shortlist it was given.
Idle == [at |-> "idle", kw |-> 1, page |-> 1, todo |-> <<>>, held |-> None,
         end |-> <<"none", "none">>, got |-> {}]

Init ==
  /\ run = [r \in Runs |-> NoRun]
  /\ results = [r \in Scans |-> [p \in Products |-> None]]
  /\ items = [r \in Refinements |-> [p \in Products |-> None]]
  /\ observed = [r \in Earlier \cup Scans |->
                   [p \in Products |->
                      IF r \in Earlier THEN <<EarlierPrices[r][p]>> ELSE <<>>]]
  /\ skuObserved = [r \in Earlier \cup Refinements |->
                      [p \in Products |->
                         IF r \in Earlier THEN <<EarlierPrices[r][p]>> ELSE <<>>]]
  /\ claim = [q \in Query |-> None]
  /\ cache = [q \in Query |-> None]
  /\ proc = [r \in Runs |-> Idle]

-----------------------------------------------------------------------------
\* What both kinds of run do.

Active(r) == run[r].state = "RUNNING"

\* A transaction or call raises: nothing is written and the process ends.
Raise(r) ==
  /\ proc' = [proc EXCEPT ![r] = [Idle EXCEPT !.at = "ended"]]
  /\ UNCHANGED tables

\* Mutant: a finish leaves the lease behind.
ClosedWithLease(row, state, reason) == [row EXCEPT !.state = state, !.reason = reason]

Closed(row, state, reason) ==
  [row EXCEPT !.state = state, !.reason = reason, !.live = FALSE]

\* Mutant: a finish does not ask what became of the run.
MayAlwaysFinish(r) == run[r].state # "none"

\* finish_run: only a running run is given its end.
MayFinish(r) == Active(r)

Expired(o) == Active(o) /\ ~run[o].live

\* The rows after other runs of the kind, whose lease ended, were recovered,
\* and the lease of r was renewed.
Recovered(kind, r) ==
  [o \in Runs |-> IF o \in kind \ {r} /\ Expired(o)
                  THEN Closed(run[o], "UNCERTAIN", "none")
                  ELSE IF o = r THEN [run[r] EXCEPT !.live = TRUE] ELSE run[o]]

\* Claims and answers of the kind that have not expired.
Unexpired(queries) ==
  [q \in Query |-> IF q \in queries /\ claim[q] # None /\ ~run[claim[q]].live
                   THEN None ELSE claim[q]]

Fresh(queries) ==
  [q \in Query |-> IF q \in queries /\ cache[q] # None /\ ~cache[q].fresh
                   THEN None ELSE cache[q]]

\* finish_query_success and finish_sku_success ask for the claim itself.
HoldsClaim(r, q) == claim[q] = r /\ run[r].live

\* Mutant: an answer is kept and its claim stays.
NotReleased(r, q) == claim

Released(r, q) == IF claim[q] = r THEN [claim EXCEPT ![q] = None] ELSE claim

Step(r, p) == proc' = [proc EXCEPT ![r] = p]

Ending(p, state, reason) == [p EXCEPT !.at = "settle", !.end = <<state, reason>>]

\* The transaction of claim_query and claim_sku: a kept answer, another's
\* claim, or a claim of one's own and a counted call.  Without budget all of
\* it is rolled back.
ClaimIn(kind, queries, r, q, limit, given) ==
  LET claims == Unexpired(queries)
      kept == Fresh(queries)
  IN  \/ /\ kept[q] # None
         /\ run' = Recovered(kind, r)
         /\ claim' = claims
         /\ cache' = kept
         /\ Step(r, given)
      \/ /\ kept[q] = None
         /\ claims[q] # None
         /\ run' = Recovered(kind, r)
         /\ claim' = claims
         /\ cache' = kept
         /\ Step(r, Ending(proc[r], "STOPPED", "none"))
      \/ /\ kept[q] = None
         /\ claims[q] = None
         /\ run[r].calls < limit
         /\ run' = [Recovered(kind, r) EXCEPT ![r].calls = @ + 1]
         /\ claim' = [claims EXCEPT ![q] = r]
         /\ cache' = kept
         /\ Step(r, [proc[r] EXCEPT !.at = "call"])
      \/ /\ kept[q] = None
         /\ claims[q] = None
         /\ run[r].calls >= limit
         /\ Step(r, Ending(proc[r], "COMPLETED", "MAX_API_CALLS"))
         /\ UNCHANGED <<run, claim, cache>>

\* A call of r ends without an answer: one transaction gives up the claim
\* and ends the run.  It is refused when another run was there before.
Fails(r, q) ==
  /\ proc[r].at = "call"
  /\ \/ /\ MayFinish(r)
        /\ \E state \in {"UNCERTAIN", "REVIEW_REQUIRED"} :
             run' = [run EXCEPT ![r] = Closed(@, state, "none")]
        /\ claim' = Released(r, q)
        /\ Step(r, [Idle EXCEPT !.at = "ended", !.got = proc[r].got])
        /\ UNCHANGED <<results, items, observed, skuObserved, cache>>
     \/ ~MayFinish(r) /\ Raise(r)

-----------------------------------------------------------------------------
\* Scans.

Scan(r) ==
  /\ proc[r].at = "idle"
  /\ run' = [run EXCEPT ![r] = [NoRun EXCEPT !.state = "RUNNING", !.live = TRUE]]
  /\ Step(r, [proc[r] EXCEPT !.at = "next"])
  /\ UNCHANGED <<results, items, observed, skuObserved, claim, cache>>

At(r) == <<proc[r].kw, proc[r].page>>

Full(r) == run[r].listed >= MaxResults

PageProducts(pg) == {pg.items[i].product : i \in 1..Len(pg.items)}

\* The next page of the keyword, unless this one was short or the last.
After(p, pg) ==
  LET short == Len(pg.items) + pg.rejected < PageSize
  IN  IF ~short /\ p.page < MaxPages
      THEN [p EXCEPT !.at = "next", !.page = @ + 1]
      ELSE IF p.kw < Keywords
      THEN [p EXCEPT !.at = "next", !.kw = @ + 1, !.page = 1]
      ELSE Ending(p, "COMPLETED", IF short THEN "SHORT_PAGE" ELSE "MAX_PAGES")

ClaimQuery(r) ==
  /\ proc[r].at = "next"
  /\ \/ /\ Full(r)
        /\ Step(r, Ending(proc[r], "COMPLETED", "MAX_RESULTS"))
        /\ UNCHANGED tables
     \/ ~Full(r) /\ ~Active(r) /\ Raise(r)
     \/ /\ ~Full(r)
        /\ Active(r)
        /\ LET pg == Fresh(PageQuery)[At(r)].answer
               given == [proc[r] EXCEPT !.at = "items", !.todo = pg.items, !.held = pg,
                                        !.got = @ \cup PageProducts(pg)]
           IN  ClaimIn(Scans, PageQuery, r, At(r), MaxCalls, given)
        /\ UNCHANGED <<results, items, observed, skuObserved>>

\* record_product on w, the rows of a run as the transaction left them: a
\* product is listed once; a live price replaces a kept one and is observed.
Recorded(r, w, item, origin) ==
  LET old == w.rows[item.product]
      rank == Rank(Others(observed, r, item.product), item)
      row == [origin |-> origin, price |-> item.price,
              class |-> rank.class, score |-> rank.score]
      snap == origin = "LIVE" /\ item.price > 0
  IN  IF old # None /\ (old.origin = "LIVE" \/ origin = "CACHE")
      THEN w
      ELSE [rows   |-> [w.rows EXCEPT ![item.product] = row],
            listed |-> IF old = None THEN w.listed + 1 ELSE w.listed,
            snaps  |-> IF snap THEN w.snaps + 1 ELSE w.snaps,
            prices |-> IF snap THEN [w.prices EXCEPT ![item.product] = Append(@, item.price)]
                               ELSE w.prices,
            cut    |-> FALSE]

Rows(r) == [rows |-> results[r], listed |-> run[r].listed, snaps |-> run[r].snaps,
            prices |-> observed[r], cut |-> FALSE]

Written(r, w) ==
  /\ run' = [run EXCEPT ![r].listed = w.listed, ![r].snaps = w.snaps]
  /\ results' = [results EXCEPT ![r] = w.rows]
  /\ observed' = [observed EXCEPT ![r] = w.prices]

\* The next item of a live page, up to max_results.
RecordLive(r, w, item) ==
  IF w.listed >= MaxResults THEN [w EXCEPT !.cut = TRUE] ELSE Recorded(r, w, item, "LIVE")

\* The items of a live page, one after the other in one transaction.
RecordPage(r, pg) ==
  LET after[i \in 0..Len(pg.items)] ==
        IF i = 0 THEN Rows(r) ELSE RecordLive(r, after[i - 1], pg.items[i])
  IN  after[Len(pg.items)]

\* The answer arrives: it is kept and recorded while the claim is held.
PageAnswered(r, pg) ==
  /\ proc[r].at = "call"
  /\ \/ /\ HoldsClaim(r, At(r))
        /\ cache[At(r)] = None
        /\ LET w == RecordPage(r, pg)
               p == [proc[r] EXCEPT !.got = @ \cup PageProducts(pg)]
           IN  /\ Written(r, w)
               /\ Step(r, IF w.cut THEN Ending(p, "COMPLETED", "MAX_RESULTS")
                                   ELSE After(p, pg))
        /\ claim' = Released(r, At(r))
        /\ cache' = [cache EXCEPT ![At(r)] = [answer |-> pg, fresh |-> TRUE]]
        /\ UNCHANGED <<items, skuObserved>>
     \/ ~(HoldsClaim(r, At(r)) /\ cache[At(r)] = None) /\ Raise(r)

\* A kept page is recorded item by item, each in a transaction that asks
\* neither for the lease nor for the state of the run.
RecordKept(r) ==
  /\ proc[r].at = "items"
  /\ \/ /\ proc[r].todo = <<>>
        /\ Step(r, [After(proc[r], proc[r].held) EXCEPT !.held = None])
        /\ UNCHANGED tables
     \/ /\ proc[r].todo # <<>>
        /\ Full(r)
        /\ Step(r, Ending([proc[r] EXCEPT !.todo = <<>>, !.held = None],
                          "COMPLETED", "MAX_RESULTS"))
        /\ UNCHANGED tables
     \/ /\ proc[r].todo # <<>>
        /\ ~Full(r)
        /\ Written(r, Recorded(r, Rows(r), Head(proc[r].todo), "CACHE"))
        /\ Step(r, [proc[r] EXCEPT !.todo = Tail(@)])
        /\ UNCHANGED <<items, skuObserved, claim, cache>>

Finish(r) ==
  /\ proc[r].at = "settle"
  /\ \/ /\ MayFinish(r)
        /\ run' = [run EXCEPT ![r] = Closed(@, proc[r].end[1], proc[r].end[2])]
        /\ Step(r, [Idle EXCEPT !.at = "ended", !.got = proc[r].got])
        /\ UNCHANGED <<results, items, observed, skuObserved, claim, cache>>
     \/ ~MayFinish(r) /\ Raise(r)

-----------------------------------------------------------------------------
\* Refinements.

\* The query for the product whose turn it is.
Of(r) == <<Head(proc[r].todo)>>

Listed(table, r) == {p \in Products : table[r][p] # None}

\* How many products of a scan are better than p, by score and then by id.
Place(o, p) ==
  Cardinality({q \in Listed(results, o) :
                 \/ results[o][q].score > results[o][p].score
                 \/ results[o][q].score = results[o][p].score /\ q < p})

Least(m, n) == IF m < n THEN m ELSE n

\* The best products of a completed scan.
Shortlist(o) ==
  [i \in 1..Least(Cardinality(Listed(results, o)), MaxRefined) |->
     CHOOSE p \in Listed(results, o) : Place(o, p) = i - 1]

\* A completed scan is read ...
ReadShortlist(r, o) ==
  /\ proc[r].at = "idle"
  /\ run[o].state = "COMPLETED"
  /\ Step(r, [proc[r] EXCEPT !.at = "chosen", !.todo = Shortlist(o),
                             !.got = Range(Shortlist(o))])
  /\ UNCHANGED tables

\* ... and the run created for what it listed then.  A process that ends in
\* between has written nothing.
Refine(r) ==
  /\ proc[r].at = "chosen"
  /\ run' = [run EXCEPT ![r] = [NoRun EXCEPT !.state = "RUNNING", !.live = TRUE]]
  /\ Step(r, [proc[r] EXCEPT !.at = "next"])
  /\ UNCHANGED <<results, items, observed, skuObserved, claim, cache>>

ClaimSku(r) ==
  /\ proc[r].at = "next"
  /\ \/ /\ proc[r].todo = <<>>
        /\ Step(r, Ending(proc[r], "COMPLETED", "SHORTLIST_COMPLETED"))
        /\ UNCHANGED tables
     \/ proc[r].todo # <<>> /\ ~Active(r) /\ Raise(r)
     \/ /\ proc[r].todo # <<>>
        /\ Active(r)
        /\ LET given == [proc[r] EXCEPT !.at = "items", !.held = Fresh(SkuQuery)[Of(r)].answer]
           IN  ClaimIn(Refinements, SkuQuery, r, Of(r), MaxSkuCalls, given)
        /\ UNCHANGED <<results, items, observed, skuObserved>>

\* record_item, for the product at the head of the shortlist of an active run.
RecordItem(r, answer, origin) ==
  LET p == Head(proc[r].todo)
      snap == answer.match = "MATCHED" /\ origin = "LIVE"
  IN  /\ Active(r)
      /\ items' = [items EXCEPT ![r][p] =
                     [origin |-> origin, match |-> answer.match,
                      price |-> answer.price, class |-> "none"]]
      /\ run' = [run EXCEPT ![r].listed = @ + 1, ![r].snaps = @ + (IF snap THEN 1 ELSE 0)]
      /\ skuObserved' = IF snap THEN [skuObserved EXCEPT ![r][p] = Append(@, answer.price)]
                                ELSE skuObserved
      /\ Step(r, [proc[r] EXCEPT !.at = "next", !.todo = Tail(@), !.held = None])
      /\ UNCHANGED <<results, observed>>

SkuAnswered(r) ==
  /\ proc[r].at = "call"
  /\ \/ /\ HoldsClaim(r, Of(r))
        /\ cache[Of(r)] = None
        /\ \E alternatives \in Skus[Head(proc[r].todo)] :
             /\ RecordItem(r, Matched(alternatives), "LIVE")
             /\ cache' = [cache EXCEPT ![Of(r)] = [answer |-> alternatives, fresh |-> TRUE]]
        /\ claim' = Released(r, Of(r))
     \/ ~(HoldsClaim(r, Of(r)) /\ cache[Of(r)] = None /\ Active(r)) /\ Raise(r)

\* An error that concerns this product only: an item that asks for review.
SkuItemRefused(r) ==
  /\ proc[r].at = "call"
  /\ \/ /\ RecordItem(r, Refused, "LIVE")
        /\ claim' = Released(r, Of(r))
        /\ UNCHANGED cache
     \/ ~Active(r) /\ Raise(r)

SkuKept(r) ==
  /\ proc[r].at = "items"
  /\ \/ RecordItem(r, Matched(proc[r].held), "CACHE") /\ UNCHANGED <<claim, cache>>
     \/ ~Active(r) /\ Raise(r)

\* _finish: a completed refinement is ranked in the transaction that ends it.
RankedItems(r) ==
  [p \in Products |->
     IF items[r][p] # None /\ items[r][p].match = "MATCHED"
     THEN [items[r][p] EXCEPT !.class = RankSku(r, p, items[r][p].price)]
     ELSE items[r][p]]

FinishSku(r) ==
  /\ proc[r].at = "settle"
  /\ \/ /\ MayFinish(r)
        /\ items' = IF proc[r].end[1] = "COMPLETED"
                    THEN [items EXCEPT ![r] = RankedItems(r)] ELSE items
        /\ run' = [run EXCEPT ![r] = Closed(@, proc[r].end[1], proc[r].end[2])]
        /\ Step(r, [Idle EXCEPT !.at = "ended", !.got = proc[r].got])
        /\ UNCHANGED <<results, observed, skuObserved, claim, cache>>
     \/ ~MayFinish(r) /\ Raise(r)

-----------------------------------------------------------------------------
\* Time and crashes.

LeaseExpires(r) ==
  /\ Active(r)
  /\ run[r].live
  /\ run' = [run EXCEPT ![r].live = FALSE]
  /\ UNCHANGED <<results, items, observed, skuObserved, claim, cache, proc>>

\* 60 minutes for a page, 15 for the SKUs of a product.
AnswerExpires(q) ==
  /\ cache[q] # None
  /\ cache[q].fresh
  /\ cache' = [cache EXCEPT ![q].fresh = FALSE]
  /\ UNCHANGED <<run, results, items, observed, skuObserved, claim, proc>>

\* The process ends, or an exception nobody handles leaves the scan.
Crash(r) ==
  /\ proc[r].at \in {"next", "call", "items", "settle"}
  /\ Raise(r)

ScanStep(r) ==
  \/ Scan(r)
  \/ ClaimQuery(r)
  \/ \E pg \in Pages : PageAnswered(r, pg)
  \/ Fails(r, At(r))
  \/ RecordKept(r)
  \/ Finish(r)

RefineStep(r) ==
  \/ \E o \in Scans : ReadShortlist(r, o)
  \/ Refine(r)
  \/ ClaimSku(r)
  \/ SkuAnswered(r)
  \/ SkuItemRefused(r)
  \/ proc[r].at = "call" /\ Fails(r, Of(r))
  \/ SkuKept(r)
  \/ FinishSku(r)

Next ==
  \/ \E r \in Scans : ScanStep(r)
  \/ \E r \in Refinements : RefineStep(r)
  \/ \E r \in Runs : LeaseExpires(r) \/ Crash(r)
  \/ \E q \in Query : AnswerExpires(q)

Spec == Init /\ [][Next]_vars

-----------------------------------------------------------------------------
\* The variables stay in their types and the calls in their budgets.
TypeOK ==
  /\ \A r \in Runs : /\ run[r] \in RunRow
                     /\ run[r].calls <= (IF r \in Scans THEN MaxCalls ELSE MaxSkuCalls)
                     /\ run[r].live => Active(r)
                     /\ proc[r].at \in {"idle", "chosen", "next", "call", "items", "settle",
                                         "ended"}
  /\ \A r \in Scans, p \in Products : results[r][p] \in Result \cup {None}
  /\ \A r \in Refinements, p \in Products : items[r][p] \in Item \cup {None}
  /\ claim \in [Query -> Runs \cup {None}]

\* Each query is with one caller at most: it has no kept answer while it is
\* claimed, and a claim belongs to a run that is still open.
ClaimsAreCurrent ==
  \A q \in Query : claim[q] # None => cache[q] = None /\ Active(claim[q])

\* A run observed a price of a product once, when the provider answered and
\* not when an answer was read again, so that the history other runs judge
\* by holds one vote of each run.
OnePricePerRun ==
  /\ \A r \in Scans, p \in Products :
       LET row == results[r][p]
       IN  observed[r][p] = IF row # None /\ row.origin = "LIVE" /\ row.price > 0
                            THEN <<row.price>> ELSE <<>>
  /\ \A r \in Refinements, p \in Products :
       LET row == items[r][p]
       IN  skuObserved[r][p] = IF row # None /\ row.origin = "LIVE" /\ row.match = "MATCHED"
                               THEN <<row.price>> ELSE <<>>

\* A completed run is whole: its counters are those of its rows, it lists
\* every product it was given unless it says which limit it met, and what
\* it matched is ranked.
CompletedRunIsWhole ==
  /\ \A r \in Scans : run[r].state = "COMPLETED" =>
       /\ run[r].listed = Cardinality(Listed(results, r))
       /\ run[r].snaps = Cardinality({p \in Products : observed[r][p] # <<>>})
       /\ run[r].reason = "MAX_RESULTS" => run[r].listed = MaxResults
       /\ run[r].reason = "MAX_API_CALLS" => run[r].calls = MaxCalls
       /\ run[r].reason # "MAX_RESULTS" => Listed(results, r) = proc[r].got
  /\ \A r \in Refinements : run[r].state = "COMPLETED" =>
       /\ run[r].listed = Cardinality(Listed(items, r))
       /\ run[r].snaps = Cardinality({p \in Products : skuObserved[r][p] # <<>>})
       /\ run[r].reason = "SHORTLIST_COMPLETED" => Listed(items, r) = proc[r].got
       /\ \A p \in Listed(items, r) :
            (items[r][p].match = "MATCHED") = (items[r][p].class # "none")

\* What runs leave in the tables agrees, whoever took part and whenever a
\* process ended.
RunsAgree == ClaimsAreCurrent /\ OnePricePerRun /\ CompletedRunIsWhole

\* The end a run was given stays, by whoever it was given: a scan that was
\* given up for lost does not complete, and what a completed scan lists,
\* which refinements choose from, no late transaction changes.
SettledRunsStay ==
  [][/\ \A r \in Runs : run[r].state \notin {"none", "RUNNING"} =>
          run'[r].state = run[r].state /\ run'[r].reason = run[r].reason
     /\ \A r \in Scans : run[r].state = "COMPLETED" =>
          /\ run'[r] = run[r]
          /\ results'[r] = results[r]
          /\ observed'[r] = observed[r]
     /\ \A r \in Refinements : run[r].state \notin {"none", "RUNNING"} =>
          /\ items'[r] = items[r]
          /\ skuObserved'[r] = skuObserved[r]]_vars
=============================================================================
