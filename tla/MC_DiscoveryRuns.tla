------------------------- MODULE MC_DiscoveryRuns -------------------------
EXTENDS DiscoveryRuns, TLC

MCSymmetry == Permutations(Scans) \cup Permutations(Refinements)

MCEarlierPrices == [r \in Earlier |-> [p \in Products |-> 10]]

Offer(p, price, off) == [product |-> p, price |-> price, discount |-> off]

\* One SKU of product 1 meets the requirements, two of product 2 do.
MCSkus == <<{<<5>>}, {<<6, 7>>}>>

\* A full page with products rejected, a full page that has the product at
\* another price and one without a price in BRL, and a short page.
MCPages ==
  {[items |-> <<Offer(1, 5, 20)>>, rejected |-> 2],
   [items |-> <<Offer(1, 10, 0), Offer(2, 0, 40)>>, rejected |-> 1],
   [items |-> <<Offer(2, 0, 40), Offer(1, 10, 0)>>, rejected |-> 0]}
=============================================================================
