----------------------------- MODULE MC_RelayLinks -----------------------------
(* Three messages: one with an old link; one with two links, the first of them *)
(* twice; one with a short link to the product of the old one, a link to no    *)
(* store, and a link to a product of the second message.                       *)
EXTENDS RelayLinks

CONSTANTS m1, m2, m3, a, b, c, d, e, f, plain, variant, other

MCLinksOf == [m \in {m1, m2, m3} |-> CASE m = m1 -> <<a>>
                                       [] m = m2 -> <<b, c, b>>
                                       [] m = m3 -> <<d, e, f>>]

MCItemOf == [l \in {a, b, c, d, e, f} |-> CASE l \in {a, b, d} -> variant
                                            [] l \in {c, f} -> other
                                            [] l = e -> NoItem]

MCBare == [i \in {plain, variant, other} |-> IF i = variant THEN plain ELSE i]
=============================================================================
