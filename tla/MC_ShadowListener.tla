-------------------------- MODULE MC_ShadowListener --------------------------
(* Three events: two of one message, one of another.                        *)
EXTENDS ShadowListener

CONSTANTS e1, e2, e3, c, p

Origin == [e \in {e1, e2, e3} |-> IF e = e3 THEN p ELSE c]
=============================================================================
