--------------------------- MODULE MC_DurableRelay ---------------------------
(* Instances of DurableRelay for TLC. *)
EXTENDS DurableRelay

OneLinkEach == [m \in Messages |-> 1]
=============================================================================
