--------------------------- MODULE MC_LinkGeneration ---------------------------
(* Instances of LinkGeneration for TLC. *)
EXTENDS LinkGeneration

\* A message links to one candidate, or to both.
OneOrBoth == SUBSET Candidates \ {{}}
=============================================================================
