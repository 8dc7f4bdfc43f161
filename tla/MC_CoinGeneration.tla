-------------------------- MODULE MC_CoinGeneration --------------------------
(* Two messages: one with a single short, one with two shorts.              *)
EXTENDS CoinGeneration

CONSTANTS a, b, one, both

ShortsOf == [m \in {one, both} |-> IF m = one THEN {a} ELSE {a, b}]
=============================================================================
