----------------------------- MODULE MCExecution -----------------------------
(* Every function over at most three names, two values and two statements. *)
EXTENDS Execution, TLC

CONSTANTS a, b, c   \* identifiers

MCNames == {a, b, c}
MCValues == {0, 1}

Symmetry == Permutations(MCNames)
===============================================================================
