-------------------------------- MODULE MCPljit --------------------------------
(***************************************************************************)
(* The instance of Pljit for TLC: two functions, so that the vector moves  *)
(* while the first, "RETURN 10 / a" as in MCFunction, is compiled and      *)
(* called.                                                                 *)
(***************************************************************************)
EXTENDS Pljit, TLC

CONSTANTS t1, t2, t3, zero, one, ten

MCThreads == {t1, t2, t3}
MCArgs == {zero, one}
MCResults == {ten, Nullopt}
MCEvaluate == [a \in MCArgs |-> IF a = zero THEN Nullopt ELSE ten]

Symmetry == Permutations(MCThreads)
===============================================================================
