------------------------------ MODULE MCFunction ------------------------------
(* The instance of Function for TLC: the program "RETURN 10 / a" called with   *)
(* a = 0 (no result: division by zero) and a = 1 (the result ten).          *)
EXTENDS Function, TLC

CONSTANTS t1, t2, t3,   \* threads
          zero, one,    \* arguments
          ten           \* a result

MCThreads2 == {t1, t2}
MCThreads == {t1, t2, t3}
MCArgs == {zero, one}
MCResults == {ten, Nullopt}
MCEvaluate == [a \in MCArgs |-> IF a = zero THEN Nullopt ELSE ten]

Symmetry == Permutations(MCThreads)

===============================================================================
