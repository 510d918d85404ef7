---------------------------- MODULE OptimizerProofs ----------------------------
(***************************************************************************)
(* Theorems about the optimisation passes, for every width of the          *)
(* machine's integers, every height of the expressions, any functions that *)
(* semantic analysis accepts, and any number of passes in any order.       *)
(*                                                                         *)
(* What the passes are built from is recursive functions over expressions. *)
(* Induction is over sets: a set that holds an expression as soon as it    *)
(* holds its operands holds all (ExpressionInduction), and a function that *)
(* is defined from its values for the operands exists (StructuralRecursion).*)
(* The passes' work on one expression is proved correct that way           *)
(* (RemovePlusCorrect, PropagatedCorrect), and so is what a call does with *)
(* the statements (ExecutionAgrees, ExecutionEnds).  The invariant Inv     *)
(* then carries it through the loops, one lemma per action.                *)
(***************************************************************************)
EXTENDS Optimizer, FiniteSetTheorems, TLAPS

-----------------------------------------------------------------------------
(* Induction and recursion. *)

(* Induction over the naturals, for a set in place of a predicate: of the  *)
(* naturals outside of P there would be a least one.                       *)
LEMMA NatSetInduction ==
    ASSUME NEW P, 0 \in P, \A n \in Nat : n \in P => n + 1 \in P
    PROVE  Nat \subseteq P
<1> DEFINE T == {n \in Nat : n \notin P}
           Upto == {0 .. n : n \in T}
           R == StrictSubsetOrdering(Nat)
<1>1. SUFFICES ASSUME T # {} PROVE FALSE
  OBVIOUS
<1>2. IsWellFoundedOn(R, FiniteSubsetsOf(Nat))
  BY FS_StrictSubsetOrderingWellFounded
<1>3. Upto \subseteq FiniteSubsetsOf(Nat) /\ Upto # {}
  <2>1. ASSUME NEW n \in T PROVE 0 .. n \in FiniteSubsetsOf(Nat)
    <3>1. n \in Int /\ 0 \in Int /\ 0 .. n \in SUBSET Nat
      OBVIOUS
    <3>2. IsFiniteSet(0 .. n)
      BY <3>1, FS_Interval
    <3> QED BY <3>1, <3>2 DEF FiniteSubsetsOf
  <2> QED BY <1>1, <2>1
<1>4. \E x \in Upto : \A y \in Upto : ~ (<<y, x>> \in R)
  <2> HIDE DEF R, Upto
  <2> QED BY <1>2, <1>3, WFMin
<1>5. PICK x \in T : \A y \in T : ~ (<<0 .. y, 0 .. x>> \in R)
  BY <1>4
<1>6. x - 1 \in Nat /\ x \in Nat
  OBVIOUS
<1>7. <<0 .. (x - 1), 0 .. x>> \in R
  <2>1. 0 .. (x - 1) \subseteq 0 .. x /\ 0 .. (x - 1) # 0 .. x
    BY <1>6
  <2>2. 0 .. (x - 1) \in SUBSET Nat /\ 0 .. x \in SUBSET Nat
    BY <1>6
  <2> QED BY <2>1, <2>2 DEF StrictSubsetOrdering
<1>8. x - 1 \in P
  BY <1>5, <1>6, <1>7
<1>9. QED
  BY <1>6, <1>8

(* The expressions above a set of expressions. *)
Larger(trees) == Literals \cup Identifiers \cup Unaries(trees) \cup Binaries(trees)

(* Trees is a function with the values that its definition gives it. *)
LEMMA TreesEquation ==
    /\ Trees[0] = Literals \cup Identifiers
    /\ \A n \in Nat : Trees[n + 1] = Larger(Trees[n])
<1> DEFINE Leaves == Literals \cup Identifiers
           Good(g, n) == g[0] = Leaves /\ \A i \in 0 .. n - 1 : g[i + 1] = Larger(g[i])
           G(n) == CHOOSE g : Good(g, n)
           f == [n \in Nat |-> G(n)[n]]
           Fix(g) == g = [n \in Nat |-> IF n = 0 THEN Leaves ELSE Larger(g[n - 1])]
<1> HIDE DEF Leaves
<1>1. \A n \in Nat : \E g : Good(g, n)
  <2> DEFINE P == {n \in Nat : \E g : Good(g, n)}
  <2>1. 0 \in P
    <3>1. Good([i \in Nat |-> Leaves], 0)
      OBVIOUS
    <3> QED BY <3>1
  <2>2. ASSUME NEW n \in Nat, n \in P PROVE n + 1 \in P
    <3>1. PICK g : Good(g, n)
      BY <2>2
    <3> DEFINE h == [i \in Nat |-> IF i = n + 1 THEN Larger(g[n]) ELSE g[i]]
    <3>2. h[0] = Leaves
      BY <3>1
    <3>3. ASSUME NEW i \in 0 .. n PROVE h[i + 1] = Larger(h[i])
      <4>1. CASE i = n
        BY <4>1
      <4>2. CASE i # n
        <5>1. i \in 0 .. n - 1 /\ i + 1 # n + 1 /\ i # n + 1
          BY <4>2
        <5> QED BY <5>1, <3>1
      <4> QED BY <4>1, <4>2
    <3>4. Good(h, n + 1)
      BY <3>2, <3>3
    <3> HIDE DEF h, Good
    <3>5. \E g0 : Good(g0, n + 1)
      BY <3>4
    <3> QED BY <3>5
  <2> HIDE DEF P
  <2>3. Nat \subseteq P
    BY <2>1, <2>2, NatSetInduction
  <2> QED BY <2>3 DEF P
<1>2. ASSUME NEW m \in Nat, NEW g, NEW h, Good(g, m), Good(h, m)
      PROVE  \A n \in 0 .. m : g[n] = h[n]
  <2> DEFINE P == {n \in Nat : n \leq m => g[n] = h[n]}
  <2>1. 0 \in P
    BY <1>2
  <2>2. ASSUME NEW n \in Nat, n \in P PROVE n + 1 \in P
    BY <1>2, <2>2
  <2> HIDE DEF P
  <2>3. Nat \subseteq P
    BY <2>1, <2>2, NatSetInduction
  <2> QED BY <2>3 DEF P
<1>3. \A n \in Nat : Good(G(n), n)
  BY <1>1
<1> HIDE DEF G
<1>4. f[0] = Leaves
  BY <1>3
<1>5. ASSUME NEW n \in Nat PROVE f[n + 1] = Larger(f[n])
  <2>1. Good(G(n + 1), n + 1) /\ Good(G(n), n)
    BY <1>3
  <2>2. Good(G(n + 1), n)
    BY <2>1
  <2>3. G(n + 1)[n + 1] = Larger(G(n + 1)[n])
    BY <2>1
  <2>4. G(n + 1)[n] = G(n)[n]
    BY <1>2, <2>1, <2>2
  <2> QED BY <2>3, <2>4
<1>6. Fix(f)
  <2>1. ASSUME NEW n \in Nat
        PROVE  f[n] = IF n = 0 THEN Leaves ELSE Larger(f[n - 1])
    <3>1. CASE n = 0
      BY <1>4, <3>1
    <3>2. CASE n # 0
      <4>1. n - 1 \in Nat /\ (n - 1) + 1 = n
        BY <3>2
      <4>2. f[(n - 1) + 1] = Larger(f[n - 1])
        BY <4>1, <1>5
      <4> QED BY <4>1, <4>2, <3>2
    <3> QED BY <3>1, <3>2
  <2> QED BY <2>1
<1>7. Trees = CHOOSE g : Fix(g)
  BY DEF Trees, Larger, Leaves
<1> HIDE DEF f, Fix
<1>8. Fix(Trees)
  BY <1>6, <1>7
<1>9. QED
  BY <1>8 DEF Fix, Leaves

LEMMA LargerMonotone ==
    ASSUME NEW S, NEW T, S \subseteq T
    PROVE  Larger(S) \subseteq Larger(T)
<1>1. Unaries(S) \subseteq Unaries(T)
  BY DEF Unaries
<1>2. Binaries(S) \subseteq Binaries(T)
  BY DEF Binaries
<1>3. QED
  BY <1>1, <1>2 DEF Larger

LEMMA TreesMonotone ==
    ASSUME NEW m \in Nat, NEW n \in 0 .. m
    PROVE  Trees[n] \subseteq Trees[m]
<1> DEFINE P == {k \in Nat : Trees[k] \subseteq Trees[k + 1]}
           Q == {k \in Nat : \A i \in 0 .. k : Trees[i] \subseteq Trees[k]}
<1>1. 0 \in P
  BY TreesEquation DEF Larger
<1>2. ASSUME NEW k \in Nat, k \in P PROVE k + 1 \in P
  <2>1. Trees[k + 1] = Larger(Trees[k]) /\ Trees[(k + 1) + 1] = Larger(Trees[k + 1])
    BY TreesEquation
  <2>2. Trees[k] \subseteq Trees[k + 1]
    BY <1>2
  <2>3. Larger(Trees[k]) \subseteq Larger(Trees[k + 1])
    BY <2>2, LargerMonotone
  <2> QED BY <2>1, <2>3
<1>3. \A k \in Nat : k \in P
  <2> HIDE DEF P
  <2> QED BY <1>1, <1>2, NatSetInduction
<1>4. 0 \in Q
  OBVIOUS
<1>5. ASSUME NEW k \in Nat, k \in Q PROVE k + 1 \in Q
  <2>1. ASSUME NEW i \in 0 .. k + 1 PROVE Trees[i] \subseteq Trees[k + 1]
    <3>1. CASE i = k + 1
      BY <3>1
    <3>2. CASE i # k + 1
      <4>1. i \in 0 .. k
        BY <3>2
      <4> QED BY <4>1, <1>5, <1>3
    <3> QED BY <3>1, <3>2
  <2> QED BY <2>1
<1>6. \A k \in Nat : k \in Q
  <2> HIDE DEF Q
  <2> QED BY <1>4, <1>5, NatSetInduction
<1>7. QED
  BY <1>6

(* The nodes of a level, and what is below them. *)
LEMMA LevelKinds ==
    ASSUME NEW n \in Nat, NEW x \in Trees[n]
    PROVE  \/ x \in Literals
           \/ x \in Identifiers
           \/ n > 0 /\ x \in Unaries(Trees[n - 1])
           \/ n > 0 /\ x \in Binaries(Trees[n - 1])
<1>1. CASE n = 0
  BY <1>1, TreesEquation
<1>2. CASE n # 0
  <2>1. n - 1 \in Nat /\ (n - 1) + 1 = n
    BY <1>2
  <2>2. Trees[n] = Larger(Trees[n - 1])
    BY <2>1, TreesEquation
  <2> QED BY <2>1, <2>2, <1>2 DEF Larger
<1>3. QED
  BY <1>1, <1>2

LEMMA LevelExpressions ==
    ASSUME NEW n \in 0 .. MaxHeight
    PROVE  Trees[n] \subseteq Expressions
BY TreesMonotone, EvaluationAssumption DEF Expressions

LEMMA ExpressionKinds ==
    ASSUME NEW x \in Expressions
    PROVE  \/ x.kind = "Literal" /\ x \in Literals
           \/ x.kind = "Identifier" /\ x \in Identifiers
           \/ x.kind = "Unary" /\ x \in Unaries(Expressions)
           \/ x.kind = "Binary" /\ x \in Binaries(Expressions)
<1>1. x \in Trees[MaxHeight] /\ MaxHeight \in Nat
  BY EvaluationAssumption DEF Expressions
<1>2. CASE x \in Literals
  BY <1>2 DEF Literals
<1>3. CASE x \in Identifiers
  BY <1>3 DEF Identifiers
<1>4. MaxHeight > 0 => Trees[MaxHeight - 1] \subseteq Expressions
  BY <1>1, LevelExpressions
<1>5. CASE MaxHeight > 0 /\ x \in Unaries(Trees[MaxHeight - 1])
  BY <1>4, <1>5 DEF Unaries
<1>6. CASE MaxHeight > 0 /\ x \in Binaries(Trees[MaxHeight - 1])
  BY <1>4, <1>6 DEF Binaries
<1>7. QED
  BY <1>1, <1>2, <1>3, <1>5, <1>6, LevelKinds

LEMMA OperandsByKind ==
    ASSUME NEW x \in Expressions
    PROVE  /\ x.kind \in {"Literal", "Identifier"} => Operands(x) = {}
           /\ x.kind = "Unary" => Operands(x) = {x.input}
           /\ x.kind = "Binary" => Operands(x) = {x.left, x.right}
BY DEF Operands

LEMMA LevelOperands ==
    ASSUME NEW n \in Nat, NEW x \in Trees[n]
    PROVE  \A y \in Operands(x) : n > 0 /\ y \in Trees[n - 1]
<1>1. CASE x \in Literals
  BY <1>1 DEF Literals, Operands
<1>2. CASE x \in Identifiers
  BY <1>2 DEF Identifiers, Operands
<1>3. CASE n > 0 /\ x \in Unaries(Trees[n - 1])
  BY <1>3 DEF Unaries, Operands
<1>4. CASE n > 0 /\ x \in Binaries(Trees[n - 1])
  BY <1>4 DEF Binaries, Operands
<1>5. QED
  BY <1>1, <1>2, <1>3, <1>4, LevelKinds

LEMMA OperandsAreExpressions ==
    ASSUME NEW x \in Expressions
    PROVE  Operands(x) \subseteq Expressions
<1>1. x \in Trees[MaxHeight] /\ MaxHeight \in Nat
  BY EvaluationAssumption DEF Expressions
<1>2. MaxHeight > 0 => Trees[MaxHeight - 1] \subseteq Expressions
  BY <1>1, LevelExpressions
<1>3. QED
  BY <1>1, <1>2, LevelOperands

(* Structural induction: what holds of an expression as soon as it holds   *)
(* of its operands holds of all.                                           *)
LEMMA ExpressionInduction ==
    ASSUME NEW P,
           \A x \in Expressions : Operands(x) \subseteq P => x \in P
    PROVE  Expressions \subseteq P
<1> DEFINE Q == {n \in Nat : n \leq MaxHeight => Trees[n] \subseteq P}
<1>1. MaxHeight \in Nat
  BY EvaluationAssumption
<1>2. ASSUME NEW n \in 0 .. MaxHeight, NEW x \in Trees[n],
             n > 0 => Trees[n - 1] \subseteq P
      PROVE  x \in P
  <2>1. x \in Expressions
    BY <1>1, LevelExpressions
  <2>2. Operands(x) \subseteq P
    BY <1>1, <1>2, LevelOperands
  <2> QED BY <2>1, <2>2
<1>3. 0 \in Q
  BY <1>1, <1>2
<1>4. ASSUME NEW n \in Nat, n \in Q PROVE n + 1 \in Q
  <2>1. SUFFICES ASSUME n + 1 \leq MaxHeight PROVE Trees[n + 1] \subseteq P
    OBVIOUS
  <2>2. n + 1 \in 0 .. MaxHeight /\ (n + 1) - 1 = n /\ n \leq MaxHeight
    BY <1>1, <2>1
  <2>3. Trees[n] \subseteq P
    BY <2>2, <1>4
  <2> QED BY <2>2, <2>3, <1>2
<1>5. Nat \subseteq Q
  <2> HIDE DEF Q
  <2> QED BY <1>3, <1>4, NatSetInduction
<1>6. QED
  BY <1>1, <1>5 DEF Expressions

(* Structural recursion: there is a function f with f[x] = D[<<x, f>>] if  *)
(* D looks only at the values of f for the operands of x.  The values of   *)
(* an expression are in the set W of that expression.                      *)
Recursion(V, W, D) ==
    /\ V # {}
    /\ \A x \in Expressions : W[x] \subseteq V
    /\ \A x \in Expressions, g \in [Expressions -> V] :
          (\A y \in Operands(x) : g[y] \in W[y]) => D[<<x, g>>] \in W[x]
    /\ \A x \in Expressions, g, h \in [Expressions -> V] :
          (\A y \in Operands(x) : g[y] = h[y]) => D[<<x, g>>] = D[<<x, h>>]

Solvable(V, W, D) ==
    \E f \in [Expressions -> V] :
        \A x \in Expressions : f[x] \in W[x] /\ f[x] = D[<<x, f>>]

LEMMA StructuralRecursion ==
    ASSUME NEW V, NEW W, NEW D, Recursion(V, W, D)
    PROVE  Solvable(V, W, D)
<1> USE DEF Recursion, Solvable
<1> DEFINE Solves(f, x) == f[x] \in W[x] /\ f[x] = D[<<x, f>>]
           P == {n \in Nat : n \leq MaxHeight =>
                    \E f \in [Expressions -> V] : \A x \in Trees[n] : Solves(f, x)}
           Improved(f) == [x \in Expressions |->
                              IF D[<<x, f>>] \in V THEN D[<<x, f>>]
                              ELSE CHOOSE v \in V : TRUE]
<1>1. MaxHeight \in Nat
  BY EvaluationAssumption
<1>2. ASSUME NEW f \in [Expressions -> V] PROVE Improved(f) \in [Expressions -> V]
  OBVIOUS
<1>3. ASSUME NEW f \in [Expressions -> V], NEW x \in Expressions,
             \A y \in Operands(x) : Solves(f, y)
      PROVE  Solves(Improved(f), x)
  <2>1. Operands(x) \subseteq Expressions
    BY OperandsAreExpressions
  <2>2. Improved(f)[x] = D[<<x, f>>] /\ D[<<x, f>>] \in W[x]
    BY <1>3
  <2>3. ASSUME NEW y \in Operands(x) PROVE Improved(f)[y] = f[y]
    BY <2>1, <1>3
  <2>4. D[<<x, Improved(f)>>] = D[<<x, f>>]
    <3> DEFINE h == Improved(f)
    <3>1. h \in [Expressions -> V] /\ \A y \in Operands(x) : h[y] = f[y]
      BY <1>2, <2>3
    <3> HIDE DEF h
    <3>2. D[<<x, h>>] = D[<<x, f>>]
      BY <3>1
    <3> QED BY <3>2 DEF h
  <2> QED BY <2>2, <2>4
<1> HIDE DEF Improved, Solves
<1>4. 0 \in P
  <2> DEFINE f == [x \in Expressions |-> CHOOSE v \in V : TRUE]
  <2>1. f \in [Expressions -> V]
    OBVIOUS
  <2> HIDE DEF f
  <2>2. ASSUME NEW x \in Trees[0] PROVE Solves(Improved(f), x)
    <3>1. x \in Expressions
      BY <1>1, LevelExpressions
    <3>2. Operands(x) = {}
      BY LevelOperands
    <3> QED BY <3>1, <3>2, <2>1, <1>3
  <2>3. Improved(f) \in [Expressions -> V]
    BY <2>1, <1>2
  <2> QED BY <2>2, <2>3
<1>5. ASSUME NEW n \in Nat, n \in P PROVE n + 1 \in P
  <2>1. SUFFICES ASSUME n + 1 \leq MaxHeight
                 PROVE  \E f \in [Expressions -> V] : \A x \in Trees[n + 1] : Solves(f, x)
    OBVIOUS
  <2>2. n \leq MaxHeight /\ n + 1 \in 0 .. MaxHeight /\ (n + 1) - 1 = n
    BY <1>1, <2>1
  <2>3. PICK f \in [Expressions -> V] : \A x \in Trees[n] : Solves(f, x)
    BY <2>2, <1>5
  <2>4. ASSUME NEW x \in Trees[n + 1] PROVE Solves(Improved(f), x)
    <3>1. x \in Expressions
      BY <2>2, LevelExpressions
    <3>2. \A y \in Operands(x) : y \in Trees[n]
      BY <2>2, LevelOperands
    <3> QED BY <3>1, <3>2, <2>3, <1>3
  <2>5. Improved(f) \in [Expressions -> V]
    BY <1>2
  <2> QED BY <2>4, <2>5
<1>6. Nat \subseteq P
  <2> HIDE DEF P
  <2> QED BY <1>4, <1>5, NatSetInduction
<1>7. QED
  BY <1>1, <1>6 DEF Expressions, Solves

-----------------------------------------------------------------------------
(* Values. *)

Results == Ints \cup Failures

LEMMA Integers_ ==
    /\ Ints \subseteq Int
    /\ 0 \in Ints
    /\ Ints \cap Failures = {}
    /\ NoValue # Trap
BY EvaluationAssumption DEF Ints, MinInt, Failures

LEMMA WrapType ==
    ASSUME NEW i \in Int
    PROVE  Wrap(i) \in Ints
<1>1. 2 * (MaxInt + 1) \in Nat \ {0} /\ MaxInt \in Nat
  BY EvaluationAssumption
<1>2. \A a \in Int, b \in Nat \ {0} : a % b \in 0 .. b - 1
  OBVIOUS
<1>3. i - MinInt \in Int
  BY <1>1 DEF MinInt
<1>4. (i - MinInt) % (2 * (MaxInt + 1)) \in 0 .. (2 * (MaxInt + 1)) - 1
  BY <1>1, <1>2, <1>3
<1>5. QED
  BY <1>4, <1>1 DEF Wrap, Ints, MinInt

(* Only MinInt by -1 has a quotient that is no integer of the machine. *)
LEMMA QuotientType ==
    ASSUME NEW l \in Ints, NEW r \in Ints, r # 0, ~ (l = MinInt /\ r = -1)
    PROVE  Quotient(l, r) \in Ints
<1> DEFINE a == Abs(l)
           b == Abs(r)
           q == a \div b
<1>1. MaxInt \in Nat
  BY EvaluationAssumption
<1>2. a \in 0 .. MaxInt + 1 /\ b \in Nat \ {0}
  BY <1>1 DEF Abs, Ints, MinInt
<1>3. /\ a = MaxInt + 1 => l = MinInt
      /\ b = 1 => r \in {1, -1}
  BY <1>1 DEF Abs, Ints, MinInt
<1>4. q \in Nat /\ q \leq a
  <2> HIDE DEF a, b
  <2> QED BY <1>2
<1>5. a # 0 /\ b # 1 => q < a
  <2> HIDE DEF a, b
  <2> QED BY <1>2
<1>6. Quotient(l, r) = IF (l < 0) = (r < 0) THEN q ELSE -q
  BY DEF Quotient
<1> HIDE DEF q, a, b
<1>7. CASE q \leq MaxInt
  BY <1>1, <1>4, <1>6, <1>7 DEF Ints, MinInt
<1>8. CASE q = MaxInt + 1
  <2>1. a = MaxInt + 1 /\ a # 0 /\ b = 1
    BY <1>1, <1>2, <1>4, <1>5, <1>8
  <2>2. l = MinInt /\ r = 1
    BY <2>1, <1>3
  <2>3. l < 0 /\ ~ (r < 0)
    BY <2>2, <1>1 DEF MinInt
  <2>4. Quotient(l, r) = -q
    BY <2>3, <1>6
  <2> QED BY <2>4, <1>8, <1>1 DEF Ints, MinInt
<1>9. QED
  BY <1>1, <1>2, <1>4, <1>7, <1>8

LEMMA ApplyType ==
    ASSUME NEW l \in Ints, NEW operation \in Operators, NEW r \in Ints
    PROVE  Apply(l, operation, r) \in Results
<1>1. l \in Int /\ r \in Int /\ 0 \in Int
  BY Integers_
<1>2. CASE operation = "PLUS"
  BY <1>1, <1>2, WrapType DEF Apply, Results
<1>3. CASE operation = "MINUS"
  BY <1>1, <1>3, WrapType DEF Apply, Results
<1>4. CASE operation = "MULTIPLY"
  <2>1. l * r \in Int
    BY <1>1
  <2> QED BY <2>1, <1>4, WrapType DEF Apply, Results
<1>5. CASE operation = "DIVIDE"
  <2>1. Apply(l, operation, r) = Divide(l, r)
    BY <1>5 DEF Apply
  <2>2. Divide(l, r) \in Results
    BY QuotientType DEF Divide, Results, Failures
  <2> QED BY <2>1, <2>2
<1>6. QED
  BY <1>2, <1>3, <1>4, <1>5 DEF Operators

LEMMA UnaryType ==
    ASSUME NEW value \in Results, NEW operation
    PROVE  UnaryValue(operation, value) \in Results
<1>1. value \in Ints => Wrap(-value) \in Ints
  <2>1. value \in Ints => -value \in Int
    BY Integers_
  <2> QED BY <2>1, WrapType
<1>2. QED
  BY <1>1 DEF UnaryValue, Results

LEMMA BinaryType ==
    ASSUME NEW l \in Results, NEW operation \in Operators, NEW r \in Results
    PROVE  BinaryValue(l, operation, r) \in Results
BY ApplyType DEF BinaryValue, Results

-----------------------------------------------------------------------------
(* Evaluation. *)

Valued(x, e, context) ==
    CASE x.kind = "Literal"    -> x.value
      [] x.kind = "Identifier" -> context[x.symbol]
      [] x.kind = "Unary"      -> UnaryValue(x.operation, e[x.input][context])
      [] OTHER                 ->
            BinaryValue(e[x.left][context], x.operation, e[x.right][context])

LEMMA EvaluateEquation ==
    \A x \in Expressions :
        /\ Evaluate[x] \in [Contexts -> Results]
        /\ Evaluate[x] = [context \in Contexts |-> Valued(x, Evaluate, context)]
<1> DEFINE V == [Contexts -> Results]
           Row(x, g) == [context \in Contexts |-> Valued(x, g, context)]
           W == [x \in Expressions |-> V]
           Pairs == Expressions \X [Expressions -> V]
           D == [p \in Pairs |-> Row(p[1], p[2])]
           Fix(g) == g = [x \in Expressions |-> Row(x, g)]
<1>1. ASSUME NEW x \in Expressions, NEW g, \A y \in Operands(x) : g[y] \in V
      PROVE  Row(x, g) \in V
  <2>1. SUFFICES ASSUME NEW context \in Contexts PROVE Valued(x, g, context) \in Results
    OBVIOUS
  <2>2. \A y \in Operands(x) : g[y][context] \in Results
    BY <1>1
  <2>3. CASE x.kind = "Literal" /\ x \in Literals
    BY <2>3 DEF Valued, Literals, Results
  <2>4. CASE x.kind = "Identifier" /\ x \in Identifiers
    BY <2>4 DEF Valued, Identifiers, Results, Contexts
  <2>5. CASE x.kind = "Unary" /\ x \in Unaries(Expressions)
    <3>1. x.input \in Operands(x)
      BY <2>5, OperandsByKind
    <3>2. Valued(x, g, context) = UnaryValue(x.operation, g[x.input][context])
      BY <2>5 DEF Valued
    <3> QED BY <3>1, <3>2, <2>2, UnaryType
  <2>6. CASE x.kind = "Binary" /\ x \in Binaries(Expressions)
    <3>1. x.left \in Operands(x) /\ x.right \in Operands(x) /\ x.operation \in Operators
      BY <2>6, OperandsByKind DEF Binaries
    <3>2. Valued(x, g, context)
            = BinaryValue(g[x.left][context], x.operation, g[x.right][context])
      BY <2>6 DEF Valued
    <3> QED BY <3>1, <3>2, <2>2, BinaryType
  <2>7. QED
    BY <2>3, <2>4, <2>5, <2>6, ExpressionKinds
<1>2. ASSUME NEW x \in Expressions, NEW g, NEW h, \A y \in Operands(x) : g[y] = h[y]
      PROVE  Row(x, g) = Row(x, h)
  <2>1. SUFFICES ASSUME NEW context \in Contexts
                 PROVE  Valued(x, g, context) = Valued(x, h, context)
    OBVIOUS
  <2>2. CASE x.kind = "Literal"
    BY <2>2 DEF Valued
  <2>3. CASE x.kind = "Identifier"
    BY <2>3 DEF Valued
  <2>4. CASE x.kind = "Unary"
    BY <2>4, <1>2, OperandsByKind DEF Valued
  <2>5. CASE x.kind = "Binary"
    BY <2>5, <1>2, OperandsByKind DEF Valued
  <2>6. QED
    BY <2>2, <2>3, <2>4, <2>5, ExpressionKinds
<1>3. V # {}
  <2>1. [context \in Contexts |-> NoValue] \in V
    BY DEF Results, Failures
  <2> QED BY <2>1
<1>4. \A x \in Expressions : W[x] \subseteq V /\ W[x] = V
  OBVIOUS
<1>5. \A x \in Expressions, g \in [Expressions -> V] : D[<<x, g>>] = Row(x, g)
  OBVIOUS
<1> HIDE DEF V, W, D, Row
<1>6. Recursion(V, W, D)
  <2>1. \A x \in Expressions : W[x] \subseteq V
    BY <1>4
  <2>2. \A x \in Expressions, g \in [Expressions -> V] :
            (\A y \in Operands(x) : g[y] \in W[y]) => D[<<x, g>>] \in W[x]
    BY <1>1, <1>4, <1>5, OperandsAreExpressions
  <2>3. \A x \in Expressions, g, h \in [Expressions -> V] :
            (\A y \in Operands(x) : g[y] = h[y]) => D[<<x, g>>] = D[<<x, h>>]
    <3>1. \A x \in Expressions, g, h \in [Expressions -> V] :
            (\A y \in Operands(x) : g[y] = h[y]) => Row(x, g) = Row(x, h)
      BY <1>2
    <3> QED BY <3>1, <1>5
  <2> QED BY <2>1, <2>2, <2>3, <1>3 DEF Recursion
<1>7. PICK f \in [Expressions -> V] : \A x \in Expressions : f[x] = Row(x, f)
  <2>1. Solvable(V, W, D)
    BY <1>6, StructuralRecursion
  <2> QED BY <2>1, <1>5 DEF Solvable
<1>8. Fix(f)
  BY <1>7
<1>9. Evaluate = CHOOSE g : Fix(g)
  BY DEF Evaluate, Row, Valued
<1> HIDE DEF Fix
<1>10. Fix(Evaluate)
  BY <1>8, <1>9
<1> USE DEF Fix
<1>11. Evaluate = [x \in Expressions |-> Row(x, Evaluate)]
  BY <1>10
<1>12. \A x \in Expressions : Evaluate[x] = Row(x, Evaluate)
  BY <1>11
<1>13. \A x \in Expressions : Evaluate[x] \in V
  <2> DEFINE P == {x \in Expressions : Evaluate[x] \in V}
  <2>1. \A x \in Expressions : Operands(x) \subseteq P => x \in P
    BY <1>1, <1>12
  <2> HIDE DEF P
  <2>2. Expressions \subseteq P
    BY <2>1, ExpressionInduction
  <2> QED BY <2>2 DEF P
<1>14. QED
  BY <1>12, <1>13 DEF Row, V

LEMMA EvaluateByKind ==
    ASSUME NEW x \in Expressions, NEW context \in Contexts
    PROVE  /\ Evaluate[x][context] \in Results
           /\ x.kind = "Literal" => Evaluate[x][context] = x.value
           /\ x.kind = "Identifier" => Evaluate[x][context] = context[x.symbol]
           /\ x.kind = "Unary" =>
                Evaluate[x][context] = UnaryValue(x.operation, Evaluate[x.input][context])
           /\ x.kind = "Binary" =>
                Evaluate[x][context]
                    = BinaryValue(Evaluate[x.left][context], x.operation,
                                  Evaluate[x.right][context])
<1>1. Evaluate[x] \in [Contexts -> Results]
  BY EvaluateEquation
<1>2. Evaluate[x][context] = Valued(x, Evaluate, context)
  BY EvaluateEquation
<1>3. QED
  BY <1>1, <1>2 DEF Valued

-----------------------------------------------------------------------------
(* A call. *)

RunStates == [context : Contexts, reached : Nat, ended : BOOLEAN, result : Results]

LEMMA StatementFields ==
    ASSUME NEW s \in StatementNodes
    PROVE  /\ s.value \in Expressions
           /\ \/ s.type = "Assignment" /\ s.target \in Handles
              \/ s.type = "ReturnStatement" /\ s.target = 0
           /\ s = [type |-> s.type, target |-> s.target, value |-> s.value]
BY DEF StatementNodes

LEMMA ExecutedType ==
    ASSUME NEW run \in RunStates, NEW i \in Nat, NEW s \in StatementNodes
    PROVE  Executed(run, i, s) \in RunStates
<1> DEFINE value == Evaluate[s.value][run.context]
           ended == [context |-> run.context, reached |-> i, ended |-> TRUE, result |-> value]
           assigned == [context |-> [run.context EXCEPT ![s.target] = value],
                        reached |-> i, ended |-> FALSE, result |-> NoValue]
<1>1. run.context \in Contexts
  BY DEF RunStates
<1>2. value \in Results
  BY <1>1, StatementFields, EvaluateByKind
<1>3. ended \in RunStates
  <2> HIDE DEF value
  <2> QED BY <1>1, <1>2 DEF RunStates
<1>4. value \notin Failures => assigned \in RunStates
  <2> HIDE DEF value
  <2>1. value \notin Failures => [run.context EXCEPT ![s.target] = value] \in Contexts
    BY <1>1, <1>2 DEF Results, Contexts
  <2>2. NoValue \in Results
    BY DEF Results, Failures
  <2> QED BY <2>1, <2>2 DEF RunStates
<1>5. Executed(run, i, s) = IF run.ended THEN run
                            ELSE IF value \in Failures \/ s.type = "ReturnStatement"
                            THEN ended ELSE assigned
  BY DEF Executed
<1>6. QED
  <2> HIDE DEF value, ended, assigned
  <2> QED BY <1>3, <1>4, <1>5

LEMMA ExecutionEquation ==
    ASSUME NEW ss \in Seq(StatementNodes), NEW context \in Contexts
    PROVE  /\ Execution(ss, context)[0] = Started(context)
           /\ \A i \in 1 .. Len(ss) :
                Execution(ss, context)[i] = Executed(Execution(ss, context)[i - 1], i, ss[i])
           /\ \A i \in 0 .. Len(ss) : Execution(ss, context)[i] \in RunStates
<1> DEFINE n == Len(ss)
           E(f, i) == Executed(f[i - 1], i, ss[i])
           Upto(f, k) == f[0] = Started(context) /\ \A i \in 1 .. k : f[i] = E(f, i)
           P == {k \in Nat : k \leq n => \E f \in [0 .. n -> RunStates] : Upto(f, k)}
           Fix(g) == g = [i \in 0 .. n |-> IF i = 0 THEN Started(context) ELSE E(g, i)]
<1>1. n \in Nat /\ \A i \in 1 .. n : ss[i] \in StatementNodes
  OBVIOUS
<1>2. Started(context) \in RunStates
  BY DEF Started, RunStates, Results, Failures
<1>3. 0 \in P
  <2> DEFINE f == [i \in 0 .. n |-> Started(context)]
  <2>1. f \in [0 .. n -> RunStates]
    BY <1>2
  <2>2. Upto(f, 0)
    BY <1>1
  <2> HIDE DEF f, Upto
  <2>3. \E g \in [0 .. n -> RunStates] : Upto(g, 0)
    BY <2>1, <2>2
  <2> QED BY <2>3
<1>4. ASSUME NEW k \in Nat, k \in P PROVE k + 1 \in P
  <2>1. SUFFICES ASSUME k + 1 \leq n
                 PROVE  \E f \in [0 .. n -> RunStates] : Upto(f, k + 1)
    OBVIOUS
  <2>2. PICK f \in [0 .. n -> RunStates] : Upto(f, k)
    BY <1>1, <1>4, <2>1
  <2> DEFINE g == [f EXCEPT ![k + 1] = E(f, k + 1)]
  <2>3. f[k] \in RunStates /\ k + 1 \in 0 .. n /\ ss[k + 1] \in StatementNodes
    BY <1>1, <2>1
  <2>4. E(f, k + 1) \in RunStates
    <3>1. (k + 1) - 1 = k
      OBVIOUS
    <3> QED BY <2>3, <3>1, ExecutedType
  <2>5. g \in [0 .. n -> RunStates]
    <3> HIDE DEF E
    <3> QED BY <2>3, <2>4
  <2>6. g[0] = Started(context)
    BY <2>2, <2>3, <1>1
  <2>7. ASSUME NEW i \in 1 .. k + 1 PROVE g[i] = E(g, i)
    <3>1. g[i - 1] = f[i - 1]
      <4>1. i - 1 # k + 1 /\ i - 1 \in 0 .. n
        BY <1>1, <2>1
      <4> QED BY <4>1
    <3>2. E(g, i) = E(f, i)
      BY <3>1
    <3>3. CASE i = k + 1
      <4> HIDE DEF E
      <4> QED BY <3>2, <3>3, <2>3
    <3>4. CASE i # k + 1
      <4>1. i \in 1 .. k /\ g[i] = f[i]
        BY <3>4, <1>1, <2>1
      <4> HIDE DEF E
      <4> QED BY <4>1, <3>2, <2>2
    <3> QED BY <3>3, <3>4
  <2> HIDE DEF g, E
  <2>8. Upto(g, k + 1)
    BY <2>6, <2>7
  <2> HIDE DEF Upto
  <2> QED BY <2>5, <2>8
<1>5. Nat \subseteq P
  <2> HIDE DEF P
  <2> QED BY <1>3, <1>4, NatSetInduction
<1>6. PICK f \in [0 .. n -> RunStates] : Upto(f, n)
  <2>1. n \in P
    <3> HIDE DEF P
    <3> QED BY <1>1, <1>5
  <2>2. n \leq n
    BY <1>1
  <2> HIDE DEF Upto, n
  <2> QED BY <2>1, <2>2
<1>7. Fix(f)
  <2> HIDE DEF E
  <2>1. ASSUME NEW i \in 0 .. n
        PROVE  f[i] = IF i = 0 THEN Started(context) ELSE E(f, i)
    BY <1>6, <1>1
  <2> QED BY <2>1
<1>8. Execution(ss, context) = CHOOSE g : Fix(g)
  BY DEF Execution
<1> DEFINE e == Execution(ss, context)
<1>9. Fix(e)
  <2> HIDE DEF Fix
  <2> QED BY <1>7, <1>8
<1> HIDE DEF e
<1>10. e[0] = Started(context) /\ \A i \in 1 .. n : e[i] = E(e, i)
  <2>1. \A i \in 0 .. n : e[i] = IF i = 0 THEN Started(context) ELSE E(e, i)
    <3> HIDE DEF E
    <3> QED BY <1>9
  <2> HIDE DEF E
  <2> QED BY <2>1, <1>1
<1>11. \A i \in 0 .. n : e[i] \in RunStates
  <2> DEFINE Q == {i \in Nat : i \leq n => e[i] \in RunStates}
  <2>1. 0 \in Q
    BY <1>10, <1>2
  <2>2. ASSUME NEW i \in Nat, i \in Q PROVE i + 1 \in Q
    <3>1. SUFFICES ASSUME i + 1 \leq n PROVE e[i + 1] \in RunStates
      OBVIOUS
    <3>2. i + 1 \in 1 .. n /\ (i + 1) - 1 = i /\ e[i] \in RunStates
      BY <3>1, <2>2, <1>1
    <3>3. e[i + 1] = Executed(e[i], i + 1, ss[i + 1])
      BY <3>2, <1>10
    <3> QED BY <3>2, <3>3, <1>1, ExecutedType
  <2>3. Nat \subseteq Q
    <3> HIDE DEF Q
    <3> QED BY <2>1, <2>2, NatSetInduction
  <2> QED BY <2>3, <1>1
<1>12. QED
  BY <1>10, <1>11 DEF e

(* Two lists of statements that do the same to the states of one run have  *)
(* the same run.                                                           *)
LEMMA ExecutionAgrees ==
    ASSUME NEW ss \in Seq(StatementNodes), NEW tt \in Seq(StatementNodes),
           NEW context \in Contexts, NEW k \in Nat, k \leq Len(ss), k \leq Len(tt),
           \A i \in 1 .. k :
              Executed(Execution(ss, context)[i - 1], i, tt[i])
                  = Executed(Execution(ss, context)[i - 1], i, ss[i])
    PROVE  Execution(tt, context)[k] = Execution(ss, context)[k]
<1> DEFINE e == Execution(ss, context)
           f == Execution(tt, context)
           P == {i \in Nat : i \leq k => f[i] = e[i]}
<1>1. Len(ss) \in Nat /\ Len(tt) \in Nat
  OBVIOUS
<1>2. /\ e[0] = Started(context)
      /\ \A i \in 1 .. Len(ss) : e[i] = Executed(e[i - 1], i, ss[i])
  BY ExecutionEquation
<1>3. /\ f[0] = Started(context)
      /\ \A i \in 1 .. Len(tt) : f[i] = Executed(f[i - 1], i, tt[i])
  BY ExecutionEquation
<1>4. \A i \in 1 .. k : Executed(e[i - 1], i, tt[i]) = Executed(e[i - 1], i, ss[i])
  OBVIOUS
<1> HIDE DEF e, f
<1>5. 0 \in P
  BY <1>2, <1>3
<1>6. ASSUME NEW i \in Nat, i \in P PROVE i + 1 \in P
  <2>1. SUFFICES ASSUME i + 1 \leq k PROVE f[i + 1] = e[i + 1]
    OBVIOUS
  <2>2. /\ i + 1 \in 1 .. k
        /\ i + 1 \in 1 .. Len(ss)
        /\ i + 1 \in 1 .. Len(tt)
        /\ (i + 1) - 1 = i
        /\ f[i] = e[i]
    BY <1>1, <1>6, <2>1
  <2> QED BY <2>2, <1>2, <1>3, <1>4
<1>7. Nat \subseteq P
  <2> HIDE DEF P
  <2> QED BY <1>5, <1>6, NatSetInduction
<1>8. QED
  BY <1>7 DEF e, f

(* A run that has ended stays as it is; until it ends, it has reached every *)
(* statement; a return statement ends it.                                  *)
LEMMA ExecutionEnds ==
    ASSUME NEW ss \in Seq(StatementNodes), NEW context \in Contexts,
           NEW i \in 0 .. Len(ss)
    PROVE  LET e == Execution(ss, context)
           IN  /\ e[i].ended => \A j \in i .. Len(ss) : e[j] = e[i]
               /\ e[i].reached \leq i
               /\ i > 0 /\ ss[i].type = "ReturnStatement" => e[i].ended
<1> DEFINE e == Execution(ss, context)
           P == {j \in Nat : j \in i .. Len(ss) => (e[i].ended => e[j] = e[i])}
           Q == {j \in Nat : j \leq Len(ss) => e[j].reached \leq j}
<1>1. Len(ss) \in Nat
  OBVIOUS
<1>2. /\ e[0] = Started(context)
      /\ \A j \in 1 .. Len(ss) : e[j] = Executed(e[j - 1], j, ss[j])
      /\ \A j \in 0 .. Len(ss) : e[j] \in RunStates
  BY ExecutionEquation
<1> HIDE DEF e
<1>3. 0 \in P
  BY <1>1
<1>4. ASSUME NEW j \in Nat, j \in P PROVE j + 1 \in P
  <2>1. SUFFICES ASSUME j + 1 \in i .. Len(ss), e[i].ended PROVE e[j + 1] = e[i]
    OBVIOUS
  <2>2. CASE j + 1 = i
    BY <2>2
  <2>3. CASE j + 1 # i
    <3>1. j + 1 \in 1 .. Len(ss) /\ (j + 1) - 1 = j /\ e[j] = e[i]
      BY <1>1, <1>4, <2>1, <2>3
    <3>2. e[j + 1] = Executed(e[j], j + 1, ss[j + 1])
      BY <3>1, <1>2
    <3> QED BY <3>1, <3>2, <2>1 DEF Executed
  <2> QED BY <2>2, <2>3
<1>5. \A j \in Nat : j \in P
  <2> HIDE DEF P
  <2> QED BY <1>3, <1>4, NatSetInduction
<1>6. 0 \in Q
  BY <1>2 DEF Started
<1>7. ASSUME NEW j \in Nat, j \in Q PROVE j + 1 \in Q
  <2>1. SUFFICES ASSUME j + 1 \leq Len(ss) PROVE e[j + 1].reached \leq j + 1
    OBVIOUS
  <2>2. /\ j + 1 \in 1 .. Len(ss)
        /\ j \in 0 .. Len(ss)
        /\ (j + 1) - 1 = j
        /\ e[j].reached \leq j
    BY <1>1, <1>7, <2>1
  <2>3. e[j + 1] = Executed(e[j], j + 1, ss[j + 1]) /\ e[j] \in RunStates
    BY <2>2, <1>2
  <2>4. e[j + 1].reached \in {e[j].reached, j + 1}
    BY <2>3 DEF Executed
  <2>5. e[j].reached \in Nat
    BY <2>3 DEF RunStates
  <2> QED BY <2>2, <2>4, <2>5
<1>8. \A j \in Nat : j \in Q
  <2> HIDE DEF Q
  <2> QED BY <1>6, <1>7, NatSetInduction
<1>9. i > 0 /\ ss[i].type = "ReturnStatement" => e[i].ended
  <2>1. i > 0 => e[i] = Executed(e[i - 1], i, ss[i])
    BY <1>1, <1>2
  <2> QED BY <2>1 DEF Executed
<1>10. e[i].ended => \A j \in i .. Len(ss) : e[j] = e[i]
  BY <1>1, <1>5
<1>11. e[i].reached \leq i
  BY <1>1, <1>8
<1>12. QED
  BY <1>9, <1>10, <1>11 DEF e

LEMMA RemoveStatementLength ==
    ASSUME NEW ss \in Seq(StatementNodes), Len(ss) > 0
    PROVE  Len(RemoveStatement(ss)) = Len(ss) - 1
BY DEF RemoveStatement

(* What stands behind a return statement does not matter. *)
LEMMA ExecutionShortened ==
    ASSUME NEW ss \in Seq(StatementNodes), NEW context \in Contexts, Len(ss) > 0,
           NEW i \in 1 .. Len(ss) - 1, ss[i].type = "ReturnStatement"
    PROVE  LET tt == RemoveStatement(ss)
           IN  Execution(tt, context)[Len(tt)] = Execution(ss, context)[Len(ss)]
<1> DEFINE tt == RemoveStatement(ss)
           k == Len(ss) - 1
<1>1. /\ tt \in Seq(StatementNodes)
      /\ Len(tt) = k
      /\ k \in Nat
      /\ \A j \in 1 .. k : tt[j] = ss[j]
  BY DEF RemoveStatement
<1> HIDE DEF tt
<1>2. Execution(tt, context)[k] = Execution(ss, context)[k]
  <2>1. \A j \in 1 .. k :
            Executed(Execution(ss, context)[j - 1], j, tt[j])
                = Executed(Execution(ss, context)[j - 1], j, ss[j])
    BY <1>1
  <2>2. k \leq Len(ss) /\ k \leq Len(tt)
    BY <1>1
  <2> HIDE DEF k
  <2> QED BY <1>1, <2>1, <2>2, ExecutionAgrees
<1>3. /\ i \in 0 .. Len(ss)
      /\ k \in i .. Len(ss)
      /\ Len(ss) \in i .. Len(ss)
      /\ i > 0
  BY <1>1
<1>4. Execution(ss, context)[k] = Execution(ss, context)[Len(ss)]
  BY <1>3, ExecutionEnds
<1>5. QED
  BY <1>1, <1>2, <1>4 DEF tt

-----------------------------------------------------------------------------
(* Nodes and their addresses. *)

LEMMA NodesEquation ==
    \A x \in Expressions :
        /\ Nodes[x] \subseteq Expressions
        /\ Nodes[x] = {x} \cup UNION {Nodes[y] : y \in Operands(x)}
<1> DEFINE V == SUBSET Expressions
           Row(x, g) == {x} \cup UNION {g[y] : y \in Operands(x)}
           W == [x \in Expressions |-> V]
           D == [p \in Expressions \X [Expressions -> V] |-> Row(p[1], p[2])]
           Fix(g) == g = [x \in Expressions |-> Row(x, g)]
<1>1. ASSUME NEW x \in Expressions, NEW g, \A y \in Operands(x) : g[y] \in V
      PROVE  Row(x, g) \in V
  BY <1>1
<1>2. ASSUME NEW x \in Expressions, NEW g, NEW h, \A y \in Operands(x) : g[y] = h[y]
      PROVE  Row(x, g) = Row(x, h)
  BY <1>2
<1>3. V # {}
  OBVIOUS
<1>4. \A x \in Expressions : W[x] \subseteq V /\ W[x] = V
  OBVIOUS
<1>5. \A x \in Expressions, g \in [Expressions -> V] : D[<<x, g>>] = Row(x, g)
  OBVIOUS
<1> HIDE DEF V, W, D, Row
<1>6. Recursion(V, W, D)
  <2>1. \A x \in Expressions, g \in [Expressions -> V] :
            (\A y \in Operands(x) : g[y] \in W[y]) => D[<<x, g>>] \in W[x]
    BY <1>1, <1>4, <1>5, OperandsAreExpressions
  <2>2. \A x \in Expressions, g, h \in [Expressions -> V] :
            (\A y \in Operands(x) : g[y] = h[y]) => D[<<x, g>>] = D[<<x, h>>]
    <3>1. \A x \in Expressions, g, h \in [Expressions -> V] :
            (\A y \in Operands(x) : g[y] = h[y]) => Row(x, g) = Row(x, h)
      BY <1>2
    <3> QED BY <3>1, <1>5
  <2> QED BY <2>1, <2>2, <1>3, <1>4 DEF Recursion
<1>7. PICK f \in [Expressions -> V] : \A x \in Expressions : f[x] = Row(x, f)
  <2>1. Solvable(V, W, D)
    BY <1>6, StructuralRecursion
  <2> QED BY <2>1, <1>5 DEF Solvable
<1>8. Fix(f)
  BY <1>7
<1>9. Nodes = CHOOSE g : Fix(g)
  BY DEF Nodes, Row
<1>10. Fix(Nodes)
  <2> HIDE DEF Fix
  <2> QED BY <1>8, <1>9
<1>11. \A x \in Expressions : Nodes[x] = Row(x, Nodes)
  BY <1>10
<1>12. \A x \in Expressions : Nodes[x] \in V
  <2> DEFINE P == {x \in Expressions : Nodes[x] \in V}
  <2>1. \A x \in Expressions : Operands(x) \subseteq P => x \in P
    BY <1>1, <1>11
  <2> HIDE DEF P
  <2>2. Expressions \subseteq P
    BY <2>1, ExpressionInduction
  <2> QED BY <2>2 DEF P
<1>13. QED
  BY <1>11, <1>12 DEF Row, V

LEMMA NodesByKind ==
    ASSUME NEW x \in Expressions
    PROVE  /\ x.kind \in {"Literal", "Identifier"} => Nodes[x] = {x}
           /\ x.kind = "Unary" => Nodes[x] = {x} \cup Nodes[x.input]
           /\ x.kind = "Binary" => Nodes[x] = {x} \cup Nodes[x.left] \cup Nodes[x.right]
BY NodesEquation, OperandsByKind

LEMMA AddressedByKind ==
    ASSUME NEW x \in Expressions
    PROVE  /\ Addressed(x) \subseteq Expressions
           /\ x.kind = "Literal" => Addressed(x) = {}
           /\ x.kind = "Identifier" => Addressed(x) = {x}
           /\ x.kind = "Unary" => Addressed(x) = {x} \cup Addressed(x.input)
           /\ x.kind = "Binary" =>
                Addressed(x) = {x} \cup Addressed(x.left) \cup Addressed(x.right)
<1>1. Addressed(x) \subseteq Expressions
  BY NodesEquation DEF Addressed
<1>2. QED
  BY <1>1, NodesByKind DEF Addressed

(* The addresses of an expression and those of a mapping, freed literals'  *)
(* apart.                                                                  *)
At(x) == {y.at : y \in Addressed(x)}
Remembered(m) == {entry.at : entry \in m} \cap Addresses

LEMMA AddressesByKind ==
    ASSUME NEW x \in Expressions
    PROVE  /\ x.kind = "Literal" => At(x) = {}
           /\ x.kind = "Identifier" => At(x) = {x.at}
           /\ x.kind = "Unary" => At(x) = {x.at} \cup At(x.input)
           /\ x.kind = "Binary" => At(x) = {x.at} \cup At(x.left) \cup At(x.right)
BY AddressedByKind DEF At

LEMMA DistinctByKind ==
    ASSUME NEW x \in Expressions
    PROVE  /\ x.kind \in {"Literal", "Identifier"} => DistinctAddresses(x)
           /\ x.kind = "Unary" =>
                (DistinctAddresses(x) <=> /\ x.at \notin At(x.input)
                                          /\ DistinctAddresses(x.input))
           /\ x.kind = "Binary" =>
                (DistinctAddresses(x) <=> /\ x.at \notin At(x.left) \cup At(x.right)
                                          /\ At(x.left) \cap At(x.right) = {}
                                          /\ DistinctAddresses(x.left)
                                          /\ DistinctAddresses(x.right))
<1> DEFINE Here(y) ==
              /\ y.kind # "Literal" => \A z \in Operands(y) : Apart({y}, Addressed(z))
              /\ y.kind = "Binary" => Apart(Addressed(y.left), Addressed(y.right))
<1>1. \A z : DistinctAddresses(z) <=> \A y \in Nodes[z] : Here(y)
  BY DEF DistinctAddresses
<1>2. /\ x.kind \in {"Literal", "Identifier"} => Here(x)
      /\ x.kind = "Unary" => (Here(x) <=> x.at \notin At(x.input))
      /\ x.kind = "Binary" => (Here(x) <=> /\ x.at \notin At(x.left) \cup At(x.right)
                                           /\ At(x.left) \cap At(x.right) = {})
  <2>1. CASE x.kind \in {"Literal", "Identifier"}
    BY <2>1, OperandsByKind
  <2>2. CASE x.kind = "Unary"
    BY <2>2, OperandsByKind DEF Apart, At
  <2>3. CASE x.kind = "Binary"
    <3>1. Operands(x) = {x.left, x.right}
      BY <2>3, OperandsByKind
    <3>2. (\A z \in Operands(x) : Apart({x}, Addressed(z)))
            <=> x.at \notin At(x.left) \cup At(x.right)
      BY <3>1 DEF Apart, At
    <3>3. Apart(Addressed(x.left), Addressed(x.right)) <=> At(x.left) \cap At(x.right) = {}
      BY DEF Apart, At
    <3> QED BY <2>3, <3>2, <3>3
  <2> QED BY <2>1, <2>2, <2>3, ExpressionKinds
<1> HIDE DEF Here
<1>3. CASE x.kind \in {"Literal", "Identifier"}
  BY <1>1, <1>2, <1>3, NodesByKind
<1>4. CASE x.kind = "Unary"
  <2>1. DistinctAddresses(x) <=> Here(x) /\ \A y \in Nodes[x.input] : Here(y)
    BY <1>1, <1>4, NodesByKind
  <2> QED BY <2>1, <1>1, <1>2, <1>4
<1>5. CASE x.kind = "Binary"
  <2>1. DistinctAddresses(x) <=> /\ Here(x)
                                 /\ \A y \in Nodes[x.left] : Here(y)
                                 /\ \A y \in Nodes[x.right] : Here(y)
    BY <1>1, <1>5, NodesByKind
  <2> QED BY <2>1, <1>1, <1>2, <1>5
<1>6. QED
  BY <1>3, <1>4, <1>5, ExpressionKinds

-----------------------------------------------------------------------------
(* Operators with other operands. *)

(* The expressions that are found wherever x is, as to their height. *)
AsHigh(x) == {y \in Expressions : \A n \in 0 .. MaxHeight : x \in Trees[n] => y \in Trees[n]}

LEMMA AsHighTrivial ==
    ASSUME NEW x \in Expressions
    PROVE  x \in AsHigh(x) /\ Literals \subseteq AsHigh(x)
<1>1. \A n \in 0 .. MaxHeight : Literals \subseteq Trees[n]
  <2> SUFFICES ASSUME NEW n \in 0 .. MaxHeight PROVE Literals \subseteq Trees[n]
    OBVIOUS
  <2>1. Literals \subseteq Trees[0]
    BY TreesEquation
  <2>2. Trees[0] \subseteq Trees[n]
    BY TreesMonotone, EvaluationAssumption
  <2> QED BY <2>1, <2>2
<1>2. Literals \subseteq Expressions
  BY <1>1, EvaluationAssumption DEF Expressions
<1>3. QED
  BY <1>1, <1>2 DEF AsHigh

LEMMA UnaryReplaced ==
    ASSUME NEW x \in Expressions, x.kind = "Unary",
           NEW y \in AsHigh(x.input),
           NEW z, z = [x EXCEPT !.input = y]
    PROVE  /\ z \in AsHigh(x)
           /\ z \in Expressions
           /\ z.kind = "Unary"
           /\ z.operation = x.operation
           /\ z.operation \in Signs
           /\ z.input = y
           /\ z.at = x.at
           /\ z.at \in Addresses
           /\ y \in Expressions
<1>1. x \in Unaries(Expressions)
  BY ExpressionKinds
<1>2. \A S : x \in Unaries(S) => x.input \in S
  BY DEF Unaries
<1>3. \A S : y \in S => z \in Unaries(S)
  BY <1>1 DEF Unaries
<1>4. y \in Expressions
  BY DEF AsHigh
<1>5. ASSUME NEW n \in 0 .. MaxHeight, x \in Trees[n] PROVE z \in Trees[n]
  <2>1. n > 0 /\ x \in Unaries(Trees[n - 1])
    <3>1. x \notin Literals \cup Identifiers
      BY DEF Literals, Identifiers
    <3>2. \A S : x \notin Binaries(S)
      BY DEF Binaries
    <3>3. n \in Nat
      OBVIOUS
    <3> QED BY <3>1, <3>2, <3>3, <1>5, LevelKinds
  <2>2. n - 1 \in 0 .. MaxHeight /\ n - 1 \in Nat /\ (n - 1) + 1 = n
    BY <2>1, EvaluationAssumption
  <2>3. y \in Trees[n - 1]
    BY <1>2, <2>1, <2>2 DEF AsHigh
  <2> QED BY <1>3, <2>2, <2>3, TreesEquation DEF Larger
<1>6. MaxHeight \in 0 .. MaxHeight
  BY EvaluationAssumption
<1>7. z \in AsHigh(x) /\ z \in Expressions
  BY <1>5, <1>6 DEF AsHigh, Expressions
<1>8. QED
  BY <1>1, <1>4, <1>7 DEF Unaries

WithOperands(x, l, r) == [x EXCEPT !.left = l, !.right = r]

LEMMA BinaryReplaced ==
    ASSUME NEW x \in Expressions, x.kind = "Binary",
           NEW l \in AsHigh(x.left), NEW r \in AsHigh(x.right),
           NEW z, z = WithOperands(x, l, r)
    PROVE  /\ z \in AsHigh(x)
           /\ z \in Expressions
           /\ z.kind = "Binary"
           /\ z.operation = x.operation
           /\ z.operation \in Operators
           /\ z.left = l
           /\ z.right = r
           /\ z.at = x.at
           /\ z.at \in Addresses
           /\ l \in Expressions
           /\ r \in Expressions
<1>1. x \in Binaries(Expressions)
  BY ExpressionKinds
<1>2. \A S : x \in Binaries(S) => x.left \in S /\ x.right \in S
  BY DEF Binaries
<1>3. \A S : l \in S /\ r \in S => z \in Binaries(S)
  BY <1>1 DEF Binaries, WithOperands
<1>4. l \in Expressions /\ r \in Expressions
  BY DEF AsHigh
<1>5. ASSUME NEW n \in 0 .. MaxHeight, x \in Trees[n] PROVE z \in Trees[n]
  <2>1. n > 0 /\ x \in Binaries(Trees[n - 1])
    <3>1. x \notin Literals \cup Identifiers
      BY DEF Literals, Identifiers
    <3>2. \A S : x \notin Unaries(S)
      BY DEF Unaries
    <3>3. n \in Nat
      OBVIOUS
    <3> QED BY <3>1, <3>2, <3>3, <1>5, LevelKinds
  <2>2. n - 1 \in 0 .. MaxHeight /\ n - 1 \in Nat /\ (n - 1) + 1 = n
    BY <2>1, EvaluationAssumption
  <2>3. l \in Trees[n - 1] /\ r \in Trees[n - 1]
    BY <1>2, <2>1, <2>2 DEF AsHigh
  <2> QED BY <1>3, <2>2, <2>3, TreesEquation DEF Larger
<1>6. MaxHeight \in 0 .. MaxHeight
  BY EvaluationAssumption
<1>7. z \in AsHigh(x) /\ z \in Expressions
  BY <1>5, <1>6 DEF AsHigh, Expressions
<1>8. QED
  BY <1>1, <1>4, <1>7 DEF Binaries, WithOperands

LEMMA OperandAsHigh ==
    ASSUME NEW x \in Expressions, NEW z \in Operands(x), NEW y \in AsHigh(z)
    PROVE  y \in AsHigh(x)
<1>1. ASSUME NEW n \in 0 .. MaxHeight, x \in Trees[n] PROVE y \in Trees[n]
  <2>1. n > 0 /\ z \in Trees[n - 1] /\ n \in Nat
    BY <1>1, LevelOperands
  <2>2. n - 1 \in 0 .. MaxHeight /\ n - 1 \in 0 .. n
    BY <2>1, EvaluationAssumption
  <2>3. y \in Trees[n - 1]
    BY <2>1, <2>2 DEF AsHigh
  <2> QED BY <2>1, <2>2, <2>3, TreesMonotone
<1>2. QED
  BY <1>1 DEF AsHigh

-----------------------------------------------------------------------------
(* UnaryPlusRemoval. *)

LEMMA RemovePlusEquation ==
    \A x \in Expressions :
        /\ RemovePlus[x] \in AsHigh(x)
        /\ x.kind = "Unary" => RemovePlus[x] = Unsigned(x, RemovePlus[x.input])
        /\ x.kind = "Binary" =>
              RemovePlus[x] = WithOperands(x, RemovePlus[x.left], RemovePlus[x.right])
        /\ x.kind \in {"Literal", "Identifier"} => RemovePlus[x] = x
<1> DEFINE V == Expressions
           Row(x, g) == CASE x.kind = "Unary"  -> Unsigned(x, g[x.input])
                          [] x.kind = "Binary" -> WithOperands(x, g[x.left], g[x.right])
                          [] OTHER             -> x
           W == [x \in Expressions |-> AsHigh(x)]
           D == [p \in Expressions \X [Expressions -> V] |-> Row(p[1], p[2])]
           Fix(g) == g = [x \in Expressions |-> Row(x, g)]
<1>1. ASSUME NEW x \in Expressions, NEW g, \A y \in Operands(x) : g[y] \in AsHigh(y)
      PROVE  Row(x, g) \in AsHigh(x)
  <2>1. CASE x.kind \in {"Literal", "Identifier"}
    BY <2>1, AsHighTrivial
  <2>2. CASE x.kind = "Unary"
    <3>1. x.input \in Operands(x) /\ g[x.input] \in AsHigh(x.input)
      BY <1>1, <2>2, OperandsByKind
    <3>2. g[x.input] \in AsHigh(x)
      BY <3>1, OperandAsHigh
    <3>3. [x EXCEPT !.input = g[x.input]] \in AsHigh(x)
      BY <2>2, <3>1, UnaryReplaced
    <3>4. Row(x, g) = Unsigned(x, g[x.input])
      BY <2>2
    <3> QED BY <3>2, <3>3, <3>4 DEF Unsigned
  <2>3. CASE x.kind = "Binary"
    <3>1. g[x.left] \in AsHigh(x.left) /\ g[x.right] \in AsHigh(x.right)
      BY <1>1, <2>3, OperandsByKind
    <3>2. Row(x, g) = WithOperands(x, g[x.left], g[x.right])
      BY <2>3
    <3> QED BY <2>3, <3>1, <3>2, BinaryReplaced
  <2> QED BY <2>1, <2>2, <2>3, ExpressionKinds
<1>2. ASSUME NEW x \in Expressions, NEW g, NEW h, \A y \in Operands(x) : g[y] = h[y]
      PROVE  Row(x, g) = Row(x, h)
  BY <1>2, OperandsByKind, ExpressionKinds
<1>3. V # {}
  <2>1. [kind |-> "Literal", value |-> 0] \in Literals
    BY Integers_ DEF Literals
  <2>2. Literals \subseteq Trees[0] /\ Trees[0] \subseteq Expressions
    BY TreesEquation, LevelExpressions, EvaluationAssumption
  <2> QED BY <2>1, <2>2
<1>4. \A x \in Expressions : W[x] \subseteq V /\ W[x] = AsHigh(x)
  BY DEF AsHigh
<1>5. \A x \in Expressions, g \in [Expressions -> V] : D[<<x, g>>] = Row(x, g)
  OBVIOUS
<1> HIDE DEF V, W, D, Row
<1>6. Recursion(V, W, D)
  <2>1. \A x \in Expressions, g \in [Expressions -> V] :
            (\A y \in Operands(x) : g[y] \in W[y]) => D[<<x, g>>] \in W[x]
    BY <1>1, <1>4, <1>5, OperandsAreExpressions
  <2>2. \A x \in Expressions, g, h \in [Expressions -> V] :
            (\A y \in Operands(x) : g[y] = h[y]) => D[<<x, g>>] = D[<<x, h>>]
    <3>1. \A x \in Expressions, g, h \in [Expressions -> V] :
            (\A y \in Operands(x) : g[y] = h[y]) => Row(x, g) = Row(x, h)
      BY <1>2
    <3> QED BY <3>1, <1>5
  <2> QED BY <2>1, <2>2, <1>3, <1>4 DEF Recursion
<1>7. PICK f \in [Expressions -> V] : \A x \in Expressions : f[x] = Row(x, f)
  <2>1. Solvable(V, W, D)
    BY <1>6, StructuralRecursion
  <2> QED BY <2>1, <1>5 DEF Solvable
<1>8. Fix(f)
  BY <1>7
<1>9. RemovePlus = CHOOSE g : Fix(g)
  BY DEF RemovePlus, Row, WithOperands
<1>10. Fix(RemovePlus)
  <2> HIDE DEF Fix
  <2> QED BY <1>8, <1>9
<1>11. \A x \in Expressions : RemovePlus[x] = Row(x, RemovePlus)
  BY <1>10
<1>12. \A x \in Expressions : RemovePlus[x] \in AsHigh(x)
  <2> DEFINE P == {x \in Expressions : RemovePlus[x] \in AsHigh(x)}
  <2>1. \A x \in Expressions : Operands(x) \subseteq P => x \in P
    BY <1>1, <1>11
  <2> HIDE DEF P
  <2>2. Expressions \subseteq P
    BY <2>1, ExpressionInduction
  <2> QED BY <2>2 DEF P
<1>13. QED
  BY <1>11, <1>12 DEF Row

(* y takes the place of x: the same value in every context, and no node    *)
(* that lies where none of x did.                                          *)
Replaces(y, x) ==
    /\ \A context \in Contexts : Evaluate[y][context] = Evaluate[x][context]
    /\ At(y) \subseteq At(x)
    /\ DistinctAddresses(x) => DistinctAddresses(y)

NoPlus(x) == \A y \in Addressed(x) : y.kind = "Unary" => y.operation # "PLUS"

(* UnaryPlusRemoval on one expression, however deep: no unary plus is left, *)
(* the value is the same in every context, and every node is one of the    *)
(* expression's or lies where one did.                                     *)
THEOREM RemovePlusCorrect ==
    ASSUME NEW x \in Expressions
    PROVE  /\ RemovePlus[x] \in Expressions
           /\ Replaces(RemovePlus[x], x)
           /\ NoPlus(RemovePlus[x])
<1> DEFINE Good(y, z) == Replaces(y, z) /\ NoPlus(y)
           P == {z \in Expressions : Good(RemovePlus[z], z)}
<1>1. ASSUME NEW z \in Expressions, Operands(z) \subseteq P
      PROVE  Good(RemovePlus[z], z)
  <2>1. CASE z.kind \in {"Literal", "Identifier"}
    <3>1. RemovePlus[z] = z
      BY <2>1, RemovePlusEquation
    <3>2. NoPlus(z)
      BY <2>1, AddressedByKind DEF NoPlus
    <3> QED BY <3>1, <3>2 DEF Replaces
  <2>2. CASE z.kind = "Unary"
    <3> DEFINE y == RemovePlus[z.input]
               w == [z EXCEPT !.input = y]
    <3>1. z.input \in Operands(z) /\ z.input \in Expressions
      BY <2>2, OperandsByKind, OperandsAreExpressions
    <3>2. Good(y, z.input) /\ y \in AsHigh(z.input)
      BY <1>1, <3>1, RemovePlusEquation
    <3>3. RemovePlus[z] = IF z.operation = "PLUS" THEN y ELSE w
      BY <2>2, RemovePlusEquation DEF Unsigned
    <3>4. /\ w \in Expressions /\ w.kind = "Unary" /\ w.operation = z.operation
          /\ w.input = y /\ w.at = z.at /\ y \in Expressions
      BY <2>2, <3>2, UnaryReplaced
    <3> HIDE DEF y, w
    <3>5. CASE z.operation = "PLUS"
      <4>1. \A context \in Contexts : Evaluate[y][context] = Evaluate[z][context]
        <5> SUFFICES ASSUME NEW context \in Contexts
                     PROVE  Evaluate[y][context] = Evaluate[z][context]
          OBVIOUS
        <5>1. Evaluate[z][context] = UnaryValue("PLUS", Evaluate[z.input][context])
          BY <2>2, <3>5, EvaluateByKind
        <5>2. Evaluate[y][context] = Evaluate[z.input][context]
          BY <3>2 DEF Replaces
        <5> QED BY <5>1, <5>2 DEF UnaryValue
      <4>2. At(y) \subseteq At(z)
        BY <2>2, <3>2, AddressesByKind DEF Replaces
      <4>3. DistinctAddresses(z) => DistinctAddresses(y)
        BY <2>2, <3>2, DistinctByKind DEF Replaces
      <4> QED BY <3>2, <3>3, <3>5, <4>1, <4>2, <4>3 DEF Replaces
    <3>6. CASE z.operation # "PLUS"
      <4>1. \A context \in Contexts : Evaluate[w][context] = Evaluate[z][context]
        BY <2>2, <3>2, <3>4, EvaluateByKind DEF Replaces
      <4>2. At(w) = {z.at} \cup At(y) /\ At(z) = {z.at} \cup At(z.input)
        BY <2>2, <3>4, AddressesByKind
      <4>3. At(y) \subseteq At(z.input)
        BY <3>2 DEF Replaces
      <4>4. DistinctAddresses(z) => DistinctAddresses(w)
        BY <2>2, <3>2, <3>4, <4>3, DistinctByKind DEF Replaces
      <4>5. NoPlus(w)
        <5>1. Addressed(w) = {w} \cup Addressed(y)
          BY <3>4, AddressedByKind
        <5> QED BY <5>1, <3>2, <3>4, <3>6 DEF NoPlus
      <4> QED BY <3>3, <3>6, <4>1, <4>2, <4>3, <4>4, <4>5 DEF Replaces
    <3> QED BY <3>5, <3>6
  <2>3. CASE z.kind = "Binary"
    <3> DEFINE l == RemovePlus[z.left]
               r == RemovePlus[z.right]
               w == WithOperands(z, l, r)
    <3>1. /\ z.left \in Operands(z) /\ z.left \in Expressions
          /\ z.right \in Operands(z) /\ z.right \in Expressions
      BY <2>3, OperandsByKind, OperandsAreExpressions
    <3>2. /\ Good(l, z.left) /\ l \in AsHigh(z.left)
          /\ Good(r, z.right) /\ r \in AsHigh(z.right)
      BY <1>1, <3>1, RemovePlusEquation
    <3>3. RemovePlus[z] = w
      BY <2>3, RemovePlusEquation
    <3>4. /\ w \in Expressions /\ w.kind = "Binary" /\ w.operation = z.operation
          /\ w.left = l /\ w.right = r /\ w.at = z.at
          /\ l \in Expressions /\ r \in Expressions
      BY <2>3, <3>2, BinaryReplaced
    <3> HIDE DEF l, r, w
    <3>5. \A context \in Contexts : Evaluate[w][context] = Evaluate[z][context]
      BY <2>3, <3>2, <3>4, EvaluateByKind DEF Replaces
    <3>6. /\ At(w) = {z.at} \cup At(l) \cup At(r)
          /\ At(z) = {z.at} \cup At(z.left) \cup At(z.right)
      BY <2>3, <3>4, AddressesByKind
    <3>7. At(l) \subseteq At(z.left) /\ At(r) \subseteq At(z.right)
      BY <3>2 DEF Replaces
    <3>8. DistinctAddresses(z) => DistinctAddresses(w)
      BY <2>3, <3>2, <3>4, <3>7, DistinctByKind DEF Replaces
    <3>9. NoPlus(w)
      <4>1. Addressed(w) = {w} \cup Addressed(l) \cup Addressed(r)
        BY <3>4, AddressedByKind
      <4> QED BY <4>1, <3>2, <3>4 DEF NoPlus
    <3> QED BY <3>3, <3>5, <3>6, <3>7, <3>8, <3>9 DEF Replaces
  <2> QED BY <2>1, <2>2, <2>3, ExpressionKinds
<1>2. Expressions \subseteq P
  <2> HIDE DEF Good
  <2>1. \A z \in Expressions : Operands(z) \subseteq P => z \in P
    BY <1>1
  <2> HIDE DEF P
  <2> QED BY <2>1, ExpressionInduction
<1>3. QED
  BY <1>2, RemovePlusEquation DEF AsHigh

-----------------------------------------------------------------------------
(* constant_propagation: one expression. *)

KnownType == known \in [Handles -> Ints \cup {NoValue}]

PassType == KnownType /\ function \in FunctionNodes

LEMMA ContextType ==
    ASSUME NEW f \in FunctionNodes, NEW arguments,
           \A h \in DOMAIN arguments \cap Handles : arguments[h] \in Ints
    PROVE  Context(f, arguments) \in Contexts
<1>1. f.symbols \in SymbolTables
  BY DEF FunctionNodes
<1>2. \A h \in Handles : f.symbols[h].value \in Ints
  BY <1>1 DEF SymbolTables
<1>3. QED
  BY <1>2, Integers_ DEF Context, Contexts

LEMMA PassContextType ==
    ASSUME function \in FunctionNodes
    PROVE  PassContext \in Contexts
BY ContextType DEF PassContext

LEMMA LiteralType ==
    ASSUME NEW value \in Ints
    PROVE  /\ Literal(value) \in Literals
           /\ Literal(value) \in Expressions
           /\ Literal(value).kind = "Literal"
           /\ Literal(value).value = value
<1>1. Literal(value) \in Literals
  BY DEF Literal, Literals
<1>2. Literals \subseteq Trees[0] /\ Trees[0] \subseteq Expressions
  BY TreesEquation, LevelExpressions, EvaluationAssumption
<1>3. QED
  BY <1>1, <1>2 DEF Literal

LEMMA AddressTypes ==
    ASSUME NEW x \in Expressions, x.kind # "Literal"
    PROVE  x.at \in Addresses
<1>1. CASE x \in Identifiers
  BY <1>1 DEF Identifiers
<1>2. CASE x \in Unaries(Expressions)
  BY <1>2 DEF Unaries
<1>3. CASE x \in Binaries(Expressions)
  BY <1>3 DEF Binaries
<1>4. QED
  BY <1>1, <1>2, <1>3, ExpressionKinds

LEMMA EmplaceType ==
    ASSUME NEW x \in Expressions, NEW value \in Ints, NEW m \in Mappings
    PROVE  /\ Emplace(x, value, m) \in Mappings
           /\ Remembered(Emplace(x, value, m))
                = Remembered(m) \cup (IF x.kind = "Literal" THEN {} ELSE {x.at})
<1>1. CASE x.kind = "Literal"
  <2> DEFINE entry == [at |-> Elsewhere, value |-> value]
  <2>1. entry \in [at : Addresses \cup {Elsewhere}, value : Ints]
    OBVIOUS
  <2>2. Emplace(x, value, m) = m \cup {entry}
    BY <1>1 DEF Emplace
  <2>3. entry.at \notin Addresses
    BY OptimizerAssumption
  <2> HIDE DEF entry
  <2> QED BY <1>1, <2>1, <2>2, <2>3 DEF Mappings, Remembered
<1>2. CASE x.kind # "Literal" /\ Entries(x, m) # {}
  <2>1. x.at \in Remembered(m)
    BY <1>2, AddressTypes DEF Entries, Remembered
  <2> QED BY <2>1, <1>2 DEF Emplace
<1>3. CASE x.kind # "Literal" /\ Entries(x, m) = {}
  <2> DEFINE entry == [at |-> x.at, value |-> value]
  <2>1. entry \in [at : Addresses \cup {Elsewhere}, value : Ints] /\ x.at \in Addresses
    BY <1>3, AddressTypes
  <2>2. Emplace(x, value, m) = m \cup {entry}
    BY <1>3 DEF Emplace
  <2>3. entry.at = x.at
    OBVIOUS
  <2> HIDE DEF entry
  <2> QED BY <1>3, <2>1, <2>2, <2>3 DEF Mappings, Remembered
<1>4. QED
  BY <1>1, <1>2, <1>3

(* What is remembered for no node of xs: only literals have values. *)
LEMMA ValuesOfLiterals ==
    ASSUME NEW xs \in SUBSET Expressions, NEW m \in Mappings,
           \A x \in xs : x.kind # "Literal" => x.at \notin Remembered(m)
    PROVE  HasValues(xs, m) <=> \A x \in xs : x.kind = "Literal"
<1>1. ASSUME NEW x \in xs PROVE GetValue(x, m) # NoValue <=> x.kind = "Literal"
  <2>1. x.kind = "Literal" => GetValue(x, m) \in Ints
    BY ExpressionKinds DEF GetValue, Literals
  <2>2. x.kind # "Literal" => Entries(x, m) = {}
    BY AddressTypes DEF Entries, Remembered
  <2> QED BY <2>1, <2>2, EvaluationAssumption DEF GetValue
<1>2. QED
  BY <1>1 DEF HasValues

LEMMA FoldedCases ==
    ASSUME NEW x \in Expressions, NEW xs, NEW m, NEW killed \in BOOLEAN,
           function \in FunctionNodes
    PROVE  LET value  == Evaluate[x][PassContext]
               folded == Folded(x, xs, m, killed)
           IN  /\ ~ HasValues(xs, m) => folded = Step(x, m, killed)
               /\ HasValues(xs, m) /\ value \in Failures =>
                    folded = Step(x, m, value = Trap \/ killed)
               /\ HasValues(xs, m) /\ value \notin Failures =>
                    /\ value \in Ints
                    /\ folded = Step(Literal(value), Emplace(x, value, m), killed)
<1> DEFINE value == Evaluate[x][PassContext]
<1>1. value \in Results
  BY PassContextType, EvaluateByKind
<1>2. Replaced(x, m) = IF value \in Failures THEN Step(x, m, value = Trap)
                       ELSE Step(Literal(value), Emplace(x, value, m), FALSE)
  BY DEF Replaced
<1> HIDE DEF value
<1>3. Folded(x, xs, m, killed)
        = LET step == IF HasValues(xs, m) THEN Replaced(x, m) ELSE Step(x, m, FALSE)
          IN  Step(step.node, step.mapping, step.killed \/ killed)
  BY DEF Folded
<1>4. CASE ~ HasValues(xs, m)
  BY <1>3, <1>4 DEF Step
<1>5. CASE HasValues(xs, m) /\ value \in Failures
  <2> DEFINE trapped == value = Trap
             step == Replaced(x, m)
  <2>1. trapped \in BOOLEAN
    OBVIOUS
  <2>2. step = Step(x, m, trapped)
    BY <1>2, <1>5
  <2>3. Folded(x, xs, m, killed) = Step(step.node, step.mapping, step.killed \/ killed)
    BY <1>3, <1>5
  <2> HIDE DEF trapped, step
  <2>4. step.node = x /\ step.mapping = m /\ step.killed = trapped
    BY <2>2 DEF Step
  <2>5. Folded(x, xs, m, killed) = Step(x, m, trapped \/ killed)
    BY <2>3, <2>4
  <2> QED BY <2>5, <1>5 DEF value, trapped
<1>6. CASE HasValues(xs, m) /\ value \notin Failures
  <2>1. value \in Ints
    BY <1>1, <1>6 DEF Results
  <2>2. Folded(x, xs, m, killed) = Step(Literal(value), Emplace(x, value, m), killed)
    BY <1>2, <1>3, <1>6 DEF Step
  <2> QED BY <2>1, <2>2, <1>6 DEF value
<1>7. QED
  BY <1>4, <1>5, <1>6 DEF value

LEMMA FoldedType ==
    ASSUME NEW z \in Expressions, NEW x \in AsHigh(z), NEW xs, NEW m \in Mappings,
           NEW killed \in BOOLEAN, function \in FunctionNodes
    PROVE  /\ Folded(x, xs, m, killed) \in Steps
           /\ Folded(x, xs, m, killed).node \in AsHigh(z)
<1> DEFINE value == Evaluate[x][PassContext]
<1>1. x \in Expressions
  BY DEF AsHigh
<1>2. ASSUME NEW y \in AsHigh(z), NEW n \in Mappings, NEW k \in BOOLEAN
      PROVE  Step(y, n, k) \in Steps /\ Step(y, n, k).node \in AsHigh(z)
  BY DEF Step, Steps, AsHigh
<1>3. /\ ~ HasValues(xs, m) => Folded(x, xs, m, killed) = Step(x, m, killed)
      /\ HasValues(xs, m) /\ value \in Failures =>
            Folded(x, xs, m, killed) = Step(x, m, value = Trap \/ killed)
      /\ HasValues(xs, m) /\ value \notin Failures =>
            /\ value \in Ints
            /\ Folded(x, xs, m, killed) = Step(Literal(value), Emplace(x, value, m), killed)
  BY <1>1, FoldedCases
<1> HIDE DEF value
<1>4. value \in Ints =>
        Literal(value) \in AsHigh(z) /\ Emplace(x, value, m) \in Mappings
  BY <1>1, LiteralType, AsHighTrivial, EmplaceType
<1>5. (value = Trap \/ killed) \in BOOLEAN
  OBVIOUS
<1>6. CASE ~ HasValues(xs, m)
  BY <1>2, <1>3, <1>6
<1>7. CASE HasValues(xs, m) /\ value \in Failures
  BY <1>2, <1>3, <1>5, <1>7
<1>8. CASE HasValues(xs, m) /\ value \notin Failures
  BY <1>2, <1>3, <1>4, <1>8
<1>9. QED
  BY <1>6, <1>7, <1>8

(* The step of an operator, given those of its operands. *)
AfterUnary(x, i) ==
    Folded([x EXCEPT !.input = i.node], {i.node}, i.mapping, i.killed)

AfterBinary(x, l, r) ==
    Folded(WithOperands(x, l.node, r.node), {l.node, r.node}, r.mapping,
           l.killed \/ r.killed)

AfterIdentifier(x, m) ==
    IF known[x.symbol] = NoValue THEN Step(x, m, FALSE)
    ELSE Step(Literal(known[x.symbol]), Emplace(x, known[x.symbol], m), FALSE)

PropagatedRow(x, g) ==
    [m \in Mappings |->
        CASE x.kind = "Literal" -> Step(x, m, FALSE)
          [] x.kind = "Identifier" ->
                IF known[x.symbol] = NoValue THEN Step(x, m, FALSE)
                ELSE Step(Literal(known[x.symbol]), Emplace(x, known[x.symbol], m), FALSE)
          [] x.kind = "Unary" ->
                LET After[input \in Steps] ==
                        Folded([x EXCEPT !.input = input.node], {input.node},
                               input.mapping, input.killed)
                IN  After[g[x.input][m]]
          [] OTHER ->
                LET AfterLeft[left \in Steps] ==
                        LET AfterRight[right \in Steps] ==
                                Folded([x EXCEPT !.left = left.node, !.right = right.node],
                                       {left.node, right.node}, right.mapping,
                                       left.killed \/ right.killed)
                        IN  AfterRight[g[x.right][left.mapping]]
                IN  AfterLeft[g[x.left][m]]]

LEMMA PropagatedRowByKind ==
    ASSUME NEW x \in Expressions, NEW m \in Mappings, NEW g,
           \A y \in Operands(x) : g[y] \in [Mappings -> Steps]
    PROVE  /\ x.kind = "Literal" => PropagatedRow(x, g)[m] = Step(x, m, FALSE)
           /\ x.kind = "Identifier" => PropagatedRow(x, g)[m] = AfterIdentifier(x, m)
           /\ x.kind = "Unary" => PropagatedRow(x, g)[m] = AfterUnary(x, g[x.input][m])
           /\ x.kind = "Binary" =>
                PropagatedRow(x, g)[m]
                    = AfterBinary(x, g[x.left][m], g[x.right][g[x.left][m].mapping])
<1>1. CASE x.kind = "Literal"
  BY <1>1 DEF PropagatedRow
<1>2. CASE x.kind = "Identifier"
  BY <1>2 DEF PropagatedRow, AfterIdentifier
<1>3. CASE x.kind = "Unary"
  <2>1. g[x.input][m] \in Steps
    BY <1>3, OperandsByKind
  <2>2. PropagatedRow(x, g)[m]
          = [i \in Steps |-> Folded([x EXCEPT !.input = i.node], {i.node},
                                    i.mapping, i.killed)][g[x.input][m]]
    BY <1>3 DEF PropagatedRow
  <2> QED BY <1>3, <2>1, <2>2 DEF AfterUnary
<1>4. CASE x.kind = "Binary"
  <2> DEFINE l == g[x.left][m]
             r == g[x.right][l.mapping]
             AfterRight(left) ==
                [right \in Steps |->
                    Folded([x EXCEPT !.left = left.node, !.right = right.node],
                           {left.node, right.node}, right.mapping,
                           left.killed \/ right.killed)]
             AfterLeft == [left \in Steps |-> AfterRight(left)[g[x.right][left.mapping]]]
  <2>1. l \in Steps /\ l.mapping \in Mappings
    BY <1>4, OperandsByKind DEF Steps
  <2>2. r \in Steps
    <3> HIDE DEF l
    <3> QED BY <1>4, <2>1, OperandsByKind
  <2>3. PropagatedRow(x, g)[m] = AfterLeft[l]
    BY <1>4 DEF PropagatedRow
  <2>4. AfterLeft[l] = AfterRight(l)[r]
    <3> HIDE DEF AfterRight, l
    <3> QED BY <2>1
  <2>5. AfterRight(l)[r] = AfterBinary(x, l, r)
    <3> HIDE DEF l, r
    <3> QED BY <2>1, <2>2 DEF AfterBinary, WithOperands
  <2> QED BY <1>4, <2>3, <2>4, <2>5
<1>5. QED
  BY <1>1, <1>2, <1>3, <1>4

LEMMA PropagatedRowType ==
    ASSUME PassType, NEW x \in Expressions, NEW m \in Mappings, NEW g,
           \A y \in Operands(x) :
              /\ g[y] \in [Mappings -> Steps]
              /\ \A n \in Mappings : g[y][n].node \in AsHigh(y)
    PROVE  PropagatedRow(x, g)[m] \in Steps /\ PropagatedRow(x, g)[m].node \in AsHigh(x)
<1> DEFINE s == PropagatedRow(x, g)[m]
<1>1. ASSUME NEW y \in AsHigh(x), NEW n \in Mappings, s = Step(y, n, FALSE)
      PROVE  s \in Steps /\ s.node \in AsHigh(x)
  <2> HIDE DEF s
  <2> QED BY <1>1 DEF Step, Steps, AsHigh
<1>2. CASE x.kind = "Literal"
  <2>1. s = Step(x, m, FALSE)
    BY <1>2, PropagatedRowByKind
  <2> HIDE DEF s
  <2> QED BY <2>1, <1>1, AsHighTrivial DEF s
<1>3. CASE x.kind = "Identifier"
  <2>1. s = AfterIdentifier(x, m)
    BY <1>3, PropagatedRowByKind
  <2>2. x.symbol \in Handles
    BY <1>3, ExpressionKinds DEF Identifiers
  <2>3. known[x.symbol] \in Ints \cup {NoValue}
    BY <2>2 DEF PassType, KnownType
  <2> HIDE DEF s
  <2>4. CASE known[x.symbol] = NoValue
    BY <2>1, <2>4, <1>1, AsHighTrivial DEF AfterIdentifier, s
  <2>5. CASE known[x.symbol] # NoValue
    <3>1. Literal(known[x.symbol]) \in AsHigh(x)
      BY <2>3, <2>5, LiteralType, AsHighTrivial
    <3>2. Emplace(x, known[x.symbol], m) \in Mappings
      BY <2>3, <2>5, EmplaceType
    <3> QED BY <2>1, <2>5, <3>1, <3>2, <1>1 DEF AfterIdentifier, s
  <2> QED BY <2>4, <2>5
<1>4. CASE x.kind = "Unary"
  <2> DEFINE i == g[x.input][m]
             z == [x EXCEPT !.input = i.node]
  <2>1. i \in Steps /\ i.node \in AsHigh(x.input)
    BY <1>4, OperandsByKind
  <2>2. s = AfterUnary(x, i)
    BY <1>4, PropagatedRowByKind
  <2> HIDE DEF s, i
  <2>3. z \in AsHigh(x)
    BY <1>4, <2>1, UnaryReplaced
  <2>4. s = Folded(z, {i.node}, i.mapping, i.killed)
    BY <2>2 DEF AfterUnary
  <2>5. i.mapping \in Mappings /\ i.killed \in BOOLEAN
    BY <2>1 DEF Steps
  <2> HIDE DEF z
  <2> QED BY <2>3, <2>4, <2>5, FoldedType DEF s, PassType
<1>5. CASE x.kind = "Binary"
  <2> DEFINE l == g[x.left][m]
             r == g[x.right][l.mapping]
             z == WithOperands(x, l.node, r.node)
             k == l.killed \/ r.killed
  <2>1. l \in Steps /\ l.node \in AsHigh(x.left) /\ l.mapping \in Mappings
    BY <1>5, OperandsByKind DEF Steps
  <2>2. s = AfterBinary(x, l, r)
    BY <1>5, PropagatedRowByKind
  <2> HIDE DEF l
  <2>3. r \in Steps /\ r.node \in AsHigh(x.right)
    BY <1>5, <2>1, OperandsByKind
  <2> HIDE DEF s, r
  <2>4. z \in AsHigh(x)
    BY <1>5, <2>1, <2>3, BinaryReplaced
  <2>5. s = Folded(z, {l.node, r.node}, r.mapping, k)
    BY <2>2 DEF AfterBinary
  <2>6. r.mapping \in Mappings /\ k \in BOOLEAN
    BY <2>1, <2>3 DEF Steps
  <2> HIDE DEF z, k
  <2> QED BY <2>4, <2>5, <2>6, FoldedType DEF s, PassType
<1>6. QED
  BY <1>2, <1>3, <1>4, <1>5, ExpressionKinds

LEMMA PropagatedEquation ==
    ASSUME PassType
    PROVE  \A x \in Expressions :
              /\ Propagated[x] \in [Mappings -> Steps]
              /\ \A m \in Mappings : Propagated[x][m].node \in AsHigh(x)
              /\ Propagated[x] = PropagatedRow(x, Propagated)
<1> DEFINE V == [Mappings -> Steps]
           WV(x) == {f \in V : \A m \in Mappings : f[m].node \in AsHigh(x)}
           W == [x \in Expressions |-> WV(x)]
           D == [p \in Expressions \X [Expressions -> V] |-> PropagatedRow(p[1], p[2])]
           Fix(g) == g = [x \in Expressions |-> PropagatedRow(x, g)]
<1>1. ASSUME NEW x \in Expressions, NEW g, \A y \in Operands(x) : g[y] \in WV(y)
      PROVE  PropagatedRow(x, g) \in WV(x)
  <2>1. \A m \in Mappings :
            PropagatedRow(x, g)[m] \in Steps /\ PropagatedRow(x, g)[m].node \in AsHigh(x)
    BY <1>1, PropagatedRowType
  <2>2. PropagatedRow(x, g) = [m \in Mappings |-> PropagatedRow(x, g)[m]]
    BY DEF PropagatedRow
  <2> QED BY <2>1, <2>2
<1>2. ASSUME NEW x \in Expressions, NEW g, NEW h, \A y \in Operands(x) : g[y] = h[y],
             \A y \in Operands(x) : g[y] \in V
      PROVE  PropagatedRow(x, g) = PropagatedRow(x, h)
  <2>1. \A y \in Operands(x) : h[y] \in V
    BY <1>2
  <2>2. ASSUME NEW m \in Mappings PROVE PropagatedRow(x, g)[m] = PropagatedRow(x, h)[m]
    <3>1. CASE x.kind = "Literal"
      BY <1>2, <2>1, <3>1, PropagatedRowByKind
    <3>2. CASE x.kind = "Identifier"
      BY <1>2, <2>1, <3>2, PropagatedRowByKind
    <3>3. CASE x.kind = "Unary"
      <4>1. g[x.input] = h[x.input]
        BY <1>2, <3>3, OperandsByKind
      <4>2. PropagatedRow(x, g)[m] = AfterUnary(x, g[x.input][m])
        BY <1>2, <3>3, PropagatedRowByKind
      <4>3. PropagatedRow(x, h)[m] = AfterUnary(x, h[x.input][m])
        BY <2>1, <3>3, PropagatedRowByKind
      <4> QED BY <4>1, <4>2, <4>3
    <3>4. CASE x.kind = "Binary"
      <4>1. g[x.left] = h[x.left] /\ g[x.right] = h[x.right]
        BY <1>2, <3>4, OperandsByKind
      <4>2. PropagatedRow(x, g)[m]
              = AfterBinary(x, g[x.left][m], g[x.right][g[x.left][m].mapping])
        BY <1>2, <3>4, PropagatedRowByKind
      <4>3. PropagatedRow(x, h)[m]
              = AfterBinary(x, h[x.left][m], h[x.right][h[x.left][m].mapping])
        BY <2>1, <3>4, PropagatedRowByKind
      <4> QED BY <4>1, <4>2, <4>3
    <3> QED BY <3>1, <3>2, <3>3, <3>4, ExpressionKinds
  <2>3. \A f : PropagatedRow(x, f) = [m \in Mappings |-> PropagatedRow(x, f)[m]]
    BY DEF PropagatedRow
  <2>4. PropagatedRow(x, g) = [m \in Mappings |-> PropagatedRow(x, g)[m]]
    BY <2>3
  <2>5. PropagatedRow(x, h) = [m \in Mappings |-> PropagatedRow(x, h)[m]]
    BY <2>3
  <2> QED BY <2>2, <2>4, <2>5
<1>3. V # {}
  <2>1. Literal(0) \in Expressions
    BY LiteralType, Integers_
  <2>2. Step(Literal(0), {}, FALSE) \in Steps
    BY <2>1 DEF Step, Steps, Mappings
  <2>3. [m \in Mappings |-> Step(Literal(0), {}, FALSE)] \in V
    BY <2>2
  <2> QED BY <2>3
<1>4. \A x \in Expressions : W[x] \subseteq V /\ W[x] = WV(x)
  OBVIOUS
<1>5. \A x \in Expressions, g \in [Expressions -> V] : D[<<x, g>>] = PropagatedRow(x, g)
  OBVIOUS
<1> HIDE DEF V, W, D, WV
<1>6. Recursion(V, W, D)
  <2>1. \A x \in Expressions, g \in [Expressions -> V] :
            (\A y \in Operands(x) : g[y] \in W[y]) => D[<<x, g>>] \in W[x]
    BY <1>1, <1>4, <1>5, OperandsAreExpressions
  <2>2. \A x \in Expressions, g, h \in [Expressions -> V] :
            (\A y \in Operands(x) : g[y] = h[y]) => D[<<x, g>>] = D[<<x, h>>]
    <3>1. \A x \in Expressions, g, h \in [Expressions -> V] :
            (\A y \in Operands(x) : g[y] = h[y]) => PropagatedRow(x, g) = PropagatedRow(x, h)
      BY <1>2, OperandsAreExpressions
    <3> QED BY <3>1, <1>5
  <2> QED BY <2>1, <2>2, <1>3, <1>4 DEF Recursion
<1>7. PICK f \in [Expressions -> V] : \A x \in Expressions : f[x] = PropagatedRow(x, f)
  <2>1. Solvable(V, W, D)
    BY <1>6, StructuralRecursion
  <2> QED BY <2>1, <1>5 DEF Solvable
<1>8. Fix(f)
  BY <1>7
<1>9. Propagated = CHOOSE g : Fix(g)
  BY DEF Propagated, PropagatedRow
<1>10. Fix(Propagated)
  <2> HIDE DEF Fix
  <2> QED BY <1>8, <1>9
<1>11. \A x \in Expressions : Propagated[x] = PropagatedRow(x, Propagated)
  BY <1>10
<1>12. \A x \in Expressions : Propagated[x] \in WV(x)
  <2> DEFINE P == {x \in Expressions : Propagated[x] \in WV(x)}
  <2>1. \A x \in Expressions : Operands(x) \subseteq P => x \in P
    BY <1>1, <1>11
  <2> HIDE DEF P
  <2>2. Expressions \subseteq P
    BY <2>1, ExpressionInduction
  <2> QED BY <2>2 DEF P
<1>13. QED
  BY <1>11, <1>12 DEF WV, V

LEMMA OwnAddress ==
    ASSUME NEW x \in Expressions, x.kind # "Literal"
    PROVE  x.at \in At(x) /\ x \in Addressed(x)
<1>1. x \in Addressed(x)
  BY AddressedByKind, ExpressionKinds
<1>2. QED
  BY <1>1 DEF At

(* An operator over literals has the same value in every context. *)
LEMMA ValueOfLiterals ==
    ASSUME NEW x \in Expressions, Operands(x) # {},
           \A y \in Operands(x) : y.kind = "Literal",
           NEW c \in Contexts, NEW d \in Contexts
    PROVE  Evaluate[x][c] = Evaluate[x][d]
<1>1. \A y \in Operands(x) : Evaluate[y][c] = Evaluate[y][d]
  <2> SUFFICES ASSUME NEW y \in Operands(x) PROVE Evaluate[y][c] = Evaluate[y][d]
    OBVIOUS
  <2>1. y \in Expressions
    BY OperandsAreExpressions
  <2> QED BY <2>1, EvaluateByKind
<1>2. CASE x.kind = "Unary"
  BY <1>1, <1>2, OperandsByKind, EvaluateByKind
<1>3. CASE x.kind = "Binary"
  BY <1>1, <1>3, OperandsByKind, EvaluateByKind
<1>4. QED
  BY <1>2, <1>3, OperandsByKind, ExpressionKinds

(* constant_propagation has nothing left to do in x. *)
FoldedOut(x) ==
    \A y \in Addressed(x) :
        Operands(y) # {} /\ (\A z \in Operands(y) : z.kind = "Literal")
            => Evaluate[y][PassContext] = NoValue

(* The nodes of s and what it remembers, if it takes the place of x, m. *)
AddressesKept(x, m, s) ==
    /\ Remembered(s.mapping) \subseteq Remembered(m) \cup At(x)
    /\ At(s.node) \subseteq At(x)
    /\ DistinctAddresses(x) => DistinctAddresses(s.node)

LEMMA FoldedAddresses ==
    ASSUME NEW x \in Expressions, NEW xs, NEW m \in Mappings, NEW killed \in BOOLEAN,
           function \in FunctionNodes
    PROVE  /\ AddressesKept(x, m, Folded(x, xs, m, killed))
           /\ At(x) \cap Remembered(m) = {} =>
                LET s == Folded(x, xs, m, killed)
                IN  At(s.node) \cap Remembered(s.mapping) = {}
<1> DEFINE value == Evaluate[x][PassContext]
           s == Folded(x, xs, m, killed)
<1>1. /\ ~ HasValues(xs, m) => s = Step(x, m, killed)
      /\ HasValues(xs, m) /\ value \in Failures => s = Step(x, m, value = Trap \/ killed)
      /\ HasValues(xs, m) /\ value \notin Failures =>
            value \in Ints /\ s = Step(Literal(value), Emplace(x, value, m), killed)
  BY FoldedCases
<1> HIDE DEF value, s
<1>2. \/ s.node = x /\ s.mapping = m
      \/ value \in Ints /\ s.node = Literal(value) /\ s.mapping = Emplace(x, value, m)
  <2>1. \A n, k, l : Step(n, k, l).node = n /\ Step(n, k, l).mapping = k
    BY DEF Step
  <2>2. CASE ~ HasValues(xs, m)
    BY <1>1, <2>1, <2>2
  <2>3. CASE HasValues(xs, m) /\ value \in Failures
    <3> DEFINE k == value = Trap \/ killed
    <3>1. s = Step(x, m, k)
      BY <1>1, <2>3
    <3> HIDE DEF k
    <3> QED BY <2>1, <3>1
  <2>4. CASE HasValues(xs, m) /\ value \notin Failures
    BY <1>1, <2>1, <2>4
  <2> QED BY <2>2, <2>3, <2>4
<1>3. CASE s.node = x /\ s.mapping = m
  BY <1>3 DEF AddressesKept, s
<1>4. CASE value \in Ints /\ s.node = Literal(value) /\ s.mapping = Emplace(x, value, m)
  <2>1. /\ s.node \in Expressions
        /\ s.node.kind = "Literal"
    BY <1>4, LiteralType
  <2>2. At(s.node) = {} /\ DistinctAddresses(s.node)
    BY <2>1, AddressesByKind, DistinctByKind
  <2>3. Remembered(s.mapping) \subseteq Remembered(m) \cup At(x)
    BY <1>4, EmplaceType, OwnAddress
  <2> QED BY <2>2, <2>3 DEF AddressesKept, s
<1>5. QED
  BY <1>2, <1>3, <1>4

(* An operator whose operands are done, none of whose nodes is remembered. *)
LEMMA FoldedMeaning ==
    ASSUME NEW x \in Expressions, Operands(x) # {}, NEW m \in Mappings,
           NEW killed \in BOOLEAN, function \in FunctionNodes,
           At(x) \cap Remembered(m) = {}
    PROVE  LET s == Folded(x, Operands(x), m, killed)
           IN  /\ \A c \in Contexts : Evaluate[s.node][c] = Evaluate[x][c]
               /\ s.killed => killed \/ \A c \in Contexts : Evaluate[x][c] \in Failures
               /\ ~ s.killed /\ (\A y \in Operands(x) : FoldedOut(y)) => FoldedOut(s.node)
               /\ killed => s.killed
<1> DEFINE value == Evaluate[x][PassContext]
           xs == Operands(x)
           s == Folded(x, xs, m, killed)
           literal == \A y \in Operands(x) : y.kind = "Literal"
<1>1. /\ ~ HasValues(xs, m) => s = Step(x, m, killed)
      /\ HasValues(xs, m) /\ value \in Failures => s = Step(x, m, value = Trap \/ killed)
      /\ HasValues(xs, m) /\ value \notin Failures =>
            value \in Ints /\ s = Step(Literal(value), Emplace(x, value, m), killed)
  BY FoldedCases
<1>2. HasValues(xs, m) <=> literal
  <2>1. xs \in SUBSET Expressions
    BY OperandsAreExpressions
  <2>2. ASSUME NEW y \in xs, y.kind # "Literal" PROVE y.at \notin Remembered(m)
    <3>1. y.at \in At(y)
      BY <2>1, <2>2, OwnAddress
    <3>2. At(y) \subseteq At(x)
      BY OperandsByKind, AddressesByKind, ExpressionKinds
    <3> QED BY <3>1, <3>2
  <2> HIDE DEF xs
  <2>3. HasValues(xs, m) <=> \A y \in xs : y.kind = "Literal"
    BY <2>1, <2>2, ValuesOfLiterals
  <2> QED BY <2>3 DEF xs
<1>3. PassContext \in Contexts
  BY PassContextType
<1>4. literal => \A c \in Contexts : Evaluate[x][c] = value
  BY <1>3, ValueOfLiterals
<1>5. ASSUME literal => value = NoValue, \A y \in Operands(x) : FoldedOut(y)
      PROVE  FoldedOut(x)
  <2>1. \A y \in Addressed(x) : y = x \/ \E z \in Operands(x) : y \in Addressed(z)
    BY AddressedByKind, OperandsByKind, ExpressionKinds
  <2> QED BY <2>1, <1>5 DEF FoldedOut
<1> HIDE DEF value, s, literal
<1>6. CASE ~ literal
  <2>1. s.node = x /\ s.killed = killed
    BY <1>1, <1>2, <1>6 DEF Step
  <2> QED BY <2>1, <1>5, <1>6 DEF s
<1>7. CASE literal /\ value \in Failures
  <2> DEFINE k == value = Trap \/ killed
  <2>1. k \in BOOLEAN
    OBVIOUS
  <2>2. s = Step(x, m, k)
    BY <1>1, <1>2, <1>7
  <2> HIDE DEF k
  <2>3. s.node = x /\ s.killed = k
    BY <2>2 DEF Step
  <2>4. ~ k => value = NoValue
    BY <1>7 DEF k, Failures
  <2>5. k = TRUE => killed \/ \A c \in Contexts : Evaluate[x][c] \in Failures
    BY <1>4, <1>7
  <2>6. killed => k
    BY DEF k
  <2>7. ~ k /\ (\A y \in Operands(x) : FoldedOut(y)) => FoldedOut(s.node)
    BY <2>3, <2>4, <1>5
  <2> QED BY <2>1, <2>3, <2>5, <2>6, <2>7 DEF s
<1>8. CASE literal /\ value \notin Failures
  <2>1. value \in Ints /\ s.node = Literal(value) /\ s.killed = killed
    BY <1>1, <1>2, <1>8 DEF Step
  <2>2. s.node \in Expressions /\ s.node.kind = "Literal" /\ s.node.value = value
    BY <2>1, LiteralType
  <2>3. \A c \in Contexts : Evaluate[s.node][c] = Evaluate[x][c]
    BY <1>4, <1>8, <2>2, EvaluateByKind
  <2>4. FoldedOut(s.node)
    BY <2>2, AddressedByKind DEF FoldedOut
  <2> QED BY <2>1, <2>3, <2>4 DEF s
<1>9. QED
  BY <1>6, <1>7, <1>8

(* A context in which the symbols that the pass knows have these values. *)
Agrees(context) == \A h \in Handles : known[h] # NoValue => context[h] = known[h]

(* What a step from x and m to s achieves. *)
Propagates(x, m, s) ==
    /\ AddressesKept(x, m, s)
    /\ DistinctAddresses(x) /\ At(x) \cap Remembered(m) = {} =>
          /\ At(s.node) \cap Remembered(s.mapping) = {}
          /\ \A c \in Contexts : Agrees(c) => Evaluate[s.node][c] = Evaluate[x][c]
          /\ s.killed => \A c \in Contexts : Agrees(c) => Evaluate[x][c] \in Failures
          /\ ~ s.killed => FoldedOut(s.node)

LEMMA LeafPropagates ==
    ASSUME PassType, NEW x \in Expressions, x.kind \in {"Literal", "Identifier"},
           NEW m \in Mappings
    PROVE  Propagates(x, m, Propagated[x][m])
<1> DEFINE s == Propagated[x][m]
<1>1. /\ x.kind = "Literal" => s = Step(x, m, FALSE)
      /\ x.kind = "Identifier" => s = AfterIdentifier(x, m)
  <2>1. Operands(x) = {}
    BY OperandsByKind
  <2>2. /\ x.kind = "Literal" => PropagatedRow(x, Propagated)[m] = Step(x, m, FALSE)
        /\ x.kind = "Identifier" => PropagatedRow(x, Propagated)[m] = AfterIdentifier(x, m)
    BY <2>1, PropagatedRowByKind
  <2> QED BY <2>2, PropagatedEquation
<1> HIDE DEF s
<1>2. \A y \in Expressions : y.kind \in {"Literal", "Identifier"} => FoldedOut(y)
  BY AddressedByKind, OperandsByKind DEF FoldedOut
<1>3. CASE s = Step(x, m, FALSE)
  <2>1. s.node = x /\ s.mapping = m /\ s.killed = FALSE
    BY <1>3 DEF Step
  <2> QED BY <2>1, <1>2 DEF Propagates, AddressesKept, s
<1>4. CASE x.kind = "Identifier" /\ known[x.symbol] # NoValue
  <2> DEFINE value == known[x.symbol]
  <2>1. x.symbol \in Handles
    BY <1>4, ExpressionKinds DEF Identifiers
  <2>2. value \in Ints
    BY <1>4, <2>1 DEF PassType, KnownType
  <2>3. s.node = Literal(value) /\ s.mapping = Emplace(x, value, m) /\ s.killed = FALSE
    BY <1>1, <1>4 DEF AfterIdentifier, Step
  <2>4. s.node \in Expressions /\ s.node.kind = "Literal" /\ s.node.value = value
    BY <2>2, <2>3, LiteralType
  <2>5. At(s.node) = {} /\ DistinctAddresses(s.node) /\ FoldedOut(s.node)
    BY <2>4, <1>2, AddressesByKind, DistinctByKind
  <2>6. Remembered(s.mapping) \subseteq Remembered(m) \cup At(x)
    BY <1>4, <2>2, <2>3, EmplaceType, OwnAddress
  <2>7. \A c \in Contexts : Agrees(c) => Evaluate[s.node][c] = Evaluate[x][c]
    BY <1>4, <2>1, <2>4, EvaluateByKind DEF Agrees
  <2> QED BY <2>3, <2>5, <2>6, <2>7 DEF Propagates, AddressesKept, s
<1>5. QED
  BY <1>1, <1>3, <1>4 DEF AfterIdentifier

LEMMA UnaryPropagates ==
    ASSUME PassType, NEW x \in Expressions, x.kind = "Unary", NEW m \in Mappings,
           Propagates(x.input, m, Propagated[x.input][m])
    PROVE  Propagates(x, m, Propagated[x][m])
<1> DEFINE s == Propagated[x][m]
           i == Propagated[x.input][m]
           z == [x EXCEPT !.input = i.node]
<1>1. x.input \in Expressions /\ Operands(x) = {x.input}
  BY OperandsByKind, OperandsAreExpressions
<1>2. i \in Steps /\ i.node \in AsHigh(x.input) /\ i.mapping \in Mappings /\ i.killed \in BOOLEAN
  <2>1. i \in Steps /\ i.node \in AsHigh(x.input)
    BY <1>1, PropagatedEquation
  <2> QED BY <2>1 DEF Steps
<1>3. s = AfterUnary(x, i)
  <2>1. \A y \in Operands(x) : Propagated[y] \in [Mappings -> Steps]
    BY <1>1, PropagatedEquation
  <2>2. PropagatedRow(x, Propagated)[m] = AfterUnary(x, Propagated[x.input][m])
    BY <2>1, PropagatedRowByKind
  <2> QED BY <2>2, PropagatedEquation
<1>4. Propagates(x.input, m, i)
  OBVIOUS
<1> HIDE DEF s, i
<1>5. /\ z \in Expressions /\ z.kind = "Unary" /\ z.operation = x.operation
      /\ z.input = i.node /\ z.at = x.at /\ i.node \in Expressions
  BY <1>2, UnaryReplaced
<1>6. s = Folded(z, {i.node}, i.mapping, i.killed)
  BY <1>3 DEF AfterUnary
<1> HIDE DEF z
<1>7. Operands(z) = {i.node}
  BY <1>5, OperandsByKind
<1>8. At(x) = {x.at} \cup At(x.input) /\ At(z) = {x.at} \cup At(i.node)
  BY <1>5, AddressesByKind
<1>9. AddressesKept(z, i.mapping, s)
  BY <1>2, <1>5, <1>6, FoldedAddresses DEF PassType
<1>10. AddressesKept(x, m, s)
  <2>1. /\ Remembered(i.mapping) \subseteq Remembered(m) \cup At(x.input)
        /\ At(i.node) \subseteq At(x.input)
        /\ DistinctAddresses(x.input) => DistinctAddresses(i.node)
    BY <1>4 DEF Propagates, AddressesKept
  <2>2. DistinctAddresses(x) => DistinctAddresses(z)
    BY <2>1, <1>5, <1>8, DistinctByKind
  <2> QED BY <2>1, <2>2, <1>8, <1>9 DEF AddressesKept
<1>11. ASSUME DistinctAddresses(x), At(x) \cap Remembered(m) = {}
       PROVE  /\ At(s.node) \cap Remembered(s.mapping) = {}
              /\ \A c \in Contexts : Agrees(c) => Evaluate[s.node][c] = Evaluate[x][c]
              /\ s.killed => \A c \in Contexts : Agrees(c) => Evaluate[x][c] \in Failures
              /\ ~ s.killed => FoldedOut(s.node)
  <2>1. x.at \notin At(x.input) /\ DistinctAddresses(x.input)
    BY <1>11, DistinctByKind
  <2>2. /\ At(i.node) \cap Remembered(i.mapping) = {}
        /\ \A c \in Contexts : Agrees(c) => Evaluate[i.node][c] = Evaluate[x.input][c]
        /\ i.killed => \A c \in Contexts : Agrees(c) => Evaluate[x.input][c] \in Failures
        /\ ~ i.killed => FoldedOut(i.node)
    BY <2>1, <1>4, <1>8, <1>11 DEF Propagates
  <2>3. At(z) \cap Remembered(i.mapping) = {}
    BY <2>1, <2>2, <1>4, <1>8, <1>11 DEF Propagates, AddressesKept
  <2>4. At(s.node) \cap Remembered(s.mapping) = {}
    BY <2>3, <1>2, <1>5, <1>6, FoldedAddresses DEF PassType
  <2>5. /\ \A c \in Contexts : Evaluate[s.node][c] = Evaluate[z][c]
        /\ s.killed => i.killed \/ \A c \in Contexts : Evaluate[z][c] \in Failures
        /\ ~ s.killed /\ (\A y \in Operands(z) : FoldedOut(y)) => FoldedOut(s.node)
        /\ i.killed => s.killed
    <3>1. Operands(z) # {} /\ s = Folded(z, Operands(z), i.mapping, i.killed)
      BY <1>6, <1>7
    <3> QED BY <3>1, <2>3, <1>2, <1>5, FoldedMeaning DEF PassType
  <2>6. \A c \in Contexts : Agrees(c) => Evaluate[z][c] = Evaluate[x][c]
    BY <2>2, <1>1, <1>5, EvaluateByKind
  <2>7. i.killed => \A c \in Contexts : Agrees(c) => Evaluate[x][c] \in Failures
    <3>1. \A c \in Contexts :
            Evaluate[x.input][c] \in Failures => Evaluate[x][c] \in Failures
      BY EvaluateByKind DEF UnaryValue
    <3> QED BY <3>1, <2>2
  <2>8. ~ s.killed => FoldedOut(s.node)
    BY <2>2, <2>5, <1>7
  <2> QED BY <2>4, <2>5, <2>6, <2>7, <2>8
<1>12. QED
  BY <1>10, <1>11 DEF Propagates, s

LEMMA BinaryPropagates ==
    ASSUME PassType, NEW x \in Expressions, x.kind = "Binary", NEW m \in Mappings,
           \A n \in Mappings : /\ Propagates(x.left, n, Propagated[x.left][n])
                               /\ Propagates(x.right, n, Propagated[x.right][n])
    PROVE  Propagates(x, m, Propagated[x][m])
<1> DEFINE s == Propagated[x][m]
           l == Propagated[x.left][m]
           r == Propagated[x.right][l.mapping]
           z == WithOperands(x, l.node, r.node)
<1>1. x.left \in Expressions /\ x.right \in Expressions /\ Operands(x) = {x.left, x.right}
  BY OperandsByKind, OperandsAreExpressions
<1>2. l \in Steps /\ l.node \in AsHigh(x.left) /\ l.mapping \in Mappings /\ l.killed \in BOOLEAN
  <2>1. l \in Steps /\ l.node \in AsHigh(x.left)
    BY <1>1, PropagatedEquation
  <2> QED BY <2>1 DEF Steps
<1>3. r \in Steps /\ r.node \in AsHigh(x.right) /\ r.mapping \in Mappings /\ r.killed \in BOOLEAN
  <2> HIDE DEF l
  <2>1. r \in Steps /\ r.node \in AsHigh(x.right)
    BY <1>1, <1>2, PropagatedEquation
  <2> QED BY <2>1 DEF Steps
<1>4. s = AfterBinary(x, l, r)
  <2>1. \A y \in Operands(x) : Propagated[y] \in [Mappings -> Steps]
    BY <1>1, PropagatedEquation
  <2>2. PropagatedRow(x, Propagated)[m]
          = AfterBinary(x, Propagated[x.left][m],
                        Propagated[x.right][Propagated[x.left][m].mapping])
    BY <2>1, PropagatedRowByKind
  <2> QED BY <2>2, PropagatedEquation
<1>5. Propagates(x.left, m, l)
  OBVIOUS
<1>6. Propagates(x.right, l.mapping, r)
  <2> HIDE DEF l
  <2> QED BY <1>2
<1> HIDE DEF s, l, r
<1>7. /\ z \in Expressions /\ z.kind = "Binary" /\ z.operation = x.operation
      /\ z.left = l.node /\ z.right = r.node /\ z.at = x.at
      /\ l.node \in Expressions /\ r.node \in Expressions
  BY <1>2, <1>3, BinaryReplaced
<1>8. PICK k \in BOOLEAN :
        /\ k <=> l.killed \/ r.killed
        /\ s = Folded(z, {l.node, r.node}, r.mapping, k)
  BY <1>4 DEF AfterBinary
<1> HIDE DEF z
<1>9. Operands(z) = {l.node, r.node}
  BY <1>7, OperandsByKind
<1>10. /\ At(x) = {x.at} \cup At(x.left) \cup At(x.right)
       /\ At(z) = {x.at} \cup At(l.node) \cup At(r.node)
  BY <1>7, AddressesByKind
<1>11. AddressesKept(z, r.mapping, s)
  BY <1>3, <1>7, <1>8, FoldedAddresses DEF PassType
<1>12. /\ Remembered(l.mapping) \subseteq Remembered(m) \cup At(x.left)
       /\ At(l.node) \subseteq At(x.left)
       /\ DistinctAddresses(x.left) => DistinctAddresses(l.node)
       /\ Remembered(r.mapping) \subseteq Remembered(l.mapping) \cup At(x.right)
       /\ At(r.node) \subseteq At(x.right)
       /\ DistinctAddresses(x.right) => DistinctAddresses(r.node)
  BY <1>5, <1>6 DEF Propagates, AddressesKept
<1>13. AddressesKept(x, m, s)
  <2>1. DistinctAddresses(x) => DistinctAddresses(z)
    BY <1>7, <1>10, <1>12, DistinctByKind
  <2> QED BY <2>1, <1>10, <1>11, <1>12 DEF AddressesKept
<1>14. ASSUME DistinctAddresses(x), At(x) \cap Remembered(m) = {}
       PROVE  /\ At(s.node) \cap Remembered(s.mapping) = {}
              /\ \A c \in Contexts : Agrees(c) => Evaluate[s.node][c] = Evaluate[x][c]
              /\ s.killed => \A c \in Contexts : Agrees(c) => Evaluate[x][c] \in Failures
              /\ ~ s.killed => FoldedOut(s.node)
  <2>1. /\ x.at \notin At(x.left) \cup At(x.right)
        /\ At(x.left) \cap At(x.right) = {}
        /\ DistinctAddresses(x.left)
        /\ DistinctAddresses(x.right)
    BY <1>14, DistinctByKind
  <2>2. /\ At(l.node) \cap Remembered(l.mapping) = {}
        /\ \A c \in Contexts : Agrees(c) => Evaluate[l.node][c] = Evaluate[x.left][c]
        /\ l.killed => \A c \in Contexts : Agrees(c) => Evaluate[x.left][c] \in Failures
        /\ ~ l.killed => FoldedOut(l.node)
    BY <2>1, <1>5, <1>10, <1>14 DEF Propagates
  <2>3. At(x.right) \cap Remembered(l.mapping) = {}
    BY <2>1, <1>10, <1>12, <1>14
  <2>4. /\ At(r.node) \cap Remembered(r.mapping) = {}
        /\ \A c \in Contexts : Agrees(c) => Evaluate[r.node][c] = Evaluate[x.right][c]
        /\ r.killed => \A c \in Contexts : Agrees(c) => Evaluate[x.right][c] \in Failures
        /\ ~ r.killed => FoldedOut(r.node)
    BY <2>1, <2>3, <1>6 DEF Propagates
  <2>5. At(z) \cap Remembered(r.mapping) = {}
    BY <2>1, <2>2, <2>4, <1>10, <1>12, <1>14
  <2>6. At(s.node) \cap Remembered(s.mapping) = {}
    BY <2>5, <1>3, <1>7, <1>8, FoldedAddresses DEF PassType
  <2>7. /\ \A c \in Contexts : Evaluate[s.node][c] = Evaluate[z][c]
        /\ s.killed => k \/ \A c \in Contexts : Evaluate[z][c] \in Failures
        /\ ~ s.killed /\ (\A y \in Operands(z) : FoldedOut(y)) => FoldedOut(s.node)
        /\ k => s.killed
    <3>1. Operands(z) # {} /\ s = Folded(z, Operands(z), r.mapping, k)
      BY <1>8, <1>9
    <3> DEFINE t == Folded(z, Operands(z), r.mapping, k)
    <3>2. /\ \A c \in Contexts : Evaluate[t.node][c] = Evaluate[z][c]
          /\ t.killed => k \/ \A c \in Contexts : Evaluate[z][c] \in Failures
          /\ ~ t.killed /\ (\A y \in Operands(z) : FoldedOut(y)) => FoldedOut(t.node)
          /\ k => t.killed
      <4>1. z \in Expressions /\ r.mapping \in Mappings /\ function \in FunctionNodes
        BY <1>3, <1>7 DEF PassType
      <4> QED BY <3>1, <4>1, <2>5, FoldedMeaning
    <3>3. t = s
      BY <3>1
    <3> QED BY <3>2, <3>3
  <2>8. \A c \in Contexts : Agrees(c) => Evaluate[z][c] = Evaluate[x][c]
    BY <2>2, <2>4, <1>1, <1>7, EvaluateByKind
  <2>9. k => \A c \in Contexts : Agrees(c) => Evaluate[x][c] \in Failures
    <3>1. \A c \in Contexts :
            Evaluate[x.left][c] \in Failures \/ Evaluate[x.right][c] \in Failures
                => Evaluate[x][c] \in Failures
      BY EvaluateByKind DEF BinaryValue
    <3> QED BY <3>1, <2>2, <2>4, <1>8
  <2>10. ~ s.killed => FoldedOut(s.node)
    <3>1. ~ k => ~ l.killed /\ ~ r.killed
      BY <1>8
    <3> QED BY <3>1, <2>2, <2>4, <2>7, <1>9
  <2> QED BY <2>6, <2>7, <2>8, <2>9, <2>10
<1>15. QED
  BY <1>13, <1>14 DEF Propagates, s

(* constant_propagation on one expression, however deep and whatever is    *)
(* remembered: what Propagates says of the node, the mapping and the end   *)
(* of the process.                                                         *)
THEOREM PropagatedCorrect ==
    ASSUME PassType
    PROVE  \A x \in Expressions, m \in Mappings : Propagates(x, m, Propagated[x][m])
<1> DEFINE Good(x) == \A m \in Mappings : Propagates(x, m, Propagated[x][m])
           P == {x \in Expressions : Good(x)}
<1>1. ASSUME NEW x \in Expressions, Operands(x) \subseteq P PROVE Good(x)
  <2> SUFFICES ASSUME NEW m \in Mappings PROVE Propagates(x, m, Propagated[x][m])
    OBVIOUS
  <2>1. CASE x.kind \in {"Literal", "Identifier"}
    BY <2>1, LeafPropagates
  <2>2. CASE x.kind = "Unary"
    BY <1>1, <2>2, OperandsByKind, UnaryPropagates
  <2>3. CASE x.kind = "Binary"
    <3>1. x.left \in P /\ x.right \in P
      BY <1>1, <2>3, OperandsByKind
    <3>2. \A n \in Mappings : /\ Propagates(x.left, n, Propagated[x.left][n])
                              /\ Propagates(x.right, n, Propagated[x.right][n])
      BY <3>1
    <3> QED BY <2>3, <3>2, BinaryPropagates
  <2> QED BY <2>1, <2>2, <2>3, ExpressionKinds
<1>2. Expressions \subseteq P
  <2> HIDE DEF Good
  <2>1. \A x \in Expressions : Operands(x) \subseteq P => x \in P
    BY <1>1
  <2> HIDE DEF P
  <2> QED BY <2>1, ExpressionInduction
<1>3. QED
  BY <1>2

(* The expression of a statement: its value, if it has one now, is there   *)
(* already.                                                                *)
LEMMA PropagatedStatementCorrect ==
    ASSUME PassType, NEW x \in Expressions, NEW m \in Mappings,
           NEW s, s = PropagatedStatement(x, m)
    PROVE  /\ s \in Steps
           /\ Propagates(x, m, s)
           /\ DistinctAddresses(x) /\ At(x) \cap Remembered(m) = {} =>
                (HasValues({s.node}, s.mapping) <=> s.node.kind = "Literal")
<1> DEFINE t == Propagated[x][m]
<1>1. t \in Steps /\ Propagates(x, m, t)
  BY PropagatedEquation, PropagatedCorrect
<1>2. s = Folded(t.node, {t.node}, t.mapping, t.killed)
  <2>1. s = [step \in Steps |->
                Folded(step.node, {step.node}, step.mapping, step.killed)][t]
    BY DEF PropagatedStatement
  <2> HIDE DEF t
  <2> QED BY <2>1, <1>1
<1> HIDE DEF t
<1>3. /\ t.node \in Expressions /\ t.mapping \in Mappings /\ t.killed \in BOOLEAN
      /\ t = Step(t.node, t.mapping, t.killed)
  BY <1>1 DEF Steps, Step
<1>4. s \in Steps
  <2>1. t.node \in AsHigh(t.node)
    BY <1>3, AsHighTrivial
  <2> QED BY <2>1, <1>2, <1>3, FoldedType DEF PassType
<1>5. AddressesKept(x, m, s)
  <2>1. AddressesKept(t.node, t.mapping, s)
    <3>1. AddressesKept(t.node, t.mapping, Folded(t.node, {t.node}, t.mapping, t.killed))
      BY <1>3, FoldedAddresses DEF PassType
    <3> QED BY <3>1, <1>2
  <2> QED BY <2>1, <1>1 DEF Propagates, AddressesKept
<1>6. ASSUME DistinctAddresses(x), At(x) \cap Remembered(m) = {}
      PROVE  /\ s.node = t.node
             /\ s.killed = t.killed
             /\ Remembered(s.mapping) = Remembered(t.mapping)
             /\ HasValues({s.node}, s.mapping) <=> s.node.kind = "Literal"
  <2>1. At(t.node) \cap Remembered(t.mapping) = {}
    BY <1>1, <1>6 DEF Propagates
  <2>2. ASSUME NEW n \in Mappings, Remembered(n) = Remembered(t.mapping)
        PROVE  HasValues({t.node}, n) <=> t.node.kind = "Literal"
    <3> DEFINE xs == {t.node}
    <3>1. xs \in SUBSET Expressions
      BY <1>3
    <3>2. \A y \in xs : y.kind # "Literal" => y.at \notin Remembered(n)
      BY <1>3, <2>1, <2>2, OwnAddress
    <3>3. (\A y \in xs : y.kind = "Literal") <=> t.node.kind = "Literal"
      OBVIOUS
    <3> HIDE DEF xs
    <3>4. HasValues(xs, n) <=> \A y \in xs : y.kind = "Literal"
      BY <3>1, <3>2, ValuesOfLiterals
    <3> QED BY <3>3, <3>4 DEF xs
  <2>3. HasValues({t.node}, t.mapping) <=> t.node.kind = "Literal"
    BY <1>3, <2>2
  <2>4. CASE t.node.kind # "Literal"
    <3>1. s = t
      BY <1>2, <1>3, <2>3, <2>4, FoldedCases DEF PassType
    <3> QED BY <3>1, <2>3
  <2>5. CASE t.node.kind = "Literal"
    <3> DEFINE value == Evaluate[t.node][PassContext]
    <3>1. t.node \in Literals
      BY <1>3, <2>5, ExpressionKinds
    <3>2. value = t.node.value /\ value \in Ints
      <4>1. PassContext \in Contexts
        BY PassContextType DEF PassType
      <4> QED BY <1>3, <2>5, <3>1, <4>1, EvaluateByKind DEF Literals
    <3>3. value \notin Failures
      BY <3>2, Integers_
    <3>4. Literal(value) = t.node
      BY <3>1, <3>2 DEF Literals, Literal
    <3>5. s = Step(Literal(value), Emplace(t.node, value, t.mapping), t.killed)
      BY <1>2, <1>3, <2>3, <2>5, <3>3, FoldedCases DEF PassType
    <3>6. s.node = t.node /\ s.killed = t.killed /\ s.mapping = Emplace(t.node, value, t.mapping)
      BY <3>4, <3>5 DEF Step
    <3>7. Remembered(s.mapping) = Remembered(t.mapping)
      <4>1. Remembered(Emplace(t.node, value, t.mapping))
              = Remembered(t.mapping) \cup (IF t.node.kind = "Literal" THEN {} ELSE {t.node.at})
        <5> HIDE DEF value
        <5> QED BY <1>3, <3>2, EmplaceType
      <4> QED BY <4>1, <2>5, <3>6
    <3>8. s.mapping \in Mappings
      BY <1>4 DEF Steps
    <3> QED BY <2>2, <3>6, <3>7, <3>8
  <2> QED BY <2>4, <2>5
<1>7. QED
  BY <1>1, <1>4, <1>5, <1>6 DEF Propagates

-----------------------------------------------------------------------------
(* Functions: a statement with another expression. *)

WithValue(f, i, y) == [f EXCEPT !.statements[i].value = y]

LEMMA StatementReplaced ==
    ASSUME NEW f \in FunctionNodes, NEW i \in 1 .. Len(f.statements),
           NEW y \in Expressions,
           NEW g, g = WithValue(f, i, y)
    PROVE  /\ g \in FunctionNodes
           /\ g.symbols = f.symbols
           /\ Len(g.statements) = Len(f.statements)
           /\ \A j \in 1 .. Len(f.statements) :
                /\ g.statements[j].type = f.statements[j].type
                /\ g.statements[j].target = f.statements[j].target
                /\ g.statements[j].value = IF j = i THEN y ELSE f.statements[j].value
<1> DEFINE ss == f.statements
           s == [ss[i] EXCEPT !.value = y]
           tt == [ss EXCEPT ![i] = s]
<1>1. f = [symbols |-> f.symbols, statements |-> ss]
      /\ f.symbols \in SymbolTables /\ ss \in Seq(StatementNodes)
  BY DEF FunctionNodes
<1>2. \A j \in 1 .. Len(ss) : ss[j] \in StatementNodes
  BY <1>1
<1>3. g.symbols = f.symbols /\ g.statements = tt /\ g = [symbols |-> f.symbols, statements |-> tt]
  BY <1>1 DEF WithValue
<1>4. /\ s \in StatementNodes
      /\ s.type = ss[i].type
      /\ s.target = ss[i].target
      /\ s.value = y
  BY <1>2 DEF StatementNodes
<1> HIDE DEF s
<1>5. tt \in Seq(StatementNodes) /\ Len(tt) = Len(ss)
  BY <1>1, <1>4
<1>6. \A j \in 1 .. Len(ss) : tt[j] = IF j = i THEN s ELSE ss[j]
  BY <1>1
<1> HIDE DEF tt
<1>7. g \in FunctionNodes
  BY <1>1, <1>3, <1>5 DEF FunctionNodes
<1>8. QED
  BY <1>3, <1>4, <1>5, <1>6, <1>7

LEMMA FunctionFields ==
    ASSUME NEW f \in FunctionNodes
    PROVE  /\ f.statements \in Seq(StatementNodes)
           /\ Len(f.statements) \in Nat
           /\ DOMAIN f.statements = 1 .. Len(f.statements)
           /\ \A i \in 1 .. Len(f.statements) :
                /\ f.statements[i] \in StatementNodes
                /\ f.statements[i].value \in Expressions
<1>1. f.statements \in Seq(StatementNodes)
  BY DEF FunctionNodes
<1>2. \A i \in 1 .. Len(f.statements) : f.statements[i] \in StatementNodes
  BY <1>1
<1>3. QED
  BY <1>1, <1>2, StatementFields

(* A function that semantic analysis accepts, in terms of addresses. *)
LEMMA AcceptedAddresses ==
    ASSUME NEW f \in FunctionNodes
    PROVE  Accepted(f) <=>
              /\ \E i \in 1 .. Len(f.statements) : f.statements[i].type = "ReturnStatement"
              /\ \A i \in 1 .. Len(f.statements) : DistinctAddresses(f.statements[i].value)
              /\ \A i, j \in 1 .. Len(f.statements) :
                    i # j => At(f.statements[i].value) \cap At(f.statements[j].value) = {}
<1>1. \A x, y : Apart(Addressed(x), Addressed(y)) <=> At(x) \cap At(y) = {}
  BY DEF Apart, At
<1>2. DOMAIN f.statements = 1 .. Len(f.statements)
  BY FunctionFields
<1>3. QED
  BY <1>1, <1>2 DEF Accepted

LEMMA AddressesOfNodes ==
    ASSUME NEW f \in FunctionNodes, NEW y \in LookedUp(f)
    PROVE  y.at \in Addresses
<1>1. PICK i \in DOMAIN f.statements : y \in Addressed(f.statements[i].value)
  BY DEF LookedUp
<1>2. f.statements[i].value \in Expressions
  BY FunctionFields
<1>3. y \in Expressions /\ y.kind # "Literal"
  <2>1. Addressed(f.statements[i].value) \subseteq Expressions
    BY <1>2, AddressedByKind
  <2> QED BY <2>1, <1>1 DEF Addressed
<1>4. QED
  BY <1>3, AddressTypes

LEMMA ApartAddresses ==
    ASSUME NEW f \in FunctionNodes, NEW m
    PROVE  Apart(LookedUp(f), m) <=>
              \A i \in 1 .. Len(f.statements) :
                  At(f.statements[i].value) \cap Remembered(m) = {}
<1>1. DOMAIN f.statements = 1 .. Len(f.statements)
  BY FunctionFields
<1>2. Apart(LookedUp(f), m) <=> \A y \in LookedUp(f), e \in m : y.at # e.at
  BY DEF Apart
<1>3. \A y : y \in LookedUp(f) <=>
                \E i \in 1 .. Len(f.statements) : y \in Addressed(f.statements[i].value)
  BY <1>1 DEF LookedUp
<1>4. \A y \in LookedUp(f) : y.at \in Addresses
  BY AddressesOfNodes
<1>5. QED
  BY <1>2, <1>3, <1>4 DEF At, Remembered

LEMMA AcceptedReplaced ==
    ASSUME NEW f, Accepted(f), NEW i \in 1 .. Len(f.statements), NEW y \in Expressions,
           At(y) \subseteq At(f.statements[i].value), DistinctAddresses(y),
           NEW g, g = WithValue(f, i, y)
    PROVE  Accepted(g)
<1>1. f \in FunctionNodes
  BY DEF Accepted
<1>2. /\ g \in FunctionNodes
      /\ Len(g.statements) = Len(f.statements)
      /\ \A j \in 1 .. Len(f.statements) :
            /\ g.statements[j].type = f.statements[j].type
            /\ g.statements[j].value = IF j = i THEN y ELSE f.statements[j].value
  BY <1>1, StatementReplaced
<1>3. /\ \E j \in 1 .. Len(f.statements) : f.statements[j].type = "ReturnStatement"
      /\ \A j \in 1 .. Len(f.statements) : DistinctAddresses(f.statements[j].value)
      /\ \A j, k \in 1 .. Len(f.statements) :
            j # k => At(f.statements[j].value) \cap At(f.statements[k].value) = {}
  BY <1>1, AcceptedAddresses
<1>4. \A j \in 1 .. Len(f.statements) :
        At(g.statements[j].value) \subseteq At(f.statements[j].value)
  BY <1>2
<1>5. /\ \E j \in 1 .. Len(g.statements) : g.statements[j].type = "ReturnStatement"
      /\ \A j \in 1 .. Len(g.statements) : DistinctAddresses(g.statements[j].value)
      /\ \A j, k \in 1 .. Len(g.statements) :
            j # k => At(g.statements[j].value) \cap At(g.statements[k].value) = {}
  <2>1. \E j \in 1 .. Len(g.statements) : g.statements[j].type = "ReturnStatement"
    BY <1>2, <1>3
  <2>2. \A j \in 1 .. Len(g.statements) : DistinctAddresses(g.statements[j].value)
    BY <1>2, <1>3
  <2>3. \A j, k \in 1 .. Len(g.statements) :
            j # k => At(g.statements[j].value) \cap At(g.statements[k].value) = {}
    <3> SUFFICES ASSUME NEW j \in 1 .. Len(g.statements), NEW k \in 1 .. Len(g.statements),
                        j # k
                 PROVE  At(g.statements[j].value) \cap At(g.statements[k].value) = {}
      OBVIOUS
    <3>1. At(f.statements[j].value) \cap At(f.statements[k].value) = {}
      BY <1>2, <1>3
    <3>2. /\ At(g.statements[j].value) \subseteq At(f.statements[j].value)
          /\ At(g.statements[k].value) \subseteq At(f.statements[k].value)
      BY <1>2, <1>4
    <3> QED BY <3>1, <3>2
  <2> QED BY <2>1, <2>2, <2>3
<1>6. QED
  BY <1>2, <1>5, AcceptedAddresses

LEMMA ContextOfSymbols ==
    ASSUME NEW f, NEW g, f.symbols = g.symbols
    PROVE  /\ Arguments(f) = Arguments(g)
           /\ \A arguments : Context(f, arguments) = Context(g, arguments)
BY DEF Arguments, Parameters, Context

LEMMA CallContext ==
    ASSUME NEW f \in FunctionNodes, NEW arguments \in Arguments(f)
    PROVE  Context(f, arguments) \in Contexts
BY ContextType DEF Arguments

(* The run is the same if the new expression has the old one's value where *)
(* the run comes to it.                                                    *)
SameValue(f, i, y, context) ==
    LET run == Execution(f.statements, context)[i - 1]
    IN  ~ run.ended =>
           Evaluate[y][run.context] = Evaluate[f.statements[i].value][run.context]

LEMMA ReplacedRun ==
    ASSUME NEW f \in FunctionNodes, NEW i \in 1 .. Len(f.statements),
           NEW y \in Expressions, NEW context \in Contexts, SameValue(f, i, y, context),
           NEW g, g = WithValue(f, i, y)
    PROVE  \A k \in 0 .. Len(f.statements) :
              Execution(g.statements, context)[k] = Execution(f.statements, context)[k]
<1> DEFINE ss == f.statements
           tt == g.statements
           e == Execution(ss, context)
<1>1. /\ g \in FunctionNodes
      /\ Len(tt) = Len(ss)
      /\ \A j \in 1 .. Len(ss) :
            /\ tt[j].type = ss[j].type
            /\ tt[j].target = ss[j].target
            /\ tt[j].value = IF j = i THEN y ELSE ss[j].value
  <2>1. /\ g \in FunctionNodes
        /\ Len(g.statements) = Len(f.statements)
    BY StatementReplaced
  <2>2. ASSUME NEW j \in 1 .. Len(f.statements)
        PROVE  /\ g.statements[j].type = f.statements[j].type
               /\ g.statements[j].target = f.statements[j].target
               /\ g.statements[j].value = IF j = i THEN y ELSE f.statements[j].value
    BY StatementReplaced
  <2> QED BY <2>1, <2>2
<1>2. ss \in Seq(StatementNodes) /\ tt \in Seq(StatementNodes) /\ Len(ss) \in Nat
  BY <1>1, FunctionFields
<1>3. ~ e[i - 1].ended => Evaluate[y][e[i - 1].context] = Evaluate[ss[i].value][e[i - 1].context]
  BY DEF SameValue
<1> HIDE DEF ss, tt
<1>4. ASSUME NEW j \in 1 .. Len(ss)
      PROVE  Executed(e[j - 1], j, tt[j]) = Executed(e[j - 1], j, ss[j])
  <2> HIDE DEF e
  <2>1. CASE e[j - 1].ended
    BY <2>1 DEF Executed
  <2>2. CASE ~ e[j - 1].ended
    <3>1. Evaluate[tt[j].value][e[j - 1].context] = Evaluate[ss[j].value][e[j - 1].context]
      BY <1>1, <1>3, <2>2 DEF ss
    <3> QED BY <3>1, <1>1 DEF Executed
  <2> QED BY <2>1, <2>2
<1>5. ASSUME NEW k \in 0 .. Len(ss) PROVE Execution(tt, context)[k] = Execution(ss, context)[k]
  <2>1. k \in Nat /\ k \leq Len(ss) /\ k \leq Len(tt)
    BY <1>1, <1>2 DEF ss
  <2>2. \A j \in 1 .. k : Executed(Execution(ss, context)[j - 1], j, tt[j])
                            = Executed(Execution(ss, context)[j - 1], j, ss[j])
    BY <1>2, <1>4
  <2> QED BY <1>2, <2>1, <2>2, ExecutionAgrees
<1>6. QED
  BY <1>5 DEF ss, tt

-----------------------------------------------------------------------------
(* The invariant. *)

Types ==
    /\ phase \in Passes \cup {"idle", "removal", "killed"}
    /\ passes \in 0 .. MaxPasses
    /\ last \in Passes \cup {"none"}
    /\ {reassigned, misled} \subseteq BOOLEAN
    /\ PassType
    /\ mapping \in Mappings
    /\ original \in FunctionNodes

(* The loop stays within the statements, and the AST stays one that        *)
(* semantic analysis would accept; no pass adds statements or touches the  *)
(* symbol table.                                                           *)
Shape ==
    /\ next \in 1 .. Len(Statements) + 1
    /\ phase = "idle" => next = 1
    /\ Len(Statements) \leq Len(original.statements)
    /\ Accepted(function)
    /\ function.symbols = original.symbols

(* Calls take the same course, statement by statement. *)
SameRuns ==
    phase # "killed" /\ ~ reassigned /\ ~ misled =>
        \A arguments \in Arguments(original) :
            Run(function, arguments) = Run(original, arguments)

(* A call that comes as far as the pass has come has the values known.     *)
KnownHolds ==
    phase = "constant_propagation" /\ ~ reassigned /\ ~ misled =>
        \A arguments \in Arguments(original) :
            LET run == Execution(Statements, Context(function, arguments))[next - 1]
            IN  ~ run.ended => Agrees(run.context)

(* The return statement that dead_code_elimination has found is the first. *)
ReturnFound ==
    /\ phase = "dead_code_elimination" =>
          \A i \in 1 .. next - 1 : Statements[i].type # "ReturnStatement"
    /\ phase = "removal" =>
          /\ next > 1
          /\ Statements[next - 1].type = "ReturnStatement"
          /\ \A i \in 1 .. next - 2 : Statements[i].type # "ReturnStatement"

(* What the pass has done so far. *)
DoneSoFar ==
    /\ phase = "UnaryPlusRemoval" =>
          \A i \in 1 .. next - 1 : NoPlus(Statements[i].value)
    /\ phase = "constant_propagation" /\ ~ misled =>
          \A i \in 1 .. next - 1 : FoldedOut(Statements[i].value)

Inv ==
    /\ Types
    /\ Shape
    /\ SameRuns
    /\ KnownHolds
    /\ ReturnFound
    /\ DoneSoFar
    /\ RemembersOnlyFreed
    /\ NothingLeft
    /\ KilledOnlyByDeadlyCode

(* The pass's own context depends on the symbol table only. *)
LEMMA PassContextSame ==
    ASSUME function'.symbols = function.symbols
    PROVE  PassContext' = PassContext
BY DEF PassContext, Context

LEMMA InvInit ==
    ASSUME Init
    PROVE  Inv
<1>1. Accepted(function) /\ function \in FunctionNodes /\ Len(Statements) \in Nat
  BY OptimizerAssumption, FunctionFields DEF Init, Accepted, Statements
<1>2. Types
  <2>1. PassType
    BY <1>1 DEF Init, PassType, KnownType, NothingKnown
  <2>2. passes \in 0 .. MaxPasses
    BY OptimizerAssumption DEF Init
  <2>3. mapping \in Mappings
    BY DEF Init, Mappings
  <2>4. reassigned = FALSE /\ misled = FALSE /\ phase = "idle" /\ last = "none" /\ original = function
    BY DEF Init
  <2> QED BY <2>1, <2>2, <2>3, <2>4, <1>1 DEF Types
<1>3. Shape
  BY <1>1 DEF Init, Shape, Statements
<1>4. SameRuns
  BY DEF Init, SameRuns
<1>5. KnownHolds /\ ReturnFound /\ DoneSoFar /\ KilledOnlyByDeadlyCode
  BY DEF Init, KnownHolds, ReturnFound, DoneSoFar, KilledOnlyByDeadlyCode
<1>6. RemembersOnlyFreed /\ NothingLeft
  BY DEF Init, RemembersOnlyFreed, NothingLeft
<1>7. QED
  BY <1>2, <1>3, <1>4, <1>5, <1>6 DEF Inv

LEMMA InvNewFunction ==
    ASSUME Inv, NewFunction
    PROVE  Inv'
<1>1. PICK f \in LaterFunctions : Load(f) /\ mapping' \in Located(f) \cup {mapping}
  BY DEF NewFunction
<1>2. /\ Accepted(f)
      /\ f \in FunctionNodes
      /\ Len(f.statements) \in Nat
      /\ function' = f
      /\ original' = f
      /\ last' = "none"
      /\ reassigned' = FALSE
      /\ misled' = FALSE
      /\ phase = "idle"
      /\ UNCHANGED <<phase, next, known, passes>>
  <2>1. Accepted(f)
    BY OptimizerAssumption
  <2> QED BY <2>1, <1>1, FunctionFields DEF Load, NewFunction, Accepted
<1>3. next = 1
  BY <1>2 DEF Inv, Shape
<1>4. Types'
  <2>1. mapping \in Mappings
    BY DEF Inv, Types
  <2>2. Located(f) \subseteq Mappings
    <3> SUFFICES ASSUME NEW y \in LookedUp(f), NEW e \in mapping
                 PROVE  mapping \cup {[at |-> y.at, value |-> e.value]} \in Mappings
      BY DEF Located
    <3>1. y.at \in Addresses
      BY <1>2, AddressesOfNodes
    <3>2. e.value \in Ints
      BY <2>1 DEF Mappings
    <3>3. [at |-> y.at, value |-> e.value] \in [at : Addresses \cup {Elsewhere}, value : Ints]
      BY <3>1, <3>2
    <3> QED BY <2>1, <3>3 DEF Mappings
  <2>3. mapping' \in Mappings
    BY <1>1, <2>1, <2>2
  <2> QED BY <2>3, <1>2 DEF Inv, Types, PassType, KnownType
<1>5. Shape'
  BY <1>2, <1>3 DEF Shape, Statements
<1>6. SameRuns'
  BY <1>2 DEF SameRuns
<1>7. KnownHolds' /\ ReturnFound' /\ DoneSoFar' /\ KilledOnlyByDeadlyCode'
  BY <1>2 DEF KnownHolds, ReturnFound, DoneSoFar, KilledOnlyByDeadlyCode
<1>8. RemembersOnlyFreed' /\ NothingLeft'
  BY <1>2 DEF RemembersOnlyFreed, NothingLeft
<1>9. QED
  BY <1>4, <1>5, <1>6, <1>7, <1>8 DEF Inv

LEMMA InvBeginConstantPropagation ==
    ASSUME Inv, BeginConstantPropagation
    PROVE  Inv'
<1>1. /\ phase = "idle"
      /\ phase' = "constant_propagation"
      /\ next' = 1
      /\ passes < MaxPasses
      /\ passes' = passes + 1
      /\ known' = InitiallyKnown(function)
      /\ mapping' \in {mapping, {}}
      /\ misled' = (misled \/ ~ Apart(LookedUp(function), mapping'))
      /\ UNCHANGED <<function, original, last, reassigned>>
  BY DEF BeginConstantPropagation, Begin
<1>2. Types /\ Shape /\ SameRuns
  BY DEF Inv
<1>3. function \in FunctionNodes /\ function.symbols \in SymbolTables
  BY <1>2 DEF Types, PassType, FunctionNodes
<1>4. Types'
  <2>1. KnownType'
    <3>1. InitiallyKnown(function) \in [Handles -> Ints \cup {NoValue}]
      BY <1>3 DEF InitiallyKnown, SymbolTables
    <3> QED BY <3>1, <1>1 DEF KnownType
  <2>2. mapping' \in Mappings
    BY <1>1, <1>2 DEF Types, Mappings
  <2>3. passes' \in 0 .. MaxPasses
    BY <1>1, <1>2, OptimizerAssumption DEF Types
  <2>4. misled' \in BOOLEAN
    BY <1>1
  <2>5. PassType'
    BY <2>1, <1>1, <1>3 DEF PassType
  <2> QED BY <2>2, <2>3, <2>4, <2>5, <1>1, <1>2 DEF Types, Passes
<1>5. Shape'
  BY <1>1, <1>2, <1>3, FunctionFields DEF Shape, Statements
<1>6. SameRuns'
  BY <1>1, <1>2 DEF SameRuns
<1>7. KnownHolds'
  <2> SUFFICES ASSUME NEW arguments \in Arguments(original)
               PROVE  LET run == Execution(Statements, Context(function, arguments))[0]
                      IN  \A h \in Handles : known'[h] # NoValue => run.context[h] = known'[h]
    <3>1. next' - 1 = 0 /\ Statements' = Statements
      BY <1>1 DEF Statements
    <3> QED BY <3>1, <1>1 DEF KnownHolds, Agrees
  <2> DEFINE context == Context(function, arguments)
  <2>1. arguments \in Arguments(function)
    BY <1>2, ContextOfSymbols DEF Shape
  <2>2. context \in Contexts
    BY <2>1, <1>3, CallContext
  <2>3. Execution(Statements, context)[0].context = context
    <3>1. Statements \in Seq(StatementNodes)
      BY <1>3, FunctionFields DEF Statements
    <3> HIDE DEF context
    <3>2. Execution(Statements, context)[0] = Started(context)
      BY <2>2, <3>1, ExecutionEquation
    <3> QED BY <3>2 DEF Started
  <2>4. ASSUME NEW h \in Handles, known'[h] # NoValue PROVE context[h] = known'[h]
    <3>1. function.symbols[h].type = "CONSTANT" /\ known'[h] = function.symbols[h].value
      BY <1>1, <2>4 DEF InitiallyKnown
    <3>2. h \notin DOMAIN arguments
      BY <2>1, <3>1 DEF Arguments, Parameters
    <3> QED BY <3>1, <3>2 DEF Context
  <2> QED BY <2>3, <2>4
<1>8. ReturnFound' /\ DoneSoFar' /\ KilledOnlyByDeadlyCode'
  BY <1>1 DEF ReturnFound, DoneSoFar, KilledOnlyByDeadlyCode
<1>9. RemembersOnlyFreed' /\ NothingLeft'
  BY <1>1 DEF RemembersOnlyFreed, NothingLeft
<1>10. QED
  BY <1>4, <1>5, <1>6, <1>7, <1>8, <1>9 DEF Inv

LEMMA InvBeginOther ==
    ASSUME Inv, BeginOther
    PROVE  Inv'
<1>1. /\ phase = "idle"
      /\ phase' \in {"UnaryPlusRemoval", "dead_code_elimination"}
      /\ next' = 1
      /\ passes < MaxPasses
      /\ passes' = passes + 1
      /\ UNCHANGED <<function, original, last, reassigned, known, mapping, misled>>
  BY DEF BeginOther, Begin
<1>2. Types /\ Shape /\ SameRuns
  BY DEF Inv
<1>3. Types'
  BY <1>1, <1>2, OptimizerAssumption DEF Types, PassType, KnownType, Passes
<1>4. Shape'
  BY <1>1, <1>2, FunctionFields DEF Shape, Statements, Accepted
<1>5. SameRuns'
  BY <1>1, <1>2 DEF SameRuns
<1>6. KnownHolds' /\ ReturnFound' /\ DoneSoFar' /\ KilledOnlyByDeadlyCode'
  BY <1>1 DEF KnownHolds, ReturnFound, DoneSoFar, KilledOnlyByDeadlyCode
<1>7. RemembersOnlyFreed' /\ NothingLeft'
  BY <1>1 DEF RemembersOnlyFreed, NothingLeft
<1>8. QED
  BY <1>3, <1>4, <1>5, <1>6, <1>7 DEF Inv

LEMMA InvRemoveUnaryPlus ==
    ASSUME Inv, RemoveUnaryPlus
    PROVE  Inv'
<1> DEFINE x == Statements[next].value
           y == RemovePlus[x]
<1>1. /\ phase = "UnaryPlusRemoval"
      /\ next \leq Len(Statements)
      /\ function' = WithValue(function, next, y)
      /\ next' = next + 1
      /\ UNCHANGED <<original, phase, known, mapping, passes, last, reassigned, misled>>
  BY DEF RemoveUnaryPlus, InLoop, Statements, WithValue
<1>2. Types /\ Shape /\ SameRuns /\ DoneSoFar
  BY DEF Inv
<1>3. /\ function \in FunctionNodes
      /\ Len(Statements) \in Nat
      /\ next \in 1 .. Len(function.statements)
      /\ x = function.statements[next].value
      /\ x \in Expressions
  BY <1>1, <1>2, FunctionFields DEF Types, PassType, Shape, Statements
<1>4. y \in Expressions /\ Replaces(y, x) /\ NoPlus(y)
  BY <1>3, RemovePlusCorrect
<1> HIDE DEF y
<1>5. /\ function' \in FunctionNodes
      /\ function'.symbols = function.symbols
      /\ Len(Statements') = Len(Statements)
      /\ \A j \in 1 .. Len(Statements) :
            Statements'[j].value = IF j = next THEN y ELSE Statements[j].value
  BY <1>1, <1>3, <1>4, StatementReplaced DEF Statements
<1>6. Types'
  BY <1>1, <1>2, <1>5 DEF Types, PassType, KnownType
<1>7. Shape'
  <2>1. Accepted(function')
    <3>1. DistinctAddresses(x)
      BY <1>2, <1>3, AcceptedAddresses DEF Shape
    <3>2. At(y) \subseteq At(function.statements[next].value) /\ DistinctAddresses(y)
      BY <1>3, <1>4, <3>1 DEF Replaces
    <3>3. Accepted(function)
      BY <1>2 DEF Shape
    <3> HIDE DEF x
    <3> QED BY <1>1, <1>3, <1>4, <3>2, <3>3, AcceptedReplaced
  <2> QED BY <2>1, <1>1, <1>2, <1>3, <1>5 DEF Shape
<1>8. SameRuns'
  <2> SUFFICES ASSUME ~ reassigned, ~ misled, NEW arguments \in Arguments(original)
               PROVE  Run(function', arguments) = Run(original, arguments)
    BY <1>1 DEF SameRuns
  <2> DEFINE context == Context(function, arguments)
  <2>1. arguments \in Arguments(function) /\ Context(function', arguments) = context
    BY <1>2, <1>5, ContextOfSymbols DEF Shape
  <2>2. context \in Contexts
    BY <2>1, <1>3, CallContext
  <2>3. Run(function, arguments) = Run(original, arguments)
    BY <1>1, <1>2 DEF SameRuns
  <2> HIDE DEF context
  <2>4. Execution(function'.statements, context)[Len(Statements)]
          = Execution(function.statements, context)[Len(Statements)]
    <3> DEFINE run == Execution(function.statements, context)[next - 1]
    <3>1. run.context \in Contexts
      <4>1. function.statements \in Seq(StatementNodes) /\ next - 1 \in 0 .. Len(function.statements)
        BY <1>3, FunctionFields
      <4>2. run \in RunStates
        BY <2>2, <4>1, ExecutionEquation
      <4> QED BY <4>2 DEF RunStates
    <3>2. Evaluate[y][run.context] = Evaluate[function.statements[next].value][run.context]
      BY <3>1, <1>3, <1>4 DEF Replaces
    <3>3. Len(Statements) \in 0 .. Len(function.statements)
      BY <1>3 DEF Statements
    <3>4. SameValue(function, next, y, context)
      BY <3>2 DEF SameValue
    <3>5. \A k \in 0 .. Len(function.statements) :
            Execution(function'.statements, context)[k] = Execution(function.statements, context)[k]
      <4> HIDE DEF x, run
      <4> QED BY <1>1, <1>3, <1>4, <2>2, <3>4, ReplacedRun
    <3> QED BY <3>3, <3>5
  <2> QED BY <2>1, <2>3, <2>4, <1>5 DEF Run, Statements, context
<1>9. DoneSoFar'
  BY <1>1, <1>2, <1>3, <1>4, <1>5 DEF DoneSoFar, Shape
<1>10. KnownHolds' /\ ReturnFound' /\ KilledOnlyByDeadlyCode'
  BY <1>1 DEF KnownHolds, ReturnFound, KilledOnlyByDeadlyCode
<1>11. RemembersOnlyFreed' /\ NothingLeft'
  BY <1>1 DEF RemembersOnlyFreed, NothingLeft
<1>12. QED
  BY <1>6, <1>7, <1>8, <1>9, <1>10, <1>11 DEF Inv

LEMMA InvFindReturn ==
    ASSUME Inv, FindReturn
    PROVE  Inv'
<1>1. /\ phase = "dead_code_elimination"
      /\ next \leq Len(Statements)
      /\ next' = next + 1
      /\ phase' = IF Statements[next].type = "ReturnStatement" THEN "removal" ELSE phase
      /\ UNCHANGED <<function, original, known, mapping, passes, last, reassigned, misled>>
  BY DEF FindReturn, InLoop
<1>2. Types /\ Shape /\ SameRuns /\ ReturnFound
  BY DEF Inv
<1>3. Statements' = Statements /\ Len(Statements) \in Nat /\ next \in 1 .. Len(Statements)
  BY <1>1, <1>2, FunctionFields DEF Types, PassType, Shape, Statements
<1>4. Types'
  BY <1>1, <1>2 DEF Types, PassType, KnownType
<1>5. Shape'
  BY <1>1, <1>2, <1>3 DEF Shape
<1>6. SameRuns'
  BY <1>1, <1>2 DEF SameRuns
<1>7. ReturnFound'
  <2>1. \A i \in 1 .. next - 1 : Statements[i].type # "ReturnStatement"
    BY <1>1, <1>2 DEF ReturnFound
  <2>2. CASE Statements[next].type = "ReturnStatement"
    <3>1. next' > 1 /\ next' - 1 = next /\ next' - 2 = next - 1
      BY <1>1, <1>3
    <3> QED BY <2>1, <2>2, <3>1, <1>1, <1>3 DEF ReturnFound
  <2>3. CASE Statements[next].type # "ReturnStatement"
    <3>1. \A i \in 1 .. next' - 1 : i = next \/ i \in 1 .. next - 1
      BY <1>1, <1>3
    <3> QED BY <2>1, <2>3, <3>1, <1>1, <1>3 DEF ReturnFound
  <2> QED BY <2>2, <2>3
<1>8. KnownHolds' /\ DoneSoFar' /\ KilledOnlyByDeadlyCode'
  BY <1>1 DEF KnownHolds, DoneSoFar, KilledOnlyByDeadlyCode
<1>9. RemembersOnlyFreed' /\ NothingLeft'
  BY <1>1 DEF RemembersOnlyFreed, NothingLeft
<1>10. QED
  BY <1>4, <1>5, <1>6, <1>7, <1>8, <1>9 DEF Inv

LEMMA InvRemoveDeadStatement ==
    ASSUME Inv, RemoveDeadStatement
    PROVE  Inv'
<1> DEFINE tt == RemoveStatement(Statements)
<1>1. /\ phase = "removal"
      /\ next \leq Len(Statements)
      /\ function' = [function EXCEPT !.statements = tt]
      /\ UNCHANGED <<original, phase, next, known, mapping, passes, last, reassigned, misled>>
  BY DEF RemoveDeadStatement, InLoop, Statements
<1>2. Types /\ Shape /\ SameRuns /\ ReturnFound
  BY DEF Inv
<1>3. /\ function \in FunctionNodes
      /\ Len(Statements) \in Nat
      /\ next \in Int
      /\ next - 1 \in 1 .. Len(Statements) - 1
      /\ Statements[next - 1].type = "ReturnStatement"
      /\ Statements = function.statements
      /\ Statements \in Seq(StatementNodes)
  BY <1>1, <1>2, FunctionFields DEF Types, PassType, Shape, Statements, ReturnFound
<1>4. /\ tt \in Seq(StatementNodes)
      /\ Len(tt) = Len(Statements) - 1
      /\ \A j \in 1 .. Len(Statements) - 1 : tt[j] = Statements[j]
  <2> HIDE DEF Statements
  <2> QED BY <1>3 DEF RemoveStatement
<1> HIDE DEF tt
<1>5. /\ function' \in FunctionNodes
      /\ function'.symbols = function.symbols
      /\ Statements' = tt
      /\ function'.statements = tt
  BY <1>1, <1>3, <1>4 DEF FunctionNodes, Statements
<1>6. Types'
  BY <1>1, <1>2, <1>5 DEF Types, PassType, KnownType
<1>7. Shape'
  <2>1. Accepted(function')
    <3>1. \A i \in 1 .. Len(tt) :
            i \in 1 .. Len(function.statements) /\ tt[i] = function.statements[i]
      BY <1>3, <1>4
    <3>2. /\ \A i \in 1 .. Len(function.statements) :
                DistinctAddresses(function.statements[i].value)
          /\ \A i, j \in 1 .. Len(function.statements) :
                i # j => At(function.statements[i].value)
                            \cap At(function.statements[j].value) = {}
      BY <1>2, <1>3, AcceptedAddresses DEF Shape
    <3>3. /\ \A i \in 1 .. Len(tt) : DistinctAddresses(tt[i].value)
          /\ \A i, j \in 1 .. Len(tt) : i # j => At(tt[i].value) \cap At(tt[j].value) = {}
      BY <3>1, <3>2
    <3>4. \E i \in 1 .. Len(tt) : tt[i].type = "ReturnStatement"
      BY <1>3, <1>4
    <3> QED BY <3>3, <3>4, <1>5, AcceptedAddresses
  <2>2. next \in 1 .. Len(tt) + 1
    BY <1>1, <1>2, <1>3, <1>4 DEF Shape
  <2>3. Len(tt) \leq Len(original.statements)
    <3>1. Len(Statements) \leq Len(original.statements) /\ Len(original.statements) \in Nat
      BY <1>2, FunctionFields DEF Shape, Types
    <3> QED BY <3>1, <1>3, <1>4
  <2> QED BY <2>1, <2>2, <2>3, <1>1, <1>2, <1>5 DEF Shape
<1>8. SameRuns'
  <2> SUFFICES ASSUME ~ reassigned, ~ misled, NEW arguments \in Arguments(original)
               PROVE  Run(function', arguments) = Run(original, arguments)
    BY <1>1 DEF SameRuns
  <2> DEFINE context == Context(function, arguments)
  <2>1. arguments \in Arguments(function) /\ Context(function', arguments) = context
    BY <1>2, <1>5, ContextOfSymbols DEF Shape
  <2>2. context \in Contexts
    BY <2>1, <1>3, CallContext
  <2>3. Run(function, arguments) = Run(original, arguments)
    BY <1>1, <1>2 DEF SameRuns
  <2> HIDE DEF context
  <2>4. Execution(tt, context)[Len(tt)] = Execution(Statements, context)[Len(Statements)]
    <3> DEFINE ss == Statements
               i == next - 1
    <3>1. ss \in Seq(StatementNodes) /\ i \in 1 .. Len(ss) - 1 /\ Len(ss) > 0
      BY <1>3
    <3>2. ss[i].type = "ReturnStatement"
      BY <1>3
    <3> HIDE DEF ss, i
    <3>3. LET rr == RemoveStatement(ss)
          IN  Execution(rr, context)[Len(rr)] = Execution(ss, context)[Len(ss)]
      BY <3>1, <3>2, <2>2, ExecutionShortened
    <3> QED BY <3>3 DEF ss, tt
  <2> QED BY <2>1, <2>3, <2>4, <1>3, <1>5 DEF Run, context
<1>9. ReturnFound'
  <2>1. \A i \in 1 .. next - 1 : tt[i] = Statements[i]
    BY <1>3, <1>4
  <2>2. next - 1 \in 1 .. next - 1 /\ \A i \in 1 .. next - 2 : i \in 1 .. next - 1
    BY <1>3
  <2> QED BY <2>1, <2>2, <1>1, <1>2, <1>5 DEF ReturnFound
<1>10. KnownHolds' /\ DoneSoFar' /\ KilledOnlyByDeadlyCode'
  BY <1>1 DEF KnownHolds, DoneSoFar, KilledOnlyByDeadlyCode
<1>11. RemembersOnlyFreed' /\ NothingLeft'
  BY <1>1 DEF RemembersOnlyFreed, NothingLeft
<1>12. QED
  BY <1>6, <1>7, <1>8, <1>9, <1>10, <1>11 DEF Inv

LEMMA InvEndPass ==
    ASSUME Inv, EndPass
    PROVE  Inv'
<1>1. /\ phase \in Passes \cup {"removal"}
      /\ next > Len(Statements)
      /\ phase' = "idle"
      /\ last' = IF phase = "removal" THEN "dead_code_elimination" ELSE phase
      /\ next' = 1
      /\ known' = NothingKnown
      /\ UNCHANGED <<function, original, mapping, passes, reassigned, misled>>
  BY DEF EndPass
<1>2. Types /\ Shape /\ SameRuns /\ ReturnFound /\ DoneSoFar /\ RemembersOnlyFreed
  BY DEF Inv
<1>3. /\ function \in FunctionNodes
      /\ Statements = function.statements
      /\ Statements' = Statements
      /\ Len(Statements) \in Nat
      /\ next = Len(Statements) + 1
      /\ DOMAIN Statements = 1 .. Len(Statements)
  BY <1>1, <1>2, FunctionFields DEF Types, PassType, Shape, Statements
<1>4. Types'
  <2>1. KnownType'
    BY <1>1 DEF KnownType, NothingKnown
  <2>2. last' \in Passes \cup {"none"}
    BY <1>1 DEF Passes
  <2> QED BY <2>1, <2>2, <1>1, <1>2 DEF Types, PassType
<1>5. Shape'
  BY <1>1, <1>2, <1>3 DEF Shape
<1>6. SameRuns'
  BY <1>1, <1>2 DEF SameRuns, Passes
<1>7. KnownHolds' /\ ReturnFound' /\ DoneSoFar' /\ KilledOnlyByDeadlyCode'
  BY <1>1 DEF KnownHolds, ReturnFound, DoneSoFar, KilledOnlyByDeadlyCode
<1>8. RemembersOnlyFreed'
  BY <1>1, <1>2 DEF RemembersOnlyFreed, Passes, LookedUp
<1>9. NothingLeft'
  <2> SUFFICES ASSUME ~ misled PROVE NothingLeft'
    BY <1>1 DEF NothingLeft
  <2>1. /\ LookedUp(function') = LookedUp(function)
        /\ PassContext' = PassContext
    BY <1>1 DEF PassContext, LookedUp
  <2>2. \A y : y \in LookedUp(function) <=>
                \E i \in 1 .. Len(Statements) : y \in Addressed(Statements[i].value)
    BY <1>3 DEF LookedUp
  <2>3. CASE phase = "UnaryPlusRemoval"
    <3>1. \A i \in 1 .. Len(Statements) : NoPlus(Statements[i].value)
      BY <1>2, <1>3, <2>3 DEF DoneSoFar
    <3>2. \A y \in LookedUp(function') : y.kind = "Unary" => y.operation # "PLUS"
      BY <3>1, <2>1, <2>2 DEF NoPlus
    <3>3. last' = "UnaryPlusRemoval"
      BY <1>1, <2>3
    <3> QED BY <3>2, <3>3 DEF NothingLeft
  <2>4. CASE phase = "constant_propagation"
    <3>1. \A i \in 1 .. Len(Statements) : FoldedOut(Statements[i].value)
      BY <1>2, <1>3, <2>4 DEF DoneSoFar
    <3>2. \A y \in LookedUp(function') :
            Operands(y) # {} /\ (\A z \in Operands(y) : z.kind = "Literal")
                => Evaluate[y][PassContext'] = NoValue
      BY <3>1, <2>1, <2>2 DEF FoldedOut
    <3>3. last' = "constant_propagation"
      BY <1>1, <2>4
    <3> QED BY <3>2, <3>3 DEF NothingLeft
  <2>5. CASE phase = "dead_code_elimination"
    <3>1. \A i \in 1 .. Len(Statements) : Statements[i].type # "ReturnStatement"
      BY <1>2, <1>3, <2>5 DEF ReturnFound
    <3>2. \E i \in 1 .. Len(Statements) : Statements[i].type = "ReturnStatement"
      BY <1>2, <1>3, AcceptedAddresses DEF Shape
    <3> QED BY <3>1, <3>2
  <2>6. CASE phase = "removal"
    <3>1. /\ Len(Statements) > 0
          /\ Statements[Len(Statements)].type = "ReturnStatement"
          /\ \A i \in 1 .. Len(Statements) - 1 : Statements[i].type # "ReturnStatement"
      <4>1. next - 1 = Len(Statements) /\ next - 2 = Len(Statements) - 1
        BY <1>3
      <4> QED BY <4>1, <1>2, <1>3, <2>6 DEF ReturnFound
    <3>2. \A i \in 1 .. Len(Statements) : i \in 1 .. Len(Statements) - 1 \/ i = Len(Statements)
      BY <1>3
    <3>3. \A i \in DOMAIN Statements' :
            Statements'[i].type = "ReturnStatement" <=> i = Len(Statements')
      BY <3>1, <3>2, <1>3
    <3>4. last' = "dead_code_elimination"
      BY <1>1, <2>6
    <3> QED BY <3>3, <3>4 DEF NothingLeft
  <2> QED BY <2>3, <2>4, <2>5, <2>6, <1>1 DEF Passes
<1>10. QED
  BY <1>4, <1>5, <1>6, <1>7, <1>8, <1>9 DEF Inv

(* What PropagateConstants does, in the terms of the lemmas. *)
LEMMA PropagateConstantsStep ==
    ASSUME Inv, PropagateConstants,
           NEW s, s = PropagatedStatement(Statements[next].value, mapping)
    PROVE  LET statement == Statements[next]
               found     == HasValues({s.node}, s.mapping)
           IN  /\ phase = "constant_propagation"
               /\ next \in 1 .. Len(Statements)
               /\ s \in Steps
               /\ Propagates(statement.value, mapping, s)
               /\ DistinctAddresses(statement.value)
               /\ ~ misled => /\ At(statement.value) \cap Remembered(mapping) = {}
                              /\ found <=> s.node.kind = "Literal"
               /\ function' = WithValue(function, next, s.node)
               /\ mapping' = s.mapping
               /\ phase' = IF s.killed THEN "killed" ELSE phase
               /\ next' = IF s.killed THEN next ELSE next + 1
               /\ reassigned' <=>
                    reassigned \/ /\ statement.type = "Assignment"
                                  /\ ~ found
                                  /\ known[statement.target] # NoValue
               /\ \/ /\ ~ (statement.type = "Assignment" /\ found)
                     /\ known' = known
                  \/ /\ statement.type = "Assignment"
                     /\ found
                     /\ \E value \in Ints :
                            /\ s.node.kind = "Literal" => value = s.node.value
                            /\ known' = [known EXCEPT ![statement.target] = value]
               /\ UNCHANGED <<original, passes, last, misled>>
<1> DEFINE statement == Statements[next]
           found == HasValues({s.node}, s.mapping)
           assigns == statement.type = "Assignment"
<1>1. /\ phase = "constant_propagation"
      /\ next \leq Len(Statements)
      /\ function' = [function EXCEPT !.statements[next].value = s.node]
      /\ mapping' = s.mapping
      /\ phase' = IF s.killed THEN "killed" ELSE phase
      /\ next' = IF s.killed THEN next ELSE next + 1
      /\ reassigned' = (reassigned \/ (assigns /\ ~ found /\ known[statement.target] # NoValue))
      /\ IF assigns /\ found
         THEN \E value \in Ints :
                 /\ s.node.kind = "Literal" => value = s.node.value
                 /\ known' = [known EXCEPT ![statement.target] = value]
         ELSE UNCHANGED known
      /\ UNCHANGED <<original, passes, last, misled>>
  BY Zenon DEF PropagateConstants, InLoop
<1>2. Types /\ Shape /\ RemembersOnlyFreed
  BY DEF Inv
<1>3. /\ PassType
      /\ function \in FunctionNodes
      /\ mapping \in Mappings
      /\ Statements = function.statements
      /\ next \in 1 .. Len(Statements)
      /\ statement.value \in Expressions
  BY <1>1, <1>2, FunctionFields DEF Types, PassType, Shape, Statements
<1>4. DistinctAddresses(statement.value)
  BY <1>2, <1>3, AcceptedAddresses DEF Shape
<1>5. ~ misled => At(statement.value) \cap Remembered(mapping) = {}
  <2>1. ~ misled => Apart(LookedUp(function), mapping)
    BY <1>1, <1>2 DEF RemembersOnlyFreed
  <2> QED BY <2>1, <1>3, ApartAddresses
<1>6. /\ s \in Steps
      /\ Propagates(statement.value, mapping, s)
      /\ ~ misled => (found <=> s.node.kind = "Literal")
  <2> DEFINE x == statement.value
  <2>1. x \in Expressions /\ s = PropagatedStatement(x, mapping)
    BY <1>3
  <2> HIDE DEF x
  <2>2. /\ s \in Steps
        /\ Propagates(x, mapping, s)
        /\ DistinctAddresses(x) /\ At(x) \cap Remembered(mapping) = {} =>
                (HasValues({s.node}, s.mapping) <=> s.node.kind = "Literal")
    BY <2>1, <1>3, PropagatedStatementCorrect
  <2> QED BY <2>2, <1>4, <1>5 DEF x
<1>7. function' = WithValue(function, next, s.node)
  BY <1>1 DEF WithValue
<1> HIDE DEF statement, found
<1>8. reassigned' <=>
        reassigned \/ (statement.type = "Assignment" /\ ~ found /\ known[statement.target] # NoValue)
  BY <1>1
<1>9. \/ /\ ~ (statement.type = "Assignment" /\ found)
         /\ known' = known
      \/ /\ statement.type = "Assignment"
         /\ found
         /\ \E value \in Ints :
                /\ s.node.kind = "Literal" => value = s.node.value
                /\ known' = [known EXCEPT ![statement.target] = value]
  BY <1>1
<1>10. QED
  BY <1>1, <1>3, <1>4, <1>5, <1>6, <1>7, <1>8, <1>9 DEF statement, found

(* The call that the pass is about to go along with. *)
LEMMA PropagationRun ==
    ASSUME Inv, phase = "constant_propagation", ~ reassigned, ~ misled,
           next \in 1 .. Len(Statements),
           NEW arguments \in Arguments(original)
    PROVE  LET context == Context(function, arguments)
               run     == Execution(Statements, context)[next - 1]
           IN  /\ context \in Contexts
               /\ run \in RunStates
               /\ run.context \in Contexts
               /\ ~ run.ended => Agrees(run.context)
               /\ run.reached < next
               /\ run.ended => Run(original, arguments) = run
               /\ Run(original, arguments) = Execution(Statements, context)[Len(Statements)]
               /\ Execution(Statements, context)[next] = Executed(run, next, Statements[next])
               /\ Execution(Statements, context)[next].ended =>
                    Run(original, arguments) = Execution(Statements, context)[next]
<1> DEFINE context == Context(function, arguments)
           e == Execution(Statements, context)
           run == e[next - 1]
<1>1. Types /\ Shape /\ SameRuns /\ KnownHolds
  BY DEF Inv
<1>2. /\ function \in FunctionNodes
      /\ Statements = function.statements
      /\ Statements \in Seq(StatementNodes)
      /\ Len(Statements) \in Nat
      /\ next - 1 \in 0 .. Len(Statements)
      /\ next \in 0 .. Len(Statements)
      /\ arguments \in Arguments(function)
  BY <1>1, FunctionFields, ContextOfSymbols DEF Types, PassType, Shape, Statements
<1>3. context \in Contexts
  BY <1>2, CallContext
<1>4. ~ run.ended => Agrees(run.context)
  BY <1>1 DEF KnownHolds
<1>5. Run(original, arguments) = e[Len(Statements)]
  <2>1. Run(function, arguments) = Run(original, arguments)
    BY <1>1 DEF SameRuns
  <2> QED BY <2>1, <1>2 DEF Run
<1> HIDE DEF context
<1>6. /\ run \in RunStates
      /\ e[next] = Executed(run, next, Statements[next])
  BY <1>2, <1>3, ExecutionEquation
<1>7. run.context \in Contexts
  BY <1>6 DEF RunStates
<1>8. run.reached < next /\ (run.ended => e[Len(Statements)] = run)
  <2>1. /\ run.ended => \A j \in next - 1 .. Len(Statements) : e[j] = run
        /\ run.reached \leq next - 1
    BY <1>2, <1>3, ExecutionEnds
  <2>2. run.reached \in Nat
    BY <1>6 DEF RunStates
  <2>3. Len(Statements) \in next - 1 .. Len(Statements)
    BY <1>2
  <2> HIDE DEF run, e
  <2> QED BY <2>1, <2>2, <2>3
<1>9. e[next].ended => e[Len(Statements)] = e[next]
  <2>1. e[next].ended => \A j \in next .. Len(Statements) : e[j] = e[next]
    BY <1>2, <1>3, ExecutionEnds
  <2> HIDE DEF e
  <2> QED BY <2>1, <1>2
<1>10. QED
  BY <1>3, <1>4, <1>5, <1>6, <1>7, <1>8, <1>9 DEF context

LEMMA InvPropagateConstants ==
    ASSUME Inv, PropagateConstants
    PROVE  Inv'
<1> DEFINE statement == Statements[next]
           x == statement.value
           s == PropagatedStatement(x, mapping)
           y == s.node
           found == HasValues({y}, s.mapping)
<1>1. /\ phase = "constant_propagation"
      /\ next \in 1 .. Len(Statements)
      /\ s \in Steps
      /\ Propagates(x, mapping, s)
      /\ DistinctAddresses(x)
      /\ ~ misled => /\ At(x) \cap Remembered(mapping) = {}
                     /\ found <=> y.kind = "Literal"
      /\ function' = WithValue(function, next, y)
      /\ mapping' = s.mapping
      /\ phase' = IF s.killed THEN "killed" ELSE phase
      /\ next' = IF s.killed THEN next ELSE next + 1
      /\ reassigned' <=>
           reassigned \/ (statement.type = "Assignment" /\ ~ found /\ known[statement.target] # NoValue)
      /\ \/ /\ ~ (statement.type = "Assignment" /\ found)
            /\ known' = known
         \/ /\ statement.type = "Assignment"
            /\ found
            /\ \E value \in Ints :
                   /\ y.kind = "Literal" => value = y.value
                   /\ known' = [known EXCEPT ![statement.target] = value]
      /\ UNCHANGED <<original, passes, last, misled>>
  BY PropagateConstantsStep
<1>2. Types /\ Shape /\ SameRuns /\ DoneSoFar /\ RemembersOnlyFreed
  BY DEF Inv
<1>3. /\ function \in FunctionNodes
      /\ PassType
      /\ Statements = function.statements
      /\ next \in 1 .. Len(function.statements)
      /\ Len(Statements) \in Nat
      /\ statement \in StatementNodes
      /\ x \in Expressions
  BY <1>1, <1>2, FunctionFields DEF Types, PassType, Shape, Statements
<1> HIDE DEF s
<1>4. y \in Expressions /\ s.mapping \in Mappings /\ s.killed \in BOOLEAN
  BY <1>1 DEF Steps
<1>5. /\ Remembered(s.mapping) \subseteq Remembered(mapping) \cup At(x)
      /\ At(y) \subseteq At(x)
      /\ DistinctAddresses(y)
      /\ ~ misled =>
            /\ At(y) \cap Remembered(s.mapping) = {}
            /\ \A c \in Contexts : Agrees(c) => Evaluate[y][c] = Evaluate[x][c]
            /\ s.killed => \A c \in Contexts : Agrees(c) => Evaluate[x][c] \in Failures
            /\ ~ s.killed => FoldedOut(y)
  BY <1>1 DEF Propagates, AddressesKept
<1> HIDE DEF found, y
<1>6. /\ function' \in FunctionNodes
      /\ function'.symbols = function.symbols
      /\ Statements' = function'.statements
      /\ Len(Statements') = Len(Statements)
      /\ \A j \in 1 .. Len(Statements) :
            Statements'[j].value = IF j = next THEN y ELSE Statements[j].value
  <2>1. /\ function' \in FunctionNodes
        /\ function'.symbols = function.symbols
        /\ Len(function'.statements) = Len(function.statements)
    BY <1>1, <1>3, <1>4, StatementReplaced
  <2>2. \A j \in 1 .. Len(function.statements) :
            function'.statements[j].value = IF j = next THEN y ELSE function.statements[j].value
    BY <1>1, <1>3, <1>4, StatementReplaced
  <2> QED BY <2>1, <2>2 DEF Statements
<1>7. Types'
  <2>1. KnownType'
    <3>1. CASE known' = known
      BY <3>1, <1>3 DEF PassType, KnownType
    <3>2. CASE statement.type = "Assignment"
               /\ \E value \in Ints : known' = [known EXCEPT ![statement.target] = value]
      BY <3>2, <1>3 DEF PassType, KnownType
    <3> QED BY <3>1, <3>2, <1>1
  <2>2. reassigned' \in BOOLEAN
    <3>1. reassigned' = FALSE \/ reassigned' = TRUE \/ UNCHANGED reassigned
      BY DEF PropagateConstants
    <3> QED BY <3>1, <1>2 DEF Types
  <2>3. phase' \in Passes \cup {"killed"}
    BY <1>1 DEF Passes
  <2> QED BY <2>1, <2>2, <2>3, <1>1, <1>2, <1>4, <1>6 DEF Types, PassType
<1>8. Shape'
  <2>1. Accepted(function')
    <3>1. Accepted(function) /\ At(y) \subseteq At(function.statements[next].value)
      BY <1>2, <1>3, <1>5 DEF Shape
    <3> QED BY <3>1, <1>1, <1>3, <1>4, <1>5, AcceptedReplaced
  <2>2. next' \in 1 .. Len(Statements) + 1 /\ phase' # "idle"
    BY <1>1, <1>3
  <2> QED BY <2>1, <2>2, <1>1, <1>2, <1>6 DEF Shape
<1>9. ASSUME ~ reassigned, ~ misled, NEW arguments \in Arguments(original)
      PROVE  \A k \in 0 .. Len(Statements) :
                Execution(Statements', Context(function', arguments))[k]
                    = Execution(Statements, Context(function, arguments))[k]
  <2> DEFINE context == Context(function, arguments)
             run == Execution(Statements, context)[next - 1]
  <2>1. Context(function', arguments) = context
    BY <1>6, ContextOfSymbols
  <2>2. /\ context \in Contexts
        /\ run.context \in Contexts
        /\ ~ run.ended => Agrees(run.context)
    BY <1>1, <1>9, PropagationRun
  <2>3. ~ run.ended => Evaluate[y][run.context] = Evaluate[x][run.context]
    <3> HIDE DEF run, x
    <3> QED BY <2>2, <1>5, <1>9
  <2>4. SameValue(function, next, y, context)
    BY <2>3, <1>3 DEF SameValue
  <2> HIDE DEF context
  <2>5. \A k \in 0 .. Len(function.statements) :
            Execution(function'.statements, context)[k]
                = Execution(function.statements, context)[k]
    BY <2>2, <2>4, <1>1, <1>3, <1>4, ReplacedRun
  <2> QED BY <2>1, <2>5, <1>3, <1>6 DEF context
<1>10. SameRuns'
  <2> SUFFICES ASSUME ~ reassigned', ~ misled, NEW arguments \in Arguments(original)
               PROVE  Run(function', arguments) = Run(original, arguments)
    BY <1>1 DEF SameRuns
  <2>1. ~ reassigned
    BY <1>1
  <2>2. Run(function, arguments) = Run(original, arguments)
    BY <2>1, <1>1, <1>2 DEF SameRuns
  <2>3. Run(function', arguments) = Run(function, arguments)
    <3>1. Len(Statements) \in 0 .. Len(Statements)
      BY <1>3
    <3>2. Execution(Statements', Context(function', arguments))[Len(Statements)]
            = Execution(Statements, Context(function, arguments))[Len(Statements)]
      BY <3>1, <2>1, <1>9
    <3> QED BY <3>2, <1>3, <1>6 DEF Run
  <2> QED BY <2>2, <2>3
<1>11. KnownHolds'
  <2> SUFFICES ASSUME ~ s.killed, ~ reassigned', ~ misled, NEW arguments \in Arguments(original),
                      ~ Execution(Statements', Context(function', arguments))[next].ended,
                      NEW h \in Handles, known'[h] # NoValue
               PROVE  Execution(Statements', Context(function', arguments))[next].context[h]
                        = known'[h]
    <3>1. ~ s.killed => next' - 1 = next
      BY <1>1
    <3>2. phase' = "constant_propagation" => ~ s.killed
      BY <1>1
    <3> QED BY <3>1, <3>2, <1>1 DEF KnownHolds, Agrees
  <2> DEFINE e == Execution(Statements, Context(function, arguments))
             run == e[next - 1]
             value == Evaluate[x][run.context]
  <2>1. ~ reassigned
    BY <1>1
  <2>2. Execution(Statements', Context(function', arguments))[next] = e[next]
    <3>1. next \in 0 .. Len(Statements)
      BY <1>1
    <3> QED BY <3>1, <2>1, <1>9
  <2>3. /\ run \in RunStates
        /\ run.context \in Contexts
        /\ ~ run.ended => Agrees(run.context)
        /\ e[next] = Executed(run, next, statement)
    BY <2>1, <1>1, PropagationRun
  <2>4. ~ e[next].ended
    BY <2>2
  <2> HIDE DEF e, run, x
  <2>5. /\ ~ run.ended
        /\ value \notin Failures
        /\ statement.type # "ReturnStatement"
        /\ e[next].context = [run.context EXCEPT ![statement.target] = value]
    BY <2>3, <2>4 DEF Executed, x
  <2>6. statement.type = "Assignment" /\ statement.target \in Handles
    BY <2>5, <1>3, StatementFields
  <2>7. Agrees(run.context) /\ Evaluate[y][run.context] = value
    BY <2>3, <2>5, <1>5
  <2>8. DOMAIN run.context = Handles /\ DOMAIN known = Handles
    BY <2>3, <1>3 DEF Contexts, PassType, KnownType
  <2>9. CASE found
    <3>1. y.kind = "Literal"
      BY <2>9, <1>1
    <3>2. value = y.value
      BY <3>1, <2>3, <2>7, <1>4, EvaluateByKind
    <3>3. known' = [known EXCEPT ![statement.target] = value]
      BY <3>1, <3>2, <2>6, <2>9, <1>1
    <3> HIDE DEF value
    <3> QED BY <3>3, <2>2, <2>5, <2>6, <2>7, <2>8 DEF Agrees
  <2>10. CASE ~ found
    <3>1. known' = known /\ known[statement.target] = NoValue
      BY <2>6, <2>10, <1>1
    <3> HIDE DEF value
    <3> QED BY <3>1, <2>2, <2>5, <2>6, <2>7, <2>8 DEF Agrees
  <2> QED BY <2>9, <2>10
<1>12. KilledOnlyByDeadlyCode'
  <2> SUFFICES ASSUME s.killed, ~ reassigned, ~ misled, NEW arguments \in Arguments(original)
               PROVE  LET run == Run(original, arguments)
                      IN  run.reached < next \/ (run.reached = next /\ run.result \in Failures)
    <3>1. phase' = "killed" => s.killed
      BY <1>1
    <3>2. s.killed => next' = next
      BY <1>1
    <3>3. ~ reassigned' => ~ reassigned
      BY <1>1
    <3> QED BY <3>1, <3>2, <3>3, <1>1 DEF KilledOnlyByDeadlyCode
  <2> DEFINE e == Execution(Statements, Context(function, arguments))
             run == e[next - 1]
             value == Evaluate[x][run.context]
  <2>1. /\ run.context \in Contexts
        /\ ~ run.ended => Agrees(run.context)
        /\ run.reached < next
        /\ run.ended => Run(original, arguments) = run
        /\ e[next] = Executed(run, next, statement)
        /\ e[next].ended => Run(original, arguments) = e[next]
    BY <1>1, PropagationRun
  <2> HIDE DEF e, run
  <2>2. CASE run.ended
    BY <2>1, <2>2
  <2>3. CASE ~ run.ended
    <3> HIDE DEF x
    <3>1. value \in Failures
      BY <2>1, <2>3, <1>5
    <3>2. e[next].ended /\ e[next].reached = next /\ e[next].result \in Failures
      BY <2>1, <2>3, <3>1 DEF Executed, x
    <3> QED BY <2>1, <3>2
  <2> QED BY <2>2, <2>3
<1>13. ReturnFound'
  BY <1>1 DEF ReturnFound
<1>14. DoneSoFar'
  <2> SUFFICES ASSUME ~ s.killed, ~ misled, NEW i \in 1 .. next
               PROVE  FoldedOut(Statements'[i].value)
    <3>1. phase' \in {"constant_propagation", "killed"}
      BY <1>1
    <3>2. phase' = "constant_propagation" => ~ s.killed
      BY <1>1
    <3>3. ~ s.killed => next' - 1 = next
      BY <1>1
    <3>4. PassContext' = PassContext
      BY <1>6, PassContextSame
    <3> QED BY <3>1, <3>2, <3>3, <3>4, <1>1 DEF DoneSoFar, FoldedOut
  <2>2. CASE i = next
    BY <2>2, <1>1, <1>5, <1>6
  <2>3. CASE i # next
    <3>1. i \in 1 .. next - 1 /\ i \in 1 .. Len(Statements)
      BY <2>3, <1>1
    <3>2. FoldedOut(Statements[i].value)
      BY <3>1, <1>1, <1>2 DEF DoneSoFar
    <3> QED BY <2>3, <3>1, <3>2, <1>6
  <2> QED BY <2>2, <2>3
<1>15. RemembersOnlyFreed'
  <2> SUFFICES ASSUME ~ misled PROVE Apart(LookedUp(function'), s.mapping)
    BY <1>1 DEF RemembersOnlyFreed
  <2>1. \A i \in 1 .. Len(Statements) : At(Statements[i].value) \cap Remembered(mapping) = {}
    <3>1. Apart(LookedUp(function), mapping)
      BY <1>1, <1>2 DEF RemembersOnlyFreed
    <3> QED BY <3>1, <1>3, ApartAddresses
  <2>2. ASSUME NEW i \in 1 .. Len(Statements)
        PROVE  At(Statements'[i].value) \cap Remembered(s.mapping) = {}
    <3>1. CASE i = next
      BY <3>1, <1>5, <1>6
    <3>2. CASE i # next
      <4>1. At(Statements[i].value) \cap At(x) = {}
        BY <3>2, <1>1, <1>2, <1>3, AcceptedAddresses DEF Shape
      <4> QED BY <4>1, <2>1, <3>2, <1>5, <1>6
    <3> QED BY <3>1, <3>2
  <2> QED BY <2>2, <1>6, ApartAddresses
<1>16. NothingLeft'
  BY <1>1 DEF NothingLeft
<1>17. QED
  BY <1>7, <1>8, <1>10, <1>11, <1>12, <1>13, <1>14, <1>15, <1>16 DEF Inv

LEMMA InvStep ==
    ASSUME Inv, [Next]_vars
    PROVE  Inv'
<1>1. CASE NewFunction
  BY <1>1, InvNewFunction
<1>2. CASE BeginConstantPropagation
  BY <1>2, InvBeginConstantPropagation
<1>3. CASE BeginOther
  BY <1>3, InvBeginOther
<1>4. CASE RemoveUnaryPlus
  BY <1>4, InvRemoveUnaryPlus
<1>5. CASE PropagateConstants
  BY <1>5, InvPropagateConstants
<1>6. CASE FindReturn
  BY <1>6, InvFindReturn
<1>7. CASE RemoveDeadStatement
  BY <1>7, InvRemoveDeadStatement
<1>8. CASE EndPass
  BY <1>8, InvEndPass
<1>9. CASE UNCHANGED vars
  <2>1. Types' /\ Shape' /\ SameRuns' /\ KnownHolds'
    BY <1>9 DEF Inv, Types, PassType, KnownType, Shape, Statements, SameRuns, KnownHolds,
                Agrees, vars
  <2>2. ReturnFound' /\ DoneSoFar' /\ RemembersOnlyFreed' /\ KilledOnlyByDeadlyCode'
    <3>1. PassContext' = PassContext
      BY <1>9, PassContextSame DEF vars
    <3> QED BY <1>9, <3>1 DEF Inv, ReturnFound, DoneSoFar, FoldedOut, RemembersOnlyFreed,
                              LookedUp, KilledOnlyByDeadlyCode, Statements, vars
  <2>3. NothingLeft'
    <3>1. PassContext' = PassContext
      BY <1>9, PassContextSame DEF vars
    <3> QED BY <1>9, <3>1 DEF Inv, NothingLeft, LookedUp, Statements, vars
  <2> QED BY <2>1, <2>2, <2>3 DEF Inv
<1>10. QED
  BY <1>1, <1>2, <1>3, <1>4, <1>5, <1>6, <1>7, <1>8, <1>9 DEF Next, PassStep

(* Inv holds in every state of every behaviour.                            *)
THEOREM OptimizerInvariant == Spec => []Inv
<1>1. Init => Inv
  BY InvInit
<1>2. Inv /\ [Next]_vars => Inv'
  BY InvStep
<1>3. QED
  BY <1>1, <1>2, PTL DEF Spec

(* Whatever passes run on whatever accepted functions: the AST stays one,  *)
(* and the loop counter within the statements it began with.               *)
THEOREM OptimizerTypeCorrect == Spec => []TypeOK
<1>1. Inv => TypeOK
  <2> SUFFICES ASSUME Inv PROVE TypeOK
    OBVIOUS
  <2>1. Types /\ Shape
    BY DEF Inv
  <2>2. Len(Statements) \in Nat /\ Len(original.statements) \in Nat
    BY <2>1, FunctionFields DEF Types, PassType, Statements
  <2>3. next \in 1 .. Len(original.statements) + 1
    BY <2>1, <2>2 DEF Shape
  <2> QED BY <2>1, <2>3 DEF TypeOK, Types, PassType, KnownType
<1>2. QED
  BY <1>1, OptimizerInvariant, PTL

(* For every function, however deep its expressions, every argument and    *)
(* every order of the passes: a call of the AST in its present form        *)
(* returns what a call of the AST as it was written returns.               *)
THEOREM OptimizerPreservesMeaning == Spec => []PreservesMeaning
<1>1. Inv => PreservesMeaning
  BY DEF Inv, SameRuns, PreservesMeaning, SameMeaning
<1>2. QED
  BY <1>1, OptimizerInvariant, PTL

(* The optimiser is killed only where no call gets a result.               *)
THEOREM OptimizerKilledByDeadlyCode == Spec => []KilledOnlyByDeadlyCode
<1>1. Inv => KilledOnlyByDeadlyCode
  BY DEF Inv
<1>2. QED
  BY <1>1, OptimizerInvariant, PTL

(* What constant_propagation remembers by address is freed.                *)
THEOREM OptimizerRemembersFreed == Spec => []RemembersOnlyFreed
<1>1. Inv => RemembersOnlyFreed
  BY DEF Inv
<1>2. QED
  BY <1>1, OptimizerInvariant, PTL

(* A pass that has ended has left nothing of its kind to do.               *)
THEOREM OptimizerLeavesNothing == Spec => []NothingLeft
<1>1. Inv => NothingLeft
  BY DEF Inv
<1>2. QED
  BY <1>1, OptimizerInvariant, PTL

(* The turns that the loops of a pass still have before them, at most.     *)
TurnsLeft ==
    Len(Statements) - next + (IF phase = "dead_code_elimination" THEN 2 ELSE 1)

TurnsShrink ==
    /\ TurnsLeft \in Nat
    /\ phase' \in {"idle", "killed"} \/ (TurnsLeft' \in Nat /\ TurnsLeft' < TurnsLeft)

(* Every turn of a pass ends it or leaves it fewer turns, in particular in *)
(* the loop that shrinks the vector it is bounded by: no pass runs for     *)
(* ever.                                                                   *)
THEOREM OptimizerTurnsShrink == Spec => [][PassStep => TurnsShrink]_vars
<1>1. Inv /\ PassStep => TurnsShrink
  <2> SUFFICES ASSUME Inv, PassStep PROVE TurnsShrink
    OBVIOUS
  <2>1. Types /\ Shape
    BY DEF Inv
  <2>2. Len(Statements) \in Nat /\ next \in 1 .. Len(Statements) + 1
    BY <2>1, FunctionFields DEF Types, PassType, Shape, Statements
  <2>3. Inv'
    BY InvStep DEF Next
  <2>4. Len(Statements') \in Nat /\ next' \in 1 .. Len(Statements') + 1
    <3>1. Types' /\ Shape'
      BY <2>3 DEF Inv
    <3>2. function' \in FunctionNodes
      BY <3>1 DEF Types, PassType
    <3> QED BY <3>1, <3>2, FunctionFields DEF Shape, Statements
  <2>5. TurnsLeft \in Nat /\ TurnsLeft' \in Nat
    BY <2>2, <2>4 DEF TurnsLeft
  <2>6. CASE RemoveUnaryPlus
    <3>1. Len(Statements') = Len(Statements)
      <4>1. /\ function' = WithValue(function, next, RemovePlus[Statements[next].value])
            /\ next \in 1 .. Len(function.statements)
            /\ function \in FunctionNodes
        BY <2>1, <2>2, <2>6 DEF RemoveUnaryPlus, InLoop, Statements, WithValue, Types, PassType
      <4>2. RemovePlus[Statements[next].value] \in Expressions
        BY <4>1, FunctionFields, RemovePlusCorrect DEF Statements
      <4> QED BY <4>1, <4>2, StatementReplaced DEF Statements
    <3> QED BY <3>1, <2>2, <2>5, <2>6 DEF RemoveUnaryPlus, InLoop, TurnsLeft, TurnsShrink
  <2>7. CASE PropagateConstants
    <3> DEFINE s == PropagatedStatement(Statements[next].value, mapping)
    <3>1. /\ phase = "constant_propagation"
          /\ next \in 1 .. Len(Statements)
          /\ s \in Steps
          /\ function' = WithValue(function, next, s.node)
          /\ phase' = IF s.killed THEN "killed" ELSE phase
          /\ next' = IF s.killed THEN next ELSE next + 1
      BY <2>7, PropagateConstantsStep
    <3> HIDE DEF s
    <3>2. Len(Statements') = Len(Statements)
      <4>1. s.node \in Expressions /\ function \in FunctionNodes
        BY <3>1, <2>1 DEF Steps, Types, PassType
      <4> QED BY <3>1, <4>1, StatementReplaced DEF Statements
    <3> QED BY <3>1, <3>2, <2>2, <2>5 DEF TurnsLeft, TurnsShrink
  <2>8. CASE FindReturn
    <3>1. /\ phase = "dead_code_elimination"
          /\ phase' \in {"dead_code_elimination", "removal"}
          /\ next' = next + 1
          /\ Statements' = Statements
      BY <2>8 DEF FindReturn, InLoop, Statements
    <3> QED BY <3>1, <2>2, <2>5 DEF TurnsLeft, TurnsShrink
  <2>9. CASE RemoveDeadStatement
    <3>1. Statements' = RemoveStatement(Statements)
      BY <2>1, <2>9 DEF RemoveDeadStatement, Statements, Types, PassType, FunctionNodes
    <3>2. Statements \in Seq(StatementNodes) /\ Len(Statements) > 0
      BY <2>1, <2>2, <2>9, FunctionFields DEF Types, PassType, Statements, RemoveDeadStatement,
                                              InLoop
    <3>3. Len(Statements') = Len(Statements) - 1
      BY <3>1, <3>2, RemoveStatementLength
    <3>4. next' = next /\ phase' = phase
      BY <2>9 DEF RemoveDeadStatement
    <3> QED BY <3>3, <3>4, <2>2, <2>5 DEF TurnsLeft, TurnsShrink
  <2>10. CASE EndPass
    BY <2>5, <2>10 DEF EndPass, TurnsShrink
  <2> QED BY <2>6, <2>7, <2>8, <2>9, <2>10 DEF PassStep
<1>2. Inv /\ [Next]_vars => [PassStep => TurnsShrink]_vars
  BY <1>1
<1>3. QED
  BY <1>2, OptimizerInvariant, PTL DEF Spec
===============================================================================
