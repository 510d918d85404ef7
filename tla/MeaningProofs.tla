----------------------------- MODULE MeaningProofs -----------------------------
(***************************************************************************)
(* Theorems about the translation of parse trees, for every text: the AST  *)
(* of a function is what the tokens of its statements mean.                *)
(*                                                                         *)
(* Meaning never sees a tree; it splits a text at its operators outside of *)
(* all brackets.  So the texts of the nodes have to be known well enough   *)
(* to say where these are (Closed, Outside), and then every node a parse   *)
(* function completes means its text if its children do (Means).           *)
(***************************************************************************)
EXTENDS TreeProofs

-----------------------------------------------------------------------------
(* Induction over the naturals. *)

(* A set that holds 0 and with a number the next one holds all: of the     *)
(* numbers that are missing there would be a least one.                    *)
LEMMA Induction ==
  ASSUME NEW P, 0 \in P, \A n \in Nat : n \in P => n + 1 \in P
  PROVE  \A n \in Nat : n \in P
<1> DEFINE Missing == {n \in Nat : n \notin P}
           Below == {0 .. n : n \in Missing}
           Order == StrictSubsetOrdering(Nat)
<1> SUFFICES ASSUME Missing # {} PROVE FALSE
  OBVIOUS
<1>1. Below \subseteq FiniteSubsetsOf(Nat) /\ Below # {}
  <2>1. ASSUME NEW n \in Missing PROVE 0 .. n \in FiniteSubsetsOf(Nat)
    <3>1. n \in Int /\ 0 \in Int /\ 0 .. n \in SUBSET Nat
      OBVIOUS
    <3>2. IsFiniteSet(0 .. n) BY <3>1, FS_Interval
    <3> QED BY <3>1, <3>2 DEF FiniteSubsetsOf
  <2> QED BY <2>1
<1>2. \E b \in Below : \A c \in Below : <<c, b>> \notin Order
  <2>1. IsWellFoundedOn(Order, FiniteSubsetsOf(Nat))
    BY FS_StrictSubsetOrderingWellFounded
  <2> HIDE DEF Order, Below
  <2> QED BY <1>1, <2>1, WFMin
<1>3. PICK n \in Missing : \A m \in Missing : <<0 .. m, 0 .. n>> \notin Order
  BY <1>2
<1>4. n \in Nat /\ n # 0 /\ n - 1 \in Nat /\ (n - 1) + 1 = n
  OBVIOUS
<1>5. <<0 .. n - 1, 0 .. n>> \in Order
  <2>1. 0 .. n - 1 \subseteq 0 .. n /\ 0 .. n - 1 # 0 .. n BY <1>4
  <2>2. 0 .. n - 1 \in SUBSET Nat /\ 0 .. n \in SUBSET Nat BY <1>4
  <2> QED BY <2>1, <2>2 DEF StrictSubsetOrdering
<1>6. n - 1 \in P BY <1>3, <1>4, <1>5
<1> QED BY <1>3, <1>4, <1>6

(* A set of naturals has a least one. *)
LEMMA LeastOf ==
  ASSUME NEW S, S \subseteq Nat, S # {}
  PROVE  /\ Min(S) \in S
         /\ \A n \in S : Min(S) =< n
<1>1. \E m \in S : \A n \in S : m =< n
  <2> SUFFICES ASSUME \A m \in S : \E n \in S : n < m PROVE FALSE
    OBVIOUS
  <2> DEFINE P == {n \in Nat : \A k \in 0 .. n : k \notin S}
  <2>1. 0 \in P
    OBVIOUS
  <2>2. ASSUME NEW n \in Nat, n \in P PROVE n + 1 \in P
    <3>1. n + 1 \notin S
      <4> SUFFICES ASSUME n + 1 \in S PROVE FALSE
        OBVIOUS
      <4>1. PICK m \in S : m < n + 1
        OBVIOUS
      <4>2. m \in 0 .. n BY <4>1
      <4> QED BY <2>2, <4>2
    <3>2. \A k \in 0 .. n + 1 : k \in 0 .. n \/ k = n + 1
      OBVIOUS
    <3> QED BY <2>2, <3>1, <3>2
  <2> HIDE DEF P
  <2>3. \A n \in Nat : n \in P BY <2>1, <2>2, Induction
  <2>4. PICK n \in S : TRUE
    OBVIOUS
  <2>5. n \in P /\ n \in 0 .. n BY <2>3
  <2> QED BY <2>5 DEF P
<1> QED BY <1>1 DEF Min

-----------------------------------------------------------------------------
(* Trees. *)

(* The trees whose children are some trees. *)
Above(children) ==
    [type : ParseTreeNames \cup ASTNames, children : children, stale : BOOLEAN]

(* More operands, more nodes above them; and the children of a node above  *)
(* a set are sequences of that set.                                        *)
LEMMA AboveMore ==
  ASSUME NEW S, NEW T, S \subseteq T
  PROVE  /\ Above(S) \subseteq Above(T)
         /\ \A x \in Above(S) : x.children \in S
  BY DEF Above

ChildrenUpTo(g, n) == IF n = 0 THEN {<<>>} ELSE Seq(g[n - 1])

(* The definition of Trees gives Trees. *)
LEMMA TreesDefined == \A n \in Nat : Trees[n] = Above(ChildrenUpTo(Trees, n))
<1> DEFINE Good(g, n) == \A i \in 0 .. n : g[i] = Above(ChildrenUpTo(g, i))
           G(n) == CHOOSE g : Good(g, n)
           f == [n \in Nat |-> G(n)[n]]
           Fix(g) == g = [n \in Nat |-> Above(ChildrenUpTo(g, n))]
<1>1. \A n \in Nat : \E g : Good(g, n)
  <2> DEFINE P == {n \in Nat : \E g : Good(g, n)}
  <2>1. 0 \in P
    <3>1. Good([i \in Nat |-> Above({<<>>})], 0) BY DEF ChildrenUpTo
    <3> QED BY <3>1
  <2>2. ASSUME NEW n \in Nat, n \in P PROVE n + 1 \in P
    <3>1. PICK g : Good(g, n) BY <2>2
    <3> DEFINE h == [i \in Nat |-> IF i = n + 1 THEN Above(Seq(g[n])) ELSE g[i]]
    <3>2. ASSUME NEW i \in 0 .. n + 1 PROVE h[i] = Above(ChildrenUpTo(h, i))
      <4>1. CASE i = 0
        <5>1. h[i] = g[i] /\ g[i] = Above(ChildrenUpTo(g, i)) BY <3>1, <4>1
        <5> QED BY <4>1, <5>1 DEF ChildrenUpTo
      <4>2. CASE i = n + 1
        <5>1. i - 1 = n /\ i # 0 /\ h[n] = g[n] BY <4>2
        <5> QED BY <4>2, <5>1 DEF ChildrenUpTo
      <4>3. CASE i # 0 /\ i # n + 1
        <5>1. i \in 0 .. n /\ i - 1 \in Nat /\ i - 1 # n + 1 BY <4>3
        <5>2. h[i] = g[i] /\ h[i - 1] = g[i - 1] BY <5>1
        <5>3. g[i] = Above(ChildrenUpTo(g, i)) BY <3>1, <5>1
        <5> HIDE DEF h
        <5> QED BY <4>3, <5>2, <5>3 DEF ChildrenUpTo
      <4> QED BY <4>1, <4>2, <4>3
    <3> HIDE DEF h
    <3>3. Good(h, n + 1) BY <3>2
    <3> QED BY <3>3
  <2> HIDE DEF P
  <2>3. \A n \in Nat : n \in P BY <2>1, <2>2, Induction
  <2> QED BY <2>3 DEF P
<1>2. \A n \in Nat : Good(G(n), n)
  BY <1>1
<1>3. ASSUME NEW m \in Nat, NEW g, NEW h, Good(g, m), Good(h, m)
      PROVE  \A n \in 0 .. m : g[n] = h[n]
  <2> DEFINE P == {n \in Nat : n =< m => g[n] = h[n]}
  <2>1. 0 \in P
    <3>1. g[0] = Above(ChildrenUpTo(g, 0)) /\ h[0] = Above(ChildrenUpTo(h, 0)) BY <1>3
    <3> QED BY <3>1 DEF ChildrenUpTo
  <2>2. ASSUME NEW n \in Nat, n \in P PROVE n + 1 \in P
    <3> SUFFICES ASSUME n + 1 =< m PROVE g[n + 1] = h[n + 1]
      OBVIOUS
    <3>1. n + 1 \in 0 .. m /\ n =< m /\ n + 1 # 0 /\ (n + 1) - 1 = n
      OBVIOUS
    <3>2. g[n] = h[n] BY <2>2, <3>1
    <3>3. ChildrenUpTo(g, n + 1) = ChildrenUpTo(h, n + 1)
      BY <3>1, <3>2 DEF ChildrenUpTo
    <3> QED BY <1>3, <3>1, <3>3
  <2> HIDE DEF P
  <2>3. \A n \in Nat : n \in P BY <2>1, <2>2, Induction
  <2> QED BY <2>3 DEF P
<1>4. ASSUME NEW n \in Nat PROVE f[n] = Above(ChildrenUpTo(f, n))
  <2> HIDE DEF G
  <2>1. f[n] = G(n)[n] /\ G(n)[n] = Above(ChildrenUpTo(G(n), n))
    BY <1>2
  <2>2. ChildrenUpTo(G(n), n) = ChildrenUpTo(f, n)
    <3>1. CASE n = 0 BY <3>1 DEF ChildrenUpTo
    <3>2. CASE n # 0
      <4>1. n - 1 \in Nat /\ n - 1 \in 0 .. n - 1 /\ \A i \in 0 .. n - 1 : i \in 0 .. n
        BY <3>2
      <4>2. Good(G(n), n) /\ Good(G(n - 1), n - 1) BY <1>2, <4>1
      <4>3. Good(G(n), n - 1) BY <4>1, <4>2
      <4> HIDE DEF Good
      <4>4. G(n)[n - 1] = G(n - 1)[n - 1] BY <1>3, <4>1, <4>2, <4>3
      <4>5. f[n - 1] = G(n - 1)[n - 1] BY <4>1
      <4> QED BY <3>2, <4>4, <4>5 DEF ChildrenUpTo
    <3> QED BY <3>1, <3>2
  <2> QED BY <2>1, <2>2
<1>5. Fix(f)
  BY <1>4
<1>6. Trees = CHOOSE g : Fix(g)
  BY DEF Trees, Above, ChildrenUpTo
<1> HIDE DEF f
<1>7. Fix(Trees)
  BY <1>5, <1>6
<1> QED BY <1>7

(* A tree is also a tree of a greater height. *)
LEMMA TreesGrow == \A n \in Nat : Trees[n] \subseteq Trees[n + 1]
<1> DEFINE P == {n \in Nat : Trees[n] \subseteq Trees[n + 1]}
<1>1. 0 \in P
  <2>1. Trees[0] = Above({<<>>}) /\ Trees[0 + 1] = Above(Seq(Trees[0]))
    <3>1. 0 + 1 \in Nat /\ 0 + 1 # 0 /\ (0 + 1) - 1 = 0 OBVIOUS
    <3> QED BY <3>1, TreesDefined DEF ChildrenUpTo
  <2>2. <<>> \in Seq(Trees[0]) OBVIOUS
  <2>3. {<<>>} \subseteq Seq(Trees[0]) BY <2>2
  <2>4. Trees[0] \subseteq Trees[0 + 1]
    <3> DEFINE S == {<<>>}
               T == Seq(Trees[0])
    <3>1. S \subseteq T BY <2>3
    <3>2. Trees[0] = Above(S) /\ Trees[0 + 1] = Above(T) BY <2>1
    <3> HIDE DEF S, T
    <3> QED BY <3>1, <3>2, AboveMore
  <2> QED BY <2>4
<1>2. ASSUME NEW n \in Nat, n \in P PROVE n + 1 \in P
  <2>1. /\ Trees[n + 1] = Above(Seq(Trees[n]))
        /\ Trees[(n + 1) + 1] = Above(Seq(Trees[n + 1]))
    <3>1. /\ n + 1 \in Nat /\ n + 1 # 0 /\ (n + 1) - 1 = n
          /\ (n + 1) + 1 \in Nat /\ (n + 1) + 1 # 0 /\ ((n + 1) + 1) - 1 = n + 1
      OBVIOUS
    <3> QED BY <3>1, TreesDefined DEF ChildrenUpTo
  <2>2. Seq(Trees[n]) \subseteq Seq(Trees[n + 1])
    BY <1>2
  <2> QED BY <2>1, <2>2, AboveMore
<1> HIDE DEF P
<1>3. \A n \in Nat : n \in P BY <1>1, <1>2, Induction
<1> QED BY <1>3 DEF P

(* The children of a tree are lower trees. *)
LEMMA LevelChildren ==
  /\ \A x \in Trees[0] : x.children = <<>>
  /\ \A n \in Nat : \A x \in Trees[n + 1] : x.children \in Seq(Trees[n])
<1>1. Trees[0] = Above({<<>>})
  BY TreesDefined DEF ChildrenUpTo
<1>2. ASSUME NEW n \in Nat PROVE Trees[n + 1] = Above(Seq(Trees[n]))
  <2>1. n + 1 \in Nat /\ n + 1 # 0 /\ (n + 1) - 1 = n OBVIOUS
  <2> QED BY <2>1, TreesDefined DEF ChildrenUpTo
<1>3. \A x \in Trees[0] : x.children \in {<<>>} BY <1>1, AboveMore
<1>4. ASSUME NEW n \in Nat, NEW x \in Trees[n + 1] PROVE x.children \in Seq(Trees[n])
  BY <1>2, AboveMore
<1> QED BY <1>3, <1>4

(* The children of a parse tree are parse trees, so recursion over         *)
(* children never leaves them.                                             *)
LEMMA ChildrenAreTrees ==
  ASSUME NEW x \in ParseTrees
  PROVE  x.children \in Seq(ParseTrees)
<1>1. MaxHeight \in Nat BY ExpressionAnalysisAssumption
<1>2. CASE MaxHeight = 0
  <2>1. x.children = <<>> BY <1>2, LevelChildren DEF ParseTrees
  <2> QED BY <2>1
<1>3. CASE MaxHeight # 0
  <2>1. MaxHeight - 1 \in Nat /\ (MaxHeight - 1) + 1 = MaxHeight BY <1>1, <1>3
  <2>2. x.children \in Seq(Trees[MaxHeight - 1]) BY <2>1, LevelChildren DEF ParseTrees
  <2>3. Trees[MaxHeight - 1] \subseteq ParseTrees BY <2>1, TreesGrow DEF ParseTrees
  <2> QED BY <2>2, <2>3
<1> QED BY <1>2, <1>3

-----------------------------------------------------------------------------
(* Expressions. *)

(* The expressions with some operands. *)
Over(operands) ==
    {Identifier("IDENTIFIER"), Literal("LITERAL")}
    \cup [kind : {"Unary"}, operation : OperatorTypes, input : operands]
    \cup [kind : {"Binary"}, operation : OperatorTypes,
          left : operands, right : operands]

OperandsUpTo(g, n) == IF n = 0 THEN {} ELSE g[n - 1]

(* More operands, more expressions; and what kinds there are. *)
LEMMA OverMore ==
  ASSUME NEW S
  PROVE  /\ \A T : S \subseteq T => Over(S) \subseteq Over(T)
         /\ \A x \in Over(S) :
               /\ x.kind \in {"Identifier", "Literal", "Unary", "Binary"}
               /\ x.kind = "Unary" => x.operation \in OperatorTypes /\ x.input \in S
               /\ x.kind = "Binary" =>
                     x.operation \in OperatorTypes /\ x.left \in S /\ x.right \in S
         /\ Identifier("IDENTIFIER") \in Over(S) /\ Literal("LITERAL") \in Over(S)
         /\ \A a \in OperatorTypes, x \in S : Unary(a, x) \in Over(S)
         /\ \A a \in OperatorTypes, x, y \in S : Binary(x, a, y) \in Over(S)
  BY DEF Over, Identifier, Literal, Unary, Binary

(* The definition of Expressions gives Expressions. *)
LEMMA ExpressionsDefined ==
  \A n \in Nat : Expressions[n] = Over(OperandsUpTo(Expressions, n))
<1> DEFINE Good(g, n) == \A i \in 0 .. n : g[i] = Over(OperandsUpTo(g, i))
           G(n) == CHOOSE g : Good(g, n)
           f == [n \in Nat |-> G(n)[n]]
           Fix(g) == g = [n \in Nat |-> Over(OperandsUpTo(g, n))]
<1>1. \A n \in Nat : \E g : Good(g, n)
  <2> DEFINE P == {n \in Nat : \E g : Good(g, n)}
  <2>1. 0 \in P
    <3>1. Good([i \in Nat |-> Over({})], 0) BY DEF OperandsUpTo
    <3> QED BY <3>1
  <2>2. ASSUME NEW n \in Nat, n \in P PROVE n + 1 \in P
    <3>1. PICK g : Good(g, n) BY <2>2
    <3> DEFINE h == [i \in Nat |-> IF i = n + 1 THEN Over(g[n]) ELSE g[i]]
    <3>2. ASSUME NEW i \in 0 .. n + 1 PROVE h[i] = Over(OperandsUpTo(h, i))
      <4>1. CASE i = 0
        <5>1. h[i] = g[i] /\ g[i] = Over(OperandsUpTo(g, i)) BY <3>1, <4>1
        <5> QED BY <4>1, <5>1 DEF OperandsUpTo
      <4>2. CASE i = n + 1
        <5>1. i - 1 = n /\ i # 0 /\ h[n] = g[n] BY <4>2
        <5> QED BY <4>2, <5>1 DEF OperandsUpTo
      <4>3. CASE i # 0 /\ i # n + 1
        <5>1. i \in 0 .. n /\ i - 1 \in Nat /\ i - 1 # n + 1 BY <4>3
        <5>2. h[i] = g[i] /\ h[i - 1] = g[i - 1] BY <5>1
        <5>3. g[i] = Over(OperandsUpTo(g, i)) BY <3>1, <5>1
        <5> HIDE DEF h
        <5> QED BY <4>3, <5>2, <5>3 DEF OperandsUpTo
      <4> QED BY <4>1, <4>2, <4>3
    <3> HIDE DEF h
    <3>3. Good(h, n + 1) BY <3>2
    <3> QED BY <3>3
  <2> HIDE DEF P
  <2>3. \A n \in Nat : n \in P BY <2>1, <2>2, Induction
  <2> QED BY <2>3 DEF P
<1>2. \A n \in Nat : Good(G(n), n)
  BY <1>1
<1>3. ASSUME NEW m \in Nat, NEW g, NEW h, Good(g, m), Good(h, m)
      PROVE  \A n \in 0 .. m : g[n] = h[n]
  <2> DEFINE P == {n \in Nat : n =< m => g[n] = h[n]}
  <2>1. 0 \in P
    <3>1. g[0] = Over(OperandsUpTo(g, 0)) /\ h[0] = Over(OperandsUpTo(h, 0)) BY <1>3
    <3> QED BY <3>1 DEF OperandsUpTo
  <2>2. ASSUME NEW n \in Nat, n \in P PROVE n + 1 \in P
    <3> SUFFICES ASSUME n + 1 =< m PROVE g[n + 1] = h[n + 1]
      OBVIOUS
    <3>1. n + 1 \in 0 .. m /\ n =< m /\ n + 1 # 0 /\ (n + 1) - 1 = n
      OBVIOUS
    <3>2. g[n] = h[n] BY <2>2, <3>1
    <3>3. OperandsUpTo(g, n + 1) = OperandsUpTo(h, n + 1)
      BY <3>1, <3>2 DEF OperandsUpTo
    <3> QED BY <1>3, <3>1, <3>3
  <2> HIDE DEF P
  <2>3. \A n \in Nat : n \in P BY <2>1, <2>2, Induction
  <2> QED BY <2>3 DEF P
<1>4. ASSUME NEW n \in Nat PROVE f[n] = Over(OperandsUpTo(f, n))
  <2> HIDE DEF G
  <2>1. f[n] = G(n)[n] /\ G(n)[n] = Over(OperandsUpTo(G(n), n))
    BY <1>2
  <2>2. OperandsUpTo(G(n), n) = OperandsUpTo(f, n)
    <3>1. CASE n = 0 BY <3>1 DEF OperandsUpTo
    <3>2. CASE n # 0
      <4>1. n - 1 \in Nat /\ n - 1 \in 0 .. n - 1 /\ \A i \in 0 .. n - 1 : i \in 0 .. n
        BY <3>2
      <4>2. Good(G(n), n) /\ Good(G(n - 1), n - 1) BY <1>2, <4>1
      <4>3. Good(G(n), n - 1) BY <4>1, <4>2
      <4> HIDE DEF Good
      <4>4. G(n)[n - 1] = G(n - 1)[n - 1] BY <1>3, <4>1, <4>2, <4>3
      <4>5. f[n - 1] = G(n - 1)[n - 1] BY <4>1
      <4> QED BY <3>2, <4>4, <4>5 DEF OperandsUpTo
    <3> QED BY <3>1, <3>2
  <2> QED BY <2>1, <2>2
<1>5. Fix(f)
  BY <1>4
<1>6. Expressions = CHOOSE g : Fix(g)
  BY DEF Expressions, Over, OperandsUpTo
<1> HIDE DEF f
<1>7. Fix(Expressions)
  BY <1>5, <1>6
<1> QED BY <1>7

(* An expression is also one of a greater height, and its operands are     *)
(* lower.                                                                  *)
LEMMA ExpressionsGrow ==
  /\ Expressions[0] = Over({})
  /\ \A n \in Nat : /\ Expressions[n + 1] = Over(Expressions[n])
                   /\ Expressions[n] \subseteq Expressions[n + 1]
<1>1. Expressions[0] = Over({})
  BY ExpressionsDefined DEF OperandsUpTo
<1>2. ASSUME NEW n \in Nat PROVE Expressions[n + 1] = Over(Expressions[n])
  <2>1. n + 1 \in Nat /\ n + 1 # 0 /\ (n + 1) - 1 = n OBVIOUS
  <2> QED BY <2>1, ExpressionsDefined DEF OperandsUpTo
<1> DEFINE P == {n \in Nat : Expressions[n] \subseteq Expressions[n + 1]}
<1>3. 0 \in P
  <2>1. Over({}) \subseteq Over(Expressions[0]) BY OverMore
  <2>2. Expressions[0 + 1] = Over(Expressions[0]) BY <1>2
  <2> QED BY <1>1, <2>1, <2>2
<1>4. ASSUME NEW n \in Nat, n \in P PROVE n + 1 \in P
  <2>1. Over(Expressions[n]) \subseteq Over(Expressions[n + 1]) BY <1>4, OverMore
  <2>2. Expressions[(n + 1) + 1] = Over(Expressions[n + 1]) BY <1>2
  <2> QED BY <1>2, <2>1, <2>2
<1> HIDE DEF P
<1>5. \A n \in Nat : n \in P BY <1>3, <1>4, Induction
<1> QED BY <1>1, <1>2, <1>5 DEF P

-----------------------------------------------------------------------------
(* What is computed over trees. *)

(* The analysis of a node, with g for what it calls for its children. *)
AnalyzedBy(g, node) ==
    CASE node.type \in Operations /\ HasSubexpression(node) ->
            Combined(g[get_lhs_expression(node)], Child(node, 1).type,
                     g[get_rhs_expression(node)])
      [] node.type \in Operations /\ Len(node.children) = 1 ->
            g[get_lhs_expression(node)]
      [] node.type = "unary_expression" /\ Len(node.children) \in {1, 2} ->
            Unary(IF HasUnaryOperator(node) = 1 THEN Operation[Child(node, 0).type]
                                                ELSE "PLUS",
                  g[get_expression(node)])
      [] node.type = "primary_expression" /\ Len(node.children) = 3 ->
            g[Child(node, 1)]
      [] node.type = "primary_expression" /\ Len(node.children) = 1 ->
            IF Child(node, 0).type = "identifier" THEN Identifier("IDENTIFIER")
                                                  ELSE Literal("LITERAL")
      [] OTHER -> NoExpression

(* What becomes of a node of each kind. *)
LEMMA AnalyzedIs ==
  ASSUME NEW g, NEW node, NEW n, n = Len(node.children)
  PROVE  /\ node.type \in Operations /\ n = 3 =>
               AnalyzedBy(g, node) = Combined(g[get_lhs_expression(node)],
                                              Child(node, 1).type,
                                              g[get_rhs_expression(node)])
         /\ node.type \in Operations /\ n = 1 =>
               AnalyzedBy(g, node) = g[get_lhs_expression(node)]
         /\ node.type = "unary_expression" /\ n \in {1, 2} =>
               AnalyzedBy(g, node) =
                  Unary(IF HasUnaryOperator(node) = 1 THEN Operation[Child(node, 0).type]
                                                      ELSE "PLUS",
                        g[get_expression(node)])
         /\ node.type = "primary_expression" /\ n = 3 =>
               AnalyzedBy(g, node) = g[Child(node, 1)]
         /\ node.type = "primary_expression" /\ n = 1 =>
               AnalyzedBy(g, node) =
                  IF Child(node, 0).type = "identifier" THEN Identifier("IDENTIFIER")
                                                        ELSE Literal("LITERAL")
         /\ ~(\/ node.type \in Operations /\ n \in {1, 3}
              \/ node.type = "unary_expression" /\ n \in {1, 2}
              \/ node.type = "primary_expression" /\ n \in {1, 3}) =>
               AnalyzedBy(g, node) = NoExpression
<1>1. HasSubexpression(node) <=> n = 3
  BY DEF HasSubexpression
<1>2. CASE node.type \in Operations
  <2>1. node.type # "unary_expression" /\ node.type # "primary_expression"
    BY <1>2 DEF Operations
  <2> QED BY <1>1, <1>2, <2>1 DEF AnalyzedBy
<1>3. CASE node.type = "unary_expression"
  <2>1. node.type \notin Operations BY <1>3 DEF Operations
  <2> QED BY <1>1, <1>3, <2>1 DEF AnalyzedBy
<1>4. CASE node.type = "primary_expression"
  <2>1. node.type \notin Operations BY <1>4 DEF Operations
  <2> QED BY <1>1, <1>4, <2>1 DEF AnalyzedBy
<1>5. CASE node.type \notin Operations \cup {"unary_expression", "primary_expression"}
  BY <1>1, <1>5 DEF AnalyzedBy
<1> QED BY <1>2, <1>3, <1>4, <1>5

(* It calls itself for children only. *)
LEMMA AnalysisIsLocal ==
  ASSUME NEW S, NEW node, node.children \in Seq(S), NEW g, NEW h,
         \A y \in S : g[y] = h[y]
  PROVE  AnalyzedBy(g, node) = AnalyzedBy(h, node)
<1> DEFINE n == Len(node.children)
<1>1. \A i \in 1 .. n : g[node.children[i]] = h[node.children[i]]
  OBVIOUS
<1>2. n = 3 => /\ g[get_lhs_expression(node)] = h[get_lhs_expression(node)]
               /\ g[get_rhs_expression(node)] = h[get_rhs_expression(node)]
               /\ g[Child(node, 1)] = h[Child(node, 1)]
  BY <1>1 DEF get_lhs_expression, get_rhs_expression, Child
<1>3. n = 1 => g[get_lhs_expression(node)] = h[get_lhs_expression(node)]
  BY <1>1 DEF get_lhs_expression, Child
<1>4. n \in {1, 2} => g[get_expression(node)] = h[get_expression(node)]
  BY <1>1 DEF get_expression, HasUnaryOperator, Child
<1>5. n = Len(node.children)
  OBVIOUS
<1> HIDE DEF n
<1>6. CASE node.type \in Operations /\ n = 3
  <2>1. AnalyzedBy(g, node) =
            Combined(g[get_lhs_expression(node)], Child(node, 1).type,
                     g[get_rhs_expression(node)])
    BY <1>5, <1>6, AnalyzedIs
  <2>2. AnalyzedBy(h, node) =
            Combined(h[get_lhs_expression(node)], Child(node, 1).type,
                     h[get_rhs_expression(node)])
    BY <1>5, <1>6, AnalyzedIs
  <2> QED BY <1>2, <1>6, <2>1, <2>2
<1>7. CASE node.type \in Operations /\ n = 1
  <2>1. AnalyzedBy(g, node) =
            g[get_lhs_expression(node)]
    BY <1>5, <1>7, AnalyzedIs
  <2>2. AnalyzedBy(h, node) =
            h[get_lhs_expression(node)]
    BY <1>5, <1>7, AnalyzedIs
  <2> QED BY <1>3, <1>7, <2>1, <2>2
<1>8. CASE node.type = "unary_expression" /\ n \in {1, 2}
  <2>1. AnalyzedBy(g, node) =
            Unary(IF HasUnaryOperator(node) = 1 THEN Operation[Child(node, 0).type]
                                                      ELSE "PLUS",
                  g[get_expression(node)])
    BY <1>5, <1>8, AnalyzedIs
  <2>2. AnalyzedBy(h, node) =
            Unary(IF HasUnaryOperator(node) = 1 THEN Operation[Child(node, 0).type]
                                                      ELSE "PLUS",
                  h[get_expression(node)])
    BY <1>5, <1>8, AnalyzedIs
  <2> QED BY <1>4, <1>8, <2>1, <2>2
<1>9. CASE node.type = "primary_expression" /\ n = 3
  <2>1. AnalyzedBy(g, node) =
            g[Child(node, 1)]
    BY <1>5, <1>9, AnalyzedIs
  <2>2. AnalyzedBy(h, node) =
            h[Child(node, 1)]
    BY <1>5, <1>9, AnalyzedIs
  <2> QED BY <1>2, <1>9, <2>1, <2>2
<1>10. CASE node.type = "primary_expression" /\ n = 1
  <2>1. AnalyzedBy(g, node) =
            IF Child(node, 0).type = "identifier" THEN Identifier("IDENTIFIER")
                                                        ELSE Literal("LITERAL")
    BY <1>5, <1>10, AnalyzedIs
  <2>2. AnalyzedBy(h, node) =
            IF Child(node, 0).type = "identifier" THEN Identifier("IDENTIFIER")
                                                        ELSE Literal("LITERAL")
    BY <1>5, <1>10, AnalyzedIs
  <2> QED BY <1>10, <2>1, <2>2
<1>11. CASE ~(\/ node.type \in Operations /\ n \in {1, 3}
              \/ node.type = "unary_expression" /\ n \in {1, 2}
              \/ node.type = "primary_expression" /\ n \in {1, 3})
  <2>1. AnalyzedBy(g, node) = NoExpression BY <1>5, <1>11, AnalyzedIs
  <2>2. AnalyzedBy(h, node) = NoExpression BY <1>5, <1>11, AnalyzedIs
  <2> QED BY <2>1, <2>2
<1> QED BY <1>6, <1>7, <1>8, <1>9, <1>10, <1>11

(* The tokens of the first i children, with g for those of a child. *)
JoinedBy(g, children) ==
    CHOOSE f : f = [i \in 0 .. Len(children) |->
                       IF i = 0 THEN <<>> ELSE f[i - 1] \o g[children[i]]]
YieldBy(g, node) ==
    IF node.children = <<>> THEN <<node.type>>
    ELSE JoinedBy(g, node.children)[Len(node.children)]

(* The text of a node depends on the texts of its children only.           *)
LEMMA YieldIsLocal ==
  ASSUME NEW S, NEW node, node.children \in Seq(S), NEW g, NEW h,
         \A y \in S : g[y] = h[y]
  PROVE  YieldBy(g, node) = YieldBy(h, node)
<1> DEFINE s == node.children
           G(f) == [i \in 0 .. Len(s) |-> IF i = 0 THEN <<>> ELSE f[i - 1] \o g[s[i]]]
           H(f) == [i \in 0 .. Len(s) |-> IF i = 0 THEN <<>> ELSE f[i - 1] \o h[s[i]]]
<1>1. ASSUME NEW f PROVE G(f) = H(f)
  <2>1. ASSUME NEW i \in 0 .. Len(s), i # 0 PROVE g[s[i]] = h[s[i]]
    <3>1. i \in 1 .. Len(s) BY <2>1
    <3>2. s[i] \in S BY <3>1
    <3> QED BY <3>2
  <2> HIDE DEF s
  <2> QED BY <2>1
<1>2. (CHOOSE f : f = G(f)) = (CHOOSE f : f = H(f))
  <2> HIDE DEF G, H
  <2> QED BY <1>1, Zenon
<1>3. JoinedBy(g, s) = JoinedBy(h, s)
  BY <1>2 DEF JoinedBy
<1> QED BY <1>3 DEF YieldBy

(* The definitions of the two functions give the functions. *)
LEMMA AnalysisDefined ==
  \A x \in ParseTrees : analyze_expression[x] = AnalyzedBy(analyze_expression, x)
<1> DEFINE Good(g, n) == \A x \in Trees[n] : g[x] = AnalyzedBy(g, x)
           P == {n \in Nat : \E g : Good(g, n)}
           Fix(f) == f = [x \in ParseTrees |-> AnalyzedBy(f, x)]
<1>1. 0 \in P
  <2> DEFINE h == [x \in Trees[0] |-> AnalyzedBy(<<>>, x)]
  <2>1. ASSUME NEW x \in Trees[0] PROVE h[x] = AnalyzedBy(h, x)
    <3>1. x.children \in Seq({})
      <4>1. x.children = <<>> BY LevelChildren
      <4> QED BY <4>1
    <3>2. h[x] = AnalyzedBy(<<>>, x) OBVIOUS
    <3> HIDE DEF h
    <3>3. AnalyzedBy(<<>>, x) = AnalyzedBy(h, x) BY <3>1, AnalysisIsLocal
    <3> QED BY <3>2, <3>3
  <2> HIDE DEF h
  <2>2. Good(h, 0) BY <2>1
  <2> QED BY <2>2
<1>2. ASSUME NEW n \in Nat, n \in P PROVE n + 1 \in P
  <2>1. PICK g : Good(g, n) BY <1>2
  <2> DEFINE h == [x \in Trees[n + 1] |-> AnalyzedBy(g, x)]
  <2>2. ASSUME NEW y \in Trees[n] PROVE g[y] = h[y]
    BY <2>1, TreesGrow
  <2>3. ASSUME NEW x \in Trees[n + 1] PROVE h[x] = AnalyzedBy(h, x)
    <3>1. x.children \in Seq(Trees[n]) BY LevelChildren
    <3>2. h[x] = AnalyzedBy(g, x) OBVIOUS
    <3> HIDE DEF h
    <3>3. AnalyzedBy(g, x) = AnalyzedBy(h, x) BY <2>2, <3>1, AnalysisIsLocal
    <3> QED BY <3>2, <3>3
  <2> HIDE DEF h
  <2>4. Good(h, n + 1) BY <2>3
  <2> HIDE DEF Good
  <2> QED BY <2>4
<1>3. \E g : Good(g, MaxHeight)
  <2> HIDE DEF P
  <2>1. \A n \in Nat : n \in P BY <1>1, <1>2, Induction
  <2> QED BY <2>1, ExpressionAnalysisAssumption DEF P
<1>4. \E f : Fix(f)
  <2>1. PICK g : Good(g, MaxHeight) BY <1>3
  <2> DEFINE f == [x \in ParseTrees |-> AnalyzedBy(g, x)]
  <2>2. ASSUME NEW y \in ParseTrees PROVE g[y] = f[y]
    BY <2>1 DEF ParseTrees
  <2>3. ASSUME NEW x \in ParseTrees PROVE AnalyzedBy(g, x) = AnalyzedBy(f, x)
    <3> HIDE DEF f
    <3>1. x.children \in Seq(ParseTrees) BY ChildrenAreTrees
    <3> QED BY <2>2, <3>1, AnalysisIsLocal
  <2>4. Fix(f)
    BY <2>3, Zenon
  <2> HIDE DEF Fix
  <2> QED BY <2>4
<1>5. analyze_expression = CHOOSE f : Fix(f)
  BY DEF analyze_expression, AnalyzedBy
<1>6. Fix(analyze_expression)
  <2> HIDE DEF Fix
  <2> QED BY <1>4, <1>5
<1> QED BY <1>6

(* The text of a tree is what its definition says.                         *)
LEMMA YieldDefined ==
  \A x \in ParseTrees : Yield[x] = YieldBy(Yield, x)
<1> DEFINE Good(g, n) == \A x \in Trees[n] : g[x] = YieldBy(g, x)
           P == {n \in Nat : \E g : Good(g, n)}
           Fix(f) == f = [x \in ParseTrees |-> YieldBy(f, x)]
<1>1. 0 \in P
  <2> DEFINE h == [x \in Trees[0] |-> YieldBy(<<>>, x)]
  <2>1. ASSUME NEW x \in Trees[0] PROVE h[x] = YieldBy(h, x)
    <3>1. x.children \in Seq({})
      <4>1. x.children = <<>> BY LevelChildren
      <4> QED BY <4>1
    <3>2. h[x] = YieldBy(<<>>, x) OBVIOUS
    <3> HIDE DEF h
    <3>3. YieldBy(<<>>, x) = YieldBy(h, x) BY <3>1, YieldIsLocal
    <3> QED BY <3>2, <3>3
  <2> HIDE DEF h
  <2>2. Good(h, 0) BY <2>1
  <2> QED BY <2>2
<1>2. ASSUME NEW n \in Nat, n \in P PROVE n + 1 \in P
  <2>1. PICK g : Good(g, n) BY <1>2
  <2> DEFINE h == [x \in Trees[n + 1] |-> YieldBy(g, x)]
  <2>2. ASSUME NEW y \in Trees[n] PROVE g[y] = h[y]
    BY <2>1, TreesGrow
  <2>3. ASSUME NEW x \in Trees[n + 1] PROVE h[x] = YieldBy(h, x)
    <3>1. x.children \in Seq(Trees[n]) BY LevelChildren
    <3>2. h[x] = YieldBy(g, x) OBVIOUS
    <3> HIDE DEF h
    <3>3. YieldBy(g, x) = YieldBy(h, x) BY <2>2, <3>1, YieldIsLocal
    <3> QED BY <3>2, <3>3
  <2> HIDE DEF h
  <2>4. Good(h, n + 1) BY <2>3
  <2> HIDE DEF Good
  <2> QED BY <2>4
<1>3. \E g : Good(g, MaxHeight)
  <2> HIDE DEF P
  <2>1. \A n \in Nat : n \in P BY <1>1, <1>2, Induction
  <2> QED BY <2>1, ExpressionAnalysisAssumption DEF P
<1>4. \E f : Fix(f)
  <2>1. PICK g : Good(g, MaxHeight) BY <1>3
  <2> DEFINE f == [x \in ParseTrees |-> YieldBy(g, x)]
  <2>2. ASSUME NEW y \in ParseTrees PROVE g[y] = f[y]
    BY <2>1 DEF ParseTrees
  <2>3. ASSUME NEW x \in ParseTrees PROVE YieldBy(g, x) = YieldBy(f, x)
    <3> HIDE DEF f
    <3>1. x.children \in Seq(ParseTrees) BY ChildrenAreTrees
    <3> QED BY <2>2, <3>1, YieldIsLocal
  <2>4. Fix(f)
    BY <2>3, Zenon
  <2> HIDE DEF Fix
  <2> QED BY <2>4
<1>5. Yield = CHOOSE f : Fix(f)
  BY DEF Yield, YieldBy, JoinedBy
<1>6. Fix(Yield)
  <2> HIDE DEF Fix
  <2> QED BY <1>4, <1>5
<1> QED BY <1>6

-----------------------------------------------------------------------------
(* What texts mean. *)

AllTexts == Seq(TokenTypes)

(* The meaning of a text, with g for what it refers to for parts of it. *)
SplitBy(g, text, i) ==
    Binary(g[SubSeq(text, 1, i - 1)], Operation[text[i]],
           g[SubSeq(text, i + 1, Len(text))])
OperandBy(g, operand) ==
    CASE operand = <<"IDENTIFIER">> -> Identifier("IDENTIFIER")
      [] operand = <<"LITERAL">>    -> Literal("LITERAL")
      [] Len(operand) > 2           -> g[SubSeq(operand, 2, Len(operand) - 1)]
      [] OTHER                      -> NoExpression
MeaningBy(g, text) ==
    CASE Sums(text) # {} -> SplitBy(g, text, Min(Sums(text)))
      [] Sums(text) = {} /\ Products(text) # {} -> SplitBy(g, text, Min(Products(text)))
      [] Sums(text) \cup Products(text) = {} /\ Signed(text) ->
            Unary(Operation[text[1]], OperandBy(g, Tail(text)))
      [] OTHER -> Unary("PLUS", OperandBy(g, text))

(* A part of a text is a text. *)
LEMMA PartOfText ==
  ASSUME NEW text \in AllTexts, NEW a \in 1 .. Len(text) + 1, NEW b \in 0 .. Len(text)
  PROVE  /\ SubSeq(text, a, b) \in AllTexts
         /\ Len(SubSeq(text, a, b)) = IF a =< b THEN b - a + 1 ELSE 0
  BY SubSeqProperties DEF AllTexts

(* The parts on both sides of a token and an operand in brackets are       *)
(* shorter.                                                                *)
LEMMA ShorterParts ==
  ASSUME NEW text \in AllTexts
  PROVE  /\ \A i \in 1 .. Len(text) :
               /\ SubSeq(text, 1, i - 1) \in AllTexts
               /\ Len(SubSeq(text, 1, i - 1)) < Len(text)
               /\ SubSeq(text, i + 1, Len(text)) \in AllTexts
               /\ Len(SubSeq(text, i + 1, Len(text))) < Len(text)
         /\ Len(text) > 2 =>
               /\ SubSeq(text, 2, Len(text) - 1) \in AllTexts
               /\ Len(SubSeq(text, 2, Len(text) - 1)) < Len(text)
         /\ Len(text) > 0 => Tail(text) \in AllTexts /\ Len(Tail(text)) < Len(text)
<1>1. Len(text) \in Nat BY DEF AllTexts
<1>2. ASSUME NEW i \in 1 .. Len(text)
      PROVE  /\ SubSeq(text, 1, i - 1) \in AllTexts
             /\ Len(SubSeq(text, 1, i - 1)) < Len(text)
             /\ SubSeq(text, i + 1, Len(text)) \in AllTexts
             /\ Len(SubSeq(text, i + 1, Len(text))) < Len(text)
  <2>1. /\ 1 \in 1 .. Len(text) + 1 /\ i - 1 \in 0 .. Len(text)
        /\ i + 1 \in 1 .. Len(text) + 1 /\ Len(text) \in 0 .. Len(text)
    BY <1>1
  <2>2. /\ SubSeq(text, 1, i - 1) \in AllTexts
        /\ Len(SubSeq(text, 1, i - 1)) = IF 1 =< i - 1 THEN i - 1 - 1 + 1 ELSE 0
    BY <2>1, PartOfText
  <2>3. /\ SubSeq(text, i + 1, Len(text)) \in AllTexts
        /\ Len(SubSeq(text, i + 1, Len(text))) =
              IF i + 1 =< Len(text) THEN Len(text) - (i + 1) + 1 ELSE 0
    BY <2>1, PartOfText
  <2> QED BY <1>1, <2>2, <2>3
<1>3. ASSUME Len(text) > 2
      PROVE  /\ SubSeq(text, 2, Len(text) - 1) \in AllTexts
             /\ Len(SubSeq(text, 2, Len(text) - 1)) < Len(text)
  <2>1. 2 \in 1 .. Len(text) + 1 /\ Len(text) - 1 \in 0 .. Len(text)
    BY <1>1, <1>3
  <2>2. /\ SubSeq(text, 2, Len(text) - 1) \in AllTexts
        /\ Len(SubSeq(text, 2, Len(text) - 1)) =
              IF 2 =< Len(text) - 1 THEN Len(text) - 1 - 2 + 1 ELSE 0
    BY <2>1, PartOfText
  <2> QED BY <1>1, <1>3, <2>2
<1>4. Len(text) > 0 => Tail(text) \in AllTexts /\ Len(Tail(text)) < Len(text)
  BY DEF AllTexts
<1> QED BY <1>2, <1>3, <1>4

(* Where a text is split. *)
LEMMA FirstOperator ==
  ASSUME NEW text \in AllTexts, NEW operators, Outside(text, operators) # {}
  PROVE  Min(Outside(text, operators)) \in 1 .. Len(text)
<1>1. /\ Outside(text, operators) \subseteq Nat
      /\ Outside(text, operators) \subseteq 1 .. Len(text)
  BY DEF Outside, AllTexts
<1> QED BY <1>1, LeastOf

(* The meaning of a text is made from that of shorter ones. *)
LEMMA MeaningIsLocal ==
  ASSUME NEW text \in AllTexts, NEW g, NEW h,
         \A y \in AllTexts : Len(y) < Len(text) => g[y] = h[y]
  PROVE  MeaningBy(g, text) = MeaningBy(h, text)
<1>1. ASSUME NEW i \in 1 .. Len(text) PROVE SplitBy(g, text, i) = SplitBy(h, text, i)
  <2>1. /\ g[SubSeq(text, 1, i - 1)] = h[SubSeq(text, 1, i - 1)]
        /\ g[SubSeq(text, i + 1, Len(text))] = h[SubSeq(text, i + 1, Len(text))]
    BY ShorterParts
  <2> QED BY <2>1 DEF SplitBy
<1>2. ASSUME NEW w \in AllTexts, Len(w) =< Len(text) PROVE OperandBy(g, w) = OperandBy(h, w)
  <2>1. CASE Len(w) > 2
    <3>1. SubSeq(w, 2, Len(w) - 1) \in AllTexts
          /\ Len(SubSeq(w, 2, Len(w) - 1)) < Len(w)
      BY <2>1, ShorterParts
    <3>2. Len(w) \in Nat /\ Len(text) \in Nat /\ Len(SubSeq(w, 2, Len(w) - 1)) \in Nat
      BY <3>1 DEF AllTexts
    <3>3. Len(SubSeq(w, 2, Len(w) - 1)) < Len(text) BY <1>2, <3>1, <3>2
    <3>4. g[SubSeq(w, 2, Len(w) - 1)] = h[SubSeq(w, 2, Len(w) - 1)] BY <3>1, <3>3
    <3> QED BY <3>4 DEF OperandBy
  <2>2. CASE ~(Len(w) > 2)
    BY <2>2 DEF OperandBy
  <2> QED BY <2>1, <2>2
<1>3. Sums(text) # {} => SplitBy(g, text, Min(Sums(text))) = SplitBy(h, text, Min(Sums(text)))
  BY <1>1, FirstOperator DEF Sums
<1>4. Products(text) # {} =>
         SplitBy(g, text, Min(Products(text))) = SplitBy(h, text, Min(Products(text)))
  BY <1>1, FirstOperator DEF Products
<1>5. Signed(text) => OperandBy(g, Tail(text)) = OperandBy(h, Tail(text))
  <2> SUFFICES ASSUME Len(text) > 1 PROVE OperandBy(g, Tail(text)) = OperandBy(h, Tail(text))
    BY DEF Signed
  <2>1. Tail(text) \in AllTexts /\ Len(Tail(text)) =< Len(text) BY DEF AllTexts
  <2> QED BY <1>2, <2>1
<1>6. OperandBy(g, text) = OperandBy(h, text)
  <2>1. Len(text) =< Len(text) BY DEF AllTexts
  <2> QED BY <1>2, <2>1
<1> QED BY <1>3, <1>4, <1>5, <1>6, Zenon DEF MeaningBy

(* The definition of Meaning gives the meaning. *)
LEMMA MeaningDefined == \A w \in AllTexts : Meaning[w] = MeaningBy(Meaning, w)
<1> DEFINE Good(g, n) == \A w \in AllTexts : Len(w) =< n => g[w] = MeaningBy(g, w)
           G(n) == CHOOSE g : Good(g, n)
           f == [w \in AllTexts |-> G(Len(w))[w]]
           Fix(g) == g = [w \in AllTexts |-> MeaningBy(g, w)]
<1>1. \A w \in AllTexts : Len(w) \in Nat
  BY DEF AllTexts
<1>2. \A n \in Nat : \E g : Good(g, n)
  <2> DEFINE P == {n \in Nat : \E g : Good(g, n)}
  <2>1. 0 \in P
    <3> DEFINE h == [w \in AllTexts |-> MeaningBy(<<>>, w)]
    <3>1. ASSUME NEW w \in AllTexts, Len(w) =< 0 PROVE h[w] = MeaningBy(h, w)
      <4>1. \A y \in AllTexts : ~(Len(y) < Len(w)) BY <1>1, <3>1
      <4>2. h[w] = MeaningBy(<<>>, w) OBVIOUS
      <4> HIDE DEF h
      <4>3. MeaningBy(<<>>, w) = MeaningBy(h, w) BY <4>1, MeaningIsLocal
      <4> QED BY <4>2, <4>3
    <3> HIDE DEF h
    <3>2. Good(h, 0) BY <3>1
    <3> QED BY <3>2
  <2>2. ASSUME NEW n \in Nat, n \in P PROVE n + 1 \in P
    <3>1. PICK g : Good(g, n) BY <2>2
    <3> DEFINE h == [w \in AllTexts |-> MeaningBy(g, w)]
    <3>2. ASSUME NEW y \in AllTexts, Len(y) =< n PROVE g[y] = h[y]
      BY <3>1, <3>2
    <3>3. ASSUME NEW w \in AllTexts, Len(w) =< n + 1 PROVE h[w] = MeaningBy(h, w)
      <4>1. ASSUME NEW y \in AllTexts, Len(y) < Len(w) PROVE g[y] = h[y]
        <5>1. Len(y) =< n BY <1>1, <3>3, <4>1
        <5> HIDE DEF h
        <5> QED BY <3>2, <5>1
      <4>2. h[w] = MeaningBy(g, w) OBVIOUS
      <4> HIDE DEF h
      <4>3. MeaningBy(g, w) = MeaningBy(h, w) BY <4>1, MeaningIsLocal
      <4> QED BY <4>2, <4>3
    <3> HIDE DEF h
    <3>4. Good(h, n + 1) BY <3>3
    <3> HIDE DEF Good
    <3> QED BY <3>4
  <2> HIDE DEF P
  <2>3. \A n \in Nat : n \in P BY <2>1, <2>2, Induction
  <2> QED BY <2>3 DEF P
<1>3. ASSUME NEW n \in Nat PROVE Good(G(n), n)
  <2> HIDE DEF Good
  <2> QED BY <1>2
<1>4. ASSUME NEW m \in Nat, NEW g, NEW h, Good(g, m), Good(h, m)
      PROVE  \A y \in AllTexts : Len(y) =< m => g[y] = h[y]
  <2> DEFINE P == {n \in Nat : n =< m => \A y \in AllTexts : Len(y) =< n => g[y] = h[y]}
  <2>1. ASSUME NEW y \in AllTexts, Len(y) =< m,
               \A x \in AllTexts : Len(x) < Len(y) => g[x] = h[x]
        PROVE  g[y] = h[y]
    <3>1. MeaningBy(g, y) = MeaningBy(h, y) BY <2>1, MeaningIsLocal
    <3>2. g[y] = MeaningBy(g, y) /\ h[y] = MeaningBy(h, y) BY <1>4, <2>1
    <3> QED BY <3>1, <3>2
  <2> HIDE DEF Good
  <2>2. 0 \in P
    <3>1. ASSUME NEW y \in AllTexts, Len(y) =< 0 PROVE g[y] = h[y]
      <4>1. \A x \in AllTexts : ~(Len(x) < Len(y)) BY <1>1, <3>1
      <4>2. Len(y) =< m BY <1>1, <3>1
      <4> QED BY <2>1, <4>1, <4>2
    <3> QED BY <3>1
  <2>3. ASSUME NEW n \in Nat, n \in P PROVE n + 1 \in P
    <3> SUFFICES ASSUME n + 1 =< m, NEW y \in AllTexts, Len(y) =< n + 1 PROVE g[y] = h[y]
      OBVIOUS
    <3>1. n =< m OBVIOUS
    <3>2. ASSUME NEW x \in AllTexts, Len(x) < Len(y) PROVE g[x] = h[x]
      <4>1. Len(x) =< n BY <1>1, <3>2
      <4> QED BY <2>3, <3>1, <4>1
    <3>3. Len(y) =< m BY <1>1
    <3> QED BY <2>1, <3>2, <3>3
  <2>4. \A n \in Nat : n \in P
    <3> HIDE DEF P
    <3> QED BY <2>2, <2>3, Induction
  <2> QED BY <2>4
<1>5. ASSUME NEW w \in AllTexts PROVE f[w] = MeaningBy(f, w)
  <2>1. Len(w) \in Nat /\ Len(w) =< Len(w) BY <1>1
  <2>2. f[w] = G(Len(w))[w]
    <3> HIDE DEF G
    <3> QED OBVIOUS
  <2> HIDE DEF G
  <2>3. Good(G(Len(w)), Len(w)) BY <1>3, <2>1
  <2>4. f[w] = MeaningBy(G(Len(w)), w) BY <2>1, <2>2, <2>3
  <2>5. ASSUME NEW y \in AllTexts, Len(y) < Len(w) PROVE G(Len(w))[y] = f[y]
    <3>1. Len(y) \in Nat /\ Len(y) =< Len(y) BY <1>1
    <3>2. Good(G(Len(y)), Len(y)) BY <1>3, <3>1
    <3>3. Good(G(Len(w)), Len(y))
      <4>1. \A x \in AllTexts : Len(x) =< Len(y) => Len(x) =< Len(w)
        BY <1>1, <2>1, <2>5
      <4> QED BY <2>3, <4>1
    <3>4. f[y] = G(Len(y))[y] OBVIOUS
    <3> HIDE DEF Good, f
    <3>5. G(Len(y))[y] = G(Len(w))[y] BY <1>4, <3>1, <3>2, <3>3
    <3> QED BY <3>4, <3>5
  <2> HIDE DEF f, Good
  <2>6. MeaningBy(G(Len(w)), w) = MeaningBy(f, w) BY <2>5, MeaningIsLocal
  <2> QED BY <2>4, <2>6
<1>6. Fix(f)
  BY <1>5, Zenon
<1>7. Meaning = CHOOSE g : Fix(g)
  BY DEF Meaning, MeaningBy, SplitBy, OperandBy, AllTexts
<1> HIDE DEF f
<1>8. Fix(Meaning)
  <2> HIDE DEF Fix
  <2> QED BY <1>6, <1>7
<1> QED BY <1>8

-----------------------------------------------------------------------------
(* Brackets and operators of texts that are put together. *)

Operators == Additive \cup Multiplicative
Enders == {"IDENTIFIER", "LITERAL", "R_BRACKET"}

(* No bracket is closed that is not open, and none is left open. *)
Opened(w, i) == Count(w, "L_BRACKET", i)
Shut(w, i) == Count(w, "R_BRACKET", i)
Level(w) ==
    /\ \A i \in 0 .. Len(w) : Shut(w, i) =< Opened(w, i)
    /\ Shut(w, Len(w)) = Opened(w, Len(w))

(* A text to which an operator may be added. *)
Closed(w) ==
    /\ w \in AllTexts /\ Level(w)
    /\ w # <<>> /\ w[Len(w)] \in Enders

(* One token more is counted, or not. *)
LEMMA CountStep ==
  ASSUME NEW w, NEW token, NEW n \in Nat
  PROVE  /\ Count(w, token, 0) = 0
         /\ Count(w, token, n) \in Nat
         /\ Count(w, token, n + 1) =
               Count(w, token, n) + (IF w[n + 1] = token THEN 1 ELSE 0)
<1> DEFINE At(i) == {k \in 1 .. i : w[k] = token}
<1>1. At(0) = {}
  OBVIOUS
<1>2. IsFiniteSet(At(n))
  <2>1. IsFiniteSet(1 .. n) BY FS_Interval
  <2> QED BY <2>1, FS_Subset
<1>3. CASE w[n + 1] = token
  <2>1. At(n + 1) = At(n) \cup {n + 1} /\ n + 1 \notin At(n) BY <1>3
  <2> HIDE DEF At
  <2>2. Cardinality(At(n + 1)) = Cardinality(At(n)) + 1
    BY <1>2, <2>1, FS_AddElement
  <2>3. Cardinality(At(n)) \in Nat /\ Cardinality(At(0)) = 0
    BY <1>1, <1>2, FS_CardinalityType, FS_EmptySet
  <2> QED BY <1>3, <2>2, <2>3 DEF At, Count
<1>4. CASE w[n + 1] # token
  <2>1. At(n + 1) = At(n) BY <1>4
  <2> HIDE DEF At
  <2>2. Cardinality(At(n)) \in Nat /\ Cardinality(At(0)) = 0
    BY <1>1, <1>2, FS_CardinalityType, FS_EmptySet
  <2> QED BY <1>4, <2>1, <2>2 DEF At, Count
<1> QED BY <1>3, <1>4

(* Counting in a text that goes on with another. *)
LEMMA CountJoined ==
  ASSUME NEW u \in AllTexts, NEW v \in AllTexts, NEW token
  PROVE  /\ \A i \in 0 .. Len(u) : Count(u \o v, token, i) = Count(u, token, i)
         /\ \A j \in 0 .. Len(v) :
               Count(u \o v, token, Len(u) + j) = Count(u, token, Len(u)) + Count(v, token, j)
<1> DEFINE One(x, k) == IF x[k] = token THEN 1 ELSE 0
<1>0. \A x : \A i \in Nat : Count(x, token, i + 1) = Count(x, token, i) + One(x, i + 1)
  BY CountStep
<1> HIDE DEF One
<1> DEFINE w == u \o v
           m == Len(u)
<1>1. /\ m \in Nat /\ Len(v) \in Nat
      /\ \A k \in 1 .. m : w[k] = u[k]
      /\ \A k \in 1 .. Len(v) : w[m + k] = v[k]
  BY DEF AllTexts
<1> HIDE DEF w, m
<1>2. ASSUME NEW i \in 0 .. m PROVE Count(w, token, i) = Count(u, token, i)
  <2>1. \A k \in 1 .. i : w[k] = u[k] BY <1>1
  <2>2. {k \in 1 .. i : w[k] = token} = {k \in 1 .. i : u[k] = token} BY <2>1
  <2> QED BY <2>2 DEF Count
<1>3. \A j \in 0 .. Len(v) : Count(w, token, m + j) = Count(u, token, m) + Count(v, token, j)
  <2> DEFINE Right(j) == Count(w, token, m + j) = Count(u, token, m) + Count(v, token, j)
             P == {j \in Nat : j =< Len(v) => Right(j)}
  <2>1. 0 \in P
    <3>1. Count(u, token, m) \in Nat /\ Count(v, token, 0) = 0 BY <1>1, CountStep
    <3>2. Count(w, token, m) = Count(u, token, m) BY <1>1, <1>2
    <3>3. m + 0 = m BY <1>1
    <3> QED BY <3>1, <3>2, <3>3
  <2>2. ASSUME NEW j \in Nat, j \in P PROVE j + 1 \in P
    <3> SUFFICES ASSUME j + 1 =< Len(v) PROVE Right(j + 1)
      OBVIOUS
    <3>1. Right(j) BY <1>1, <2>2
    <3>2. w[(m + j) + 1] = v[j + 1] /\ m + j \in Nat /\ m + (j + 1) = (m + j) + 1
      <4>1. j + 1 \in 1 .. Len(v) BY <1>1
      <4>2. m + (j + 1) = (m + j) + 1 /\ m + j \in Nat BY <1>1
      <4> QED BY <1>1, <4>1, <4>2
    <3>3. PICK k \in Nat : k = m + j
      BY <3>2
    <3> HIDE DEF Right, P
    <3>4. Count(w, token, k + 1) = Count(w, token, k) + One(w, k + 1)
      BY <1>0
    <3>5. Count(v, token, j + 1) = Count(v, token, j) + One(v, j + 1)
      BY <1>0
    <3>6. Count(u, token, m) \in Nat /\ Count(v, token, j) \in Nat BY <1>1, CountStep
    <3>7. One(w, k + 1) = One(v, j + 1) /\ One(v, j + 1) \in Nat
      BY <3>2, <3>3 DEF One
    <3> QED BY <3>1, <3>2, <3>3, <3>4, <3>5, <3>6, <3>7 DEF Right
  <2> HIDE DEF P
  <2>3. \A j \in Nat : j \in P BY <2>1, <2>2, Induction
  <2> QED BY <1>1, <2>3 DEF P
<1> QED BY <1>2, <1>3 DEF w, m

(* A single token. *)
LEMMA CountOne ==
  ASSUME NEW a, NEW token
  PROVE  Count(<<a>>, token, 1) = (IF a = token THEN 1 ELSE 0)
<1>1. Count(<<a>>, token, 0 + 1) =
         Count(<<a>>, token, 0) + (IF <<a>>[0 + 1] = token THEN 1 ELSE 0)
  BY CountStep
<1>2. Count(<<a>>, token, 0) = 0
  BY CountStep
<1> QED BY <1>1, <1>2

(* A token that is no bracket leaves the brackets level.                   *)
LEMMA LevelToken ==
  ASSUME NEW a \in TokenTypes, a \notin {"L_BRACKET", "R_BRACKET"}
  PROVE  <<a>> \in AllTexts /\ Level(<<a>>)
<1>1. \A token \in {"L_BRACKET", "R_BRACKET"} :
         Count(<<a>>, token, 1) = 0 /\ Count(<<a>>, token, 0) = 0
  BY CountOne, CountStep
<1>2. Len(<<a>>) = 1 /\ 0 .. 1 = {0, 1}
  OBVIOUS
<1> QED BY <1>1, <1>2 DEF Level, Opened, Shut, AllTexts

(* Two texts, one behind the other. *)
LEMMA LevelJoined ==
  ASSUME NEW u \in AllTexts, NEW v \in AllTexts, Level(u), Level(v)
  PROVE  u \o v \in AllTexts /\ Level(u \o v)
<1> DEFINE w == u \o v
           m == Len(u)
           n == Len(v)
<1>1. w \in AllTexts /\ Len(w) = m + n /\ m \in Nat /\ n \in Nat
  BY DEF AllTexts
<1>2. /\ \A i \in 0 .. m : Shut(w, i) = Shut(u, i) /\ Opened(w, i) = Opened(u, i)
      /\ \A j \in 0 .. n : /\ Shut(w, m + j) = Shut(u, m) + Shut(v, j)
                           /\ Opened(w, m + j) = Opened(u, m) + Opened(v, j)
  <2> HIDE DEF w
  <2>1. /\ \A i \in 0 .. m : Count(w, "R_BRACKET", i) = Count(u, "R_BRACKET", i)
        /\ \A j \in 0 .. n : Count(w, "R_BRACKET", m + j) =
                                 Count(u, "R_BRACKET", m) + Count(v, "R_BRACKET", j)
    BY CountJoined DEF w
  <2>2. /\ \A i \in 0 .. m : Count(w, "L_BRACKET", i) = Count(u, "L_BRACKET", i)
        /\ \A j \in 0 .. n : Count(w, "L_BRACKET", m + j) =
                                 Count(u, "L_BRACKET", m) + Count(v, "L_BRACKET", j)
    BY CountJoined DEF w
  <2> QED BY <2>1, <2>2 DEF Shut, Opened
<1>3. /\ \A i \in Nat : /\ Shut(u, i) \in Nat /\ Opened(u, i) \in Nat
                        /\ Shut(v, i) \in Nat /\ Opened(v, i) \in Nat
  BY CountStep DEF Shut, Opened
<1>4. /\ \A i \in 0 .. m : Shut(u, i) =< Opened(u, i)
      /\ Shut(u, m) = Opened(u, m)
      /\ \A i \in 0 .. n : Shut(v, i) =< Opened(v, i)
      /\ Shut(v, n) = Opened(v, n)
  BY DEF Level
<1> HIDE DEF w, m, n
<1>5. ASSUME NEW i \in 0 .. m + n PROVE Shut(w, i) =< Opened(w, i)
  <2>1. CASE i \in 0 .. m BY <1>2, <1>4, <2>1
  <2>2. CASE i \notin 0 .. m
    <3>1. i - m \in 0 .. n /\ i - m \in Nat /\ m + (i - m) = i BY <1>1, <2>2
    <3>2. /\ Shut(w, i) = Shut(u, m) + Shut(v, i - m)
          /\ Opened(w, i) = Opened(u, m) + Opened(v, i - m)
      BY <1>2, <3>1
    <3>3. Shut(v, i - m) =< Opened(v, i - m) BY <1>4, <3>1
    <3>4. /\ Shut(v, i - m) \in Nat /\ Opened(v, i - m) \in Nat /\ Opened(u, m) \in Nat
      BY <1>1, <1>3, <3>1
    <3> QED BY <1>4, <3>2, <3>3, <3>4
  <2> QED BY <2>1, <2>2
<1>6. Shut(w, m + n) = Opened(w, m + n)
  <2>1. n \in 0 .. n BY <1>1
  <2> QED BY <1>2, <1>4, <2>1
<1> QED BY <1>1, <1>5, <1>6 DEF Level, w

(* A text in brackets. *)
LEMMA LevelBracketed ==
  ASSUME NEW v \in AllTexts, Level(v)
  PROVE  LET w == (<<"L_BRACKET">> \o v) \o <<"R_BRACKET">>
         IN  /\ w \in AllTexts /\ Level(w)
             /\ \A i \in 1 .. Len(v) + 1 : Shut(w, i) < Opened(w, i)
<1> DEFINE a == <<"L_BRACKET">>
           b == <<"R_BRACKET">>
           x == a \o v
           w == x \o b
           n == Len(v)
<1>1. /\ a \in AllTexts /\ b \in AllTexts /\ x \in AllTexts /\ w \in AllTexts
      /\ Len(a) = 1 /\ Len(b) = 1 /\ n \in Nat
      /\ Len(x) = n + 1 /\ Len(w) = n + 2
  BY DEF AllTexts, TokenTypes
<1>2. /\ Opened(a, 0) = 0 /\ Opened(a, 1) = 1 /\ Shut(a, 0) = 0 /\ Shut(a, 1) = 0
      /\ Opened(b, 0) = 0 /\ Opened(b, 1) = 0 /\ Shut(b, 0) = 0 /\ Shut(b, 1) = 1
  BY CountOne, CountStep DEF Opened, Shut
<1>3. \A i \in Nat : Shut(v, i) \in Nat /\ Opened(v, i) \in Nat
  BY CountStep DEF Shut, Opened
<1>4. /\ \A i \in 0 .. n : Shut(v, i) =< Opened(v, i)
      /\ Shut(v, n) = Opened(v, n)
  BY DEF Level
<1> HIDE DEF a, b, n
<1>5. /\ \A i \in 0 .. 1 : Shut(x, i) = Shut(a, i) /\ Opened(x, i) = Opened(a, i)
      /\ \A j \in 0 .. n : /\ Shut(x, 1 + j) = Shut(a, 1) + Shut(v, j)
                           /\ Opened(x, 1 + j) = Opened(a, 1) + Opened(v, j)
  BY <1>1, CountJoined DEF Shut, Opened, n
<1> HIDE DEF x
<1>6. /\ \A i \in 0 .. n + 1 : Shut(w, i) = Shut(x, i) /\ Opened(w, i) = Opened(x, i)
      /\ \A j \in 0 .. 1 : /\ Shut(w, (n + 1) + j) = Shut(x, n + 1) + Shut(b, j)
                           /\ Opened(w, (n + 1) + j) = Opened(x, n + 1) + Opened(b, j)
  <2>1. /\ \A i \in 0 .. Len(x) : Shut(w, i) = Shut(x, i)
        /\ \A j \in 0 .. Len(b) : Shut(w, Len(x) + j) = Shut(x, Len(x)) + Shut(b, j)
    BY <1>1, CountJoined DEF Shut
  <2>2. /\ \A i \in 0 .. Len(x) : Opened(w, i) = Opened(x, i)
        /\ \A j \in 0 .. Len(b) : Opened(w, Len(x) + j) = Opened(x, Len(x)) + Opened(b, j)
    BY <1>1, CountJoined DEF Opened
  <2> QED BY <1>1, <2>1, <2>2
<1> HIDE DEF w
<1>7. Shut(w, 0) = 0 /\ Opened(w, 0) = 0
  <2>1. 0 \in 0 .. n + 1 /\ 0 \in 0 .. 1 BY <1>1
  <2> QED BY <1>2, <1>5, <1>6, <2>1
<1>8. ASSUME NEW i \in 1 .. n + 1
      PROVE  /\ Shut(w, i) = Shut(v, i - 1) /\ Opened(w, i) = 1 + Opened(v, i - 1)
             /\ Shut(w, i) < Opened(w, i)
  <2>1. i \in 0 .. n + 1 /\ i - 1 \in 0 .. n /\ i - 1 \in Nat /\ 1 + (i - 1) = i BY <1>1
  <2>2. Shut(w, i) = Shut(x, i) /\ Opened(w, i) = Opened(x, i) BY <1>6, <2>1
  <2>3. /\ Shut(x, i) = Shut(a, 1) + Shut(v, i - 1)
        /\ Opened(x, i) = Opened(a, 1) + Opened(v, i - 1)
    BY <1>5, <2>1
  <2>4. Shut(v, i - 1) \in Nat /\ Opened(v, i - 1) \in Nat BY <1>3, <2>1
  <2>5. Shut(v, i - 1) =< Opened(v, i - 1) BY <1>4, <2>1
  <2> QED BY <1>2, <2>2, <2>3, <2>4, <2>5
<1>9. Shut(w, n + 2) = Opened(w, n + 2)
  <2>1. 1 \in 0 .. 1 /\ (n + 1) + 1 = n + 2 /\ n + 1 \in 1 .. n + 1 /\ n + 1 \in 0 .. n + 1
        /\ (n + 1) - 1 = n
    BY <1>1
  <2>2. Shut(w, n + 2) = Shut(x, n + 1) + 1 /\ Opened(w, n + 2) = Opened(x, n + 1) + 0
    BY <1>2, <1>6, <2>1
  <2>3. Shut(x, n + 1) = Shut(v, n) /\ Opened(x, n + 1) = 1 + Opened(v, n)
    BY <1>6, <1>8, <2>1
  <2>4. Shut(v, n) \in Nat /\ Opened(v, n) \in Nat BY <1>1, <1>3
  <2> QED BY <1>4, <2>2, <2>3, <2>4
<1>10. ASSUME NEW i \in 0 .. n + 2 PROVE Shut(w, i) =< Opened(w, i)
  <2>1. i = 0 \/ i \in 1 .. n + 1 \/ i = n + 2 BY <1>1
  <2>2. CASE i = 0 BY <1>7, <2>2
  <2>3. CASE i \in 1 .. n + 1
    <3>1. i - 1 \in Nat BY <2>3
    <3>2. Shut(v, i - 1) \in Nat /\ Opened(v, i - 1) \in Nat BY <1>3, <3>1
    <3> QED BY <1>8, <2>3, <3>2
  <2>4. CASE i = n + 2
    <3>1. n + 2 \in Nat BY <1>1
    <3>2. Shut(w, n + 2) \in Nat BY <3>1, CountStep DEF Shut
    <3> QED BY <1>9, <2>4, <3>2
  <2> QED BY <2>1, <2>2, <2>3, <2>4
<1>11. w \in AllTexts /\ Level(w)
  BY <1>1, <1>9, <1>10 DEF Level
<1> QED BY <1>8, <1>11 DEF w, x, a, b, n

(* The operators of a text that goes on with another. *)
LEMMA OutsideJoined ==
  ASSUME NEW u \in AllTexts, NEW v \in AllTexts, NEW operators,
         Shut(u, Len(u)) = Opened(u, Len(u))
  PROVE  /\ Outside(u \o v, operators) \subseteq 1 .. Len(u) + Len(v)
         /\ \A i \in 1 .. Len(u) :
               i \in Outside(u \o v, operators) <=> i \in Outside(u, operators)
         /\ \A j \in 2 .. Len(v) :
               Len(u) + j \in Outside(u \o v, operators) <=> j \in Outside(v, operators)
         /\ Len(u) > 0 /\ Len(v) > 0 =>
               (Len(u) + 1 \in Outside(u \o v, operators) <=>
                   /\ v[1] \in operators /\ u[Len(u)] \in Enders
                   /\ Shut(v, 1) = Opened(v, 1))
<1> DEFINE w == u \o v
           m == Len(u)
           n == Len(v)
           At(x, i) == /\ x[i] \in operators /\ x[i - 1] \in Enders
                       /\ Shut(x, i) = Opened(x, i)
<1>1. /\ m \in Nat /\ n \in Nat /\ Len(w) = m + n
      /\ \A k \in 1 .. m : w[k] = u[k]
      /\ \A k \in 1 .. n : w[m + k] = v[k]
  BY DEF AllTexts
<1>2. /\ \A i \in 0 .. m : Shut(w, i) = Shut(u, i)
      /\ \A j \in 0 .. n : Shut(w, m + j) = Shut(u, m) + Shut(v, j)
  BY CountJoined DEF Shut
<1>3. /\ \A i \in 0 .. m : Opened(w, i) = Opened(u, i)
      /\ \A j \in 0 .. n : Opened(w, m + j) = Opened(u, m) + Opened(v, j)
  BY CountJoined DEF Opened
<1>4. \A i \in Nat : /\ Shut(u, i) \in Nat /\ Opened(u, i) \in Nat
                     /\ Shut(v, i) \in Nat /\ Opened(v, i) \in Nat
  BY CountStep DEF Shut, Opened
<1>5. Shut(u, m) = Opened(u, m)
  OBVIOUS
<1>6. \A x, i : i \in Outside(x, operators) <=> i \in 2 .. Len(x) /\ At(x, i)
  BY DEF Outside, Shut, Opened, Enders
<1> HIDE DEF w, m, n
<1>7. Outside(w, operators) \subseteq 1 .. m + n
  BY <1>1, <1>6
<1>8. ASSUME NEW i \in 1 .. m
      PROVE  i \in Outside(w, operators) <=> i \in Outside(u, operators)
  <2>1. i \in 2 .. m <=> i \in 2 .. m + n BY <1>1
  <2>2. i \in 2 .. m => (At(w, i) <=> At(u, i))
    <3> SUFFICES ASSUME i \in 2 .. m PROVE At(w, i) <=> At(u, i)
      OBVIOUS
    <3>1. i - 1 \in 1 .. m /\ i \in 0 .. m BY <1>1
    <3> QED BY <1>1, <1>2, <1>3, <3>1
  <2> HIDE DEF At
  <2> QED BY <1>1, <1>6, <2>1, <2>2 DEF m
<1>9. ASSUME NEW j \in 1 .. n
      PROVE  Shut(w, m + j) = Opened(w, m + j) <=> Shut(v, j) = Opened(v, j)
  <2>1. j \in 0 .. n /\ j \in Nat BY <1>1
  <2>2. /\ Shut(w, m + j) = Shut(u, m) + Shut(v, j)
        /\ Opened(w, m + j) = Opened(u, m) + Opened(v, j)
    BY <1>2, <1>3, <2>1
  <2>3. /\ Shut(u, m) \in Nat /\ Opened(u, m) \in Nat
        /\ Shut(v, j) \in Nat /\ Opened(v, j) \in Nat
    BY <1>1, <1>4, <2>1
  <2> QED BY <1>5, <2>2, <2>3
<1>10. ASSUME NEW j \in 2 .. n
       PROVE  m + j \in Outside(w, operators) <=> j \in Outside(v, operators)
  <2>1. m + j \in 2 .. m + n /\ j \in 1 .. n /\ j - 1 \in 1 .. n /\ (m + j) - 1 = m + (j - 1)
    BY <1>1
  <2>2. At(w, m + j) <=> At(v, j)
    <3>1. w[m + j] = v[j] /\ w[(m + j) - 1] = v[j - 1] BY <1>1, <2>1
    <3> QED BY <1>9, <2>1, <3>1
  <2> HIDE DEF At
  <2> QED BY <1>1, <1>6, <2>1, <2>2 DEF n
<1>11. ASSUME m > 0, n > 0
       PROVE  m + 1 \in Outside(w, operators) <=>
                 /\ v[1] \in operators /\ u[m] \in Enders
                 /\ Shut(v, 1) = Opened(v, 1)
  <2>1. m + 1 \in 2 .. m + n /\ 1 \in 1 .. n /\ m \in 1 .. m /\ (m + 1) - 1 = m
    BY <1>1, <1>11
  <2>2. w[m + 1] = v[1] /\ w[(m + 1) - 1] = u[m] BY <1>1, <2>1
  <2> QED BY <1>1, <1>6, <1>9, <2>1, <2>2
<1> QED BY <1>7, <1>8, <1>10, <1>11 DEF w, m, n

(* Sequences with the same elements, two texts, one behind the other,      *)
(* and a sequence with one element more.                                   *)
LEMMA SameSequence ==
  ASSUME NEW S, NEW s \in Seq(S), NEW t \in Seq(S), Len(s) = Len(t),
         \A k \in 1 .. Len(s) : s[k] = t[k]
  PROVE  s = t
OBVIOUS

(* Two texts in a row: the tokens of the first, then those of the second.  *)
LEMMA JoinedTexts ==
  ASSUME NEW s \in AllTexts, NEW t \in AllTexts
  PROVE  /\ s \o t \in AllTexts /\ Len(s \o t) = Len(s) + Len(t)
         /\ \A k \in 1 .. Len(s) : (s \o t)[k] = s[k]
         /\ \A k \in 1 .. Len(t) : (s \o t)[Len(s) + k] = t[k]
BY DEF AllTexts

(* A sequence with one more at its end.                                    *)
LEMMA OneMore ==
  ASSUME NEW S, NEW s \in Seq(S), NEW t \in Seq(S)
  PROVE  Len(t) = 1 => Len(s \o t) = Len(s) + 1 /\ (s \o t)[Len(s) + 1] = t[1]
<1>1. /\ Len(s \o t) = Len(s) + Len(t)
      /\ \A k \in 1 .. Len(t) : (s \o t)[Len(s) + k] = t[k]
  OBVIOUS
<1> DEFINE x == s \o t
           n == Len(t)
<1>2. Len(x) = Len(s) + n /\ \A k \in 1 .. n : x[Len(s) + k] = t[k] BY <1>1
<1> HIDE DEF x, n
<1>3. n = 1 => Len(x) = Len(s) + 1 /\ x[Len(s) + 1] = t[1] BY <1>2
<1> QED BY <1>3 DEF x, n

(* The shapes of the texts of expressions: an operator between two texts,  *)
(* a sign before one, and one in brackets.                                 *)
Infix(u, op, v) == (u \o <<op>>) \o v

(* The brackets and the operators of a text with an operator in it. *)
LEMMA InfixText ==
  ASSUME NEW u, Closed(u), NEW v, Closed(v), NEW op \in Operators
  PROVE  /\ Closed(Infix(u, op, v))
         /\ \A operators :
               LET i == Len(u) + 1
                   all == Outside(Infix(u, op, v), operators)
               IN  /\ op \in operators /\ Outside(u, operators) = {} =>
                         all # {} /\ Min(all) = i
                   /\ op \notin operators /\ Outside(u, operators) = {}
                         /\ Outside(v, operators) = {} => all = {}
<1> DEFINE a == <<op>>
           x == u \o a
           w == x \o v
           m == Len(u)
           n == Len(v)
<1>1. op \in TokenTypes /\ op \notin {"L_BRACKET", "R_BRACKET"} /\ op \notin Enders
  BY DEF Operators, Additive, Multiplicative, TokenTypes, Enders
<1>2. /\ u \in AllTexts /\ Level(u) /\ u[Len(u)] \in Enders /\ m \in Nat /\ m > 0
      /\ v \in AllTexts /\ Level(v) /\ v[Len(v)] \in Enders /\ n \in Nat /\ n > 0
  BY DEF Closed, AllTexts
<1>3. a \in AllTexts /\ Level(a) /\ Len(a) = 1 /\ a[1] = op
  BY <1>1, LevelToken
<1> HIDE DEF a
<1>4. x \in AllTexts /\ Level(x) /\ Len(x) = m + 1 /\ x[m + 1] = op
  <2>1. x \in AllTexts /\ Level(x) BY <1>2, <1>3, LevelJoined
  <2>2. Len(x) = m + 1 /\ x[m + 1] = op
    <3>1. u \in Seq(TokenTypes) /\ a \in Seq(TokenTypes) BY <1>2, <1>3 DEF AllTexts
    <3>2. Len(a) = 1 => Len(u \o a) = Len(u) + 1 /\ (u \o a)[Len(u) + 1] = a[1]
      BY <3>1, OneMore
    <3> QED BY <1>3, <3>2, Zenon DEF m, x
  <2> QED BY <2>1, <2>2
<1> HIDE DEF x
<1>5. w \in AllTexts /\ Level(w) /\ Len(w) = (m + 1) + n /\ w[(m + 1) + n] = v[n]
  <2>1. w \in AllTexts /\ Level(w) BY <1>2, <1>4, LevelJoined
  <2>2. Len(w) = (m + 1) + n /\ w[(m + 1) + n] = v[n] BY <1>2, <1>4 DEF AllTexts
  <2> QED BY <2>1, <2>2
<1> HIDE DEF w
<1>6. Closed(w)
  <2>1. w # <<>> BY <1>2, <1>5
  <2> QED BY <1>2, <1>5, <2>1 DEF Closed, n
<1>7. ASSUME NEW operators, Outside(u, operators) = {}
      PROVE  /\ Outside(w, operators) \subseteq m + 1 .. (m + 1) + n
             /\ m + 1 \in Outside(w, operators) <=> op \in operators
             /\ Outside(v, operators) = {} => Outside(w, operators) \subseteq {m + 1}
  <2>1. /\ \A i \in 1 .. m : i \in Outside(x, operators) <=> i \in Outside(u, operators)
        /\ m + 1 \in Outside(x, operators) <=> op \in operators
    <3>1. Shut(u, m) = Opened(u, m) /\ Shut(a, 1) = Opened(a, 1)
      BY <1>2, <1>3 DEF Level
    <3>2. \A i \in 1 .. Len(u) : i \in Outside(u \o a, operators) <=> i \in Outside(u, operators)
      BY <1>2, <1>3, <3>1, OutsideJoined
    <3>3. Len(u) > 0 /\ Len(a) > 0 =>
             (Len(u) + 1 \in Outside(u \o a, operators) <=>
                 /\ a[1] \in operators /\ u[Len(u)] \in Enders
                 /\ Shut(a, 1) = Opened(a, 1))
      BY <1>2, <1>3, <3>1, OutsideJoined
    <3> QED BY <1>2, <1>3, <3>1, <3>2, <3>3 DEF x
  <2>2. /\ Outside(w, operators) \subseteq 1 .. (m + 1) + n
        /\ \A i \in 1 .. m + 1 : i \in Outside(w, operators) <=> i \in Outside(x, operators)
        /\ \A j \in 2 .. n : (m + 1) + j \in Outside(w, operators) <=> j \in Outside(v, operators)
        /\ (m + 1) + 1 \notin Outside(w, operators)
    <3>1. Shut(x, Len(x)) = Opened(x, Len(x))
      BY <1>4 DEF Level
    <3>2. /\ Outside(w, operators) \subseteq 1 .. Len(x) + Len(v)
          /\ \A i \in 1 .. Len(x) : i \in Outside(w, operators) <=> i \in Outside(x, operators)
          /\ \A j \in 2 .. Len(v) : Len(x) + j \in Outside(w, operators) <=> j \in Outside(v, operators)
      BY <1>2, <1>4, <3>1, OutsideJoined DEF w
    <3>3. Len(x) > 0 /\ Len(v) > 0 =>
             (Len(x) + 1 \in Outside(w, operators) <=>
                 /\ v[1] \in operators /\ x[Len(x)] \in Enders
                 /\ Shut(v, 1) = Opened(v, 1))
      BY <1>2, <1>4, <3>1, OutsideJoined DEF w
    <3>4. Len(x) > 0 /\ Len(v) > 0 /\ x[Len(x)] \notin Enders BY <1>1, <1>2, <1>4
    <3> QED BY <1>4, <3>2, <3>3, <3>4 DEF n
  <2>3. ASSUME NEW i \in Outside(w, operators)
        PROVE  i = m + 1 \/ \E j \in 2 .. n : i = (m + 1) + j /\ j \in Outside(v, operators)
    <3>1. i \in 1 .. m \/ i = m + 1 \/ i = (m + 1) + 1
          \/ (i - (m + 1) \in 2 .. n /\ (m + 1) + (i - (m + 1)) = i)
      BY <1>2, <2>2
    <3>2. i \notin 1 .. m
      <4> SUFFICES ASSUME i \in 1 .. m PROVE FALSE
        OBVIOUS
      <4>1. i \in 1 .. m + 1 BY <1>2
      <4> QED BY <1>7, <2>1, <2>2, <4>1
    <3> QED BY <2>2, <3>1, <3>2
  <2>4. ASSUME NEW i \in Outside(w, operators) PROVE i \in m + 1 .. (m + 1) + n
    BY <1>2, <2>3
  <2>5. m + 1 \in 1 .. m + 1 BY <1>2
  <2> QED BY <2>1, <2>2, <2>3, <2>4, <2>5
<1>8. ASSUME NEW operators, op \in operators, Outside(u, operators) = {}
      PROVE  Outside(w, operators) # {} /\ Min(Outside(w, operators)) = m + 1
  <2> DEFINE S == Outside(w, operators)
  <2>1. m + 1 \in S /\ S \subseteq m + 1 .. (m + 1) + n BY <1>7, <1>8
  <2> HIDE DEF S
  <2>2. S \subseteq Nat /\ S # {} BY <1>2, <2>1
  <2>3. Min(S) \in S /\ Min(S) =< m + 1 BY <2>1, <2>2, LeastOf
  <2>4. Min(S) \in m + 1 .. (m + 1) + n BY <2>1, <2>3
  <2> QED BY <1>2, <2>2, <2>3, <2>4 DEF S
<1>9. ASSUME NEW operators, op \notin operators, Outside(u, operators) = {},
             Outside(v, operators) = {}
      PROVE  Outside(w, operators) = {}
  BY <1>7, <1>9
<1>10. w = Infix(u, op, v) BY DEF w, x, a, Infix
<1> QED BY <1>6, <1>8, <1>9, <1>10 DEF m

(* The two sides of the operator. *)
LEMMA InfixSides ==
  ASSUME NEW u \in AllTexts, NEW v \in AllTexts, NEW op \in TokenTypes
  PROVE  LET w == Infix(u, op, v)
             i == Len(u) + 1
         IN  /\ w \in AllTexts
             /\ w[i] = op /\ SubSeq(w, 1, i - 1) = u /\ SubSeq(w, i + 1, Len(w)) = v
<1> DEFINE w == Infix(u, op, v)
           m == Len(u)
           n == Len(v)
           b == SubSeq(w, (m + 1) + 1, Len(w))
<1>1. /\ w \in AllTexts /\ m \in Nat /\ n \in Nat /\ Len(w) = (m + 1) + n
      /\ \A k \in 1 .. m : w[k] = u[k]
      /\ w[m + 1] = op
      /\ \A k \in 1 .. n : w[(m + 1) + k] = v[k]
  BY DEF AllTexts, Infix
<1> HIDE DEF w
<1>2. SubSeq(w, 1, (m + 1) - 1) = u
  <2>1. (m + 1) - 1 = m BY <1>1
  <2> DEFINE c == SubSeq(w, 1, m)
  <2>2. /\ c \in AllTexts /\ Len(c) = m
        /\ \A k \in 1 .. m : c[k] = w[k]
    <3>1. \A k \in 1 .. m : w[k] \in TokenTypes BY <1>1 DEF AllTexts
    <3>2. 1 \in Int /\ m \in Int BY <1>1
    <3>3. /\ c \in Seq(TokenTypes) /\ Len(c) = IF 1 =< m THEN m - 1 + 1 ELSE 0
          /\ \A k \in 1 .. m - 1 + 1 : c[k] = w[1 + k - 1]
      BY <3>1, <3>2, SubSeqProperties
    <3> QED BY <1>1, <3>3 DEF AllTexts
  <2> HIDE DEF c
  <2>3. c = u
    <3>1. /\ c \in Seq(TokenTypes) /\ u \in Seq(TokenTypes) /\ Len(c) = Len(u)
          /\ \A k \in 1 .. Len(c) : c[k] = u[k]
      BY <1>1, <2>2, Zenon DEF AllTexts, m
    <3> QED BY <3>1, SameSequence, Zenon
  <2> QED BY <2>1, <2>3 DEF c
<1>3. b = v
  <2>1. /\ b \in AllTexts /\ Len(b) = n
        /\ \A k \in 1 .. n : b[k] = w[(m + 1) + k]
    <3>1. \A k \in (m + 1) + 1 .. Len(w) : w[k] \in TokenTypes BY <1>1 DEF AllTexts
    <3>2. (m + 1) + 1 \in Int /\ Len(w) \in Int BY <1>1
    <3>3. /\ b \in Seq(TokenTypes)
          /\ Len(b) = IF (m + 1) + 1 =< Len(w) THEN Len(w) - ((m + 1) + 1) + 1 ELSE 0
          /\ \A k \in 1 .. Len(w) - ((m + 1) + 1) + 1 : b[k] = w[((m + 1) + 1) + k - 1]
      BY <3>1, <3>2, SubSeqProperties
    <3>4. Len(w) - ((m + 1) + 1) + 1 = n BY <1>1
    <3>5. \A k \in 1 .. n : ((m + 1) + 1) + k - 1 = (m + 1) + k BY <1>1
    <3> QED BY <1>1, <3>3, <3>4, <3>5 DEF AllTexts
  <2> HIDE DEF b
  <2>2. /\ b \in Seq(TokenTypes) /\ v \in Seq(TokenTypes) /\ Len(b) = Len(v)
        /\ \A k \in 1 .. Len(b) : b[k] = v[k]
    BY <1>1, <2>1, Zenon DEF AllTexts, n
  <2> QED BY <2>2, SameSequence, Zenon
<1> QED BY <1>1, <1>2, <1>3 DEF w, m, b

-----------------------------------------------------------------------------
(* No operator of a text is outside of its brackets, but maybe a sign. *)
Unsplit(w) == Closed(w) /\ Sums(w) = {} /\ Products(w) = {}

(* A name or a number. *)
LEMMA TokenText ==
  ASSUME NEW a \in {"IDENTIFIER", "LITERAL"}
  PROVE  Unsplit(<<a>>) /\ ~Signed(<<a>>)
<1>1. a \in TokenTypes /\ a \notin {"L_BRACKET", "R_BRACKET"} /\ a \in Enders
  BY DEF TokenTypes, Enders
<1>2. <<a>> \in AllTexts /\ Level(<<a>>)
  BY <1>1, LevelToken
<1>3. Len(<<a>>) = 1 /\ <<a>>[1] = a /\ <<a>> # <<>>
  OBVIOUS
<1> DEFINE w == <<a>>
<1> HIDE DEF w
<1>4. \A operators : Outside(w, operators) = {}
  BY <1>3 DEF Outside, w
<1>5. ~Signed(w)
  BY <1>3 DEF Signed, w
<1>6. Closed(w)
  BY <1>1, <1>2, <1>3 DEF Closed, w
<1> QED BY <1>4, <1>5, <1>6 DEF w, Unsplit, Sums, Products

(* A sign before a text. *)
LEMMA SignedText ==
  ASSUME NEW s \in Additive, NEW p, Unsplit(p)
  PROVE  LET w == <<s>> \o p
         IN  Unsplit(w) /\ Signed(w) /\ w[1] = s /\ Tail(w) = p
<1> DEFINE a == <<s>>
           w == a \o p
           n == Len(p)
<1>1. s \in TokenTypes /\ s \notin {"L_BRACKET", "R_BRACKET"} /\ s \notin Enders
      /\ s \in {"PLUS_OP", "MINUS_OP"}
  BY DEF Additive, TokenTypes, Enders
<1>2. /\ p \in AllTexts /\ Level(p) /\ n \in Nat /\ n > 0 /\ p[n] \in Enders
  BY DEF Unsplit, Closed, AllTexts
<1>3. /\ a \in AllTexts /\ Level(a) /\ Len(a) = 1 /\ a[1] = s
  BY <1>1, LevelToken
<1> HIDE DEF a
<1>4. w \in AllTexts /\ Level(w)
  BY <1>2, <1>3, LevelJoined
<1>5. /\ Len(w) = Len(a) + Len(p)
      /\ \A k \in 1 .. Len(a) : w[k] = a[k]
      /\ \A k \in 1 .. Len(p) : w[Len(a) + k] = p[k]
  BY <1>2, <1>3, JoinedTexts, Zenon
<1>6. /\ Outside(w, Additive) \subseteq 1 .. Len(a) + Len(p)
      /\ Shut(a, Len(a)) = Opened(a, Len(a))
  <2>1. Shut(a, Len(a)) = Opened(a, Len(a)) BY <1>3 DEF Level
  <2> QED BY <1>2, <1>3, <2>1, OutsideJoined
<1>7. ASSUME NEW operators, Outside(p, operators) = {}
      PROVE  Outside(w, operators) = {}
  <2>1. /\ Outside(w, operators) \subseteq 1 .. Len(a) + Len(p)
        /\ \A i \in 1 .. Len(a) : i \in Outside(w, operators) <=> i \in Outside(a, operators)
        /\ \A j \in 2 .. Len(p) : Len(a) + j \in Outside(w, operators) <=> j \in Outside(p, operators)
    BY <1>2, <1>3, <1>6, OutsideJoined
  <2>2. Len(a) > 0 /\ Len(p) > 0 =>
           (Len(a) + 1 \in Outside(w, operators) <=>
               /\ p[1] \in operators /\ a[Len(a)] \in Enders
               /\ Shut(p, 1) = Opened(p, 1))
    BY <1>2, <1>3, <1>6, OutsideJoined
  <2>3. Outside(a, operators) = {} BY <1>3 DEF Outside
  <2> HIDE DEF w, n
  <2>4. 1 \notin Outside(w, operators) /\ 2 \notin Outside(w, operators)
    BY <1>1, <1>2, <1>3, <2>1, <2>2, <2>3 DEF n
  <2>5. ASSUME NEW i \in Outside(w, operators) PROVE FALSE
    <3>1. i \in 1 .. 1 + n BY <1>3, <2>1 DEF n
    <3>2. i # 1 /\ i # 2 BY <2>4
    <3>3. i - 1 \in 2 .. n /\ 1 + (i - 1) = i BY <1>2, <3>1, <3>2
    <3>4. i - 1 \in Outside(p, operators) BY <1>3, <2>1, <3>3 DEF n
    <3> QED BY <1>7, <3>4
  <2> QED BY <2>5
<1> HIDE DEF w
<1>8. Len(w) = 1 + n /\ w[1] = s /\ \A k \in 1 .. n : w[1 + k] = p[k]
  BY <1>3, <1>5
<1>9. Closed(w)
  <2>1. w # <<>> BY <1>2, <1>8
  <2>2. w[Len(w)] = p[n] BY <1>2, <1>8
  <2> QED BY <1>2, <1>4, <2>1, <2>2 DEF Closed
<1>10. Tail(w) = p
  <2>1. w \in Seq(TokenTypes) /\ p \in Seq(TokenTypes) /\ w # <<>>
    BY <1>2, <1>4, <1>8 DEF AllTexts
  <2>2. Tail(w) \in Seq(TokenTypes) /\ Len(Tail(w)) = Len(w) - 1
        /\ \A k \in 1 .. Len(w) - 1 : Tail(w)[k] = w[k + 1]
    BY <2>1
  <2>3. Len(Tail(w)) = Len(p) BY <1>2, <1>8, <2>2
  <2>4. \A k \in 1 .. Len(Tail(w)) : Tail(w)[k] = p[k]
    <3>1. \A k \in 1 .. n : k + 1 = 1 + k BY <1>2
    <3> QED BY <1>2, <1>8, <2>2, <3>1
  <2> QED BY <2>1, <2>2, <2>3, <2>4, SameSequence
<1>11. Signed(w)
  BY <1>1, <1>2, <1>8 DEF Signed
<1> QED BY <1>7, <1>8, <1>9, <1>10, <1>11 DEF Unsplit, Sums, Products, w, a

(* A text in brackets. *)
Bracketed(v) == (<<"L_BRACKET">> \o v) \o <<"R_BRACKET">>

(* Brackets hide the operators of a text, and without them it is there     *)
(* again.                                                                  *)
LEMMA BracketedText ==
  ASSUME NEW v, Closed(v)
  PROVE  LET w == Bracketed(v)
         IN  /\ Unsplit(w) /\ ~Signed(w) /\ Len(w) > 2
             /\ SubSeq(w, 2, Len(w) - 1) = v
<1> DEFINE a == <<"L_BRACKET">>
           b == <<"R_BRACKET">>
           x == a \o v
           w == x \o b
           n == Len(v)
           c == SubSeq(w, 2, Len(w) - 1)
<1>1. v \in AllTexts /\ Level(v) /\ n \in Nat /\ n > 0
  BY DEF Closed, AllTexts
<1>2. /\ w \in AllTexts /\ Level(w)
      /\ \A i \in 1 .. n + 1 : Shut(w, i) < Opened(w, i)
  BY <1>1, LevelBracketed
<1>3. /\ Len(a) = 1 /\ a[1] = "L_BRACKET" /\ Len(b) = 1 /\ b[1] = "R_BRACKET"
      /\ a \in AllTexts /\ b \in AllTexts
  BY DEF AllTexts, TokenTypes
<1> HIDE DEF a, b
<1>4. /\ x \in AllTexts /\ Len(x) = Len(a) + n
      /\ \A k \in 1 .. Len(a) : x[k] = a[k]
      /\ \A k \in 1 .. n : x[Len(a) + k] = v[k]
  BY <1>1, <1>3, JoinedTexts, Zenon
<1> HIDE DEF x, n
<1>5. /\ Len(w) = Len(x) + Len(b)
      /\ \A k \in 1 .. Len(x) : w[k] = x[k]
      /\ \A k \in 1 .. Len(b) : w[Len(x) + k] = b[k]
  BY <1>3, <1>4, JoinedTexts, Zenon
<1> HIDE DEF w
<1>6. /\ Len(w) = n + 2 /\ w[1] = "L_BRACKET" /\ w[n + 2] = "R_BRACKET"
      /\ \A k \in 1 .. n : w[1 + k] = v[k]
  <2>1. Len(x) = n + 1 /\ Len(w) = (n + 1) + 1 /\ (n + 1) + 1 = n + 2
    BY <1>1, <1>3, <1>4, <1>5
  <2>2. w[1] = x[1] /\ x[1] = "L_BRACKET" BY <1>1, <1>3, <1>4, <1>5, <2>1
  <2>3. w[(n + 1) + 1] = b[1] BY <1>3, <1>5, <2>1
  <2>4. ASSUME NEW k \in 1 .. n PROVE w[1 + k] = v[k]
    <3>1. 1 + k \in 1 .. Len(x) BY <1>1, <2>1
    <3> QED BY <1>3, <1>4, <1>5, <3>1
  <2> QED BY <1>3, <2>1, <2>2, <2>3, <2>4
<1>7. Closed(w)
  BY <1>1, <1>2, <1>6 DEF Closed, Enders
<1>8. ASSUME NEW operators, operators \subseteq Operators PROVE Outside(w, operators) = {}
  <2>1. ASSUME NEW i \in Outside(w, operators) PROVE FALSE
    <3>1. i \in 2 .. n + 2 /\ w[i] \in operators /\ Shut(w, i) = Opened(w, i)
      BY <1>6 DEF Outside, Shut, Opened
    <3>2. i # n + 2
      <4>1. "R_BRACKET" \notin Operators BY DEF Operators, Additive, Multiplicative
      <4> QED BY <1>6, <1>8, <3>1, <4>1
    <3>3. i \in 1 .. n + 1 BY <1>1, <3>1, <3>2
    <3>4. Shut(w, i) \in Nat /\ Shut(w, i) < Opened(w, i)
      <4>1. i \in Nat BY <3>3
      <4> QED BY <1>2, <3>3, <4>1, CountStep DEF Shut
    <3> QED BY <3>1, <3>4
  <2> QED BY <2>1
<1>9. Sums(w) = {} /\ Products(w) = {}
  <2>1. {"PLUS_OP", "MINUS_OP"} \subseteq Operators /\ {"MULT_OP", "DIV_OP"} \subseteq Operators
    BY DEF Operators, Additive, Multiplicative
  <2> QED BY <1>8, <2>1 DEF Sums, Products
<1>10. ~Signed(w)
  BY <1>6 DEF Signed
<1>11. c = v
  <2>1. \A k \in 2 .. Len(w) - 1 : w[k] \in TokenTypes BY <1>1, <1>2, <1>6 DEF AllTexts
  <2>2. 2 \in Int /\ Len(w) - 1 \in Int BY <1>1, <1>6
  <2>3. /\ c \in Seq(TokenTypes)
        /\ Len(c) = IF 2 =< Len(w) - 1 THEN Len(w) - 1 - 2 + 1 ELSE 0
        /\ \A k \in 1 .. Len(w) - 1 - 2 + 1 : c[k] = w[2 + k - 1]
    BY <2>1, <2>2, SubSeqProperties
  <2>4. Len(w) - 1 - 2 + 1 = n /\ 2 =< Len(w) - 1 BY <1>1, <1>6
  <2>5. \A k \in 1 .. n : 2 + k - 1 = 1 + k BY <1>1
  <2> HIDE DEF c
  <2>6. Len(c) = Len(v) /\ \A k \in 1 .. Len(c) : c[k] = v[k]
    BY <1>6, <2>3, <2>4, <2>5 DEF n
  <2> QED BY <1>1, <2>3, <2>6, SameSequence DEF AllTexts
<1>12. Len(w) > 2 BY <1>1, <1>6
<1> HIDE DEF c
<1>13. w = Bracketed(v) BY DEF w, x, a, b, Bracketed
<1> QED BY <1>7, <1>9, <1>10, <1>11, <1>12, <1>13 DEF Unsplit, c
-----------------------------------------------------------------------------
(* The texts of nodes. *)

(* The tokens of up to three children, one after the other. *)
LEMMA JoinedIs ==
  ASSUME NEW g, NEW s, Len(s) \in 1 .. 3
  PROVE  LET f == JoinedBy(g, s)
         IN  /\ f[1] = <<>> \o g[s[1]]
             /\ Len(s) > 1 => f[2] = f[1] \o g[s[2]]
             /\ Len(s) > 2 => f[3] = f[2] \o g[s[3]]
<1> DEFINE n == Len(s)
           y(i) == g[s[i]]
           Then(a, b) == a \o b
           F(f) == [i \in 0 .. n |-> IF i = 0 THEN <<>> ELSE Then(f[i - 1], y(i))]
           one == Then(<<>>, y(1))
           two == Then(one, y(2))
           three == Then(two, y(3))
           w == [i \in 0 .. n |-> IF i = 0 THEN <<>> ELSE IF i = 1 THEN one
                                  ELSE IF i = 2 THEN two ELSE three]
           Fixed(f) == f = F(f)
           c == CHOOSE f : Fixed(f)
<1>1. JoinedBy(g, s) = c
  BY DEF JoinedBy
<1>2. n \in 1 .. 3
  OBVIOUS
<1> HIDE DEF Then, y, n
<1>3. Fixed(w)
  <2>1. ASSUME NEW i \in 0 .. n PROVE w[i] = F(w)[i]
    <3>1. i = 0 \/ i = 1 \/ i = 2 \/ i = 3 BY <1>2
    <3>2. /\ w[0] = <<>> /\ w[1] = one
          /\ n > 1 => w[2] = two
          /\ n > 2 => w[3] = three
      <4> HIDE DEF one, two, three
      <4> QED BY <1>2
    <3> HIDE DEF w
    <3>3. /\ F(w)[0] = <<>> /\ F(w)[1] = Then(w[0], y(1))
          /\ n > 1 => F(w)[2] = Then(w[1], y(2))
          /\ n > 2 => F(w)[3] = Then(w[2], y(3))
      BY <1>2
    <3> HIDE DEF F
    <3> QED BY <1>2, <3>1, <3>2, <3>3
  <2>2. /\ w = [i \in 0 .. n |-> w[i]] /\ F(w) = [i \in 0 .. n |-> F(w)[i]]
    OBVIOUS
  <2>3. w = F(w)
    <3> HIDE DEF w, F
    <3> QED BY <2>1, <2>2
  <2> QED BY <2>3
<1>4. c = F(c)
  <2> HIDE DEF w, Fixed
  <2>1. Fixed(c) BY <1>3
  <2> HIDE DEF c, F
  <2> QED BY <2>1 DEF Fixed
<1> HIDE DEF c
<1>5. /\ F(c)[0] = <<>>
      /\ F(c)[1] = Then(c[0], y(1))
      /\ n > 1 => F(c)[2] = Then(c[1], y(2))
      /\ n > 2 => F(c)[3] = Then(c[2], y(3))
  BY <1>2
<1> HIDE DEF F
<1>6. /\ c[1] = Then(<<>>, y(1))
      /\ n > 1 => c[2] = Then(c[1], y(2))
      /\ n > 2 => c[3] = Then(c[2], y(3))
  BY <1>4, <1>5
<1> QED BY <1>1, <1>6, Zenon DEF Then, y, n

(* The empty text in front of a text changes nothing.                      *)
LEMMA EmptyInFront == \A y \in AllTexts : <<>> \o y = y
BY DEF AllTexts

(* The texts of nodes with few children, as the parser makes them.         *)
LEMMA YieldOf ==
  ASSUME NEW x \in ParseTrees
  PROVE  LET Y(i) == Yield[x.children[i]]
             n == Len(x.children)
         IN  /\ x.children = <<>> => Yield[x] = <<x.type>>
             /\ n = 1 /\ Y(1) \in AllTexts => Yield[x] = Y(1)
             /\ n = 2 /\ Y(1) \in AllTexts => Yield[x] = Y(1) \o Y(2)
             /\ n = 3 /\ Y(1) \in AllTexts => Yield[x] = (Y(1) \o Y(2)) \o Y(3)
<1> DEFINE s == x.children
           n == Len(s)
           f == JoinedBy(Yield, s)
           Y(i) == Yield[s[i]]
           Then(a, b) == a \o b
<1>1. Yield[x] = IF s = <<>> THEN <<x.type>> ELSE f[n]
  BY YieldDefined DEF YieldBy
<1>2. n \in 1 .. 3 =>
         /\ f[1] = Then(<<>>, Y(1))
         /\ n > 1 => f[2] = Then(f[1], Y(2))
         /\ n > 2 => f[3] = Then(f[2], Y(3))
  BY JoinedIs, Zenon
<1>3. n \in 1 .. 3 => s # <<>>
  OBVIOUS
<1>4. \A y \in AllTexts : Then(<<>>, y) = y
  BY EmptyInFront
<1> HIDE DEF s, f, n, Y, Then
<1>5. /\ n = 1 /\ Y(1) \in AllTexts => Yield[x] = Y(1)
      /\ n = 2 /\ Y(1) \in AllTexts => Yield[x] = Then(Y(1), Y(2))
      /\ n = 3 /\ Y(1) \in AllTexts => Yield[x] = Then(Then(Y(1), Y(2)), Y(3))
  BY <1>1, <1>2, <1>3, <1>4
<1> QED BY <1>1, <1>5, Zenon DEF s, n, Y, Then
-----------------------------------------------------------------------------
(* The meanings of the shapes of texts. *)

(* The cases of Meaning: the first sum, else the first product, else a     *)
(* sign, else the operand.                                                 *)
LEMMA MeaningIs ==
  ASSUME NEW w \in AllTexts
  PROVE  /\ Sums(w) # {} => Meaning[w] = SplitBy(Meaning, w, Min(Sums(w)))
         /\ Sums(w) = {} /\ Products(w) # {} =>
               Meaning[w] = SplitBy(Meaning, w, Min(Products(w)))
         /\ Sums(w) = {} /\ Products(w) = {} /\ Signed(w) =>
               Meaning[w] = Unary(Operation[w[1]], OperandBy(Meaning, Tail(w)))
         /\ Sums(w) = {} /\ Products(w) = {} /\ ~Signed(w) =>
               Meaning[w] = Unary("PLUS", OperandBy(Meaning, w))
<1> DEFINE g == Meaning
<1>1. Meaning[w] = MeaningBy(g, w)
  BY MeaningDefined
<1> HIDE DEF g
<1>2. CASE Sums(w) # {} BY <1>1, <1>2 DEF MeaningBy, g
<1>3. CASE Sums(w) = {} /\ Products(w) # {} BY <1>1, <1>3 DEF MeaningBy, g
<1>4. CASE Sums(w) = {} /\ Products(w) = {} /\ Signed(w) BY <1>1, <1>4 DEF MeaningBy, g
<1>5. CASE Sums(w) = {} /\ Products(w) = {} /\ ~Signed(w) BY <1>1, <1>5 DEF MeaningBy, g
<1> QED BY <1>2, <1>3, <1>4, <1>5

(* A text is split at the operator if there is none of its kind, or of     *)
(* those that bind less, before it.                                        *)
LEMMA MeaningOfInfix ==
  ASSUME NEW u, Closed(u), NEW v, Closed(v), NEW op \in Operators, Sums(u) = {},
         op \in Multiplicative => Products(u) = {} /\ Sums(v) = {}
  PROVE  LET w == Infix(u, op, v)
         IN  /\ Closed(w)
             /\ op \in Multiplicative => Sums(w) = {}
             /\ Meaning[w] = Binary(Meaning[u], Operation[op], Meaning[v])
<1> DEFINE w == Infix(u, op, v)
           i == Len(u) + 1
           plus == {"PLUS_OP", "MINUS_OP"}
           times == {"MULT_OP", "DIV_OP"}
<1>1. /\ op \in TokenTypes
      /\ op \in plus <=> op \in Additive
      /\ op \in times <=> op \in Multiplicative
      /\ op \in plus \/ op \in times
      /\ ~(op \in plus /\ op \in times)
  BY DEF Operators, Additive, Multiplicative, TokenTypes
<1>2. u \in AllTexts /\ v \in AllTexts
  BY DEF Closed
<1>3. /\ w \in AllTexts /\ w[i] = op
      /\ SubSeq(w, 1, i - 1) = u /\ SubSeq(w, i + 1, Len(w)) = v
  BY <1>1, <1>2, InfixSides
<1>4. Closed(w)
  BY InfixText
<1>5. \A operators :
         /\ op \in operators /\ Outside(u, operators) = {} =>
               /\ Outside(w, operators) # {}
               /\ Min(Outside(w, operators)) = i
         /\ op \notin operators /\ Outside(u, operators) = {}
               /\ Outside(v, operators) = {} => Outside(w, operators) = {}
  BY InfixText
<1> HIDE DEF w, i, plus, times
<1>6. \A x : Sums(x) = Outside(x, plus) /\ Products(x) = Outside(x, times)
  BY DEF Sums, Products, plus, times
<1>7. SplitBy(Meaning, w, i) = Binary(Meaning[u], Operation[op], Meaning[v])
  BY <1>3 DEF SplitBy
<1>8. CASE op \in plus
  <2>1. Sums(w) # {} /\ Min(Sums(w)) = i BY <1>5, <1>6, <1>8
  <2>2. Meaning[w] = SplitBy(Meaning, w, i) BY <1>3, <2>1, MeaningIs
  <2> QED BY <1>1, <1>4, <1>7, <1>8, <2>2 DEF w
<1>9. CASE op \in times
  <2>1. Products(w) # {} /\ Min(Products(w)) = i BY <1>1, <1>5, <1>6, <1>9
  <2>2. Sums(w) = {} BY <1>1, <1>5, <1>6, <1>9
  <2>3. Meaning[w] = SplitBy(Meaning, w, i) BY <1>3, <2>1, <2>2, MeaningIs
  <2> QED BY <1>1, <1>4, <1>7, <1>9, <2>2, <2>3 DEF w
<1> QED BY <1>1, <1>8, <1>9

(* Names, numbers and texts in brackets as operands. *)
LEMMA OperandIs ==
  /\ OperandBy(Meaning, <<"IDENTIFIER">>) = Identifier("IDENTIFIER")
  /\ OperandBy(Meaning, <<"LITERAL">>) = Literal("LITERAL")
  /\ \A v : Closed(v) => OperandBy(Meaning, Bracketed(v)) = Meaning[v]
<1>1. <<"IDENTIFIER">> # <<"LITERAL">> /\ Len(<<"IDENTIFIER">>) = 1 /\ Len(<<"LITERAL">>) = 1
  OBVIOUS
<1> DEFINE name == <<"IDENTIFIER">>
           number == <<"LITERAL">>
           g == Meaning
<1> HIDE DEF name, number, g
<1>2. OperandBy(g, name) = Identifier("IDENTIFIER") /\ OperandBy(g, number) = Literal("LITERAL")
  BY <1>1 DEF OperandBy, name, number
<1>3. ASSUME NEW v, Closed(v) PROVE OperandBy(g, Bracketed(v)) = g[v]
  <2> DEFINE w == Bracketed(v)
  <2>1. Len(w) > 2 /\ SubSeq(w, 2, Len(w) - 1) = v
    BY <1>3, BracketedText
  <2> HIDE DEF w
  <2>2. w # name /\ w # number BY <1>1, <2>1 DEF name, number
  <2>3. OperandBy(g, w) = g[SubSeq(w, 2, Len(w) - 1)]
    BY <2>1, <2>2 DEF OperandBy, name, number
  <2> QED BY <2>1, <2>3 DEF w
<1> QED BY <1>2, <1>3, Zenon DEF name, number, g

-----------------------------------------------------------------------------
(* The children of the nodes of each type. *)

(* What is known of a child from the part it was. *)
Becomes(child, part) ==
    /\ part.kind \in {"terminal", "node"}
    /\ \A x : part = Node(x) => child.type = x
    /\ \A x : part = Terminal(x) => child = Leaf(x)

(* Parts of other kinds never become children.                             *)
LEMMA BecomesIs ==
  ASSUME NEW child, NEW x, NEW F
  PROVE  /\ Becomes(child, Node(x)) => child.type = x
         /\ Becomes(child, Terminal(x)) => child = Leaf(x)
         /\ ~Becomes(child, Sign) /\ ~Becomes(child, Nullptr)
         /\ ~Becomes(child, OperatorTail(F, x))
<1>1. /\ Sign.kind = "sign" /\ Nullptr.kind = "nullptr"
      /\ OperatorTail(F, x).kind = "tail"
  BY PartFields
<1>2. ~Becomes(child, Sign) /\ ~Becomes(child, Nullptr) /\ ~Becomes(child, OperatorTail(F, x))
  <2> DEFINE a == Sign
             b == Nullptr
             c == OperatorTail(F, x)
  <2> HIDE DEF a, b, c
  <2>1. a.kind = "sign" /\ b.kind = "nullptr" /\ c.kind = "tail" BY <1>1 DEF a, b, c
  <2>2. ~Becomes(child, a) /\ ~Becomes(child, b) /\ ~Becomes(child, c)
    BY <2>1 DEF Becomes
  <2> QED BY <2>2 DEF a, b, c
<1>3. Becomes(child, Node(x)) => child.type = x
  BY DEF Becomes
<1>4. Becomes(child, Terminal(x)) => child = Leaf(x)
  BY DEF Becomes
<1> QED BY <1>2, <1>3, <1>4

(* The children of a node whose form is known. *)
LEMMA KidsOf ==
  ASSUME NEW children, FittingChildren(children), NEW a, NEW b, NEW c
  PROVE  /\ Kids(children) = <<a>> => Len(children) = 1 /\ Becomes(children[1], a)
         /\ Kids(children) = <<a, b>> =>
               /\ Len(children) = 2
               /\ Becomes(children[1], a) /\ Becomes(children[2], b)
         /\ Kids(children) = <<a, b, c>> =>
               /\ Len(children) = 3
               /\ Becomes(children[1], a) /\ Becomes(children[2], b)
               /\ Becomes(children[3], c)
<1> DEFINE u == Kids(children)
           n == Len(children)
<1>1. Len(u) = n /\ n \in Nat
  BY KidsAre
<1>2. \A k \in 1 .. n : Becomes(children[k], u[k])
  BY KidTypes DEF Becomes
<1> HIDE DEF u
<1>3. u = <<a>> => Len(u) = 1 /\ u[1] = a
  OBVIOUS
<1>4. u = <<a, b>> => Len(u) = 2 /\ u[1] = a /\ u[2] = b
  OBVIOUS
<1>5. u = <<a, b, c>> => Len(u) = 3 /\ u[1] = a /\ u[2] = b /\ u[3] = c
  OBVIOUS
<1> HIDE DEF n
<1>6. /\ Len(u) = 1 => Len(children) = 1 /\ Becomes(children[1], u[1])
      /\ Len(u) = 2 => /\ Len(children) = 2
                       /\ Becomes(children[1], u[1]) /\ Becomes(children[2], u[2])
      /\ Len(u) = 3 => /\ Len(children) = 3
                       /\ Becomes(children[1], u[1]) /\ Becomes(children[2], u[2])
                       /\ Becomes(children[3], u[3])
  BY <1>1, <1>2 DEF n
<1> QED BY <1>3, <1>4, <1>5, <1>6, Zenon DEF u

(* An operand, maybe with an operator and the whole again. *)
OperationShape(children, operand, operators, node) ==
    \/ Len(children) = 1 /\ children[1].type = operand
    \/ /\ Len(children) = 3 /\ children[1].type = operand
       /\ \E t \in operators : children[2] = Leaf(t)
       /\ children[3].type = node

(* A completed operation has one operand, or two with the operator         *)
(* between.                                                                *)
LEMMA OperationKids ==
  ASSUME NEW children, FittingChildren(children), NEW operand, NEW operators, NEW node,
         Kids(children) \in OperationForms(operand, operators, node)
  PROVE  OperationShape(children, operand, operators, node)
<1> DEFINE u == Kids(children)
           p == Node(operand)
           q == Node(node)
           r == OperatorTail(operators, node)
<1>1. u = <<p>> \/ u = <<p, r>> \/ \E t \in operators : u = <<p, Terminal(t), q>>
  BY DEF OperationForms
<1> HIDE DEF u, p, q, r
<1>2. CASE u = <<p>>
  <2>1. Len(children) = 1 /\ Becomes(children[1], p) BY <1>2, KidsOf DEF u
  <2>2. children[1].type = operand BY <2>1, BecomesIs DEF p
  <2> QED BY <2>1, <2>2 DEF OperationShape
<1>3. CASE u = <<p, r>>
  <2>1. Becomes(children[2], r) BY <1>3, KidsOf DEF u
  <2> QED BY <2>1, BecomesIs DEF r
<1>4. CASE \E t \in operators : u = <<p, Terminal(t), q>>
  <2>1. PICK t \in operators : u = <<p, Terminal(t), q>> BY <1>4
  <2>2. /\ Len(children) = 3 /\ Becomes(children[1], p)
        /\ Becomes(children[2], Terminal(t)) /\ Becomes(children[3], q)
    BY <2>1, KidsOf DEF u
  <2>3. children[1].type = operand BY <2>2, BecomesIs DEF p
  <2>4. children[2] = Leaf(t) BY <2>2, BecomesIs
  <2>5. children[3].type = node BY <2>2, BecomesIs DEF q
  <2> QED BY <2>2, <2>3, <2>4, <2>5 DEF OperationShape
<1> QED BY <1>1, <1>2, <1>3, <1>4

(* The children of a node of each type. *)
Shape(node, children) ==
    LET n == Len(children)
        Type(k) == children[k].type
    IN  /\ node = "identifier" => n = 1 /\ children[1] = Leaf("IDENTIFIER")
        /\ node = "literal" => n = 1 /\ children[1] = Leaf("LITERAL")
        /\ node = "primary_expression" =>
              \/ n = 1 /\ Type(1) \in {"identifier", "literal"}
              \/ /\ n = 3 /\ children[1] = Leaf("L_BRACKET")
                 /\ Type(2) = "additive_expression" /\ children[3] = Leaf("R_BRACKET")
        /\ node = "unary_expression" =>
              \/ n = 1 /\ Type(1) = "primary_expression"
              \/ /\ n = 2 /\ \E t \in Additive : children[1] = Leaf(t)
                 /\ Type(2) = "primary_expression"
        /\ node = "multiplicative_expression" =>
              OperationShape(children, "unary_expression", Multiplicative, node)
        /\ node = "additive_expression" =>
              OperationShape(children, "multiplicative_expression", Additive, node)
        /\ node = "assignment_expression" =>
              /\ n = 3 /\ Type(1) = "identifier"
              /\ children[2] = Leaf("VAR_ASSIGNMENT_OP")
              /\ Type(3) = "additive_expression"
        /\ node = "statement" =>
              \/ n = 1 /\ Type(1) = "assignment_expression"
              \/ /\ n = 2 /\ children[1] = Leaf("RETURN")
                 /\ Type(2) = "additive_expression"
        /\ node = "statement_list" =>
              \E m \in Nat : /\ n = 2 * m + 1
                             /\ \A j \in 0 .. m : Type(2 * j + 1) = "statement"
        /\ node = "compound_statement" => n = 3 /\ Type(2) = "statement_list"

(* A node the parser completes has the children one of its forms asks for. *)
LEMMA CompletedShape ==
  ASSUME NEW node \in Nodes, NEW children, FittingChildren(children),
         FormFits(node, Kids(children))
  PROVE  Shape(node, children)
<1> DEFINE u == Kids(children)
           n == Len(children)
           Type(k) == children[k].type
<1>1. node # "function_definition"
  BY NamesApart
<1>2. node \notin DOMAIN Lists => u \in Forms(node)
  BY <1>1 DEF FormFits
<1>3. DOMAIN Lists = {"declarator_list", "init_declarator_list", "statement_list"}
  BY Names
<1> HIDE DEF u
<1>4. ASSUME node = "identifier" PROVE n = 1 /\ children[1] = Leaf("IDENTIFIER")
  <2>1. u = <<Terminal("IDENTIFIER")>> BY <1>2, <1>3, <1>4 DEF Forms
  <2>2. n = 1 /\ Becomes(children[1], Terminal("IDENTIFIER")) BY <2>1, KidsOf DEF u
  <2> QED BY <2>2, BecomesIs
<1>5. ASSUME node = "literal" PROVE n = 1 /\ children[1] = Leaf("LITERAL")
  <2>1. u = <<Terminal("LITERAL")>> BY <1>2, <1>3, <1>5 DEF Forms
  <2>2. n = 1 /\ Becomes(children[1], Terminal("LITERAL")) BY <2>1, KidsOf DEF u
  <2> QED BY <2>2, BecomesIs
<1>6. ASSUME node = "primary_expression"
      PROVE  \/ n = 1 /\ Type(1) \in {"identifier", "literal"}
             \/ /\ n = 3 /\ children[1] = Leaf("L_BRACKET")
                /\ Type(2) = "additive_expression" /\ children[3] = Leaf("R_BRACKET")
  <2> DEFINE a == Terminal("L_BRACKET")
             b == Node("additive_expression")
             c == Terminal("R_BRACKET")
             d == Nullptr
             e == Node("identifier")
             f == Node("literal")
  <2>1. u = <<e>> \/ u = <<f>> \/ u = <<d>> \/ u = <<a, b, c>>
    BY <1>2, <1>3, <1>6 DEF Forms
  <2> HIDE DEF a, b, c, d, e, f, n
  <2>2. CASE u = <<e>>
    <3>1. n = 1 /\ Becomes(children[1], e) BY <2>2, KidsOf DEF u, n
    <3> QED BY <3>1, BecomesIs DEF e
  <2>3. CASE u = <<f>>
    <3>1. n = 1 /\ Becomes(children[1], f) BY <2>3, KidsOf DEF u, n
    <3> QED BY <3>1, BecomesIs DEF f
  <2>4. CASE u = <<d>>
    <3>1. Becomes(children[1], d) BY <2>4, KidsOf DEF u
    <3> QED BY <3>1, BecomesIs DEF d
  <2>5. CASE u = <<a, b, c>>
    <3>1. n = 3 /\ Becomes(children[1], a) /\ Becomes(children[2], b) /\ Becomes(children[3], c)
      BY <2>5, KidsOf DEF u, n
    <3>2. children[1] = Leaf("L_BRACKET") BY <3>1, BecomesIs DEF a
    <3>3. Type(2) = "additive_expression" BY <3>1, BecomesIs DEF b
    <3>4. children[3] = Leaf("R_BRACKET") BY <3>1, BecomesIs DEF c
    <3> QED BY <3>1, <3>2, <3>3, <3>4
  <2> QED BY <2>1, <2>2, <2>3, <2>4, <2>5
<1>7. ASSUME node = "unary_expression"
      PROVE  \/ n = 1 /\ Type(1) = "primary_expression"
             \/ /\ n = 2 /\ \E t \in Additive : children[1] = Leaf(t)
                /\ Type(2) = "primary_expression"
  <2> DEFINE a == Sign
             b == Node("primary_expression")
  <2>1. u = <<a, b>> \/ u = <<b>> \/ \E t \in Additive : u = <<Terminal(t), b>>
    BY <1>2, <1>3, <1>7 DEF Forms
  <2> HIDE DEF a, b, n
  <2>2. CASE u = <<a, b>>
    <3>1. Becomes(children[1], a) BY <2>2, KidsOf DEF u
    <3> QED BY <3>1, BecomesIs DEF a
  <2>3. CASE u = <<b>>
    <3>1. n = 1 /\ Becomes(children[1], b) BY <2>3, KidsOf DEF u, n
    <3> QED BY <3>1, BecomesIs DEF b
  <2>4. CASE \E t \in Additive : u = <<Terminal(t), b>>
    <3>1. PICK t \in Additive : u = <<Terminal(t), b>> BY <2>4
    <3>2. n = 2 /\ Becomes(children[1], Terminal(t)) /\ Becomes(children[2], b)
      BY <3>1, KidsOf DEF u, n
    <3>3. children[1] = Leaf(t) BY <3>2, BecomesIs
    <3>4. Type(2) = "primary_expression" BY <3>2, BecomesIs DEF b
    <3> QED BY <3>2, <3>3, <3>4
  <2> QED BY <2>1, <2>2, <2>3, <2>4
<1>8. ASSUME node = "multiplicative_expression"
      PROVE  OperationShape(children, "unary_expression", Multiplicative, node)
  <2>1. u \in OperationForms("unary_expression", Multiplicative, node)
    BY <1>2, <1>3, <1>8 DEF Forms
  <2> QED BY <2>1, OperationKids DEF u
<1>9. ASSUME node = "additive_expression"
      PROVE  OperationShape(children, "multiplicative_expression", Additive, node)
  <2>1. u \in OperationForms("multiplicative_expression", Additive, node)
    BY <1>2, <1>3, <1>9 DEF Forms
  <2> QED BY <2>1, OperationKids DEF u
<1>10. ASSUME node = "assignment_expression"
       PROVE  /\ n = 3 /\ Type(1) = "identifier"
              /\ children[2] = Leaf("VAR_ASSIGNMENT_OP")
              /\ Type(3) = "additive_expression"
  <2> DEFINE a == Node("identifier")
             b == Terminal("VAR_ASSIGNMENT_OP")
             c == Node("additive_expression")
  <2>1. u = <<a, b, c>> BY <1>2, <1>3, <1>10 DEF Forms
  <2> HIDE DEF a, b, c, n
  <2>2. n = 3 /\ Becomes(children[1], a) /\ Becomes(children[2], b) /\ Becomes(children[3], c)
    BY <2>1, KidsOf DEF u, n
  <2>3. Type(1) = "identifier" BY <2>2, BecomesIs DEF a
  <2>4. children[2] = Leaf("VAR_ASSIGNMENT_OP") BY <2>2, BecomesIs DEF b
  <2>5. Type(3) = "additive_expression" BY <2>2, BecomesIs DEF c
  <2> QED BY <2>2, <2>3, <2>4, <2>5
<1>11. ASSUME node = "statement"
       PROVE  \/ n = 1 /\ Type(1) = "assignment_expression"
              \/ /\ n = 2 /\ children[1] = Leaf("RETURN")
                 /\ Type(2) = "additive_expression"
  <2> DEFINE a == Terminal("RETURN")
             b == Node("additive_expression")
             c == Node("assignment_expression")
  <2>1. u = <<a, b>> \/ u = <<c>> BY <1>2, <1>3, <1>11 DEF Forms
  <2> HIDE DEF a, b, c, n
  <2>2. CASE u = <<c>>
    <3>1. n = 1 /\ Becomes(children[1], c) BY <2>2, KidsOf DEF u, n
    <3> QED BY <3>1, BecomesIs DEF c
  <2>3. CASE u = <<a, b>>
    <3>1. n = 2 /\ Becomes(children[1], a) /\ Becomes(children[2], b)
      BY <2>3, KidsOf DEF u, n
    <3>2. children[1] = Leaf("RETURN") BY <3>1, BecomesIs DEF a
    <3>3. Type(2) = "additive_expression" BY <3>1, BecomesIs DEF b
    <3> QED BY <3>1, <3>2, <3>3
  <2> QED BY <2>1, <2>2, <2>3
<1>12. ASSUME node = "statement_list"
       PROVE  \E m \in Nat : /\ n = 2 * m + 1
                             /\ \A j \in 0 .. m : Type(2 * j + 1) = "statement"
  <2>1. Lists[node] = "statement" BY <1>12 DEF Lists
  <2>2. ListForm(u, Separator[node], Lists[node])
    BY <1>1, <1>3, <1>12 DEF FormFits, u
  <2> QED BY <2>1, <2>2, ListChildren DEF u
<1>13. ASSUME node = "compound_statement" PROVE n = 3 /\ Type(2) = "statement_list"
  <2> DEFINE a == Terminal("BEGIN")
             b == Node("statement_list")
             c == Terminal("END")
  <2>1. u = <<a, b, c>> BY <1>2, <1>3, <1>13 DEF Forms
  <2> HIDE DEF a, b, c, n
  <2>2. n = 3 /\ Becomes(children[2], b) BY <2>1, KidsOf DEF u, n
  <2> QED BY <2>2, BecomesIs DEF b
<1> HIDE DEF n
<1> QED
  BY <1>4, <1>5, <1>6, <1>7, <1>8, <1>9, <1>10, <1>11, <1>12, <1>13, Zenon DEF Shape, n

-----------------------------------------------------------------------------
(* The texts of statements. *)

(* A text that begins with RETURN means a return of the rest.              *)
LEMMA ReturnText ==
  ASSUME NEW v \in AllTexts
  PROVE  StatementMeaning(<<"RETURN">> \o v) = Return(Meaning[v])
<1> DEFINE a == <<"RETURN">>
           w == a \o v
<1>1. a \in AllTexts /\ Len(a) = 1 /\ a[1] = "RETURN"
  BY DEF AllTexts, TokenTypes
<1> HIDE DEF a
<1>2. /\ w \in AllTexts /\ Len(w) = Len(a) + Len(v)
      /\ \A k \in 1 .. Len(a) : w[k] = a[k]
      /\ \A k \in 1 .. Len(v) : w[Len(a) + k] = v[k]
  BY <1>1, JoinedTexts, Zenon
<1> HIDE DEF w
<1>3. /\ Len(v) \in Nat /\ Len(w) = 1 + Len(v) /\ w[1] = "RETURN"
      /\ \A k \in 1 .. Len(v) : w[1 + k] = v[k]
  BY <1>1, <1>2 DEF AllTexts
<1>4. Tail(w) = v
  <2>1. w \in Seq(TokenTypes) /\ v \in Seq(TokenTypes) /\ w # <<>>
    BY <1>2, <1>3 DEF AllTexts
  <2>2. Tail(w) \in Seq(TokenTypes) /\ Len(Tail(w)) = Len(w) - 1
        /\ \A k \in 1 .. Len(w) - 1 : Tail(w)[k] = w[k + 1]
    BY <2>1
  <2>3. Len(Tail(w)) = Len(v) BY <1>3, <2>2
  <2>4. \A k \in 1 .. Len(Tail(w)) : Tail(w)[k] = v[k]
    <3>1. \A k \in 1 .. Len(v) : k + 1 = 1 + k BY <1>3
    <3> QED BY <1>3, <2>2, <3>1
  <2> QED BY <2>1, <2>2, <2>3, <2>4, SameSequence
<1> QED BY <1>3, <1>4 DEF StatementMeaning, w, a

Assigned(v) == Infix(<<"IDENTIFIER">>, "VAR_ASSIGNMENT_OP", v)

(* Of an assignment the expression is what stands behind the :=.           *)
LEMMA AssignedText ==
  ASSUME NEW v \in AllTexts
  PROVE  /\ Assigned(v) \in AllTexts
         /\ StatementMeaning(Assigned(v)) = Assignment("IDENTIFIER", Meaning[v])
<1> DEFINE u == <<"IDENTIFIER">>
           a == <<"VAR_ASSIGNMENT_OP">>
           op == "VAR_ASSIGNMENT_OP"
           w == Infix(u, op, v)
<1>1. /\ u \in AllTexts /\ Len(u) = 1 /\ u[1] = "IDENTIFIER" /\ a \in AllTexts
      /\ op \in TokenTypes
  BY DEF AllTexts, TokenTypes
<1> HIDE DEF u, a, op
<1>2. /\ w \in AllTexts
      /\ SubSeq(w, (Len(u) + 1) + 1, Len(w)) = v
  BY <1>1, InfixSides
<1>3. w = (u \o a) \o v
  BY DEF Infix, w, a, op
<1>4. w[1] = "IDENTIFIER"
  <2> DEFINE x == u \o a
  <2>1. /\ x \in AllTexts /\ Len(x) = Len(u) + Len(a)
        /\ \A k \in 1 .. Len(u) : x[k] = u[k]
    BY <1>1, JoinedTexts, Zenon
  <2> HIDE DEF x
  <2>2. \A k \in 1 .. Len(x) : (x \o v)[k] = x[k]
    BY <2>1, JoinedTexts, Zenon
  <2>3. Len(a) \in Nat BY <1>1 DEF AllTexts
  <2>4. x[1] = "IDENTIFIER" /\ 1 \in 1 .. Len(x) BY <1>1, <2>1, <2>3
  <2>5. (x \o v)[1] = "IDENTIFIER" BY <2>2, <2>4, Zenon
  <2> QED BY <1>3, <2>5, Zenon DEF x
<1>5. (Len(u) + 1) + 1 = 3
  BY <1>1
<1> HIDE DEF w
<1>6. SubSeq(w, 3, Len(w)) = v
  BY <1>2, <1>5
<1>7. StatementMeaning(w) = Assignment("IDENTIFIER", Meaning[v])
  BY <1>4, <1>6 DEF StatementMeaning
<1> QED BY <1>2, <1>7, Zenon DEF w, u, op, Assigned

-----------------------------------------------------------------------------
(* What a node means. *)

StatementsMean(list) ==
    \A i \in 1 .. get_number_of(list) :
        analyze_statement(get_element(list, i - 1)) =
            StatementMeaning(Yield[get_element(list, i - 1)])

(* What a node is translated to: an expression no higher than the node, or *)
(* statements with such values.                                            *)
ValueNodes == Operations \cup {"unary_expression", "primary_expression"}

StatementOver(statement, values) ==
    \E x \in values : statement \in {Return(x), Assignment("IDENTIFIER", x)}
StatementsOver(list, values) ==
    /\ get_number_of(list) \in Nat
    /\ \A i \in 1 .. get_number_of(list) :
          StatementOver(analyze_statement(get_element(list, i - 1)), values)

FitsIn(c, n) ==
    /\ c.type \in ValueNodes => analyze_expression[c] \in Expressions[n]
    /\ c.type = "assignment_expression" =>
          analyze_expression[Child(c, 2)] \in Expressions[n]
    /\ c.type = "statement" => StatementOver(analyze_statement(c), Expressions[n])
    /\ c.type = "statement_list" => StatementsOver(c, Expressions[n])
    /\ c.type = "compound_statement" =>
          \E m \in Nat : n = m + 1 /\ StatementsOver(Child(c, 1), Expressions[m])
Fits(c) == \A n \in Nat : c \in Trees[n] => FitsIn(c, n)

(* The text of a node is one of its kind, and the translation of the node  *)
(* is what that text means.                                                *)
Means(c) ==
    LET w == Yield[c]
        a == analyze_expression[c]
    IN  /\ c.type \in TokenTypes => w = <<c.type>>
        /\ c.type = "identifier" => w = <<"IDENTIFIER">>
        /\ c.type = "literal" => w = <<"LITERAL">>
        /\ c.type = "primary_expression" =>
              Unsplit(w) /\ ~Signed(w) /\ OperandBy(Meaning, w) = a
        /\ c.type = "unary_expression" => Unsplit(w) /\ Meaning[w] = a
        /\ c.type = "multiplicative_expression" =>
              Closed(w) /\ Sums(w) = {} /\ Meaning[w] = a
        /\ c.type = "additive_expression" => Closed(w) /\ Meaning[w] = a
        /\ c.type = "assignment_expression" =>
              \E v : /\ Closed(v) /\ w = Assigned(v)
                     /\ Meaning[v] = analyze_expression[Child(c, 2)]
        /\ c.type = "statement" => analyze_statement(c) = StatementMeaning(w)
        /\ c.type = "statement_list" => StatementsMean(c)
        /\ c.type = "compound_statement" => StatementsMean(Child(c, 1))
        /\ Fits(c)

(* The translation of a node with up to three children. *)
LEMMA AnalysisOf ==
  ASSUME NEW x \in ParseTrees
  PROVE  LET s == x.children
             n == Len(s)
             A(i) == analyze_expression[s[i]]
         IN  /\ x.type \in Operations /\ n = 3 =>
                   analyze_expression[x] = Binary(A(1), Operation[s[2].type], A(3))
             /\ x.type \in Operations /\ n = 1 => analyze_expression[x] = A(1)
             /\ x.type = "unary_expression" /\ n = 1 =>
                   analyze_expression[x] = Unary("PLUS", A(1))
             /\ x.type = "unary_expression" /\ n = 2 =>
                   analyze_expression[x] = Unary(Operation[s[1].type], A(2))
             /\ x.type = "primary_expression" /\ n = 3 => analyze_expression[x] = A(2)
             /\ x.type = "primary_expression" /\ n = 1 =>
                   analyze_expression[x] =
                      IF s[1].type = "identifier" THEN Identifier("IDENTIFIER")
                                                  ELSE Literal("LITERAL")
<1> DEFINE g == analyze_expression
           n == Len(x.children)
<1>1. g[x] = AnalyzedBy(g, x)
  BY AnalysisDefined
<1> HIDE DEF g
<1>2. Child(x, 0) = x.children[1] /\ Child(x, 1) = x.children[2] /\ Child(x, 2) = x.children[3]
  BY DEF Child
<1>3. /\ get_lhs_expression(x) = x.children[1] /\ get_rhs_expression(x) = x.children[3]
      /\ n = 1 => HasUnaryOperator(x) = 0 /\ get_expression(x) = x.children[1]
      /\ n = 2 => HasUnaryOperator(x) = 1 /\ get_expression(x) = x.children[2]
  BY <1>2 DEF get_lhs_expression, get_rhs_expression, HasUnaryOperator, get_expression
<1> HIDE DEF n
<1>4. /\ x.type \in Operations /\ n = 3 =>
            AnalyzedBy(g, x) = Combined(g[get_lhs_expression(x)], Child(x, 1).type,
                                        g[get_rhs_expression(x)])
      /\ x.type \in Operations /\ n = 1 =>
            AnalyzedBy(g, x) = g[get_lhs_expression(x)]
      /\ x.type = "unary_expression" /\ n \in {1, 2} =>
            AnalyzedBy(g, x) =
               Unary(IF HasUnaryOperator(x) = 1 THEN Operation[Child(x, 0).type]
                                                ELSE "PLUS",
                     g[get_expression(x)])
      /\ x.type = "primary_expression" /\ n = 3 =>
            AnalyzedBy(g, x) = g[Child(x, 1)]
      /\ x.type = "primary_expression" /\ n = 1 =>
            AnalyzedBy(g, x) =
               IF Child(x, 0).type = "identifier" THEN Identifier("IDENTIFIER")
                                                  ELSE Literal("LITERAL")
  BY AnalyzedIs DEF n
<1>5. ASSUME x.type \in Operations, n = 3
      PROVE  g[x] = Binary(g[x.children[1]], Operation[x.children[2].type], g[x.children[3]])
  BY <1>1, <1>2, <1>3, <1>4, <1>5 DEF Combined
<1>6. ASSUME x.type \in Operations, n = 1 PROVE g[x] = g[x.children[1]]
  BY <1>1, <1>3, <1>4, <1>6
<1>7. ASSUME x.type = "unary_expression", n = 1 PROVE g[x] = Unary("PLUS", g[x.children[1]])
  BY <1>1, <1>3, <1>4, <1>7
<1>8. ASSUME x.type = "unary_expression", n = 2
      PROVE  g[x] = Unary(Operation[x.children[1].type], g[x.children[2]])
  BY <1>1, <1>2, <1>3, <1>4, <1>8
<1>9. ASSUME x.type = "primary_expression", n = 3 PROVE g[x] = g[x.children[2]]
  BY <1>1, <1>2, <1>4, <1>9
<1>10. ASSUME x.type = "primary_expression", n = 1
       PROVE  g[x] = IF x.children[1].type = "identifier" THEN Identifier("IDENTIFIER")
                                                          ELSE Literal("LITERAL")
  BY <1>1, <1>2, <1>4, <1>10
<1> QED BY <1>5, <1>6, <1>7, <1>8, <1>9, <1>10, Zenon DEF g, n

(* A token stands for itself. *)
LEMMA LeafMeans ==
  ASSUME NEW t \in TokenTypes, Leaf(t) \in ParseTrees
  PROVE  Means(Leaf(t)) /\ Leaf(t).type = t /\ Yield[Leaf(t)] = <<t>>
<1> DEFINE c == Leaf(t)
<1>1. c.type = t /\ c.children = <<>>
  BY DEF Leaf, TreeNode
<1> HIDE DEF c
<1>2. Yield[c] = <<t>>
  BY <1>1, YieldOf DEF c
<1>3. t \notin {"identifier", "literal", "primary_expression", "unary_expression",
                "multiplicative_expression", "additive_expression",
                "assignment_expression", "statement", "statement_list",
                "compound_statement"}
  BY DEF TokenTypes
<1>4. Fits(c)
  BY <1>1, <1>3 DEF Fits, FitsIn, ValueNodes, Operations
<1>5. Means(c)
  BY <1>1, <1>2, <1>3, <1>4 DEF Means
<1> QED BY <1>1, <1>2, <1>5 DEF c

-----------------------------------------------------------------------------
(* A node means what its text means if its children do. *)

(* A tree whose children have the types its form asks for, and mean their  *)
(* texts.                                                                  *)
Grown(c) ==
    /\ c \in ParseTrees
    /\ Shape(c.type, c.children)
    /\ \A k \in 1 .. Len(c.children) :
          c.children[k] \in ParseTrees /\ Means(c.children[k])

(* A primary expression stands for an operand: a name, a number, or a text *)
(* in brackets.                                                            *)
LEMMA PrimaryMeans ==
  ASSUME NEW c, Grown(c), c.type = "primary_expression"
  PROVE  LET w == Yield[c]
         IN  Unsplit(w) /\ ~Signed(w) /\ OperandBy(Meaning, w) = analyze_expression[c]
<1> DEFINE s == c.children
           n == Len(s)
           Y(k) == Yield[s[k]]
           A(k) == analyze_expression[s[k]]
<1>1. c \in ParseTrees /\ \A k \in 1 .. n : s[k] \in ParseTrees /\ Means(s[k])
  BY DEF Grown
<1>2. \/ n = 1 /\ s[1].type \in {"identifier", "literal"}
      \/ /\ n = 3 /\ s[1] = Leaf("L_BRACKET")
         /\ s[2].type = "additive_expression" /\ s[3] = Leaf("R_BRACKET")
  BY DEF Grown, Shape
<1>3. /\ n = 1 /\ Y(1) \in AllTexts => Yield[c] = Y(1)
      /\ n = 3 /\ Y(1) \in AllTexts => Yield[c] = (Y(1) \o Y(2)) \o Y(3)
  BY <1>1, YieldOf
<1>4. /\ n = 3 => analyze_expression[c] = A(2)
      /\ n = 1 =>
            analyze_expression[c] = IF s[1].type = "identifier" THEN Identifier("IDENTIFIER")
                                                                ELSE Literal("LITERAL")
  BY <1>1, AnalysisOf
<1> HIDE DEF s
<1>5. CASE n = 1 /\ s[1].type = "identifier"
  <2>1. Y(1) = <<"IDENTIFIER">> BY <1>1, <1>5 DEF Means
  <2>2. Unsplit(Y(1)) /\ ~Signed(Y(1)) /\ Y(1) \in AllTexts
    BY <2>1, TokenText DEF Unsplit, Closed
  <2>3. OperandBy(Meaning, Y(1)) = Identifier("IDENTIFIER") BY <2>1, OperandIs
  <2>4. Yield[c] = Y(1) BY <1>3, <1>5, <2>2
  <2> QED BY <1>4, <1>5, <2>2, <2>3, <2>4
<1>6. CASE n = 1 /\ s[1].type = "literal"
  <2>1. Y(1) = <<"LITERAL">> BY <1>1, <1>6 DEF Means
  <2>2. Unsplit(Y(1)) /\ ~Signed(Y(1)) /\ Y(1) \in AllTexts
    BY <2>1, TokenText DEF Unsplit, Closed
  <2>3. OperandBy(Meaning, Y(1)) = Literal("LITERAL") BY <2>1, OperandIs
  <2>4. Yield[c] = Y(1) BY <1>3, <1>6, <2>2
  <2> QED BY <1>4, <1>6, <2>2, <2>3, <2>4
<1>7. CASE /\ n = 3 /\ s[1] = Leaf("L_BRACKET")
           /\ s[2].type = "additive_expression" /\ s[3] = Leaf("R_BRACKET")
  <2>1. 1 \in 1 .. n /\ 2 \in 1 .. n /\ 3 \in 1 .. n BY <1>7
  <2>2. Y(1) = <<"L_BRACKET">> /\ Y(3) = <<"R_BRACKET">>
    <3>1. "L_BRACKET" \in TokenTypes /\ "R_BRACKET" \in TokenTypes BY DEF TokenTypes
    <3> QED BY <1>1, <1>7, <2>1, <3>1, LeafMeans
  <2>3. Closed(Y(2)) /\ Meaning[Y(2)] = A(2) BY <1>1, <1>7, <2>1 DEF Means
  <2>4. Y(1) \in AllTexts BY <2>2 DEF AllTexts, TokenTypes
  <2> DEFINE v == Y(2)
  <2> HIDE DEF v
  <2>5. Yield[c] = (Y(1) \o v) \o Y(3) BY <1>3, <1>7, <2>4, Zenon DEF v
  <2>6. Yield[c] = Bracketed(v) BY <2>2, <2>5, Zenon DEF Bracketed
  <2>7. Closed(v) /\ Meaning[v] = analyze_expression[c] BY <1>4, <1>7, <2>3 DEF v
  <2>8. Unsplit(Bracketed(v)) /\ ~Signed(Bracketed(v)) BY <2>7, BracketedText
  <2>9. OperandBy(Meaning, Bracketed(v)) = Meaning[v] BY <2>7, OperandIs
  <2> QED BY <2>6, <2>7, <2>8, <2>9, Zenon
<1> QED BY <1>2, <1>5, <1>6, <1>7 DEF s

(* A unary expression has no operator outside of brackets but its sign.    *)
LEMMA UnaryMeans ==
  ASSUME NEW c, Grown(c), c.type = "unary_expression"
  PROVE  LET w == Yield[c]
         IN  Unsplit(w) /\ Meaning[w] = analyze_expression[c]
<1> DEFINE s == c.children
           n == Len(s)
           Y(k) == Yield[s[k]]
           A(k) == analyze_expression[s[k]]
<1>1. c \in ParseTrees /\ \A k \in 1 .. n : s[k] \in ParseTrees /\ Means(s[k])
  BY DEF Grown
<1>2. \/ n = 1 /\ s[1].type = "primary_expression"
      \/ /\ n = 2 /\ \E t \in Additive : s[1] = Leaf(t)
         /\ s[2].type = "primary_expression"
  BY DEF Grown, Shape
<1>3. /\ n = 1 /\ Y(1) \in AllTexts => Yield[c] = Y(1)
      /\ n = 2 /\ Y(1) \in AllTexts => Yield[c] = Y(1) \o Y(2)
  BY <1>1, YieldOf
<1>4. /\ n = 1 => analyze_expression[c] = Unary("PLUS", A(1))
      /\ n = 2 => analyze_expression[c] = Unary(Operation[s[1].type], A(2))
  BY <1>1, AnalysisOf
<1> HIDE DEF s
<1>5. CASE n = 1 /\ s[1].type = "primary_expression"
  <2>1. Unsplit(Y(1)) /\ ~Signed(Y(1)) /\ OperandBy(Meaning, Y(1)) = A(1)
    BY <1>1, <1>5 DEF Means
  <2>2. Y(1) \in AllTexts /\ Sums(Y(1)) = {} /\ Products(Y(1)) = {}
    BY <2>1 DEF Unsplit, Closed
  <2>3. Meaning[Y(1)] = Unary("PLUS", OperandBy(Meaning, Y(1)))
    BY <2>1, <2>2, MeaningIs
  <2>4. Yield[c] = Y(1) BY <1>3, <1>5, <2>2
  <2> QED BY <1>4, <1>5, <2>1, <2>3, <2>4
<1>6. CASE /\ n = 2 /\ \E t \in Additive : s[1] = Leaf(t)
           /\ s[2].type = "primary_expression"
  <2>1. PICK t \in Additive : s[1] = Leaf(t) BY <1>6
  <2>2. 1 \in 1 .. n /\ 2 \in 1 .. n BY <1>6
  <2>3. t \in TokenTypes /\ <<t>> \in AllTexts
    BY DEF Additive, TokenTypes, AllTexts
  <2>4. Y(1) = <<t>> /\ s[1].type = t BY <1>1, <2>1, <2>2, <2>3, LeafMeans
  <2>5. Unsplit(Y(2)) /\ OperandBy(Meaning, Y(2)) = A(2)
    BY <1>1, <1>6, <2>2 DEF Means
  <2> DEFINE p == Y(2)
             w == <<t>> \o p
  <2>6. Yield[c] = w BY <1>3, <1>6, <2>3, <2>4, Zenon
  <2> HIDE DEF p
  <2>7. Unsplit(p) /\ OperandBy(Meaning, p) = A(2) BY <2>5 DEF p
  <2>8. Unsplit(w) /\ Signed(w) /\ w[1] = t /\ Tail(w) = p BY <2>7, SignedText
  <2> HIDE DEF w
  <2>9. w \in AllTexts /\ Sums(w) = {} /\ Products(w) = {} BY <2>8 DEF Unsplit, Closed
  <2>10. Meaning[w] = Unary(Operation[w[1]], OperandBy(Meaning, Tail(w)))
    BY <2>8, <2>9, MeaningIs
  <2>11. analyze_expression[c] = Unary(Operation[t], A(2)) BY <1>4, <1>6, <2>4
  <2>12. Meaning[w] = analyze_expression[c] BY <2>7, <2>8, <2>10, <2>11
  <2> QED BY <2>6, <2>8, <2>12
<1> QED BY <1>2, <1>5, <1>6 DEF s

(* An operator between two operands. *)
LEMMA OperationMeans ==
  ASSUME NEW c, Grown(c), c.type \in Operations, Len(c.children) = 3,
         NEW t \in Operators, c.children[2] = Leaf(t),
         Closed(Yield[c.children[1]]), Closed(Yield[c.children[3]]),
         Sums(Yield[c.children[1]]) = {},
         t \in Multiplicative => /\ Products(Yield[c.children[1]]) = {}
                                 /\ Sums(Yield[c.children[3]]) = {},
         Meaning[Yield[c.children[1]]] = analyze_expression[c.children[1]],
         Meaning[Yield[c.children[3]]] = analyze_expression[c.children[3]]
  PROVE  LET w == Yield[c]
         IN  /\ Closed(w) /\ Meaning[w] = analyze_expression[c]
             /\ t \in Multiplicative => Sums(w) = {}
<1> DEFINE s == c.children
           n == Len(s)
           u == Yield[s[1]]
           v == Yield[s[3]]
           w == Infix(u, t, v)
<1>1. c \in ParseTrees /\ \A k \in 1 .. n : s[k] \in ParseTrees /\ Means(s[k])
  BY DEF Grown
<1>2. u \in AllTexts
  BY DEF Closed
<1>3. t \in TokenTypes
  BY DEF Operators, Additive, Multiplicative, TokenTypes
<1>4. Yield[s[2]] = <<t>> /\ s[2].type = t
  <2>1. 2 \in 1 .. n OBVIOUS
  <2> QED BY <1>1, <1>3, <2>1, LeafMeans
<1>5. Yield[c] = (u \o Yield[s[2]]) \o v
  <2>1. n = 3 /\ Yield[s[1]] \in AllTexts =>
           Yield[c] = (Yield[s[1]] \o Yield[s[2]]) \o Yield[s[3]]
    BY <1>1, YieldOf, Zenon
  <2> QED BY <1>2, <2>1, Zenon
<1>6. Yield[c] = w
  BY <1>4, <1>5, Zenon DEF Infix
<1>7. analyze_expression[c] =
         Binary(analyze_expression[s[1]], Operation[t], analyze_expression[s[3]])
  BY <1>1, <1>4, AnalysisOf
<1>8. /\ Closed(w)
      /\ t \in Multiplicative => Sums(w) = {}
      /\ Meaning[w] = Binary(Meaning[u], Operation[t], Meaning[v])
  BY MeaningOfInfix
<1> HIDE DEF w
<1>9. Meaning[w] = analyze_expression[c]
  BY <1>7, <1>8
<1> QED BY <1>6, <1>8, <1>9, Zenon

(* A multiplicative expression has no sum outside of brackets, and is      *)
(* split at its first product.                                             *)
LEMMA ProductMeans ==
  ASSUME NEW c, Grown(c), c.type = "multiplicative_expression"
  PROVE  LET w == Yield[c]
         IN  Closed(w) /\ Sums(w) = {} /\ Meaning[w] = analyze_expression[c]
<1> DEFINE s == c.children
           n == Len(s)
           Y(k) == Yield[s[k]]
           A(k) == analyze_expression[s[k]]
<1>1. c \in ParseTrees /\ \A k \in 1 .. n : s[k] \in ParseTrees /\ Means(s[k])
  BY DEF Grown
<1>2. \/ n = 1 /\ s[1].type = "unary_expression"
      \/ /\ n = 3 /\ s[1].type = "unary_expression"
         /\ \E t \in Multiplicative : s[2] = Leaf(t)
         /\ s[3].type = "multiplicative_expression"
  BY DEF Grown, Shape, OperationShape
<1>3. Unsplit(Y(1)) /\ Meaning[Y(1)] = A(1)
  <2>1. 1 \in 1 .. n /\ s[1].type = "unary_expression" BY <1>2
  <2> HIDE DEF s, n
  <2> QED BY <1>1, <2>1 DEF Means
<1>4. Closed(Y(1)) /\ Sums(Y(1)) = {} /\ Products(Y(1)) = {} /\ Y(1) \in AllTexts
  BY <1>3 DEF Unsplit, Closed
<1>5. CASE n = 1
  <2>1. Yield[c] = Y(1) BY <1>1, <1>4, <1>5, YieldOf
  <2>2. analyze_expression[c] = A(1) BY <1>1, <1>5, AnalysisOf DEF Operations
  <2> QED BY <1>3, <1>4, <2>1, <2>2
<1>6. CASE n = 3 /\ s[3].type = "multiplicative_expression"
           /\ \E t \in Multiplicative : s[2] = Leaf(t)
  <2>1. PICK t \in Multiplicative : s[2] = Leaf(t) BY <1>6
  <2>2. Closed(Y(3)) /\ Sums(Y(3)) = {} /\ Meaning[Y(3)] = A(3)
    <3>1. 3 \in 1 .. n BY <1>6
    <3> HIDE DEF s, n
    <3> QED BY <1>1, <1>6, <3>1 DEF Means
  <2>3. t \in Operators /\ c.type \in Operations BY DEF Operators, Operations
  <2> QED BY <1>3, <1>4, <1>6, <2>1, <2>2, <2>3, OperationMeans
<1> QED BY <1>2, <1>5, <1>6

(* An additive expression is split at its first sum: what is in front of   *)
(* it holds none.                                                          *)
LEMMA SumMeans ==
  ASSUME NEW c, Grown(c), c.type = "additive_expression"
  PROVE  LET w == Yield[c]
         IN  Closed(w) /\ Meaning[w] = analyze_expression[c]
<1> DEFINE s == c.children
           n == Len(s)
           Y(k) == Yield[s[k]]
           A(k) == analyze_expression[s[k]]
<1>1. c \in ParseTrees /\ \A k \in 1 .. n : s[k] \in ParseTrees /\ Means(s[k])
  BY DEF Grown
<1>2. \/ n = 1 /\ s[1].type = "multiplicative_expression"
      \/ /\ n = 3 /\ s[1].type = "multiplicative_expression"
         /\ \E t \in Additive : s[2] = Leaf(t)
         /\ s[3].type = "additive_expression"
  BY DEF Grown, Shape, OperationShape
<1>3. Closed(Y(1)) /\ Sums(Y(1)) = {} /\ Meaning[Y(1)] = A(1)
  <2>1. 1 \in 1 .. n /\ s[1].type = "multiplicative_expression" BY <1>2
  <2> HIDE DEF s, n
  <2> QED BY <1>1, <2>1 DEF Means
<1>4. Y(1) \in AllTexts
  BY <1>3 DEF Closed
<1>5. CASE n = 1
  <2>1. Yield[c] = Y(1) BY <1>1, <1>4, <1>5, YieldOf
  <2>2. analyze_expression[c] = A(1) BY <1>1, <1>5, AnalysisOf DEF Operations
  <2> QED BY <1>3, <2>1, <2>2
<1>6. CASE n = 3 /\ s[3].type = "additive_expression"
           /\ \E t \in Additive : s[2] = Leaf(t)
  <2>1. PICK t \in Additive : s[2] = Leaf(t) BY <1>6
  <2>2. Closed(Y(3)) /\ Meaning[Y(3)] = A(3)
    <3>1. 3 \in 1 .. n BY <1>6
    <3> HIDE DEF s, n
    <3> QED BY <1>1, <1>6, <3>1 DEF Means
  <2>3. t \in Operators /\ c.type \in Operations BY DEF Operators, Operations
  <2>4. t \notin Multiplicative BY DEF Additive, Multiplicative
  <2> QED BY <1>3, <1>6, <2>1, <2>2, <2>3, <2>4, OperationMeans
<1> QED BY <1>2, <1>5, <1>6

(* An assignment is a name, a := and an expression that means its text.    *)
LEMMA AssignmentMeans ==
  ASSUME NEW c, Grown(c), c.type = "assignment_expression"
  PROVE  \E v : /\ Closed(v) /\ Yield[c] = Assigned(v)
                /\ Meaning[v] = analyze_expression[Child(c, 2)]
<1> DEFINE s == c.children
           n == Len(s)
           Y(k) == Yield[s[k]]
<1>1. c \in ParseTrees /\ \A k \in 1 .. n : s[k] \in ParseTrees /\ Means(s[k])
  BY DEF Grown
<1>2. /\ n = 3 /\ s[1].type = "identifier" /\ s[2] = Leaf("VAR_ASSIGNMENT_OP")
      /\ s[3].type = "additive_expression"
  BY DEF Grown, Shape
<1>3. n = 3 /\ Y(1) \in AllTexts => Yield[c] = (Y(1) \o Y(2)) \o Y(3)
  BY <1>1, YieldOf, Zenon
<1>4. Child(c, 2) = s[3]
  BY DEF Child
<1> HIDE DEF s
<1>5. 1 \in 1 .. n /\ 2 \in 1 .. n /\ 3 \in 1 .. n
  BY <1>2
<1>6. Y(1) = <<"IDENTIFIER">> /\ Y(1) \in AllTexts
  <2>1. Y(1) = <<"IDENTIFIER">> BY <1>1, <1>2, <1>5 DEF Means
  <2> QED BY <2>1 DEF AllTexts, TokenTypes
<1>7. Y(2) = <<"VAR_ASSIGNMENT_OP">>
  <2>1. "VAR_ASSIGNMENT_OP" \in TokenTypes BY DEF TokenTypes
  <2> QED BY <1>1, <1>2, <1>5, <2>1, LeafMeans
<1>8. Closed(Y(3)) /\ Meaning[Y(3)] = analyze_expression[s[3]]
  BY <1>1, <1>2, <1>5 DEF Means
<1>9. Yield[c] = Assigned(Y(3))
  <2>1. Yield[c] = (Y(1) \o Y(2)) \o Y(3) BY <1>2, <1>3, <1>6, Zenon
  <2> QED BY <1>6, <1>7, <2>1, Zenon DEF Assigned, Infix
<1> QED BY <1>4, <1>8, <1>9

(* A statement is translated to what its text means.                       *)
LEMMA StatementMeans ==
  ASSUME NEW c, Grown(c), c.type = "statement"
  PROVE  analyze_statement(c) = StatementMeaning(Yield[c])
<1> DEFINE s == c.children
           n == Len(s)
           Y(k) == Yield[s[k]]
<1>1. c \in ParseTrees /\ \A k \in 1 .. n : s[k] \in ParseTrees /\ Means(s[k])
  BY DEF Grown
<1>2. \/ n = 1 /\ s[1].type = "assignment_expression"
      \/ n = 2 /\ s[1] = Leaf("RETURN") /\ s[2].type = "additive_expression"
  BY DEF Grown, Shape
<1>3. /\ n = 1 /\ Y(1) \in AllTexts => Yield[c] = Y(1)
      /\ n = 2 /\ Y(1) \in AllTexts => Yield[c] = Y(1) \o Y(2)
  BY <1>1, YieldOf
<1>4. /\ Child(c, 0) = s[1] /\ Child(c, 1) = s[2]
  BY DEF Child
<1> HIDE DEF s
<1>5. CASE n = 1 /\ s[1].type = "assignment_expression"
  <2>1. 1 \in 1 .. n BY <1>5
  <2>2. PICK v : /\ Closed(v) /\ Y(1) = Assigned(v)
                 /\ Meaning[v] = analyze_expression[Child(s[1], 2)]
    BY <1>1, <1>5, <2>1 DEF Means
  <2>3. v \in AllTexts BY <2>2 DEF Closed
  <2>4. /\ Y(1) \in AllTexts
        /\ StatementMeaning(Y(1)) = Assignment("IDENTIFIER", Meaning[v])
    BY <2>2, <2>3, AssignedText
  <2>5. analyze_statement(c) =
           Assignment("IDENTIFIER", analyze_expression[Child(s[1], 2)])
    BY <1>4, <1>5 DEF analyze_statement
  <2>6. Yield[c] = Y(1) BY <1>3, <1>5, <2>4
  <2> QED BY <2>2, <2>4, <2>5, <2>6
<1>6. CASE n = 2 /\ s[1] = Leaf("RETURN") /\ s[2].type = "additive_expression"
  <2>1. 1 \in 1 .. n /\ 2 \in 1 .. n BY <1>6
  <2>2. Y(1) = <<"RETURN">> /\ s[1].type = "RETURN"
    <3>1. "RETURN" \in TokenTypes BY DEF TokenTypes
    <3> QED BY <1>1, <1>6, <2>1, <3>1, LeafMeans
  <2>3. Y(1) \in AllTexts BY <2>2 DEF AllTexts, TokenTypes
  <2>4. Closed(Y(2)) /\ Meaning[Y(2)] = analyze_expression[s[2]]
    BY <1>1, <1>6, <2>1 DEF Means
  <2> DEFINE v == Y(2)
  <2>5. Yield[c] = Y(1) \o v BY <1>3, <1>6, <2>3, Zenon
  <2> HIDE DEF v
  <2>6. Yield[c] = <<"RETURN">> \o v BY <2>2, <2>5, Zenon
  <2>7. v \in AllTexts BY <2>4 DEF Closed, v
  <2>8. StatementMeaning(<<"RETURN">> \o v) = Return(Meaning[v]) BY <2>7, ReturnText
  <2>9. StatementMeaning(Yield[c]) = Return(Meaning[v]) BY <2>6, <2>8, Zenon
  <2>10. analyze_statement(c) = Return(analyze_expression[s[2]])
    BY <1>4, <2>2 DEF analyze_statement
  <2> QED BY <2>4, <2>9, <2>10 DEF v
<1> QED BY <1>2, <1>5, <1>6

(* The elements of a list of statements, every other child, are translated *)
(* so.                                                                     *)
LEMMA ListMeans ==
  ASSUME NEW c, Grown(c), c.type = "statement_list"
  PROVE  StatementsMean(c)
<1> DEFINE s == c.children
           n == Len(s)
<1>1. c \in ParseTrees /\ \A k \in 1 .. n : s[k] \in ParseTrees /\ Means(s[k])
  BY DEF Grown
<1>2. PICK m \in Nat : n = 2 * m + 1 /\ \A j \in 0 .. m : s[2 * j + 1].type = "statement"
  BY DEF Grown, Shape
<1>3. get_number_of(c) = 1 + m
  <2>1. (n - 1) \div 2 = m BY <1>2
  <2> QED BY <2>1 DEF get_number_of
<1>4. ASSUME NEW i \in 1 .. get_number_of(c)
      PROVE  analyze_statement(get_element(c, i - 1)) =
                StatementMeaning(Yield[get_element(c, i - 1)])
  <2>1. /\ i - 1 \in 0 .. m /\ 2 * (i - 1) + 1 \in 1 .. n
        /\ get_element(c, i - 1) = s[2 * (i - 1) + 1]
    <3>1. i - 1 \in 0 .. m BY <1>3
    <3> QED BY <1>2, <3>1 DEF get_element, Child
  <2> DEFINE x == get_element(c, i - 1)
  <2>2. x.type = "statement" /\ Means(x) BY <1>1, <1>2, <2>1
  <2> HIDE DEF x
  <2> QED BY <2>2 DEF Means, x
<1> QED BY <1>4 DEF StatementsMean

(* What a node is translated to is no higher than the node, if it is so of *)
(* its children.                                                           *)
LEMMA TranslationFits ==
  ASSUME NEW c, Grown(c)
  PROVE  Fits(c)
<1> SUFFICES ASSUME NEW n \in Nat, c \in Trees[n] PROVE FitsIn(c, n)
  BY DEF Fits
<1> DEFINE s == c.children
           A(k) == analyze_expression[s[k]]
<1>1. /\ c \in ParseTrees /\ Shape(c.type, s)
      /\ \A k \in 1 .. Len(s) : s[k] \in ParseTrees /\ Fits(s[k])
  BY DEF Grown, Means
<1>2. CASE Len(s) = 0
  <2>1. c.type \notin ValueNodes \cup {"assignment_expression", "statement"}
    BY <1>1, <1>2 DEF Shape, OperationShape, ValueNodes, Operations
  <2>2. c.type \notin {"statement_list", "compound_statement"}
    BY <1>1, <1>2 DEF Shape
  <2> QED BY <2>1, <2>2 DEF FitsIn
<1>3. CASE Len(s) # 0
  <2> DEFINE m == n - 1
             E == Expressions[m]
  <2>1. m \in Nat /\ n = m + 1
    <3>1. n # 0 BY <1>3, LevelChildren
    <3> QED BY <3>1
  <2>2. Expressions[n] = Over(E) /\ E \subseteq Expressions[n]
    BY <2>1, ExpressionsGrow
  <2>3. \A k \in 1 .. Len(s) : FitsIn(s[k], m)
    <3>1. s \in Seq(Trees[m]) BY <2>1, LevelChildren
    <3>2. \A k \in 1 .. Len(s) : s[k] \in Trees[m] BY <3>1
    <3> HIDE DEF s, m
    <3> QED BY <1>1, <2>1, <3>2 DEF Fits
  <2> HIDE DEF E
  <2>4. ASSUME NEW k \in 1 .. Len(s), s[k].type \in ValueNodes PROVE A(k) \in E
    BY <2>3, <2>4 DEF FitsIn, E
  <2>5. \A t \in Operators : Operation[t] \in OperatorTypes
    BY DEF Operators, Additive, Multiplicative, Operation, OperatorTypes
  <2>6. \A t : Leaf(t).type = t
    BY DEF Leaf, TreeNode
  <2>7. ASSUME c.type \in Operations PROVE analyze_expression[c] \in Expressions[n]
    <3>1. PICK operand, operators : /\ OperationShape(s, operand, operators, c.type)
                                    /\ operand \in ValueNodes
                                    /\ operators \subseteq Operators
      <4>1. CASE c.type = "multiplicative_expression"
        <5>1. OperationShape(s, "unary_expression", Multiplicative, c.type)
          BY <1>1, <4>1 DEF Shape
        <5> HIDE DEF s
        <5> QED BY <5>1 DEF ValueNodes, Operators
      <4>2. CASE c.type = "additive_expression"
        <5>1. OperationShape(s, "multiplicative_expression", Additive, c.type)
          BY <1>1, <4>2 DEF Shape
        <5> HIDE DEF s
        <5> QED BY <5>1 DEF ValueNodes, Operations, Operators
      <4> QED BY <2>7, <4>1, <4>2 DEF Operations
    <3>2. CASE Len(s) = 1 /\ s[1].type = operand
      <4>1. analyze_expression[c] = A(1) BY <1>1, <2>7, <3>2, AnalysisOf
      <4>2. A(1) \in E BY <2>4, <3>1, <3>2
      <4> QED BY <2>2, <4>1, <4>2
    <3>3. CASE /\ Len(s) = 3 /\ s[1].type = operand
               /\ \E t \in operators : s[2] = Leaf(t)
               /\ s[3].type = c.type
      <4>1. PICK t \in operators : s[2] = Leaf(t) BY <3>3
      <4>2. analyze_expression[c] = Binary(A(1), Operation[t], A(3))
        BY <1>1, <2>6, <2>7, <3>3, <4>1, AnalysisOf
      <4>3. A(1) \in E /\ A(3) \in E
        <5>1. 1 \in 1 .. Len(s) /\ 3 \in 1 .. Len(s) BY <3>3
        <5> QED BY <2>4, <2>7, <3>1, <3>3, <5>1 DEF ValueNodes
      <4>4. Operation[t] \in OperatorTypes BY <2>5, <3>1, <4>1
      <4>5. Binary(A(1), Operation[t], A(3)) \in Over(E)
        <5> DEFINE a == A(1)
                   b == A(3)
                   o == Operation[t]
        <5> HIDE DEF a, b, o
        <5>1. a \in E /\ b \in E /\ o \in OperatorTypes BY <4>3, <4>4 DEF a, b, o
        <5>2. Binary(a, o, b) \in Over(E) BY <5>1, OverMore
        <5> QED BY <5>2 DEF a, b, o
      <4> QED BY <2>2, <4>2, <4>5
    <3> QED BY <3>1, <3>2, <3>3 DEF OperationShape
  <2>8. ASSUME c.type = "unary_expression" PROVE analyze_expression[c] \in Expressions[n]
    <3>1. CASE Len(s) = 1 /\ s[1].type = "primary_expression"
      <4>1. analyze_expression[c] = Unary("PLUS", A(1)) BY <1>1, <2>8, <3>1, AnalysisOf
      <4>2. A(1) \in E BY <2>4, <3>1 DEF ValueNodes
      <4>3. "PLUS" \in OperatorTypes BY DEF OperatorTypes
      <4> DEFINE a == A(1)
      <4> HIDE DEF a
      <4>4. Unary("PLUS", a) \in Over(E) BY <4>2, <4>3, OverMore DEF a
      <4> QED BY <2>2, <4>1, <4>4 DEF a
    <3>2. CASE /\ Len(s) = 2 /\ \E t \in Additive : s[1] = Leaf(t)
               /\ s[2].type = "primary_expression"
      <4>1. PICK t \in Additive : s[1] = Leaf(t) BY <3>2
      <4>2. analyze_expression[c] = Unary(Operation[t], A(2))
        BY <1>1, <2>6, <2>8, <3>2, <4>1, AnalysisOf
      <4>3. A(2) \in E
        <5>1. 2 \in 1 .. Len(s) BY <3>2
        <5> QED BY <2>4, <3>2, <5>1 DEF ValueNodes
      <4>4. Operation[t] \in OperatorTypes BY <2>5, <4>1 DEF Operators
      <4> DEFINE a == A(2)
                 o == Operation[t]
      <4> HIDE DEF a, o
      <4>5. Unary(o, a) \in Over(E) BY <4>3, <4>4, OverMore DEF a, o
      <4> QED BY <2>2, <4>2, <4>5 DEF a, o
    <3> QED BY <1>1, <2>8, <3>1, <3>2 DEF Shape
  <2>9. ASSUME c.type = "primary_expression" PROVE analyze_expression[c] \in Expressions[n]
    <3>1. CASE Len(s) = 1
      <4>1. analyze_expression[c] \in {Identifier("IDENTIFIER"), Literal("LITERAL")}
        BY <1>1, <2>9, <3>1, AnalysisOf
      <4> HIDE DEF s
      <4> QED BY <2>2, <4>1, OverMore
    <3>2. CASE Len(s) = 3 /\ s[2].type = "additive_expression"
      <4>1. analyze_expression[c] = A(2) BY <1>1, <2>9, <3>2, AnalysisOf
      <4>2. A(2) \in E
        <5>1. 2 \in 1 .. Len(s) BY <3>2
        <5> QED BY <2>4, <3>2, <5>1 DEF ValueNodes, Operations
      <4> QED BY <2>2, <4>1, <4>2
    <3> QED BY <1>1, <2>9, <3>1, <3>2 DEF Shape
  <2>10. ASSUME c.type = "assignment_expression"
         PROVE  analyze_expression[Child(c, 2)] \in Expressions[n]
    <3>1. Len(s) = 3 /\ s[3].type = "additive_expression" BY <1>1, <2>10 DEF Shape
    <3>2. Child(c, 2) = s[3] BY DEF Child
    <3>3. A(3) \in E
      <4>1. 3 \in 1 .. Len(s) BY <3>1
      <4> QED BY <2>4, <3>1, <4>1 DEF ValueNodes, Operations
    <3> QED BY <2>2, <3>2, <3>3
  <2>11. ASSUME c.type = "statement"
         PROVE  StatementOver(analyze_statement(c), Expressions[n])
    <3>0. Child(c, 0) = s[1] /\ Child(c, 1) = s[2] BY DEF Child
    <3>1. CASE Len(s) = 1 /\ s[1].type = "assignment_expression"
      <4>1. analyze_expression[Child(s[1], 2)] \in E
        BY <2>3, <3>1 DEF FitsIn, E
      <4>2. analyze_statement(c) =
               Assignment("IDENTIFIER", analyze_expression[Child(s[1], 2)])
        BY <3>0, <3>1 DEF analyze_statement
      <4> QED BY <2>2, <4>1, <4>2 DEF StatementOver
    <3>2. CASE Len(s) = 2 /\ s[1] = Leaf("RETURN") /\ s[2].type = "additive_expression"
      <4>1. analyze_statement(c) = Return(A(2)) BY <2>6, <3>0, <3>2 DEF analyze_statement
      <4>2. A(2) \in E
        <5>1. 2 \in 1 .. Len(s) BY <3>2
        <5> QED BY <2>4, <3>2, <5>1 DEF ValueNodes, Operations
      <4> QED BY <2>2, <4>1, <4>2 DEF StatementOver
    <3> QED BY <1>1, <2>11, <3>1, <3>2 DEF Shape
  <2>12. ASSUME c.type = "statement_list" PROVE StatementsOver(c, Expressions[n])
    <3>1. PICK j \in Nat : /\ Len(s) = 2 * j + 1
                           /\ \A i \in 0 .. j : s[2 * i + 1].type = "statement"
      BY <1>1, <2>12 DEF Shape
    <3>2. get_number_of(c) = 1 + j
      <4>1. (Len(s) - 1) \div 2 = j BY <3>1
      <4> QED BY <4>1 DEF get_number_of
    <3>3. ASSUME NEW i \in 1 .. get_number_of(c)
          PROVE  StatementOver(analyze_statement(get_element(c, i - 1)), Expressions[n])
      <4>1. i - 1 \in 0 .. j BY <3>2
      <4>2. 2 * (i - 1) + 1 \in 1 .. Len(s) /\ get_element(c, i - 1) = s[2 * (i - 1) + 1]
        BY <3>1, <4>1 DEF get_element, Child
      <4> DEFINE x == get_element(c, i - 1)
      <4>3. x.type = "statement" /\ FitsIn(x, m) BY <2>3, <3>1, <4>1, <4>2
      <4> HIDE DEF x
      <4>4. StatementOver(analyze_statement(x), E) BY <4>3 DEF FitsIn, E
      <4> QED BY <2>2, <4>4 DEF StatementOver, x
    <3>4. get_number_of(c) \in Nat BY <3>2
    <3> QED BY <3>3, <3>4 DEF StatementsOver
  <2>13. ASSUME c.type = "compound_statement"
         PROVE  \E k \in Nat : n = k + 1 /\ StatementsOver(Child(c, 1), Expressions[k])
    <3>1. Len(s) = 3 /\ s[2].type = "statement_list" BY <1>1, <2>13 DEF Shape
    <3>2. 2 \in 1 .. Len(s) /\ Child(c, 1) = s[2] BY <3>1 DEF Child
    <3>3. StatementsOver(s[2], Expressions[m]) BY <2>3, <3>1, <3>2 DEF FitsIn
    <3> HIDE DEF s, m
    <3> QED BY <2>1, <3>2, <3>3
  <2> HIDE DEF s
  <2> QED BY <2>7, <2>8, <2>9, <2>10, <2>11, <2>12, <2>13, Zenon DEF FitsIn, ValueNodes
<1> QED BY <1>2, <1>3

(* A node that is completed means its text. *)
LEMMA NodeMeans ==
  ASSUME NEW node \in Nodes, NEW children, FittingChildren(children),
         FormFits(node, Kids(children)), NEW stale,
         TreeNode(node, children, stale) \in ParseTrees,
         \A k \in 1 .. Len(children) : children[k] \in ParseTrees => Means(children[k])
  PROVE  Means(TreeNode(node, children, stale))
<1> DEFINE c == TreeNode(node, children, stale)
<1>1. c.type = node /\ c.children = children /\ c \in ParseTrees
  BY DEF TreeNode
<1> HIDE DEF c
<1>2. Shape(c.type, c.children)
  BY <1>1, CompletedShape
<1>3. \A k \in 1 .. Len(children) : children[k] \in ParseTrees
  <2>1. children \in Seq(ParseTrees) BY <1>1, ChildrenAreTrees
  <2> QED BY <2>1
<1>4. Grown(c)
  BY <1>1, <1>2, <1>3 DEF Grown
<1>5. node \notin TokenTypes
  BY NamesApart
<1>6. c.type = "identifier" => Yield[c] = <<"IDENTIFIER">>
  <2> SUFFICES ASSUME c.type = "identifier" PROVE Yield[c] = <<"IDENTIFIER">>
    OBVIOUS
  <2>1. Len(children) = 1 /\ children[1] = Leaf("IDENTIFIER") BY <1>1, <1>2 DEF Shape
  <2>2. children[1] \in ParseTrees /\ "IDENTIFIER" \in TokenTypes
    BY <1>3, <2>1 DEF TokenTypes
  <2>3. Yield[children[1]] = <<"IDENTIFIER">> BY <2>1, <2>2, LeafMeans
  <2>4. Yield[children[1]] \in AllTexts BY <2>3 DEF AllTexts, TokenTypes
  <2> QED BY <1>1, <2>1, <2>3, <2>4, YieldOf
<1>7. c.type = "literal" => Yield[c] = <<"LITERAL">>
  <2> SUFFICES ASSUME c.type = "literal" PROVE Yield[c] = <<"LITERAL">>
    OBVIOUS
  <2>1. Len(children) = 1 /\ children[1] = Leaf("LITERAL") BY <1>1, <1>2 DEF Shape
  <2>2. children[1] \in ParseTrees /\ "LITERAL" \in TokenTypes
    BY <1>3, <2>1 DEF TokenTypes
  <2>3. Yield[children[1]] = <<"LITERAL">> BY <2>1, <2>2, LeafMeans
  <2>4. Yield[children[1]] \in AllTexts BY <2>3 DEF AllTexts, TokenTypes
  <2> QED BY <1>1, <2>1, <2>3, <2>4, YieldOf
<1>8. c.type = "compound_statement" => StatementsMean(Child(c, 1))
  <2> SUFFICES ASSUME c.type = "compound_statement" PROVE StatementsMean(Child(c, 1))
    OBVIOUS
  <2>1. Len(children) = 3 /\ children[2].type = "statement_list" BY <1>1, <1>2 DEF Shape
  <2>2. Child(c, 1) = children[2] BY <1>1 DEF Child
  <2>3. Means(children[2])
    <3>1. 2 \in 1 .. Len(children) BY <2>1
    <3> QED BY <1>3, <3>1
  <2>4. StatementsMean(children[2]) BY <2>1, <2>3 DEF Means
  <2> QED BY <2>2, <2>4
<1>9. c.type = "primary_expression" =>
         /\ Unsplit(Yield[c]) /\ ~Signed(Yield[c])
         /\ OperandBy(Meaning, Yield[c]) = analyze_expression[c]
  BY <1>4, PrimaryMeans
<1>10. c.type = "unary_expression" =>
          Unsplit(Yield[c]) /\ Meaning[Yield[c]] = analyze_expression[c]
  BY <1>4, UnaryMeans
<1>11. c.type = "multiplicative_expression" =>
          /\ Closed(Yield[c]) /\ Sums(Yield[c]) = {}
          /\ Meaning[Yield[c]] = analyze_expression[c]
  BY <1>4, ProductMeans
<1>12. c.type = "additive_expression" =>
          Closed(Yield[c]) /\ Meaning[Yield[c]] = analyze_expression[c]
  BY <1>4, SumMeans
<1>13. c.type = "assignment_expression" =>
          \E v : /\ Closed(v) /\ Yield[c] = Assigned(v)
                 /\ Meaning[v] = analyze_expression[Child(c, 2)]
  BY <1>4, AssignmentMeans
<1>14. c.type = "statement" => analyze_statement(c) = StatementMeaning(Yield[c])
  BY <1>4, StatementMeans
<1>15. c.type = "statement_list" => StatementsMean(c)
  BY <1>4, ListMeans
<1>16. c.type \notin TokenTypes
  BY <1>1, <1>5
<1>17. Fits(c)
  BY <1>4, TranslationFits
<1>18. Means(c)
  BY <1>6, <1>7, <1>8, <1>9, <1>10, <1>11, <1>12, <1>13, <1>14, <1>15, <1>16, <1>17, Zenon
     DEF Means
<1> QED BY <1>18 DEF c

-----------------------------------------------------------------------------
(* Every node the parser makes means its text. *)

AllMean(children) ==
    \A k \in 1 .. Len(children) : children[k] \in ParseTrees => Means(children[k])

StackMeans(st) == \A i \in 1 .. Len(st) : AllMean(st[i].children)

FunctionMeans(f) ==
    f \in ParseTrees =>
        LET list == Child(get_compund_statement(f), 1)
        IN  \A i \in 1 .. get_number_of(list) :
                CreateAST(f)[i] = StatementMeaning(Yield[get_element(list, i - 1)])

(* The statements of a function are two levels below it. *)
BodyFits(f) ==
    f \in ParseTrees =>
        \E m \in Nat : /\ MaxHeight = m + 2
                       /\ StatementsOver(Child(get_compund_statement(f), 1), Expressions[m])

(* The children of the calls in progress, and the tree at the end. *)
MeaningInv ==
    /\ StackMeans(stack)
    /\ outcome = "tree" => FunctionMeans(tree) /\ BodyFits(tree)

(* One more child that means its text.                                     *)
LEMMA OneMoreMeans ==
  ASSUME NEW children, FittingChildren(children), AllMean(children),
         NEW c, c \in ParseTrees => Means(c)
  PROVE  AllMean(Append(children, c))
<1>1. PICK S : children \in Seq(S)
  BY DEF FittingChildren
<1> DEFINE n == Len(children)
           s == Append(children, c)
<1>2. /\ n \in Nat /\ Len(s) = n + 1 /\ s[n + 1] = c
      /\ \A k \in 1 .. n : s[k] = children[k]
  BY <1>1, OnTop
<1> HIDE DEF s
<1>3. ASSUME NEW k \in 1 .. Len(s), s[k] \in ParseTrees PROVE Means(s[k])
  <2>1. k \in 1 .. n \/ k = n + 1 BY <1>2
  <2>2. CASE k \in 1 .. n BY <1>2, <1>3, <2>2 DEF AllMean
  <2>3. CASE k = n + 1
    <3>1. s[k] = c BY <1>2, <2>3
    <3> QED BY <1>3, <3>1
  <2> QED BY <2>1, <2>2, <2>3
<1> QED BY <1>3 DEF AllMean, s

(* A new call has no children.                                             *)
LEMMA NoneMeans == AllMean(<<>>)
BY DEF AllMean

(* The top frame has other children than before, or the same. *)
LEMMA TopMeans ==
  ASSUME NEW F, NEW st \in Seq(F), Len(st) > 0, StackMeans(st), NEW f, AllMean(f.children)
  PROVE  StackMeans(Append(SubSeq(st, 1, Len(st) - 1), f))
<1> DEFINE n == Len(st)
           st2 == Append(SubSeq(st, 1, Len(st) - 1), f)
<1>1. /\ Len(st2) = n /\ st2[n] = f /\ n \in Nat
      /\ \A i \in 1 .. n - 1 : st2[i] = st[i]
  BY TopReplaced
<1> HIDE DEF st2
<1>2. ASSUME NEW i \in 1 .. n PROVE AllMean(st2[i].children)
  <2>1. CASE i = n BY <1>1, <2>1
  <2>2. CASE i # n
    <3>1. i \in 1 .. n - 1 BY <1>1, <2>2
    <3> QED BY <1>1, <3>1 DEF StackMeans
  <2> QED BY <2>1, <2>2
<1>3. StackMeans(st2) BY <1>1, <1>2 DEF StackMeans
<1> QED BY <1>3 DEF st2

(* A token that is taken becomes a leaf, and a leaf means itself.          *)
LEMMA ConsumeMeans ==
  ASSUME Inv, FormInv(stack), StackMeans(stack), Consume
  PROVE  StackMeans(stack')
<1> DEFINE rest == Tail(Top.todo)
           leaf == Leaf(Current.of)
           h == Going(Top, rest)
           f == [h EXCEPT !.children = Append(h.children, leaf)]
<1>1. /\ Todo /\ Current.kind = "terminal" /\ outcome = "reading" /\ Top.todo # <<>>
      /\ Current.kind # "has_error"
      /\ stack' = Append(SubSeq(stack, 1, Len(stack) - 1), f)
  BY DEF Consume, Matches, Todo, Callers
<1>2. PICK F : stack \in Seq(F)
  BY <1>1, Frames
<1>3. /\ Len(stack) > 0 /\ Len(stack) \in 1 .. Len(stack) /\ Top = stack[Len(stack)]
      /\ IsFrame(Top)
  BY <1>1, Frames
<1>4. Current.of \in TokenTypes
  <2>1. PICK g : StackFits(stack, g, phrase, next_token) BY <1>1, StackStands
  <2>2. PartOf(Top.node, Current) BY <1>1, <2>1, InFront
  <2> QED BY <1>1, <2>2 DEF PartOf
<1>5. FittingChildren(Top.children) /\ AllMean(Top.children)
  BY <1>3 DEF FormInv, CallFitsForm, StackMeans
<1>6. f.children = Append(Top.children, leaf)
  <2> HIDE DEF leaf, rest, Top
  <2>1. IsFrame(h) /\ h.children = Top.children BY <1>3, GoingFacts
  <2> HIDE DEF h
  <2> QED BY <2>1, ChildrenFacts
<1>7. leaf \in ParseTrees => Means(leaf)
  BY <1>4, LeafMeans
<1>8. AllMean(f.children)
  <2> HIDE DEF leaf, f, Top
  <2> QED BY <1>5, <1>6, <1>7, OneMoreMeans
<1> HIDE DEF f
<1> QED BY <1>1, <1>2, <1>3, <1>8, TopMeans

(* Announcing or dropping a part leaves the children alone.                *)
LEMMA ExpectMeans ==
  ASSUME Inv, FormInv(stack), StackMeans(stack), Expect
  PROVE  StackMeans(stack')
<1> DEFINE todo == Announced(Current, next_token) \o Tail(Top.todo)
           f == Going(Top, todo)
<1>1. outcome = "reading" /\ stack' = Append(SubSeq(stack, 1, Len(stack) - 1), f)
  BY DEF Expect, Todo, Callers
<1>2. PICK F : stack \in Seq(F)
  BY <1>1, Frames
<1>3. /\ Len(stack) > 0 /\ Len(stack) \in 1 .. Len(stack) /\ Top = stack[Len(stack)]
      /\ IsFrame(Top)
  BY <1>1, Frames
<1>4. AllMean(Top.children)
  BY <1>3 DEF StackMeans
<1>5. f.children = Top.children
  <2> HIDE DEF todo, Top
  <2> QED BY <1>3, GoingFacts
<1> HIDE DEF f
<1> QED BY <1>1, <1>2, <1>3, <1>4, <1>5, TopMeans

(* A call starts with no children.                                         *)
LEMMA CallParseMeans ==
  ASSUME Inv, FormInv(stack), StackMeans(stack), CallParse
  PROVE  StackMeans(stack')
<1> DEFINE n == Len(stack)
           h == Going(Top, Tail(Top.todo))
           st1 == Append(SubSeq(stack, 1, Len(stack) - 1), h)
           called == Frame(Current.of, Parts(Current.of, next_token),
                           next_token = Nullopt /\ Current.of \notin Leaves)
<1>1. outcome = "reading" /\ stack' = Append(st1, called)
  BY DEF CallParse, Todo, Callers
<1>2. PICK F : stack \in Seq(F)
  BY <1>1, Frames
<1>3. /\ n \in Nat /\ n > 0 /\ n \in 1 .. n /\ Top = stack[n] /\ IsFrame(Top)
  BY <1>1, Frames
<1>4. h.children = Top.children
  <2> HIDE DEF Top
  <2> QED BY <1>3, GoingFacts
<1>5. called.children = <<>>
  BY DEF Frame
<1>6. AllMean(Top.children)
  BY <1>3 DEF StackMeans
<1> HIDE DEF h, called
<1>7. st1 \in Seq(F \cup {h}) /\ Len(st1) = n
  BY <1>2, <1>3, TopReplaced
<1>8. StackMeans(st1)
  BY <1>2, <1>3, <1>4, <1>6, TopMeans
<1> HIDE DEF st1
<1>9. /\ Len(stack') = n + 1 /\ stack'[n + 1] = called
      /\ \A i \in 1 .. n : stack'[i] = st1[i]
  BY <1>1, <1>7, OnTop
<1> HIDE DEF n
<1>10. ASSUME NEW i \in 1 .. n + 1 PROVE AllMean(stack'[i].children)
  <2>1. CASE i = n + 1 BY <1>5, <1>9, <2>1, NoneMeans
  <2>2. CASE i # n + 1
    <3>1. i \in 1 .. n BY <1>3, <2>2
    <3> QED BY <1>7, <1>8, <1>9, <3>1 DEF StackMeans
  <2> QED BY <2>1, <2>2
<1> QED BY <1>9, <1>10 DEF StackMeans

(* The frame of the function, alone. *)
LEMMA AloneMeans ==
  ASSUME NEW f, AllMean(f.children)
  PROVE  StackMeans(<<f>>) /\ StackMeans(<<>>)
<1>1. Len(<<f>>) = 1 /\ <<f>>[1] = f
  OBVIOUS
<1>2. StackMeans(<<f>>)
  <2> DEFINE st == <<f>>
  <2> HIDE DEF st
  <2>1. Len(st) = 1 /\ st[1] = f BY <1>1 DEF st
  <2>2. StackMeans(st) BY <2>1 DEF StackMeans
  <2> QED BY <2>2 DEF st
<1>3. StackMeans(<<>>)
  BY DEF StackMeans
<1> QED BY <1>2, <1>3

(* What is abandoned makes no tree.                                        *)
LEMMA ReturnNullptrMeans ==
  ASSUME Inv, FormInv(stack), outcome = "reading", StackMeans(stack), ReturnNullptr
  PROVE  MeaningInv'
<1>1. AllMean(stack[1].children)
  <2>1. 1 \in 1 .. Len(stack) BY Frames
  <2> QED BY <2>1 DEF StackMeans
<1>2. StackMeans(<<stack[1]>>) /\ StackMeans(<<>>)
  BY <1>1, AloneMeans
<1>3. CASE Len(stack) > 1 /\ stack[2].node \in Declarations
  <2>1. stack' = <<stack[1]>> /\ outcome' = outcome BY <1>3 DEF ReturnNullptr
  <2>2. StackMeans(stack') BY <1>2, <2>1
  <2> QED BY <2>1, <2>2 DEF MeaningInv, StackMeans
<1>4. CASE ~(Len(stack) > 1 /\ stack[2].node \in Declarations)
  <2>1. stack' = <<>> /\ outcome' = "nullptr" BY <1>4 DEF ReturnNullptr
  <2>2. StackMeans(stack') BY <1>2, <2>1
  <2> QED BY <2>1, <2>2 DEF MeaningInv, StackMeans
<1> QED BY <1>3, <1>4

(* The test of has_error() ends the parse without a tree or goes on.       *)
LEMMA TestHasErrorMeans ==
  ASSUME Inv, FormInv(stack), StackMeans(stack), TestHasError
  PROVE  MeaningInv'
<1> DEFINE f == Going(Top, Tail(Top.todo))
<1>1. /\ outcome = "reading"
      /\ stack' = IF error_flag THEN <<>> ELSE <<f>>
      /\ outcome' = IF error_flag THEN "nullptr" ELSE outcome
  BY DEF TestHasError, Todo
<1>2. /\ Len(stack) \in 1 .. Len(stack) /\ Top = stack[Len(stack)] /\ IsFrame(Top)
  BY <1>1, Frames
<1>3. AllMean(Top.children)
  BY <1>2 DEF StackMeans
<1>4. f.children = Top.children
  <2> HIDE DEF Top
  <2> QED BY <1>2, GoingFacts
<1> HIDE DEF f
<1>5. StackMeans(<<f>>) /\ StackMeans(<<>>)
  BY <1>3, <1>4, AloneMeans
<1>6. StackMeans(stack') /\ outcome' # "tree"
  BY <1>1, <1>5
<1> QED BY <1>6 DEF MeaningInv, StackMeans

(* A completed node means its text because its children do: it becomes a   *)
(* child of its caller.                                                    *)
LEMMA ReturnNodeMeans ==
  ASSUME Inv, FormInv(stack), StackMeans(stack), ReturnNode
  PROVE  StackMeans(stack')
<1> DEFINE n == Len(stack)
           below == stack[n - 1]
           child == TreeNode(Top.node, Top.children, Top.stale)
           h == [below EXCEPT !.children = Append(below.children, child)]
<1>1. /\ outcome = "reading" /\ Top.todo = <<>> /\ n > 1
      /\ stack' = [SubSeq(stack, 1, n - 1) EXCEPT
                      ![n - 1] = [SubSeq(stack, 1, n - 1)[n - 1] EXCEPT !.children =
                         Append(SubSeq(stack, 1, n - 1)[n - 1].children, child)]]
  BY DEF ReturnNode, Callers
<1>2. \E F : stack \in Seq(F)
  BY <1>1, Frames
<1>3. /\ n \in Nat /\ n \in 1 .. n /\ Top = stack[n] /\ n - 1 \in 1 .. n
      /\ IsFrame(below) /\ Top.node # "function_definition"
  <2>1. /\ n \in Nat /\ Top = stack[n]
        /\ \A i \in 1 .. n : /\ IsFrame(stack[i])
                             /\ (stack[i].node = "function_definition") = (i = 1)
    BY <1>1, Frames
  <2>2. n \in 1 .. n /\ n - 1 \in 1 .. n /\ n # 1 BY <1>1, <2>1
  <2> QED BY <2>1, <2>2
<1>4. child \in ParseTrees => Means(child)
  <2>1. /\ Top.node \in Nodes /\ FittingChildren(Top.children)
        /\ FormFits(Top.node, Kids(Top.children) \o <<>>)
    BY <1>1, <1>3 DEF FormInv, CallFitsForm, FormOf, Awaited
  <2>2. Kids(Top.children) \o <<>> = Kids(Top.children)
    <3>1. Kids(Top.children) \in Seq(PartSet) BY <2>1, KidsAre
    <3> QED BY <3>1, ConcatEmptySeq
  <2>3. AllMean(Top.children) BY <1>3 DEF StackMeans
  <2> QED BY <2>1, <2>2, <2>3, NodeMeans DEF AllMean
<1> HIDE DEF child, Top
<1>5. FittingChildren(below.children) /\ AllMean(below.children)
  BY <1>3 DEF FormInv, CallFitsForm, StackMeans
<1>6. AllMean(h.children)
  <2>1. h.children = Append(below.children, child) BY <1>3, ChildrenFacts
  <2> QED BY <1>4, <1>5, <2>1, OneMoreMeans
<1>7. /\ Len(stack') = n - 1 /\ stack'[n - 1] = h
      /\ \A i \in 1 .. n - 2 : stack'[i] = stack[i]
  <2>1. SubSeq(stack, 1, n - 1)[n - 1] = below
    BY <1>1, <1>2, HandedDown
  <2>2. stack' = WithoutTop(stack, h) BY <1>1, <2>1 DEF WithoutTop
  <2> HIDE DEF h
  <2>3. /\ Len(WithoutTop(stack, h)) = Len(stack) - 1
        /\ WithoutTop(stack, h)[Len(stack) - 1] = h
        /\ \A i \in 1 .. Len(stack) : i < Len(stack) - 1 => WithoutTop(stack, h)[i] = stack[i]
    BY <1>1, <1>2, HandedDown
  <2>4. \A i \in 1 .. n - 2 : i \in 1 .. n /\ i < n - 1 BY <1>3
  <2> QED BY <2>2, <2>3, <2>4
<1> HIDE DEF h
<1>8. ASSUME NEW i \in 1 .. n - 1 PROVE AllMean(stack'[i].children)
  <2>1. i = n - 1 \/ i \in 1 .. n - 2
    <3>1. \A a \in Nat : \A b \in 1 .. a - 1 : b = a - 1 \/ b \in 1 .. a - 2 OBVIOUS
    <3> QED BY <1>3, <3>1
  <2>2. CASE i = n - 1 BY <1>6, <1>7, <2>2
  <2>3. CASE i \in 1 .. n - 2
    <3>1. i \in 1 .. n BY <1>3, <2>3
    <3> QED BY <1>7, <2>3, <3>1 DEF StackMeans
  <2> QED BY <2>1, <2>2, <2>3
<1> QED BY <1>7, <1>8 DEF StackMeans

(* The tree that is returned: its statements mean their texts.             *)
LEMMA FinishMeans ==
  ASSUME Inv, FormInv(stack), StackMeans(stack), Finish
  PROVE  MeaningInv'
<1>1. outcome = "reading" /\ Top.todo = <<>> /\ Len(stack) = 1 /\ stack' = <<>>
  BY DEF Finish
<1>2. StackMeans(stack')
  BY <1>1 DEF StackMeans
<1>3. CASE next_token # "EOS"
  <2>1. outcome' # "tree" BY <1>3 DEF Finish, AtEnd
  <2> QED BY <1>2, <2>1 DEF MeaningInv, StackMeans
<1>4. CASE next_token = "EOS"
  <2> DEFINE children == Top.children
             f == TreeNode("function_definition", FunctionChildren(children), Top.stale)
  <2>1. 1 \in 1 .. Len(stack) /\ Top = stack[1] /\ Top.node = "function_definition"
    BY <1>1, Frames
  <2>2. tree' = f BY <1>4, <2>1 DEF Finish, AtEnd
  <2> HIDE DEF Top
  <2>3. /\ FittingChildren(children) /\ AllMean(children)
        /\ FormFits("function_definition", Kids(children) \o <<>>)
    BY <1>1, <2>1 DEF FormInv, CallFitsForm, FormOf, Awaited, StackMeans
  <2>4. Kids(children) \o <<>> = Kids(children)
    <3>1. Kids(children) \in Seq(PartSet) BY <2>3, KidsAre
    <3> QED BY <3>1, ConcatEmptySeq
  <2>5. Occurs(Node("compound_statement"), Kids(children)) BY <2>3, <2>4 DEF FormFits
  <2>6. HasType(children, "compound_statement")
    <3> HIDE DEF children
    <3>1. PICK k \in 1 .. Len(Kids(children)) : Kids(children)[k] = Node("compound_statement")
      BY <2>5 DEF Occurs
    <3>2. k \in 1 .. Len(children) BY <2>3, KidsAre
    <3>3. children[k].type = "compound_statement" BY <2>3, <3>1, <3>2, KidTypes
    <3> QED BY <3>2, <3>3 DEF HasType
  <2>7. PICK S : children \in Seq(S) BY <2>3 DEF FittingChildren
  <2>8. /\ \E k \in 1 .. Len(children) :
              /\ get_compund_statement(f) = children[k]
              /\ children[k].type = "compound_statement"
        /\ \E k \in 1 .. Len(f.children) : get_compund_statement(f) = f.children[k]
    BY <2>6, <2>7, FunctionFinds
  <2> HIDE DEF f, children
  <2>9. ASSUME f \in ParseTrees PROVE FunctionMeans(f)
    <3> DEFINE body == get_compund_statement(f)
               list == Child(body, 1)
    <3>1. body \in ParseTrees
      <4>1. f.children \in Seq(ParseTrees) BY <2>9, ChildrenAreTrees
      <4> QED BY <2>8, <4>1
    <3>2. Means(body) /\ body.type = "compound_statement" BY <2>3, <2>8, <3>1 DEF AllMean
    <3> HIDE DEF body
    <3>3. StatementsMean(list) BY <3>2 DEF Means
    <3>4. ASSUME NEW i \in 1 .. get_number_of(list)
          PROVE  CreateAST(f)[i] = analyze_statement(get_element(list, i - 1))
      BY DEF CreateAST, body
    <3> QED BY <3>3, <3>4 DEF FunctionMeans, StatementsMean, body
  <2>10. FunctionMeans(f) BY <2>9 DEF FunctionMeans
  <2>11. ASSUME f \in ParseTrees
         PROVE  \E m \in Nat : /\ MaxHeight = m + 2
                               /\ StatementsOver(Child(get_compund_statement(f), 1),
                                                 Expressions[m])
    <3> DEFINE body == get_compund_statement(f)
    <3>1. PICK k \in 1 .. Len(f.children) : body = f.children[k] BY <2>8
    <3>2. MaxHeight \in Nat BY ExpressionAnalysisAssumption
    <3>3. Len(f.children) \in Nat /\ Len(f.children) # 0
      <4>1. f.children \in Seq(ParseTrees) BY <2>11, ChildrenAreTrees
      <4>2. Len(f.children) \in Nat BY <4>1
      <4> QED BY <3>1, <4>2
    <3> DEFINE h == MaxHeight - 1
    <3>4. h \in Nat /\ MaxHeight = h + 1
      <4>1. MaxHeight # 0 BY <2>11, <3>2, <3>3, LevelChildren DEF ParseTrees
      <4> QED BY <3>2, <4>1
    <3>5. body \in Trees[h]
      <4>1. f.children \in Seq(Trees[h])
        BY <2>11, <3>2, <3>3, LevelChildren DEF ParseTrees
      <4> QED BY <3>1, <4>1
    <3>6. Means(body) /\ body.type = "compound_statement"
      <4>1. f.children \in Seq(ParseTrees) BY <2>11, ChildrenAreTrees
      <4>2. body \in ParseTrees BY <3>1, <4>1
      <4> QED BY <2>3, <2>8, <4>2 DEF AllMean
    <3> HIDE DEF body, h
    <3>7. FitsIn(body, h) BY <3>4, <3>5, <3>6 DEF Means, Fits
    <3>8. PICK m \in Nat : h = m + 1 /\ StatementsOver(Child(body, 1), Expressions[m])
      BY <3>6, <3>7 DEF FitsIn
    <3>9. MaxHeight = m + 2 BY <3>4, <3>8
    <3> QED BY <3>8, <3>9 DEF body
  <2>12. BodyFits(f) BY <2>11 DEF BodyFits
  <2> QED BY <1>2, <2>2, <2>10, <2>12
          DEF MeaningInv, StackMeans, FunctionMeans, BodyFits
<1> QED BY <1>3, <1>4

(* The parser begins without children.                                     *)
LEMMA InitMeans == Init => MeaningInv
<1> SUFFICES ASSUME Init PROVE MeaningInv
  OBVIOUS
<1> DEFINE f == Frame("function_definition", FunctionParts, next_token = Nullopt)
<1>1. outcome = "reading" /\ stack = <<f>>
  BY DEF Init
<1>2. f.children = <<>>
  BY DEF Frame
<1> HIDE DEF f
<1>3. StackMeans(stack)
  BY <1>1, <1>2, NoneMeans, AloneMeans
<1> QED BY <1>1, <1>3 DEF MeaningInv

(* No step of the parser leaves a child that does not mean its text.       *)
LEMMA MeaningStep == Inv /\ TreeInv /\ MeaningInv /\ [Next]_vars => MeaningInv'
<1> SUFFICES ASSUME Inv, TreeInv, MeaningInv, [Next]_vars PROVE MeaningInv'
  OBVIOUS
<1>1. ASSUME Next PROVE outcome = "reading" /\ FormInv(stack) /\ StackMeans(stack)
  <2>1. outcome = "reading"
    BY <1>1 DEF Next, CallParse, Expect, Consume, Mismatch, NoAlternative, TestHasError,
                ReturnNode, Finish, Todo
  <2> QED BY <2>1 DEF TreeInv, MeaningInv
<1>2. ASSUME StackMeans(stack'), outcome' = "reading" PROVE MeaningInv'
  BY <1>2 DEF MeaningInv, StackMeans
<1>3. CASE CallParse
  <2>1. outcome' = "reading" BY <1>1, <1>3 DEF CallParse, Next
  <2> QED BY <1>1, <1>2, <1>3, <2>1, CallParseMeans DEF Next
<1>4. CASE Expect
  <2>1. outcome' = "reading" BY <1>1, <1>4 DEF Expect, Next
  <2> QED BY <1>1, <1>2, <1>4, <2>1, ExpectMeans DEF Next
<1>5. CASE Consume
  <2>1. outcome' = "reading" BY <1>1, <1>5 DEF Consume, Next
  <2> QED BY <1>1, <1>2, <1>5, <2>1, ConsumeMeans DEF Next
<1>6. CASE Mismatch
  BY <1>1, <1>6, ReturnNullptrMeans DEF Mismatch, Next
<1>7. CASE NoAlternative
  BY <1>1, <1>7, ReturnNullptrMeans DEF NoAlternative, Next
<1>8. CASE TestHasError
  BY <1>1, <1>8, TestHasErrorMeans DEF Next
<1>9. CASE ReturnNode
  <2>1. outcome' = "reading" BY <1>1, <1>9 DEF ReturnNode, Next
  <2> QED BY <1>1, <1>2, <1>9, <2>1, ReturnNodeMeans DEF Next
<1>10. CASE Finish
  BY <1>1, <1>10, FinishMeans DEF Next
<1>11. CASE UNCHANGED vars
  BY <1>11 DEF MeaningInv, StackMeans, FunctionMeans, BodyFits, vars
<1> QED BY <1>3, <1>4, <1>5, <1>6, <1>7, <1>8, <1>9, <1>10, <1>11 DEF Next

(* The AST of a function is what the text of its statements means,         *)
(* whatever the text is: the operators with their operands in their        *)
(* places, * and / before + and -, each one with everything that follows   *)
(* it at its level.                                                        *)
THEOREM AstAlwaysMeansText == Spec => []AstMeansText
<1>1. Init => Inv /\ TreeInv /\ MeaningInv BY InitInv, InitForm, InitMeans
<1>2. Inv /\ TreeInv /\ MeaningInv /\ [Next]_vars => (Inv /\ TreeInv /\ MeaningInv)'
  BY NextStep, FormStep, MeaningStep
<1>3. MeaningInv => AstMeansText
  BY DEF MeaningInv, FunctionMeans, AstMeansText
<1> QED BY <1>1, <1>2, <1>3, PTL DEF Spec
=============================================================================
