----------------------------- MODULE PrinterProofs -----------------------------
(***************************************************************************)
(* Theorems about the two printers, for every text: what they write is the *)
(* tree they print, or the AST made of it.                                 *)
(*                                                                         *)
(* A printer writes a node and what is below it in one go, and numbers the *)
(* nodes as it comes to them.  So a subtree is a stretch of the text and a *)
(* stretch of the numbers, and the text is put together from stretches     *)
(* that share neither.                                                     *)
(***************************************************************************)
EXTENDS DotPrinter, MeaningProofs

-----------------------------------------------------------------------------
(* The definitions of the recursive functions give these functions. *)

(* The next child is printed, with g for what prints a child. *)
Turn(g, node, printer, p, k) ==
    g[node.children[k]][[next_id |-> p.next_id,
                         out |-> Append(p.out, EdgeFrom(printer.next_id, p))]]
WrittenBy(g, node, printer) ==
    CHOOSE f : f = [k \in 0 .. Len(node.children) |->
                       IF k = 0 THEN write_labeled_node(printer, node.type)
                       ELSE Turn(g, node, printer, f[k - 1], k)]
WriteBy(g, node) ==
    [printer \in Printers |-> WrittenBy(g, node, printer)[Len(node.children)]]

(* A node is printed by printing one child after the other. *)
LEMMA WrittenIs ==
  ASSUME NEW g, NEW node, NEW printer, Len(node.children) \in Nat
  PROVE  LET f == WrittenBy(g, node, printer)
         IN  /\ f[0] = write_labeled_node(printer, node.type)
             /\ \A k \in 1 .. Len(node.children) :
                   f[k] = Turn(g, node, printer, f[k - 1], k)
<1> DEFINE n == Len(node.children)
           first == write_labeled_node(printer, node.type)
           Next_(p, k) == Turn(g, node, printer, p, k)
           Then(f, k) == IF k = 0 THEN first ELSE Next_(f[k - 1], k)
           Fix(f) == f = [k \in 0 .. n |-> Then(f, k)]
           Good(f, m) == \A k \in 0 .. m : f[k] = Then(f, k)
           P == {m \in Nat : \E f : Good(f, m)}
<1>1. n \in Nat
  OBVIOUS
<1>2. WrittenBy(g, node, printer) = CHOOSE f : Fix(f)
  BY DEF WrittenBy
<1> HIDE DEF n, first, Next_
<1>3. 0 \in P
  <2>1. Good([k \in {0} |-> first], 0)
    OBVIOUS
  <2> QED BY <2>1
<1>4. ASSUME NEW m \in Nat, m \in P PROVE m + 1 \in P
  <2>1. PICK f : Good(f, m) BY <1>4
  <2> DEFINE h == [k \in 0 .. m + 1 |-> IF k = m + 1 THEN Next_(f[m], m + 1) ELSE f[k]]
  <2>2. ASSUME NEW k \in 0 .. m + 1 PROVE h[k] = Then(h, k)
    <3>1. CASE k = m + 1
      <4>1. k - 1 = m /\ k # 0 /\ h[m] = f[m] /\ h[k] = Next_(f[m], m + 1) BY <3>1
      <4> HIDE DEF h
      <4> QED BY <3>1, <4>1
    <3>2. CASE k # m + 1
      <4>1. k \in 0 .. m /\ h[k] = f[k] /\ f[k] = Then(f, k) BY <2>1, <3>2
      <4>2. k # 0 => k - 1 \in 0 .. m /\ k - 1 # m + 1 /\ h[k - 1] = f[k - 1] BY <4>1
      <4> HIDE DEF h
      <4> QED BY <4>1, <4>2
    <3> QED BY <3>1, <3>2
  <2> HIDE DEF h
  <2>3. Good(h, m + 1) BY <2>2
  <2> HIDE DEF Good
  <2> QED BY <2>3
<1>5. \E f : Good(f, n)
  <2> HIDE DEF P
  <2>1. \A m \in Nat : m \in P BY <1>3, <1>4, Induction
  <2> QED BY <1>1, <2>1 DEF P
<1>6. \E f : Fix(f)
  <2>1. PICK f : Good(f, n) BY <1>5
  <2> DEFINE h == [k \in 0 .. n |-> f[k]]
  <2>2. ASSUME NEW k \in 0 .. n PROVE h[k] = Then(h, k)
    <3>1. h[k] = f[k] /\ f[k] = Then(f, k) BY <2>1
    <3>2. k # 0 => k - 1 \in 0 .. n /\ h[k - 1] = f[k - 1] BY <1>1
    <3> HIDE DEF h
    <3> QED BY <3>1, <3>2
  <2>3. h = [k \in 0 .. n |-> h[k]]
    OBVIOUS
  <2> HIDE DEF h, Then
  <2>4. h = [k \in 0 .. n |-> Then(h, k)] BY <2>2, <2>3
  <2> QED BY <2>4
<1> DEFINE c == CHOOSE f : Fix(f)
<1>7. Fix(c)
  <2> HIDE DEF Fix
  <2> QED BY <1>6
<1> HIDE DEF c
<1>8. \A k \in 0 .. n : c[k] = Then(c, k)
  BY <1>7
<1>9. /\ c[0] = first
      /\ \A k \in 1 .. n : c[k] = Next_(c[k - 1], k)
  BY <1>1, <1>8
<1> QED BY <1>2, <1>9 DEF c, n, first, Next_

(* What is written of a node depends on its children only. *)
LEMMA WriteIsLocal ==
  ASSUME NEW S, NEW node, node.children \in Seq(S), NEW g, NEW h,
         \A y \in S : g[y] = h[y]
  PROVE  WriteBy(g, node) = WriteBy(h, node)
<1> DEFINE s == node.children
           G(f, p) == [k \in 0 .. Len(s) |->
                          IF k = 0 THEN write_labeled_node(p, node.type)
                          ELSE Turn(g, node, p, f[k - 1], k)]
           H(f, p) == [k \in 0 .. Len(s) |->
                          IF k = 0 THEN write_labeled_node(p, node.type)
                          ELSE Turn(h, node, p, f[k - 1], k)]
<1>1. ASSUME NEW f, NEW p PROVE G(f, p) = H(f, p)
  <2>1. ASSUME NEW k \in 0 .. Len(s), k # 0, NEW q
        PROVE  Turn(g, node, p, q, k) = Turn(h, node, p, q, k)
    <3>1. k \in 1 .. Len(s) BY <2>1
    <3>2. s[k] \in S BY <3>1
    <3> QED BY <3>2 DEF Turn
  <2> HIDE DEF s
  <2> QED BY <2>1
<1>2. ASSUME NEW p PROVE WrittenBy(g, node, p) = WrittenBy(h, node, p)
  <2>1. (CHOOSE f : f = G(f, p)) = (CHOOSE f : f = H(f, p))
    <3> HIDE DEF G, H
    <3> QED BY <1>1, Zenon
  <2> QED BY <2>1 DEF WrittenBy
<1> QED BY <1>2 DEF WriteBy

LEMMA WriteDefined ==
  \A x \in ParseTrees : write_node[x] = WriteBy(write_node, x)
<1> DEFINE Good(g, n) == \A x \in Trees[n] : g[x] = WriteBy(g, x)
           P == {n \in Nat : \E g : Good(g, n)}
           Fix(f) == f = [x \in ParseTrees |-> WriteBy(f, x)]
<1>1. 0 \in P
  <2> DEFINE h == [x \in Trees[0] |-> WriteBy(<<>>, x)]
  <2>1. ASSUME NEW x \in Trees[0] PROVE h[x] = WriteBy(h, x)
    <3>1. x.children \in Seq({})
      <4>1. x.children = <<>> BY LevelChildren
      <4> QED BY <4>1
    <3>2. h[x] = WriteBy(<<>>, x) OBVIOUS
    <3> HIDE DEF h
    <3>3. WriteBy(<<>>, x) = WriteBy(h, x) BY <3>1, WriteIsLocal
    <3> QED BY <3>2, <3>3
  <2> HIDE DEF h
  <2>2. Good(h, 0) BY <2>1
  <2> QED BY <2>2
<1>2. ASSUME NEW n \in Nat, n \in P PROVE n + 1 \in P
  <2>1. PICK g : Good(g, n) BY <1>2
  <2> DEFINE h == [x \in Trees[n + 1] |-> WriteBy(g, x)]
  <2>2. ASSUME NEW y \in Trees[n] PROVE g[y] = h[y]
    BY <2>1, TreesGrow
  <2>3. ASSUME NEW x \in Trees[n + 1] PROVE h[x] = WriteBy(h, x)
    <3>1. x.children \in Seq(Trees[n]) BY LevelChildren
    <3>2. h[x] = WriteBy(g, x) OBVIOUS
    <3> HIDE DEF h
    <3>3. WriteBy(g, x) = WriteBy(h, x) BY <2>2, <3>1, WriteIsLocal
    <3> QED BY <3>2, <3>3
  <2> HIDE DEF h
  <2>4. Good(h, n + 1) BY <2>3
  <2> HIDE DEF Good
  <2> QED BY <2>4
<1>3. \E g : Good(g, MaxHeight)
  <2> HIDE DEF P
  <2>1. \A n \in Nat : n \in P BY <1>1, <1>2, Induction
  <2> QED BY <2>1, ExpressionAnalysisAssumption DEF P
<1>4. \E f : Fix(f)
  <2>1. PICK g : Good(g, MaxHeight) BY <1>3
  <2> DEFINE f == [x \in ParseTrees |-> WriteBy(g, x)]
  <2>2. ASSUME NEW y \in ParseTrees PROVE g[y] = f[y]
    BY <2>1 DEF ParseTrees
  <2>3. ASSUME NEW x \in ParseTrees PROVE WriteBy(g, x) = WriteBy(f, x)
    <3> HIDE DEF f
    <3>1. x.children \in Seq(ParseTrees) BY ChildrenAreTrees
    <3> QED BY <2>2, <3>1, WriteIsLocal
  <2>4. Fix(f)
    BY <2>3, Zenon
  <2> HIDE DEF Fix
  <2> QED BY <2>4
<1>5. write_node = CHOOSE f : Fix(f)
  BY DEF write_node, WriteBy, WrittenBy, Turn
<1>6. Fix(write_node)
  <2> HIDE DEF Fix
  <2> QED BY <1>4, <1>5
<1> QED BY <1>6

(* The edges from a node. *)
EdgesFrom(out, id) == {k \in Places(out, "source") : out[k].id = id}

(* Is a tree drawn below a node, with g for the trees below it? *)
DrawsBy(out, g, shown) ==
    [id \in Nat |->
        /\ Piece("node", id, shown.type) \in {out[k] : k \in 1 .. Len(out)}
        /\ Cardinality(EdgesFrom(out, id)) = Len(shown.children)
        /\ \A i \in 1 .. Len(shown.children) : \E k \in EdgesFrom(out, id) :
              /\ Cardinality({l \in EdgesFrom(out, id) : l =< k}) = i
              /\ g[shown.children[i]][out[k + 1].id]]

(* A reader looks for the children of a tree only. *)
LEMMA DrawsIsLocal ==
  ASSUME NEW out, NEW S, NEW node, node.children \in Seq(S), NEW g, NEW h,
         \A y \in S : g[y] = h[y]
  PROVE  DrawsBy(out, g, node) = DrawsBy(out, h, node)
<1>1. \A i \in 1 .. Len(node.children) : g[node.children[i]] = h[node.children[i]]
  OBVIOUS
<1> DEFINE G(id) == \A i \in 1 .. Len(node.children) : \E k \in EdgesFrom(out, id) :
              /\ Cardinality({l \in EdgesFrom(out, id) : l =< k}) = i
              /\ g[node.children[i]][out[k + 1].id]
           H(id) == \A i \in 1 .. Len(node.children) : \E k \in EdgesFrom(out, id) :
              /\ Cardinality({l \in EdgesFrom(out, id) : l =< k}) = i
              /\ h[node.children[i]][out[k + 1].id]
<1>2. \A id : G(id) = H(id)
  BY <1>1
<1> HIDE DEF G, H
<1>3. DrawsBy(out, g, node) =
        [id \in Nat |->
            /\ Piece("node", id, node.type) \in {out[k] : k \in 1 .. Len(out)}
            /\ Cardinality(EdgesFrom(out, id)) = Len(node.children)
            /\ G(id)]
  BY DEF DrawsBy, G
<1>4. DrawsBy(out, h, node) =
        [id \in Nat |->
            /\ Piece("node", id, node.type) \in {out[k] : k \in 1 .. Len(out)}
            /\ Cardinality(EdgesFrom(out, id)) = Len(node.children)
            /\ H(id)]
  BY DEF DrawsBy, H
<1> QED BY <1>2, <1>3, <1>4

LEMMA DrawsDefined ==
  ASSUME NEW out
  PROVE  \A x \in ParseTrees : Draws(out)[x] = DrawsBy(out, Draws(out), x)
<1> DEFINE Good(g, n) == \A x \in Trees[n] : g[x] = DrawsBy(out, g, x)
           P == {n \in Nat : \E g : Good(g, n)}
           Fix(f) == f = [x \in ParseTrees |-> DrawsBy(out, f, x)]
<1>0. ASSUME NEW S, NEW node, node.children \in Seq(S), NEW g, NEW h,
             \A y \in S : g[y] = h[y]
      PROVE  DrawsBy(out, g, node) = DrawsBy(out, h, node)
  BY <1>0, DrawsIsLocal
<1>1. 0 \in P
  <2> DEFINE h == [x \in Trees[0] |-> DrawsBy(out, <<>>, x)]
  <2>1. ASSUME NEW x \in Trees[0] PROVE h[x] = DrawsBy(out, h, x)
    <3>1. x.children \in Seq({})
      <4>1. x.children = <<>> BY LevelChildren
      <4> QED BY <4>1
    <3>2. h[x] = DrawsBy(out, <<>>, x) OBVIOUS
    <3> HIDE DEF h
    <3>3. DrawsBy(out, <<>>, x) = DrawsBy(out, h, x) BY <3>1, <1>0
    <3> QED BY <3>2, <3>3
  <2> HIDE DEF h
  <2>2. Good(h, 0) BY <2>1
  <2> QED BY <2>2
<1>2. ASSUME NEW n \in Nat, n \in P PROVE n + 1 \in P
  <2>1. PICK g : Good(g, n) BY <1>2
  <2> DEFINE h == [x \in Trees[n + 1] |-> DrawsBy(out, g, x)]
  <2>2. ASSUME NEW y \in Trees[n] PROVE g[y] = h[y]
    BY <2>1, TreesGrow
  <2>3. ASSUME NEW x \in Trees[n + 1] PROVE h[x] = DrawsBy(out, h, x)
    <3>1. x.children \in Seq(Trees[n]) BY LevelChildren
    <3>2. h[x] = DrawsBy(out, g, x) OBVIOUS
    <3> HIDE DEF h
    <3>3. DrawsBy(out, g, x) = DrawsBy(out, h, x) BY <2>2, <3>1, <1>0
    <3> QED BY <3>2, <3>3
  <2> HIDE DEF h
  <2>4. Good(h, n + 1) BY <2>3
  <2> HIDE DEF Good
  <2> QED BY <2>4
<1>3. \E g : Good(g, MaxHeight)
  <2> HIDE DEF P
  <2>1. \A n \in Nat : n \in P BY <1>1, <1>2, Induction
  <2> QED BY <2>1, ExpressionAnalysisAssumption DEF P
<1>4. \E f : Fix(f)
  <2>1. PICK g : Good(g, MaxHeight) BY <1>3
  <2> DEFINE f == [x \in ParseTrees |-> DrawsBy(out, g, x)]
  <2>2. ASSUME NEW y \in ParseTrees PROVE g[y] = f[y]
    BY <2>1 DEF ParseTrees
  <2>3. ASSUME NEW x \in ParseTrees PROVE DrawsBy(out, g, x) = DrawsBy(out, f, x)
    <3> HIDE DEF f
    <3>1. x.children \in Seq(ParseTrees) BY ChildrenAreTrees
    <3> QED BY <2>2, <3>1, <1>0
  <2>4. Fix(f)
    BY <2>3, Zenon
  <2> HIDE DEF Fix
  <2> QED BY <2>4
<1>5. Draws(out) = CHOOSE f : Fix(f)
  BY DEF Draws, DrawsBy, EdgesFrom
<1>6. Fix(Draws(out))
  <2> HIDE DEF Fix
  <2> QED BY <1>4, <1>5
<1> QED BY <1>6

AllExpressions == Expressions[MaxHeight]

LEMMA OperandsAreExpressions == AllExpressions \subseteq Over(AllExpressions)
<1>1. MaxHeight \in Nat BY ExpressionAnalysisAssumption
<1>2. AllExpressions \subseteq Expressions[MaxHeight + 1]
  BY <1>1, ExpressionsGrow DEF AllExpressions
<1> QED BY <1>1, <1>2, ExpressionsGrow DEF AllExpressions

(* What is visited of an expression, with g for its operands. *)
VisitBy(g, x) ==
    CASE x.kind = "Unary"  -> TreeNode(x.operation, <<g[x.input]>>, FALSE)
      [] x.kind = "Binary" ->
            TreeNode(x.operation, <<g[x.left], g[x.right]>>, FALSE)
      [] x.kind \in {"Identifier", "Literal"} -> Leaf(x.kind)

LEMMA VisitIsLocal ==
  ASSUME NEW S, NEW x \in Over(S), NEW g, NEW h, \A y \in S : g[y] = h[y]
  PROVE  VisitBy(g, x) = VisitBy(h, x)
<1>1. CASE x.kind \in {"Identifier", "Literal"}
  BY <1>1 DEF VisitBy
<1>2. CASE x.kind = "Unary"
  <2>1. x.input \in S BY <1>2, OverMore
  <2> QED BY <1>2, <2>1 DEF VisitBy
<1>3. CASE x.kind = "Binary"
  <2>1. x.left \in S /\ x.right \in S BY <1>3, OverMore
  <2> QED BY <1>3, <2>1 DEF VisitBy
<1> QED BY <1>1, <1>2, <1>3, OverMore

LEMMA VisitDefined ==
  \E f : /\ \A x \in AllExpressions : f[x] = VisitBy(f, x)
         /\ \A x : visit(x) = f[x]
<1> DEFINE Good(g, n) == \A x \in Expressions[n] : g[x] = VisitBy(g, x)
           P == {n \in Nat : \E g : Good(g, n)}
           Fix(f) == f = [x \in AllExpressions |-> VisitBy(f, x)]
<1>1. 0 \in P
  <2> DEFINE h == [x \in Expressions[0] |-> VisitBy(<<>>, x)]
  <2>1. ASSUME NEW x \in Expressions[0] PROVE h[x] = VisitBy(h, x)
    <3>1. x \in Over({}) BY ExpressionsGrow
    <3>2. h[x] = VisitBy(<<>>, x) OBVIOUS
    <3> HIDE DEF h
    <3>3. VisitBy(<<>>, x) = VisitBy(h, x) BY <3>1, VisitIsLocal
    <3> QED BY <3>2, <3>3
  <2> HIDE DEF h
  <2>2. Good(h, 0) BY <2>1
  <2> QED BY <2>2
<1>2. ASSUME NEW n \in Nat, n \in P PROVE n + 1 \in P
  <2>1. PICK g : Good(g, n) BY <1>2
  <2> DEFINE h == [x \in Expressions[n + 1] |-> VisitBy(g, x)]
  <2>2. ASSUME NEW y \in Expressions[n] PROVE g[y] = h[y]
    BY <2>1, ExpressionsGrow
  <2>3. ASSUME NEW x \in Expressions[n + 1] PROVE h[x] = VisitBy(h, x)
    <3>1. x \in Over(Expressions[n]) BY ExpressionsGrow
    <3>2. h[x] = VisitBy(g, x) OBVIOUS
    <3> HIDE DEF h
    <3>3. VisitBy(g, x) = VisitBy(h, x) BY <2>2, <3>1, VisitIsLocal
    <3> QED BY <3>2, <3>3
  <2> HIDE DEF h
  <2>4. Good(h, n + 1) BY <2>3
  <2> HIDE DEF Good
  <2> QED BY <2>4
<1>3. \E g : Good(g, MaxHeight)
  <2> HIDE DEF P
  <2>1. \A n \in Nat : n \in P BY <1>1, <1>2, Induction
  <2> QED BY <2>1, ExpressionAnalysisAssumption DEF P
<1>4. \E f : Fix(f)
  <2>1. PICK g : Good(g, MaxHeight) BY <1>3
  <2> DEFINE f == [x \in AllExpressions |-> VisitBy(g, x)]
  <2>2. ASSUME NEW y \in AllExpressions PROVE g[y] = f[y]
    BY <2>1 DEF AllExpressions
  <2>3. ASSUME NEW x \in AllExpressions PROVE VisitBy(g, x) = VisitBy(f, x)
    <3> HIDE DEF f
    <3>1. x \in Over(AllExpressions) BY OperandsAreExpressions
    <3> QED BY <2>2, <3>1, VisitIsLocal
  <2>4. Fix(f)
    BY <2>3, Zenon
  <2> HIDE DEF Fix
  <2> QED BY <2>4
<1> DEFINE c == CHOOSE f : Fix(f)
<1>5. ASSUME NEW e PROVE visit(e) = c[e]
  BY DEF visit, VisitBy, AllExpressions
<1>6. Fix(c)
  <2> HIDE DEF Fix
  <2> QED BY <1>4
<1> HIDE DEF c
<1> QED BY <1>5, <1>6

(* Nodes made of trees are trees. *)
LEMMA TreesMade ==
  ASSUME NEW n \in Nat, NEW type \in ParseTreeNames \cup ASTNames, NEW stale \in BOOLEAN
  PROVE  /\ TreeNode(type, <<>>, stale) \in Trees[n]
         /\ \A children \in Seq(Trees[n]) : TreeNode(type, children, stale) \in Trees[n + 1]
<1>1. \A S : \A children \in S : TreeNode(type, children, stale) \in Above(S)
  BY DEF TreeNode, Above
<1>2. ASSUME NEW m \in Nat, NEW children \in Seq(Trees[m])
      PROVE  TreeNode(type, children, stale) \in Trees[m + 1]
  <2>1. m + 1 \in Nat /\ m + 1 # 0 /\ (m + 1) - 1 = m OBVIOUS
  <2>2. Trees[m + 1] = Above(Seq(Trees[m])) BY <2>1, TreesDefined DEF ChildrenUpTo
  <2> QED BY <1>1, <2>2
<1>3. CASE n = 0
  <2>1. Trees[0] = Above({<<>>}) BY TreesDefined DEF ChildrenUpTo
  <2> QED BY <1>1, <1>2, <1>3, <2>1
<1>4. CASE n # 0
  <2>1. n - 1 \in Nat /\ (n - 1) + 1 = n BY <1>4
  <2>2. <<>> \in Seq(Trees[n - 1]) OBVIOUS
  <2>3. TreeNode(type, <<>>, stale) \in Trees[(n - 1) + 1] BY <1>2, <2>1, <2>2
  <2> QED BY <1>2, <2>1, <2>3
<1> QED BY <1>3, <1>4

(* Sequences of one element or two. *)
LEMMA ShortSequences ==
  ASSUME NEW S, NEW x \in S, NEW y \in S
  PROVE  <<x>> \in Seq(S) /\ <<x, y>> \in Seq(S)
OBVIOUS

(* What is visited of an expression is a tree no higher than it. *)
LEMMA VisitFits ==
  \A n \in Nat : n =< MaxHeight => \A x \in Expressions[n] : visit(x) \in Trees[n]
<1>1. PICK f : /\ \A x \in AllExpressions : f[x] = VisitBy(f, x)
               /\ \A x : visit(x) = f[x]
  BY VisitDefined
<1> DEFINE Visited(n) == \A x \in Expressions[n] : x \in AllExpressions => f[x] \in Trees[n]
           P == {n \in Nat : Visited(n)}
<1>2. ASSUME NEW n \in Nat, NEW S, NEW x \in Over(S), x \in AllExpressions,
             n = 0 => S = {}, n # 0 => S = Expressions[n - 1] /\ Visited(n - 1)
      PROVE  f[x] \in Trees[n]
  <2>1. CASE x.kind \in {"Identifier", "Literal"}
    <3>1. x.kind \in ASTNames BY <2>1 DEF ASTNames
    <3>2. f[x] = TreeNode(x.kind, <<>>, FALSE) BY <1>1, <1>2, <2>1 DEF VisitBy, Leaf
    <3> QED BY <3>1, <3>2, TreesMade
  <2>2. CASE x.kind \in {"Unary", "Binary"}
    <3>1. n # 0
      <4>1. x.kind = "Unary" => x.input \in S BY <1>2, OverMore
      <4>2. x.kind = "Binary" => x.left \in S BY <1>2, OverMore
      <4> QED BY <1>2, <2>2, <4>1, <4>2
    <3>2. n - 1 \in Nat /\ (n - 1) + 1 = n BY <3>1
    <3>3. \A y \in S : y \in AllExpressions => f[y] \in Trees[n - 1]
      BY <1>2, <3>1
    <3>4. x \in Over(AllExpressions) BY <1>2, OperandsAreExpressions
    <3>5. CASE x.kind = "Unary"
      <4>1. x.operation \in OperatorTypes /\ x.input \in S /\ x.input \in AllExpressions
        BY <1>2, <3>4, <3>5, OverMore
      <4>0. x.operation \in ASTNames BY <4>1 DEF ASTNames
      <4>2. f[x] = TreeNode(x.operation, <<f[x.input]>>, FALSE)
        BY <1>1, <1>2, <3>5 DEF VisitBy
      <4>3. f[x.input] \in Trees[n - 1] BY <3>3, <4>1
      <4>4. <<f[x.input]>> \in Seq(Trees[n - 1]) BY <4>3, ShortSequences
      <4> QED BY <3>2, <4>0, <4>2, <4>4, TreesMade
    <3>6. CASE x.kind = "Binary"
      <4>1. /\ x.operation \in OperatorTypes /\ x.left \in S /\ x.left \in AllExpressions
            /\ x.right \in S /\ x.right \in AllExpressions
        BY <1>2, <3>4, <3>6, OverMore
      <4>0. x.operation \in ASTNames BY <4>1 DEF ASTNames
      <4>2. f[x] = TreeNode(x.operation, <<f[x.left], f[x.right]>>, FALSE)
        BY <1>1, <1>2, <3>6 DEF VisitBy
      <4>3. f[x.left] \in Trees[n - 1] /\ f[x.right] \in Trees[n - 1] BY <3>3, <4>1
      <4>4. <<f[x.left], f[x.right]>> \in Seq(Trees[n - 1]) BY <4>3, ShortSequences
      <4> QED BY <3>2, <4>0, <4>2, <4>4, TreesMade
    <3> QED BY <2>2, <3>5, <3>6
  <2> QED BY <1>2, <2>1, <2>2, OverMore
<1>3. 0 \in P
  <2>1. ASSUME NEW x \in Expressions[0], x \in AllExpressions PROVE f[x] \in Trees[0]
    <3>1. x \in Over({}) BY ExpressionsGrow
    <3> HIDE DEF Visited
    <3> QED BY <1>2, <2>1, <3>1
  <2> QED BY <2>1
<1>4. ASSUME NEW n \in Nat, n \in P PROVE n + 1 \in P
  <2>1. n + 1 \in Nat /\ n + 1 # 0 /\ (n + 1) - 1 = n OBVIOUS
  <2>2. ASSUME NEW x \in Expressions[n + 1], x \in AllExpressions
        PROVE  f[x] \in Trees[n + 1]
    <3>1. x \in Over(Expressions[n]) BY ExpressionsGrow
    <3>2. Visited((n + 1) - 1) BY <1>4, <2>1
    <3> HIDE DEF Visited
    <3> QED BY <1>2, <2>1, <2>2, <3>1, <3>2
  <2> QED BY <2>1, <2>2
<1>5. \A n \in Nat : n \in P
  <2> HIDE DEF P
  <2> QED BY <1>3, <1>4, Induction
<1>6. \A n \in Nat : n =< MaxHeight => Expressions[n] \subseteq AllExpressions
  <2> DEFINE Q == {d \in Nat : \A n \in Nat : n + d = MaxHeight =>
                                   Expressions[n] \subseteq AllExpressions}
  <2>1. 0 \in Q BY DEF AllExpressions
  <2>2. ASSUME NEW d \in Nat, d \in Q PROVE d + 1 \in Q
    <3>1. ASSUME NEW n \in Nat, n + (d + 1) = MaxHeight
          PROVE  Expressions[n] \subseteq AllExpressions
      <4>1. n + 1 \in Nat /\ (n + 1) + d = MaxHeight BY <3>1
      <4>2. Expressions[n + 1] \subseteq AllExpressions BY <2>2, <4>1
      <4> QED BY <4>2, ExpressionsGrow
    <3> QED BY <3>1
  <2> HIDE DEF Q
  <2>3. \A d \in Nat : d \in Q BY <2>1, <2>2, Induction
  <2>4. ASSUME NEW n \in Nat, n =< MaxHeight PROVE Expressions[n] \subseteq AllExpressions
    <3>1. MaxHeight - n \in Nat /\ n + (MaxHeight - n) = MaxHeight
      BY <2>4, ExpressionAnalysisAssumption
    <3>2. MaxHeight - n \in Q BY <2>3, <3>1
    <3> QED BY <3>1, <3>2 DEF Q
  <2> QED BY <2>4
<1> QED BY <1>1, <1>5, <1>6

-----------------------------------------------------------------------------
(* One node after the other. *)

Begins(part, out) ==
    /\ Len(part) =< Len(out)
    /\ \A k \in 1 .. Len(part) : out[k] = part[k]

(* The printer between two nodes: what it has written is a tree, of all    *)
(* the numbers it has given.                                               *)
Between(id, out) ==
    /\ id \in Nat /\ id > 0 /\ out \in Seq(Pieces)
    /\ WellFormed(out)
    /\ Ids(out, "node") = 0 .. id - 1
    /\ \A k \in Places(out, "source") : out[k].id < id

(* The printer where a node is to be written: nothing is written yet, or   *)
(* an edge has just been started.                                          *)
Edge(id) == Piece("source", id, NoLabel)
Ready(id, out) ==
    \/ id = 0 /\ out = <<>>
    \/ \E before \in Seq(Pieces), from \in Nat :
          Between(id, before) /\ from < id /\ out = Append(before, Edge(from))

LEMMA PieceFacts ==
  /\ \A id \in Nat : Edge(id) \in Pieces /\ Edge(id).what = "source" /\ Edge(id).id = id
  /\ \A id \in Nat : /\ Piece("target", id, NoLabel) \in Pieces
                     /\ Piece("target", id, NoLabel).what = "target"
                     /\ Piece("target", id, NoLabel).id = id
  /\ \A id \in Nat, label \in ParseTreeNames \cup ASTNames :
        /\ Piece("node", id, label) \in Pieces
        /\ Piece("node", id, label).what = "node"
        /\ Piece("node", id, label).id = id
<1>1. NoLabel \in Labels /\ \A label \in ParseTreeNames \cup ASTNames : label \in Labels
  BY DEF Labels
<1>2. ASSUME NEW what \in {"source", "target", "node"}, NEW id \in Nat, NEW label \in Labels
      PROVE  /\ Piece(what, id, label) \in Pieces
             /\ Piece(what, id, label).what = what
             /\ Piece(what, id, label).id = id
  BY DEF Piece, Pieces
<1> QED BY <1>1, <1>2 DEF Edge

(* A piece is written, of the kind what. *)
Adds(out, x, new) == out \in Seq(Pieces) /\ x \in Pieces /\ new = Append(out, x)
Grows(out, x, new, what) ==
    /\ new \in Seq(Pieces) /\ Len(new) = Len(out) + 1 /\ new[Len(out) + 1] = x
    /\ Begins(out, new)
    /\ Places(new, what) = Places(out, what) \cup {Len(out) + 1}
    /\ Ids(new, what) = Ids(out, what) \cup {x.id}
    /\ \A other : other # what => /\ Places(new, other) = Places(out, other)
                                  /\ Ids(new, other) = Ids(out, other)

LEMMA Added ==
  ASSUME NEW out, NEW x, NEW new, Adds(out, x, new)
  PROVE  Grows(out, x, new, x.what)
<1> DEFINE n == Len(out)
<1>1. /\ new \in Seq(Pieces) /\ Len(new) = n + 1 /\ new[n + 1] = x /\ n \in Nat
      /\ \A k \in 1 .. n : new[k] = out[k]
  BY DEF Adds
<1>2. Begins(out, new)
  BY <1>1 DEF Begins
<1>3. ASSUME NEW k PROVE k \in 1 .. n + 1 <=> k \in 1 .. n \/ k = n + 1
  BY <1>1
<1> HIDE DEF n
<1>4. ASSUME NEW what
      PROVE  Places(new, what) = Places(out, what) \cup (IF what = x.what THEN {n + 1} ELSE {})
  <2>1. ASSUME NEW k
        PROVE  k \in Places(new, what)
                 <=> k \in Places(out, what) \/ (what = x.what /\ k = n + 1)
    BY <1>1, <1>3 DEF Places, n
  <2> QED BY <2>1
<1>5. ASSUME NEW what, NEW k \in Places(out, what) PROVE new[k] = out[k]
  BY <1>1 DEF Places, n
<1>6. Ids(new, x.what) = Ids(out, x.what) \cup {x.id}
  <2>1. Ids(new, x.what) = {new[k].id : k \in Places(out, x.what) \cup {n + 1}}
    <3>1. Places(new, x.what) = Places(out, x.what) \cup {n + 1} BY <1>4
    <3> QED BY <3>1, Zenon DEF Ids
  <2>2. \A k \in Places(out, x.what) : new[k].id = out[k].id BY <1>5
  <2>3. Ids(new, x.what) = {new[k].id : k \in Places(out, x.what)} \cup {new[n + 1].id}
    BY <2>1
  <2>4. {new[k].id : k \in Places(out, x.what)} = {out[k].id : k \in Places(out, x.what)}
    BY <2>2
  <2> QED BY <1>1, <2>3, <2>4 DEF Ids
<1>7. ASSUME NEW what, what # x.what PROVE Ids(new, what) = Ids(out, what)
  <2>1. Places(new, what) = Places(out, what) BY <1>4, <1>7
  <2> QED BY <1>5, <2>1 DEF Ids
<1>8. Places(new, x.what) = Places(out, x.what) \cup {n + 1}
  BY <1>4
<1>9. ASSUME NEW what, what # x.what PROVE Places(new, what) = Places(out, what)
  BY <1>4, <1>9
<1> QED BY <1>1, <1>2, <1>6, <1>7, <1>8, <1>9 DEF Grows, n

LEMMA BeginsAll ==
  ASSUME NEW a \in Seq(Pieces), NEW b \in Seq(Pieces), NEW c \in Seq(Pieces)
  PROVE  /\ Begins(a, a)
         /\ Begins(a, b) /\ Begins(b, c) => Begins(a, c)
         /\ Begins(a, b) => \A what : /\ Places(a, what) \subseteq Places(b, what)
                                      /\ \A k \in Places(a, what) : b[k] = a[k]
<1>1. Len(a) \in Nat /\ Len(b) \in Nat /\ Len(c) \in Nat
  OBVIOUS
<1> QED BY <1>1 DEF Begins, Places

(* After a tree b: the start of an edge, its end and a label are written.  *)
Extended(id, from, b, S, p, E, e, N, q) ==
    /\ id \in Nat /\ id > 0 /\ from \in Nat /\ from < id
    /\ b \in Seq(Pieces) /\ Between(id, b)
    /\ S.what = "source" /\ S.id = from /\ Adds(b, S, p)
    /\ E.what = "target" /\ E.id = id /\ Adds(p, E, e)
    /\ N.what = "node" /\ N.id = id /\ Adds(e, N, q)

LEMMA LabelledOut ==
  ASSUME NEW id, NEW from, NEW b, NEW S, NEW p, NEW E, NEW e, NEW N, NEW q,
         Extended(id, from, b, S, p, E, e, N, q)
  PROVE  /\ Between(id + 1, q) /\ Begins(p, q) /\ Len(p) < Len(q)
         /\ Places(q, "source") = Places(p, "source")
         /\ q[Len(p) + 1].id = id
         /\ N \in {q[k] : k \in 1 .. Len(q)}
<1> USE DEF Extended
<1> DEFINE n == Len(b)
<1>1. /\ WellFormed(b) /\ Ids(b, "node") = 0 .. id - 1
      /\ \A k \in Places(b, "source") : b[k].id < id
  BY DEF Between
<1>2. "source" # "target" /\ "target" # "node" /\ "node" # "source"
  OBVIOUS
<1>3. /\ p \in Seq(Pieces) /\ Len(p) = n + 1 /\ p[n + 1] = S
      /\ Begins(b, p)
      /\ Places(p, "source") = Places(b, "source") \cup {n + 1}
      /\ Places(p, "target") = Places(b, "target")
      /\ Places(p, "node") = Places(b, "node")
      /\ Ids(p, "target") = Ids(b, "target")
      /\ Ids(p, "node") = Ids(b, "node")
  <2>1. Grows(b, S, p, "source") BY Added
  <2> QED BY <1>2, <2>1 DEF Grows
<1>4. /\ e \in Seq(Pieces) /\ Len(e) = Len(p) + 1 /\ e[Len(p) + 1] = E
      /\ Begins(p, e)
      /\ Places(e, "source") = Places(p, "source")
      /\ Places(e, "target") = Places(p, "target") \cup {Len(p) + 1}
      /\ Places(e, "node") = Places(p, "node")
      /\ Ids(e, "target") = Ids(p, "target") \cup {id}
      /\ Ids(e, "node") = Ids(p, "node")
  <2>1. Grows(p, E, e, "target") BY Added
  <2> QED BY <1>2, <2>1 DEF Grows
<1>5. /\ q \in Seq(Pieces) /\ Len(q) = Len(e) + 1 /\ q[Len(e) + 1] = N
      /\ Begins(e, q)
      /\ Places(q, "source") = Places(e, "source")
      /\ Places(q, "target") = Places(e, "target")
      /\ Places(q, "node") = Places(e, "node") \cup {Len(e) + 1}
      /\ Ids(q, "target") = Ids(e, "target")
      /\ Ids(q, "node") = Ids(e, "node") \cup {id}
  <2>1. Grows(e, N, q, "node") BY Added
  <2> QED BY <1>2, <2>1 DEF Grows
<1>6. n \in Nat /\ Len(p) + 1 = n + 2 /\ Len(e) = n + 2 /\ Len(e) + 1 = n + 3
  BY <1>3, <1>4
<1>7. Begins(p, q) /\ Begins(b, q)
  BY <1>3, <1>4, <1>5, BeginsAll
<1> HIDE DEF n
<1>8. /\ Places(q, "source") = Places(b, "source") \cup {n + 1}
      /\ Places(q, "target") = Places(b, "target") \cup {n + 2}
      /\ Places(q, "node") = Places(b, "node") \cup {n + 3}
      /\ Ids(q, "target") = Ids(b, "target") \cup {id}
      /\ Ids(q, "node") = Ids(b, "node") \cup {id}
  BY <1>3, <1>4, <1>5, <1>6
<1>9. q[n + 1] = S /\ q[n + 2] = E /\ q[n + 3] = N
  <2>1. n + 1 \in 1 .. Len(p) /\ n + 2 \in 1 .. Len(e)
    BY <1>3, <1>6
  <2> QED BY <1>3, <1>4, <1>5, <1>6, <1>7, <2>1 DEF Begins
<1>10. \A what : \A k \in Places(b, what) : q[k] = b[k]
  BY <1>5, <1>7, BeginsAll
<1>11. WellFormed(q)
  <2>1. {k + 1 : k \in Places(q, "source")} = Places(q, "target")
    <3>1. (n + 1) + 1 = n + 2 BY <1>6
    <3>2. {k + 1 : k \in Places(b, "source")} = Places(b, "target")
      BY <1>1 DEF WellFormed
    <3>3. {k + 1 : k \in Places(q, "source")}
            = {k + 1 : k \in Places(b, "source")} \cup {(n + 1) + 1}
      BY <1>8
    <3> QED BY <1>8, <3>1, <3>2, <3>3
  <2>2. ASSUME NEW what \in {"node", "target"}, NEW k \in Places(q, what),
               NEW l \in Places(q, what), q[k].id = q[l].id
        PROVE  k = l
    <3> DEFINE last == IF what = "node" THEN n + 3 ELSE n + 2
    <3>1. Places(q, what) = Places(b, what) \cup {last}
      BY <1>2, <1>8
    <3>2. q[last].id = id
      BY <1>9
    <3>3. Ids(b, what) \subseteq 0 .. id - 1
      BY <1>1 DEF WellFormed
    <3> HIDE DEF last
    <3>4. \A j \in Places(b, what) : q[j].id = b[j].id /\ b[j].id \in 0 .. id - 1
      BY <1>10, <3>3 DEF Ids
    <3>5. \A i, j \in Places(b, what) : b[i].id = b[j].id => i = j
      BY <1>1 DEF WellFormed
    <3>6. id \notin 0 .. id - 1
      OBVIOUS
    <3> QED BY <2>2, <3>1, <3>2, <3>4, <3>5, <3>6
  <2>3. /\ Ids(q, "node") = {0} \cup Ids(q, "target")
        /\ 0 \notin Ids(q, "target")
    <3>1. Ids(b, "node") = {0} \cup Ids(b, "target") /\ 0 \notin Ids(b, "target")
      BY <1>1 DEF WellFormed
    <3> QED BY <1>8, <3>1
  <2> QED BY <2>1, <2>2, <2>3 DEF WellFormed
<1>12. Ids(q, "node") = 0 .. (id + 1) - 1
  <2>1. (0 .. id - 1) \cup {id} = 0 .. (id + 1) - 1
    OBVIOUS
  <2> QED BY <1>1, <1>8, <2>1
<1>13. \A k \in Places(q, "source") : q[k].id < id + 1
  <2>1. ASSUME NEW k \in Places(b, "source") PROVE q[k].id = b[k].id /\ b[k].id < id /\ b[k].id \in Nat
    <3>1. b[k] \in Pieces BY DEF Places
    <3> QED BY <1>1, <1>10, <3>1 DEF Pieces
  <2> QED BY <1>8, <1>9, <2>1
<1>14. Between(id + 1, q)
  BY <1>5, <1>11, <1>12, <1>13 DEF Between
<1>15. n + 3 \in 1 .. Len(q) /\ Len(p) < Len(q)
  BY <1>3, <1>5, <1>6
<1> QED BY <1>3, <1>4, <1>5, <1>6, <1>7, <1>9, <1>14, <1>15


(* The number and the label of a node are new, and so is the end of the    *)
(* edge to it.                                                             *)
LEMMA Labelled ==
  ASSUME NEW p \in Printers, Ready(p.next_id, p.out),
         NEW label \in ParseTreeNames \cup ASTNames,
         NEW q, q = write_labeled_node(p, label)
  PROVE  /\ Between(q.next_id, q.out) /\ q.next_id = p.next_id + 1
         /\ q \in Printers
         /\ Begins(p.out, q.out) /\ Len(p.out) < Len(q.out)
         /\ Places(q.out, "source") = Places(p.out, "source")
         /\ p.next_id > 0 => q.out[Len(p.out) + 1].id = p.next_id
         /\ Piece("node", p.next_id, label) \in {q.out[k] : k \in 1 .. Len(q.out)}
<1> DEFINE id == p.next_id
           out == p.out
           E == Piece("target", id, NoLabel)
           N == Piece("node", id, label)
<1>1. id \in Nat /\ out \in Seq(Pieces)
  BY DEF Printers
<1>2. /\ E \in Pieces /\ E.what = "target" /\ E.id = id
      /\ N \in Pieces /\ N.what = "node" /\ N.id = id
  BY <1>1, PieceFacts
<1>3. q = [next_id |-> id + 1,
           out |-> out \o (IF id > 0 THEN <<E>> ELSE <<>>) \o <<N>>]
  BY Zenon DEF write_labeled_node
<1> DEFINE e == Append(out, E)
           labelled == Append(e, N)
           alone == Append(out, N)
<1> HIDE DEF id, out, E, N
<1>4. /\ Piece("node", p.next_id, label) = N
      /\ id = p.next_id /\ out = p.out
      /\ Ready(id, out)
  BY DEF N, id, out
<1>5. /\ out \o <<E>> \o <<N>> = labelled
      /\ e \in Seq(Pieces) /\ labelled \in Seq(Pieces)
      /\ out \o <<>> \o <<N>> = alone /\ alone \in Seq(Pieces)
  BY <1>1, <1>2
<1>0. ASSUME NEW w \in Seq(Pieces), q = [next_id |-> id + 1, out |-> w]
      PROVE  q.next_id = id + 1 /\ q.out = w /\ q \in Printers
  <2>1. id + 1 \in Nat BY <1>1
  <2> HIDE DEF labelled, alone, e
  <2>2. [next_id |-> id + 1, out |-> w] \in Printers BY <2>1 DEF Printers
  <2> QED BY <1>0, <2>2
<1>6. CASE id = 0
  <2>1. out = <<>>
    BY <1>4, <1>6 DEF Ready, Between
  <2>2. q.next_id = id + 1 /\ q.out = alone /\ q \in Printers
    <3>1. out \o (IF id > 0 THEN <<E>> ELSE <<>>) \o <<N>> = alone
      <4>1. ~(id > 0) BY <1>6
      <4> HIDE DEF alone
      <4> QED BY <1>5, <4>1
    <3>2. q = [next_id |-> id + 1, out |-> alone] BY <1>3, <3>1
    <3> HIDE DEF alone
    <3> QED BY <1>0, <1>5, <3>2
  <2>3. Adds(out, N, q.out)
    BY <1>1, <1>2, <2>2 DEF Adds
  <2>4. Grows(out, N, q.out, "node")
    BY <1>2, <2>3, Added
  <2>5. /\ \A what : Places(out, what) = {}
        /\ \A what : Ids(out, what) = {}
        /\ Len(out) = 0
    BY <2>1 DEF Places, Ids
  <2>6. /\ q.out \in Seq(Pieces) /\ Len(q.out) = 1 /\ q.out[1] = N
        /\ Places(q.out, "node") = {1} /\ Ids(q.out, "node") = {0}
        /\ Places(q.out, "source") = {} /\ Places(q.out, "target") = {}
        /\ Ids(q.out, "target") = {}
        /\ Begins(out, q.out)
    <3>1. "source" # "node" /\ "target" # "node" OBVIOUS
    <3>2. Len(out) + 1 = 1 BY <2>5
    <3> QED BY <1>2, <1>6, <2>4, <2>5, <3>1, <3>2 DEF Grows
  <2>7. WellFormed(q.out)
    BY <2>6 DEF WellFormed
  <2>8. Between(id + 1, q.out)
    <3>1. 0 .. (0 + 1) - 1 = {0} /\ 0 + 1 \in Nat /\ 0 + 1 > 0 OBVIOUS
    <3> QED BY <1>6, <2>6, <2>7, <3>1 DEF Between
  <2>9. N \in {q.out[k] : k \in 1 .. Len(q.out)} BY <2>6
  <2>10. Places(q.out, "source") = Places(out, "source") /\ Len(out) < Len(q.out)
    <3>1. 0 < 1 OBVIOUS
    <3>2. Len(out) < Len(q.out) BY <2>5, <2>6, <3>1, Zenon
    <3> QED BY <2>5, <2>6, <3>2, Zenon
  <2> HIDE DEF alone
  <2> QED BY <1>4, <1>6, <2>2, <2>6, <2>8, <2>9, <2>10
<1>7. CASE id > 0
  <2>1. id # 0 BY <1>1, <1>7
  <2>2. PICK b \in Seq(Pieces), from \in Nat :
             Between(id, b) /\ from < id /\ out = Append(b, Edge(from))
    BY <1>4, <2>1 DEF Ready
  <2>3. Edge(from) \in Pieces /\ Edge(from).what = "source" /\ Edge(from).id = from
    BY <2>2, PieceFacts
  <2>4. q.next_id = id + 1 /\ q.out = labelled /\ q \in Printers
    <3>1. out \o (IF id > 0 THEN <<E>> ELSE <<>>) \o <<N>> = labelled
      <4> HIDE DEF labelled
      <4> QED BY <1>5, <1>7
    <3>2. q = [next_id |-> id + 1, out |-> labelled] BY <1>3, <3>1
    <3> HIDE DEF labelled
    <3> QED BY <1>0, <1>5, <3>2
  <2>5. Adds(b, Edge(from), out) /\ Adds(out, E, e) /\ Adds(e, N, q.out)
    BY <1>1, <1>2, <1>5, <2>2, <2>3, <2>4 DEF Adds
  <2> HIDE DEF e, labelled, alone
  <2>6. Extended(id, from, b, Edge(from), out, E, e, N, q.out)
    BY <1>1, <1>2, <1>7, <2>2, <2>3, <2>5 DEF Extended
  <2>7. /\ Between(id + 1, q.out) /\ Begins(out, q.out) /\ Len(out) < Len(q.out)
        /\ Places(q.out, "source") = Places(out, "source")
        /\ q.out[Len(out) + 1].id = id
        /\ N \in {q.out[k] : k \in 1 .. Len(q.out)}
    BY <2>6, LabelledOut
  <2> QED BY <1>4, <2>4, <2>7
<1>8. id = 0 \/ id > 0
  BY <1>1
<1> QED BY <1>6, <1>7, <1>8


LEMMA ReadyNumbers ==
  ASSUME NEW id, NEW out, Ready(id, out)
  PROVE  \A k \in Places(out, "source") : out[k].id < id
<1>1. CASE out = <<>>
  BY <1>1 DEF Places
<1>2. CASE out # <<>>
  <2>1. PICK b \in Seq(Pieces), from \in Nat :
             Between(id, b) /\ from < id /\ out = Append(b, Edge(from))
    BY <1>2 DEF Ready
  <2>2. Edge(from) \in Pieces /\ Edge(from).what = "source" /\ Edge(from).id = from
    BY <2>1, PieceFacts
  <2>3. Adds(b, Edge(from), out)
    BY <2>1, <2>2 DEF Adds
  <2>4. Grows(b, Edge(from), out, "source")
    BY <2>2, <2>3, Added
  <2>5. \A k \in Places(b, "source") : out[k] = b[k] /\ b[k].id < id
    <3>1. out \in Seq(Pieces) /\ Begins(b, out) BY <2>4 DEF Grows
    <3>2. \A k \in Places(b, "source") : out[k] = b[k] BY <3>1, BeginsAll
    <3> QED BY <2>1, <3>2 DEF Between
  <2> QED BY <2>1, <2>2, <2>4, <2>5 DEF Grows
<1> QED BY <1>1, <1>2

(* From p to q one node and what is below it is written, with the numbers  *)
(* from p.next_id up.                                                      *)
Writes(p, q) ==
    /\ q \in Printers /\ Between(q.next_id, q.out)
    /\ q.next_id > p.next_id
    /\ Begins(p.out, q.out) /\ Len(p.out) < Len(q.out)
    /\ \A k \in Places(q.out, "source") :
          k > Len(p.out) => q.out[k].id >= p.next_id
    /\ p.next_id > 0 => q.out[Len(p.out) + 1].id = p.next_id

(* Whatever is written after q, as long as no edge starts there from one   *)
(* of the nodes lo, lo + 1, ... of q, node id is shown.                    *)
Apart(out, q, lo) ==
    \A k \in Places(out, "source") :
        k > Len(q.out) => out[k].id \notin lo .. q.next_id - 1
Shows(node, id, q, lo) ==
    \A out \in Seq(Pieces) :
        Begins(q.out, out) /\ Apart(out, q, lo) => Draws(out)[node][id]

Prints(node, p, q) == Writes(p, q) /\ Shows(node, p.next_id, q, p.next_id)

(* A node and k of its children are written.                               *)
Fewer(node, p, q, k) ==
    LET edges == EdgesFrom(q.out, p.next_id)
    IN  /\ Piece("node", p.next_id, node.type) \in {q.out[l] : l \in 1 .. Len(q.out)}
        /\ IsFiniteSet(edges) /\ Cardinality(edges) = k
        /\ \A i \in 1 .. k : \E e \in edges :
              /\ Cardinality({l \in edges : l =< e}) = i
              /\ Shows(node.children[i], q.out[e + 1].id, q, p.next_id + 1)
WritesChildren(node, p, q, k) == Writes(p, q) /\ Fewer(node, p, q, k)

LEMMA NoChildYet ==
  ASSUME NEW p \in Printers, Ready(p.next_id, p.out), NEW node,
         node.type \in ParseTreeNames \cup ASTNames,
         NEW q, q = write_labeled_node(p, node.type)
  PROVE  WritesChildren(node, p, q, 0)
<1>1. /\ Between(q.next_id, q.out) /\ q.next_id = p.next_id + 1
      /\ q \in Printers
      /\ Begins(p.out, q.out) /\ Len(p.out) < Len(q.out)
      /\ Places(q.out, "source") = Places(p.out, "source")
      /\ p.next_id > 0 => q.out[Len(p.out) + 1].id = p.next_id
      /\ Piece("node", p.next_id, node.type) \in {q.out[k] : k \in 1 .. Len(q.out)}
  BY Labelled
<1>2. p.out \in Seq(Pieces) /\ q.out \in Seq(Pieces) /\ p.next_id \in Nat
  BY <1>1 DEF Printers
<1>3. ASSUME NEW k \in Places(q.out, "source")
      PROVE  k =< Len(p.out) /\ q.out[k].id < p.next_id
  <2>1. k \in Places(p.out, "source") BY <1>1
  <2>2. q.out[k] = p.out[k] BY <1>1, <1>2, <2>1, BeginsAll
  <2>3. k \in 1 .. Len(p.out) BY <2>1 DEF Places
  <2> QED BY <1>2, <2>1, <2>2, <2>3, ReadyNumbers
<1>4. EdgesFrom(q.out, p.next_id) = {}
  BY <1>2, <1>3 DEF EdgesFrom
<1>5. Writes(p, q)
  <2>1. q.next_id > p.next_id BY <1>1, <1>2
  <2>2. Len(p.out) \in Nat BY <1>2
  <2>3. \A k \in Places(q.out, "source") : k \in Int
    BY <1>2 DEF Places
  <2> QED BY <1>1, <1>3, <2>1, <2>2, <2>3 DEF Writes
<1>6. IsFiniteSet({}) /\ Cardinality({}) = 0
  BY FS_EmptySet
<1>7. Fewer(node, p, q, 0)
  BY <1>1, <1>4, <1>6 DEF Fewer
<1> QED BY <1>5, <1>7 DEF WritesChildren


(* The start of the edge to the next child is written.                     *)
Turned(p, q, s) ==
    s = [next_id |-> q.next_id, out |-> Append(q.out, Edge(p.next_id))]

LEMMA NextReady ==
  ASSUME NEW p \in Printers, NEW q, Writes(p, q),
         NEW s, Turned(p, q, s)
  PROVE  /\ s \in Printers /\ Ready(s.next_id, s.out)
         /\ s.next_id = q.next_id
         /\ Grows(q.out, Edge(p.next_id), s.out, "source")
         /\ Edge(p.next_id).id = p.next_id /\ Edge(p.next_id).what = "source"
<1>1. p.next_id \in Nat
  BY DEF Printers
<1>2. /\ q.next_id \in Nat /\ q.out \in Seq(Pieces)
      /\ Between(q.next_id, q.out) /\ p.next_id < q.next_id
  BY <1>1 DEF Writes, Printers
<1>3. /\ Edge(p.next_id) \in Pieces /\ Edge(p.next_id).what = "source"
      /\ Edge(p.next_id).id = p.next_id
  BY <1>1, PieceFacts
<1> DEFINE new == Append(q.out, Edge(p.next_id))
<1>4. new \in Seq(Pieces)
  BY <1>2, <1>3
<1>5. Adds(q.out, Edge(p.next_id), new) /\ Ready(q.next_id, new)
  BY <1>1, <1>2, <1>3 DEF Adds, Ready
<1> HIDE DEF new
<1>6. Grows(q.out, Edge(p.next_id), new, "source")
  BY <1>3, <1>5, Added
<1>7. s = [next_id |-> q.next_id, out |-> new]
  BY DEF Turned, new
<1>8. s.next_id = q.next_id /\ s.out = new /\ s \in Printers
  BY <1>2, <1>4, <1>7 DEF Printers
<1> QED BY <1>3, <1>5, <1>6, <1>8

(* The next child is written.                                              *)
LEMMA NextChild ==
  ASSUME NEW p \in Printers, NEW node, NEW q, NEW k \in Nat,
         WritesChildren(node, p, q, k),
         NEW s, Turned(p, q, s),
         NEW r, Prints(node.children[k + 1], s, r)
  PROVE  WritesChildren(node, p, r, k + 1)
<1> DEFINE lo == p.next_id
           mid == q.next_id
           hi == r.next_id
           l == Len(p.out)
           m == Len(q.out)
           n == Len(r.out)
           Before == EdgesFrom(q.out, lo)
           After == EdgesFrom(r.out, lo)
<1>1. /\ s \in Printers /\ s.next_id = q.next_id
      /\ Grows(q.out, Edge(lo), s.out, "source")
      /\ Edge(lo).id = lo /\ Edge(lo).what = "source"
  BY NextReady DEF WritesChildren
<1>2. /\ p.out \in Seq(Pieces) /\ q.out \in Seq(Pieces)
      /\ s.out \in Seq(Pieces) /\ r.out \in Seq(Pieces)
      /\ Len(s.out) = m + 1
  BY <1>1 DEF WritesChildren, Prints, Writes, Printers, Grows
<1>3. /\ Begins(p.out, q.out) /\ Begins(q.out, s.out) /\ Begins(s.out, r.out)
      /\ Begins(p.out, r.out) /\ Begins(q.out, r.out)
  <2>1. Begins(p.out, q.out) BY DEF WritesChildren, Writes
  <2>2. Begins(s.out, r.out) BY DEF Prints, Writes
  <2>3. Begins(q.out, s.out) BY <1>1 DEF Grows
  <2>4. Begins(q.out, r.out) BY <1>2, <2>2, <2>3, BeginsAll
  <2>5. Begins(p.out, r.out) BY <1>2, <2>1, <2>4, BeginsAll
  <2> QED BY <2>1, <2>2, <2>3, <2>4, <2>5
<1>4. lo \in Nat /\ mid \in Nat /\ hi \in Nat /\ n \in Nat /\ m \in Nat /\ l \in Nat
  <2>1. p.next_id \in Nat /\ q.next_id \in Nat /\ r.next_id \in Nat
    BY DEF WritesChildren, Prints, Writes, Printers
  <2>2. \A x \in Seq(Pieces) : Len(x) \in Nat
    OBVIOUS
  <2>3. Len(p.out) \in Nat /\ Len(q.out) \in Nat /\ Len(r.out) \in Nat
    BY <1>2, <2>2, Zenon
  <2> QED BY <2>1, <2>3, Zenon
<1>5. l < m /\ m + 1 < n /\ lo < mid /\ mid < hi
  <2>1. l < m /\ mid > lo
    BY DEF WritesChildren, Writes
  <2>2. Len(s.out) < n /\ hi > s.next_id
    BY DEF Prints, Writes
  <2> HIDE DEF l, m, lo, mid, hi, n
  <2>3. s.next_id = mid /\ Len(s.out) = m + 1 BY <1>1, <1>2 DEF mid
  <2> QED BY <1>4, <2>1, <2>2, <2>3
<1>6. /\ l = Len(p.out) /\ m = Len(q.out) /\ n = Len(r.out)
       /\ lo = p.next_id /\ mid = q.next_id /\ hi = r.next_id
  OBVIOUS
<1> HIDE DEF l, m, n, lo, mid, hi
<1>7. r.out[m + 1] = Edge(lo) /\ r.out[(m + 1) + 1].id = mid
  <2>1. m + 1 \in 1 .. Len(s.out) /\ mid > 0
    <3>1. Len(s.out) = m + 1 BY <1>2
    <3>2. m + 1 \in 1 .. m + 1 /\ mid > 0 BY <1>4, <1>5
    <3> QED BY <3>1, <3>2, Zenon
  <2>2. s.out[m + 1] = Edge(lo) BY <1>1 DEF Grows, m, lo
  <2>3. r.out[m + 1] = s.out[m + 1] BY <1>3, <2>1 DEF Begins
  <2>4. s.next_id > 0 => r.out[Len(s.out) + 1].id = s.next_id
    BY DEF Prints, Writes
  <2>5. s.next_id = mid /\ Len(s.out) = m + 1 BY <1>1, <1>2, <1>6
  <2> QED BY <2>1, <2>2, <2>3, <2>4, <2>5
<1>8. ASSUME NEW j \in Places(r.out, "source")
      PROVE  /\ j \in Nat
             /\ j =< m => j \in Places(q.out, "source") /\ r.out[j] = q.out[j]
             /\ j > m => r.out[j].id = lo \/ r.out[j].id >= mid
             /\ j > m + 1 => r.out[j].id >= mid
             /\ r.out[j].id \in Nat
  <2>1. j \in 1 .. n /\ r.out[j].what = "source" BY <1>6 DEF Places
  <2>2. j \in Nat BY <1>4, <2>1
  <2>3. r.out[j].id \in Nat
    <3>1. r.out[j] \in Pieces BY <1>2, <2>1 DEF n
    <3> QED BY <3>1 DEF Pieces
  <2>4. ASSUME j =< m PROVE j \in Places(q.out, "source") /\ r.out[j] = q.out[j]
    <3>1. j \in 1 .. m BY <1>4, <2>1, <2>4
    <3>2. r.out[j] = q.out[j] BY <1>3, <1>6, <3>1 DEF Begins
    <3> QED BY <1>6, <2>1, <3>1, <3>2 DEF Places
  <2>5. j > m + 1 => r.out[j].id >= mid
    <3>1. j > Len(s.out) => r.out[j].id >= s.next_id BY DEF Prints, Writes
    <3> QED BY <1>1, <1>2, <1>6, <3>1
  <2>6. j > m => j = m + 1 \/ j > m + 1 BY <1>4, <2>2
  <2> QED BY <1>1, <1>7, <2>2, <2>3, <2>4, <2>5, <2>6 DEF lo
<1>9. /\ m + 1 \in Places(r.out, "source")
      /\ \A j \in Places(q.out, "source") : /\ j \in Places(r.out, "source")
                                            /\ r.out[j] = q.out[j] /\ j \in 1 .. m
  <2>1. m + 1 \in 1 .. n BY <1>4, <1>5
  <2>2. Edge(lo).what = "source" BY <1>1, <1>6
  <2>3. m + 1 \in Places(r.out, "source")
    BY <1>6, <1>7, <2>1, <2>2 DEF Places
  <2>4. \A j \in Places(q.out, "source") : j \in 1 .. m BY <1>6 DEF Places
  <2> QED BY <1>2, <1>3, <2>3, <2>4, BeginsAll
<1>10. After = Before \cup {m + 1} /\ \A j \in Before : j \in 1 .. m
  <2>1. ASSUME NEW j \in After PROVE j \in Before \cup {m + 1}
    <3>1. j \in Places(r.out, "source") /\ r.out[j].id = lo BY <2>1 DEF EdgesFrom
    <3>2. ~(j > m + 1) BY <1>4, <1>5, <1>8, <3>1
    <3>3. j \in Nat BY <1>8, <3>1
    <3>4. j =< m \/ j = m + 1 BY <1>4, <3>2, <3>3
    <3> QED BY <1>8, <3>1, <3>4 DEF EdgesFrom
  <2>2. ASSUME NEW j \in Before PROVE j \in After /\ j \in 1 .. m
    BY <1>9, <2>2 DEF EdgesFrom
  <2>3. m + 1 \in After
    <3>1. Edge(lo).id = lo BY <1>1, <1>6
    <3> QED BY <1>7, <1>9, <3>1 DEF EdgesFrom
  <2> HIDE DEF Before, After
  <2> QED BY <2>1, <2>2, <2>3
<1>11. /\ IsFiniteSet(Before) /\ Cardinality(Before) = k
       /\ Cardinality(After) = k + 1 /\ IsFiniteSet(After)
  <2>1. IsFiniteSet(Before) /\ Cardinality(Before) = k
    BY <1>6 DEF WritesChildren, Fewer
  <2> HIDE DEF Before, After
  <2>2. m + 1 \notin Before
    <3>1. m + 1 \notin 1 .. m BY <1>4
    <3> QED BY <1>10, <3>1
  <2> QED BY <1>10, <2>1, <2>2, FS_AddElement
<1>12. ASSUME NEW x, NEW id, Shows(x, id, q, lo + 1) PROVE Shows(x, id, r, lo + 1)
  <2> SUFFICES ASSUME NEW out \in Seq(Pieces), Begins(r.out, out), Apart(out, r, lo + 1)
               PROVE  Begins(q.out, out) /\ Apart(out, q, lo + 1)
    BY <1>12 DEF Shows
  <2>1. Begins(q.out, out) BY <1>2, <1>3, BeginsAll
  <2>2. ASSUME NEW j \in Places(out, "source"), j > m, NEW i, i = out[j].id
        PROVE  i \notin lo + 1 .. mid - 1
    <3>1. j \in 1 .. Len(out) BY DEF Places
    <3>2. j \in Nat
      <4>1. Len(out) \in Nat OBVIOUS
      <4> QED BY <3>1, <4>1
    <3>3. CASE j > n
      <4>1. i \notin lo + 1 .. hi - 1 BY <1>6, <2>2, <3>3 DEF Apart
      <4>2. \A y \in lo + 1 .. mid - 1 : y \in lo + 1 .. hi - 1 BY <1>4, <1>5
      <4> QED BY <4>1, <4>2
    <3>4. CASE j =< n
      <4>1. j \in 1 .. n BY <1>4, <3>1, <3>2, <3>4
      <4>2. out[j] = r.out[j] BY <1>6, <4>1 DEF Begins
      <4>3. j \in Places(r.out, "source") BY <1>6, <4>1, <4>2 DEF Places
      <4>4. i = lo \/ i >= mid BY <1>8, <2>2, <4>2, <4>3
      <4> QED BY <1>4, <4>4
    <3> QED BY <1>4, <3>2, <3>3, <3>4
  <2> QED BY <1>6, <2>1, <2>2 DEF Apart
<1>13. Shows(node.children[k + 1], mid, r, lo + 1)
  <2>1. Shows(node.children[k + 1], mid, r, mid)
    BY <1>1, <1>6 DEF Prints
  <2>2. \A i \in mid .. hi - 1 : i \in lo + 1 .. hi - 1
    BY <1>4, <1>5
  <2>3. ASSUME NEW out, Apart(out, r, lo + 1) PROVE Apart(out, r, mid)
    BY <1>6, <2>2, <2>3 DEF Apart
  <2> QED BY <2>1, <2>3 DEF Shows
<1>14. Writes(p, r)
  <2>1. r \in Printers /\ Between(hi, r.out) BY <1>6 DEF Prints, Writes
  <2>2. hi > lo /\ l < n BY <1>4, <1>5
  <2>3. ASSUME NEW j \in Places(r.out, "source"), j > l
        PROVE  r.out[j].id >= lo
    <3>1. CASE j =< m
      <4>1. j \in Places(q.out, "source") /\ r.out[j] = q.out[j] BY <1>8, <3>1
      <4> QED BY <1>6, <2>3, <4>1 DEF WritesChildren, Writes
    <3>2. CASE j > m
      <4>1. r.out[j].id = lo \/ r.out[j].id >= mid BY <1>8, <3>2
      <4>2. r.out[j].id \in Nat BY <1>8
      <4> QED BY <1>4, <1>5, <4>1, <4>2
    <3>3. j \in Nat BY <1>8
    <3> QED BY <1>4, <3>1, <3>2, <3>3
  <2>4. ASSUME lo > 0 PROVE r.out[l + 1].id = lo
    <3>1. q.out[l + 1].id = lo BY <1>6, <2>4 DEF WritesChildren, Writes
    <3>2. l + 1 \in 1 .. m BY <1>4, <1>5
    <3>3. r.out[l + 1] = q.out[l + 1] BY <1>3, <1>6, <3>2 DEF Begins
    <3> QED BY <3>1, <3>3
  <2> QED BY <1>3, <1>6, <2>1, <2>2, <2>3, <2>4 DEF Writes
<1>15. Piece("node", lo, node.type) \in {r.out[j] : j \in 1 .. n}
  <2>1. PICK j \in 1 .. m : q.out[j] = Piece("node", lo, node.type)
    BY <1>6 DEF WritesChildren, Fewer
  <2>2. r.out[j] = q.out[j] BY <1>3, <1>6, <2>1 DEF Begins
  <2>3. j \in 1 .. n BY <1>4, <1>5, <2>1
  <2> QED BY <2>1, <2>2, <2>3
<1>16. ASSUME NEW i \in 1 .. k + 1
       PROVE  \E e \in After :
                 /\ Cardinality({j \in After : j =< e}) = i
                 /\ Shows(node.children[i], r.out[e + 1].id, r, lo + 1)
  <2>1. CASE i = k + 1
    <3>1. \A j \in After : j =< m + 1
      <4>1. \A j \in 1 .. m : j =< m + 1 BY <1>4
      <4>2. m + 1 =< m + 1 BY <1>4
      <4> HIDE DEF After, Before
      <4> QED BY <1>10, <4>1, <4>2
    <3>2. {j \in After : j =< m + 1} = After
      <4> HIDE DEF After
      <4> QED BY <3>1
    <3>3. m + 1 \in After
      <4> HIDE DEF After, Before
      <4> QED BY <1>10
    <3> HIDE DEF After
    <3> QED BY <1>7, <1>11, <1>13, <2>1, <3>2, <3>3
  <2>2. CASE i # k + 1
    <3>1. i \in 1 .. k BY <2>2
    <3>2. PICK e \in Before : /\ Cardinality({j \in Before : j =< e}) = i
                              /\ Shows(node.children[i], q.out[e + 1].id, q, lo + 1)
      BY <1>6, <3>1 DEF WritesChildren, Fewer
    <3>3. e \in 1 .. m BY <1>10
    <3>4. {j \in After : j =< e} = {j \in Before : j =< e} /\ e \in After
      <4>1. ~(m + 1 =< e) BY <1>4, <3>3
      <4> HIDE DEF After, Before
      <4> QED BY <1>10, <4>1
    <3>5. r.out[e + 1] = q.out[e + 1]
      <4>1. e + 1 \in 1 .. m
        <5>1. e \in Places(q.out, "source") BY DEF EdgesFrom
        <5>2. {j + 1 : j \in Places(q.out, "source")} = Places(q.out, "target")
          BY DEF WritesChildren, Writes, Between, WellFormed
        <5>3. e + 1 \in Places(q.out, "target") BY <5>1, <5>2
        <5> QED BY <1>6, <5>3 DEF Places
      <4> QED BY <1>3, <1>6, <4>1 DEF Begins
    <3>6. Shows(node.children[i], r.out[e + 1].id, r, lo + 1)
      BY <1>12, <3>2, <3>5
    <3> HIDE DEF After, Before
    <3> QED BY <3>2, <3>4, <3>6
  <2> QED BY <2>1, <2>2
<1>17. Fewer(node, p, r, k + 1)
  BY <1>6, <1>11, <1>15, <1>16 DEF Fewer
<1> QED BY <1>14, <1>17 DEF WritesChildren

(* With all of its children a node is shown. *)
LEMMA NodeShown ==
  ASSUME NEW p \in Printers, NEW node \in ParseTrees, NEW q,
         WritesChildren(node, p, q, Len(node.children))
  PROVE  Prints(node, p, q)
<1> DEFINE lo == p.next_id
           hi == q.next_id
           m == Len(q.out)
           edges == EdgesFrom(q.out, lo)
<1>1. lo \in Nat /\ hi \in Nat /\ lo < hi /\ q.out \in Seq(Pieces) /\ Writes(p, q)
  BY DEF WritesChildren, Writes, Printers
<1>2. m \in Nat
  <2>1. \A x \in Seq(Pieces) : Len(x) \in Nat OBVIOUS
  <2> QED BY <1>1, <2>1, Zenon
<1>3. m = Len(q.out) /\ lo = p.next_id /\ hi = q.next_id
  OBVIOUS
<1> HIDE DEF m, lo, hi
<1>4. /\ Piece("node", lo, node.type) \in {q.out[l] : l \in 1 .. m}
      /\ Cardinality(edges) = Len(node.children)
      /\ \A i \in 1 .. Len(node.children) : \E e \in edges :
            /\ Cardinality({l \in edges : l =< e}) = i
            /\ Shows(node.children[i], q.out[e + 1].id, q, lo + 1)
  BY <1>3 DEF WritesChildren, Fewer
<1>5. ASSUME NEW e \in edges PROVE e \in 1 .. m /\ e + 1 \in 1 .. m
  <2>1. e \in Places(q.out, "source") BY DEF EdgesFrom
  <2>2. {j + 1 : j \in Places(q.out, "source")} = Places(q.out, "target")
    BY <1>1 DEF Writes, Between, WellFormed
  <2>3. e + 1 \in Places(q.out, "target") BY <2>1, <2>2
  <2> QED BY <1>3, <2>1, <2>3 DEF Places
<1>6. ASSUME NEW out \in Seq(Pieces), Begins(q.out, out), Apart(out, q, lo)
      PROVE  Draws(out)[node][lo]
  <2>1. m =< Len(out) /\ \A j \in 1 .. m : out[j] = q.out[j]
    BY <1>3, <1>6 DEF Begins
  <2>2. \A j \in 1 .. m : j \in 1 .. Len(out)
    <3>1. Len(out) \in Nat OBVIOUS
    <3> QED BY <1>2, <2>1, <3>1
  <2>3. EdgesFrom(out, lo) = edges
    <3>1. ASSUME NEW j \in EdgesFrom(out, lo) PROVE j \in edges
      <4>1. j \in Places(out, "source") /\ out[j].id = lo /\ j \in 1 .. Len(out)
        BY <3>1 DEF EdgesFrom, Places
      <4>2. ~(j > m)
        <5>1. lo \in lo .. hi - 1 BY <1>1
        <5> QED BY <1>3, <1>6, <4>1, <5>1 DEF Apart
      <4>3. j \in 1 .. m BY <1>2, <4>1, <4>2
      <4>4. out[j] = q.out[j] BY <2>1, <4>3
      <4> QED BY <1>3, <4>1, <4>3, <4>4 DEF EdgesFrom, Places
    <3>2. ASSUME NEW j \in edges PROVE j \in EdgesFrom(out, lo)
      <4>1. j \in 1 .. m /\ out[j] = q.out[j] BY <1>5, <2>1, <3>2
      <4>2. q.out[j].what = "source" /\ q.out[j].id = lo BY <3>2 DEF EdgesFrom, Places
      <4> QED BY <2>2, <4>1, <4>2 DEF EdgesFrom, Places
    <3> HIDE DEF edges
    <3> QED BY <3>1, <3>2
  <2>4. Piece("node", lo, node.type) \in {out[l] : l \in 1 .. Len(out)}
    <3>1. PICK l \in 1 .. m : q.out[l] = Piece("node", lo, node.type) BY <1>4
    <3> QED BY <2>1, <2>2, <3>1
  <2>5. Apart(out, q, lo + 1)
    <3>1. \A i \in lo + 1 .. hi - 1 : i \in lo .. hi - 1 BY <1>1
    <3> QED BY <1>3, <1>6, <3>1 DEF Apart
  <2>6. ASSUME NEW i \in 1 .. Len(node.children)
        PROVE  \E e \in edges :
                  /\ Cardinality({l \in edges : l =< e}) = i
                  /\ Draws(out)[node.children[i]][out[e + 1].id]
    <3>1. PICK e \in edges : /\ Cardinality({l \in edges : l =< e}) = i
                             /\ Shows(node.children[i], q.out[e + 1].id, q, lo + 1)
      BY <1>4
    <3>2. Draws(out)[node.children[i]][q.out[e + 1].id]
      BY <1>6, <2>5, <3>1 DEF Shows
    <3>3. out[e + 1] = q.out[e + 1]
      BY <1>5, <2>1
    <3> HIDE DEF edges
    <3> QED BY <3>1, <3>2, <3>3
  <2>7. DrawsBy(out, Draws(out), node)[lo]
    <3> HIDE DEF edges
    <3> QED BY <1>1, <1>4, <2>3, <2>4, <2>6 DEF DrawsBy
  <2> QED BY <2>7, DrawsDefined
<1>7. Shows(node, lo, q, lo)
  BY <1>6 DEF Shows
<1> QED BY <1>1, <1>3, <1>7 DEF Prints

(* If its children are printed where they are to be, so is a node. *)
Printable(node) ==
    \A p \in Printers : Ready(p.next_id, p.out) => Prints(node, p, write_node[node][p])

LEMMA NodePrinted ==
  ASSUME NEW node \in ParseTrees,
         \A i \in 1 .. Len(node.children) : Printable(node.children[i])
  PROVE  Printable(node)
<1> SUFFICES ASSUME NEW p \in Printers, Ready(p.next_id, p.out)
             PROVE  Prints(node, p, write_node[node][p])
  BY DEF Printable
<1> DEFINE f == WrittenBy(write_node, node, p)
           n == Len(node.children)
<1>1. node.children \in Seq(ParseTrees) /\ n \in Nat
      /\ node.type \in ParseTreeNames \cup ASTNames
  <2>1. node.children \in Seq(ParseTrees) BY ChildrenAreTrees
  <2>2. n \in Nat BY <2>1
  <2>3. node.type \in ParseTreeNames \cup ASTNames
    <3>1. node \in Above(ChildrenUpTo(Trees, MaxHeight))
      BY TreesDefined, ExpressionAnalysisAssumption DEF ParseTrees
    <3> QED BY <3>1 DEF Above
  <2> QED BY <2>1, <2>2, <2>3
<1>2. /\ f[0] = write_labeled_node(p, node.type)
      /\ \A k \in 1 .. n : f[k] = Turn(write_node, node, p, f[k - 1], k)
  BY <1>1, WrittenIs
<1>3. write_node[node][p] = f[n]
  <2>1. write_node[node] = WriteBy(write_node, node) BY WriteDefined
  <2> QED BY <2>1 DEF WriteBy
<1> HIDE DEF f, n
<1> DEFINE P == {k \in Nat : k =< n => WritesChildren(node, p, f[k], k)}
<1>4. 0 \in P
  <2>1. WritesChildren(node, p, f[0], 0) BY <1>1, <1>2, NoChildYet
  <2> QED BY <2>1
<1>5. ASSUME NEW k \in Nat, k \in P PROVE k + 1 \in P
  <2> SUFFICES ASSUME k + 1 =< n PROVE WritesChildren(node, p, f[k + 1], k + 1)
    OBVIOUS
  <2>1. k =< n /\ k + 1 \in 1 .. n /\ (k + 1) - 1 = k
    BY <1>1
  <2>2. WritesChildren(node, p, f[k], k) BY <1>5, <2>1
  <2> DEFINE s == [next_id |-> f[k].next_id, out |-> Append(f[k].out, Edge(p.next_id))]
  <2>3. f[k + 1] = write_node[node.children[k + 1]][s]
    <3>1. f[k + 1] = Turn(write_node, node, p, f[(k + 1) - 1], k + 1) BY <1>2, <2>1
    <3>2. f[k + 1] = Turn(write_node, node, p, f[k], k + 1) BY <2>1, <3>1
    <3> QED BY <3>2 DEF Turn, EdgeFrom, Edge
  <2>4. Turned(p, f[k], s) BY DEF Turned
  <2> HIDE DEF s
  <2>5. s \in Printers /\ Ready(s.next_id, s.out)
    BY <2>2, <2>4, NextReady DEF WritesChildren
  <2>6. Prints(node.children[k + 1], s, f[k + 1])
    BY <2>1, <2>3, <2>5 DEF Printable, n
  <2> QED BY <2>2, <2>4, <2>6, NextChild
<1>6. WritesChildren(node, p, f[n], n)
  <2> HIDE DEF P
  <2>1. \A k \in Nat : k \in P BY <1>4, <1>5, Induction
  <2> QED BY <1>1, <2>1 DEF P
<1> QED BY <1>3, <1>6, NodeShown DEF n

(* Every tree is printed where it is to be. *)
LEMMA TreesPrintable == \A x \in ParseTrees : Printable(x)
<1> DEFINE P == {n \in Nat : \A x \in Trees[n] : x \in ParseTrees => Printable(x)}
<1>1. 0 \in P
  <2>1. ASSUME NEW x \in Trees[0], x \in ParseTrees PROVE Printable(x)
    <3>1. x.children = <<>> BY LevelChildren
    <3>2. \A i \in 1 .. Len(x.children) : Printable(x.children[i]) BY <3>1
    <3> QED BY <2>1, <3>2, NodePrinted
  <2> QED BY <2>1
<1>2. ASSUME NEW n \in Nat, n \in P PROVE n + 1 \in P
  <2>1. ASSUME NEW x \in Trees[n + 1], x \in ParseTrees PROVE Printable(x)
    <3>1. x.children \in Seq(Trees[n]) BY LevelChildren
    <3>2. x.children \in Seq(ParseTrees) BY <2>1, ChildrenAreTrees
    <3>3. ASSUME NEW i \in 1 .. Len(x.children) PROVE Printable(x.children[i])
      <4>1. x.children[i] \in Trees[n] /\ x.children[i] \in ParseTrees BY <3>1, <3>2
      <4> QED BY <1>2, <4>1
    <3> QED BY <2>1, <3>3, NodePrinted
  <2> QED BY <2>1
<1>3. \A n \in Nat : n \in P
  <2> HIDE DEF P
  <2> QED BY <1>1, <1>2, Induction
<1>4. MaxHeight \in P BY <1>3, ExpressionAnalysisAssumption
<1> QED BY <1>4 DEF ParseTrees

(* What a printer writes of a tree is well formed, and it is that tree.    *)
LEMMA PrintedIsTree ==
  ASSUME NEW x \in ParseTrees
  PROVE  WellFormed(Printed(x)) /\ Draws(Printed(x))[x][0]
<1> DEFINE p == [next_id |-> 0, out |-> <<>>]
           q == write_node[x][p]
<1>1. p \in Printers /\ p.next_id = 0 /\ p.out = <<>>
  <2>1. 0 \in Nat /\ <<>> \in Seq(Pieces) OBVIOUS
  <2> QED BY <2>1 DEF Printers
<1>2. Printed(x) = q.out
  BY DEF Printed
<1>3. Ready(p.next_id, p.out)
  BY <1>1 DEF Ready
<1> HIDE DEF p
<1>4. Prints(x, p, q)
  BY <1>1, <1>3, TreesPrintable DEF Printable
<1> HIDE DEF q
<1>5. q.out \in Seq(Pieces) /\ WellFormed(q.out)
  BY <1>4 DEF Prints, Writes, Between
<1>6. Begins(q.out, q.out)
  BY <1>5, BeginsAll
<1>7. Apart(q.out, q, 0)
  <2>1. Len(q.out) \in Nat BY <1>5
  <2>2. \A k \in Places(q.out, "source") : ~(k > Len(q.out))
    BY <2>1 DEF Places
  <2> QED BY <2>2 DEF Apart
<1>8. Draws(q.out)[x][0]
  BY <1>1, <1>4, <1>5, <1>6, <1>7 DEF Prints, Shows
<1> QED BY <1>2, <1>5, <1>8

-----------------------------------------------------------------------------
(* Both printers. *)

(* What the visitor of the AST prints of a statement is two levels higher  *)
(* at most than the value.                                                 *)
LEMMA VisitedStatement ==
  ASSUME NEW m \in Nat, m =< MaxHeight, NEW s, StatementOver(s, Expressions[m])
  PROVE  visitStatement(s) \in Trees[m + 1]
<1>1. PICK x \in Expressions[m] : s \in {Return(x), Assignment("IDENTIFIER", x)}
  BY DEF StatementOver
<1> DEFINE v == visit(x)
           leaf == Leaf("Identifier")
<1>2. s.value = x /\ s.type \in {"ReturnStatement", "Assignment"}
  BY <1>1 DEF Return, Assignment
<1>3. s.type \in ASTNames
  BY <1>2 DEF ASTNames
<1>4. v \in Trees[m]
  BY VisitFits
<1>5. leaf \in Trees[m]
  <2>1. "Identifier" \in ASTNames BY DEF ASTNames
  <2>2. leaf = TreeNode("Identifier", <<>>, FALSE) BY DEF Leaf
  <2> QED BY <2>1, <2>2, TreesMade
<1> HIDE DEF v, leaf
<1>6. <<v>> \in Seq(Trees[m]) /\ <<leaf, v>> \in Seq(Trees[m])
  BY <1>4, <1>5, ShortSequences
<1>7. visitStatement(s) \in {TreeNode(s.type, <<v>>, FALSE), TreeNode(s.type, <<leaf, v>>, FALSE)}
  BY <1>2, Zenon DEF visitStatement, v, leaf
<1> QED BY <1>3, <1>6, <1>7, TreesMade

(* What the visitor of the AST prints of a function is a tree no higher    *)
(* than the function was in the text.                                      *)
LEMMA VisitedFunction ==
  ASSUME NEW f \in ParseTrees, BodyFits(f)
  PROVE  visitFunction(CreateAST(f)) \in ParseTrees
<1> DEFINE list == Child(get_compund_statement(f), 1)
           n == get_number_of(list)
           statements == CreateAST(f)
           S(i) == visitStatement(statements[i])
<1>1. PICK m \in Nat : MaxHeight = m + 2 /\ StatementsOver(list, Expressions[m])
  BY DEF BodyFits
<1>2. n \in Nat
  BY <1>1 DEF StatementsOver
<1>3. /\ DOMAIN statements = 1 .. n
      /\ \A i \in 1 .. n : statements[i] = analyze_statement(get_element(list, i - 1))
  BY DEF CreateAST
<1>4. Len(statements) = n
  BY <1>2, <1>3 DEF CreateAST
<1>5. ASSUME NEW i \in 1 .. n PROVE S(i) \in Trees[m + 1]
  <2>1. StatementOver(statements[i], Expressions[m])
    BY <1>1, <1>3 DEF StatementsOver
  <2>2. m =< MaxHeight BY <1>1
  <2> QED BY <2>1, <2>2, VisitedStatement
<1> DEFINE children == [i \in 1 .. n |-> S(i)]
<1>6. visitFunction(statements) = TreeNode("Function", children, FALSE)
  BY <1>4, Zenon DEF visitFunction
<1> HIDE DEF list, n, statements, S
<1>7. children \in [1 .. n -> Trees[m + 1]]
  BY <1>5
<1> HIDE DEF children
<1>8. children \in Seq(Trees[m + 1])
  BY <1>2, <1>7
<1>9. TreeNode("Function", children, FALSE) \in Trees[(m + 1) + 1]
  <2>1. "Function" \in ParseTreeNames \cup ASTNames BY DEF ASTNames
  <2>2. m + 1 \in Nat OBVIOUS
  <2> DEFINE h == m + 1
  <2> HIDE DEF h
  <2>3. h \in Nat /\ children \in Seq(Trees[h]) BY <1>8, <2>2 DEF h
  <2>4. TreeNode("Function", children, FALSE) \in Trees[h + 1] BY <2>1, <2>3, TreesMade
  <2> QED BY <2>4 DEF h
<1>10. (m + 1) + 1 = MaxHeight
  BY <1>1
<1> QED BY <1>6, <1>9, <1>10 DEF ParseTrees, statements

(* Whatever the text of a function, the graph that is printed of its parse *)
(* tree, and the one of its AST, is that tree: every edge is whole, every  *)
(* node but the first has one above it, and the children of each are the   *)
(* node's own, in their order.                                             *)
THEOREM PrintersDrawTheTree == Spec => []DrawsTheTree
<1>1. Init => Inv /\ TreeInv /\ MeaningInv BY InitInv, InitForm, InitMeans
<1>2. Inv /\ TreeInv /\ MeaningInv /\ [Next]_vars => (Inv /\ TreeInv /\ MeaningInv)'
  BY NextStep, FormStep, MeaningStep
<1>3. MeaningInv => DrawsTheTree
  <2> SUFFICES ASSUME MeaningInv, outcome = "tree", tree \in ParseTrees,
                      NEW shown \in {tree, visitFunction(CreateAST(tree))}
               PROVE  WellFormed(Printed(shown)) /\ Draws(Printed(shown))[shown][0]
    BY DEF DrawsTheTree
  <2>1. BodyFits(tree) BY DEF MeaningInv
  <2>2. shown \in ParseTrees BY <2>1, VisitedFunction
  <2> QED BY <2>2, PrintedIsTree
<1> QED BY <1>1, <1>2, <1>3, PTL DEF Spec

===============================================================================
