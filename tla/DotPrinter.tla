------------------------------ MODULE DotPrinter ------------------------------
(***************************************************************************)
(* The two dot_print_visitors, of the parse tree and of the AST.  What is  *)
(* written is a sequence of pieces: the start of an edge ("n_1 -- "), its  *)
(* end ("n_2;") and a labelled node ("n_2 [label=...];").  A node does not *)
(* know its parent: an edge is whole only because its end is written right *)
(* behind its start.                                                       *)
(***************************************************************************)
EXTENDS ExpressionAnalysis

NoLabel == ""
Labels == ParseTreeNames \cup ASTNames \cup {NoLabel}
Piece(what, id, label) == [what |-> what, id |-> id, label |-> label]
Pieces == [what : {"source", "target", "node"}, id : Nat, label : Labels]

(* A printer is its counter and what it has written. *)
Printers == [next_id : Nat, out : Seq(Pieces)]

write_labeled_node(printer, label) ==
    LET id == printer.next_id
        target == IF id > 0 THEN <<Piece("target", id, NoLabel)>> ELSE <<>>
    IN  [next_id |-> id + 1,
         out |-> printer.out \o target \o <<Piece("node", id, label)>>]

(* The edge to a child starts at the node that is printed, not at the one  *)
(* printed last.  Mutant: at the latter.                                   *)
EdgeFrom_Last(id, printer) == Piece("source", printer.next_id - 1, NoLabel)
EdgeFrom(id, printer) == Piece("source", id, NoLabel)

(* A printer after a node and its first k children. *)
write_node[node \in ParseTrees] ==
    [printer \in Printers |->
        LET written[k \in 0 .. Len(node.children)] ==
                IF k = 0 THEN write_labeled_node(printer, node.type)
                ELSE LET p == written[k - 1]
                         edge == EdgeFrom(printer.next_id, p)
                     IN  write_node[node.children[k]][
                             [next_id |-> p.next_id, out |-> Append(p.out, edge)]]
        IN  written[Len(node.children)]]

Printed(node) == write_node[node][[next_id |-> 0, out |-> <<>>]].out

(* What the visitor of the AST writes of a node: its label and children.   *)
(* An identifier is printed without its name.                              *)
visit(expression) ==
    LET visited[x \in Expressions[MaxHeight]] ==
            CASE x.kind = "Unary"  -> TreeNode(x.operation, <<visited[x.input]>>, FALSE)
              [] x.kind = "Binary" ->
                    TreeNode(x.operation, <<visited[x.left], visited[x.right]>>, FALSE)
              [] x.kind \in {"Identifier", "Literal"} -> Leaf(x.kind)
    IN  visited[expression]

visitStatement(s) ==
    TreeNode(s.type, IF s.type = "ReturnStatement" THEN <<visit(s.value)>>
                     ELSE <<Leaf("Identifier"), visit(s.value)>>, FALSE)

visitFunction(statements) ==
    TreeNode("Function",
             [i \in 1 .. Len(statements) |-> visitStatement(statements[i])], FALSE)

-----------------------------------------------------------------------------
(* A reader of DOT.  The graph of a text is a tree of nodes 0, 1, ... if   *)
(* every edge has both ends, no number is given twice, and every node but  *)
(* 0 is where one edge ends.                                               *)
Places(out, what) == {k \in 1 .. Len(out) : out[k].what = what}
Ids(out, what) == {out[k].id : k \in Places(out, what)}

WellFormed(out) ==
    /\ {k + 1 : k \in Places(out, "source")} = Places(out, "target")
    /\ \A what \in {"node", "target"} : \A k, l \in Places(out, what) :
          out[k].id = out[l].id => k = l
    /\ Ids(out, "node") = {0} \cup Ids(out, "target")
    /\ 0 \notin Ids(out, "target")

(* Is a tree what is drawn below a node?  Its children are the ends of the *)
(* edges from the node, in the order in which these are written.           *)
Draws(out) ==
    LET EdgesFrom(id) == {k \in Places(out, "source") : out[k].id = id}
        draws[shown \in ParseTrees] ==
            [id \in Nat |->
                /\ Piece("node", id, shown.type) \in {out[k] : k \in 1 .. Len(out)}
                /\ Cardinality(EdgesFrom(id)) = Len(shown.children)
                /\ \A i \in 1 .. Len(shown.children) : \E k \in EdgesFrom(id) :
                      /\ Cardinality({l \in EdgesFrom(id) : l =< k}) = i
                      /\ draws[shown.children[i]][out[k + 1].id]]
    IN  draws

(* The graph that is printed of a parse tree, or of its AST, is that tree: *)
(* read back it has the same nodes below each other in the same order      *)
(* (dot_print_visitor.cpp:6-13 and its counterpart, :71-83).               *)
DrawsTheTree ==
    outcome = "tree" /\ tree \in ParseTrees =>
        \A shown \in {tree, visitFunction(CreateAST(tree))} :
            /\ WellFormed(Printed(shown))
            /\ Draws(Printed(shown))[shown][0]
===============================================================================
