---------------------------------- MODULE AST ----------------------------------
(***************************************************************************)
(* The nodes of the AST.  Every operator's operand is an expression node;  *)
(* ASTCreator wraps each primary expression in a unary node, PLUS where    *)
(* the text has no sign.                                                   *)
(***************************************************************************)
EXTENDS Naturals, Sequences

Literal(value) == [kind |-> "Literal", value |-> value]
Identifier(symbol) == [kind |-> "Identifier", symbol |-> symbol]
Unary(operation, input) ==
    [kind |-> "Unary", operation |-> operation, input |-> input]
Binary(left, operation, right) ==
    [kind |-> "Binary", operation |-> operation, left |-> left, right |-> right]

Assignment(target, value) ==
    [type |-> "Assignment", target |-> target, value |-> value]
Return(value) == [type |-> "ReturnStatement", target |-> 0, value |-> value]
===============================================================================
