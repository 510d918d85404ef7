------------------------------- MODULE ParseTree -------------------------------
(***************************************************************************)
(* What semantic analysis and the printers read from a finished parse      *)
(* tree.  The accessors of a node compute the index of a child from flags  *)
(* and counts that its constructor has set; children are counted from 0    *)
(* there.                                                                  *)
(***************************************************************************)
EXTENDS Parser

Child(node, i) == node.children[i + 1]

(* Does a node have a child of this type?  The flags has_... say so. *)
Has(node, type) ==
    IF \E i \in 1 .. Len(node.children) : node.children[i].type = type THEN 1 ELSE 0

(* function_definition_node. *)
get_parameter_declarations(f) == Child(f, 0)
get_variable_declarations(f) == Child(f, Has(f, "parameter_declaration"))
get_constant_declarations(f) ==
    Child(f, Has(f, "variable_declaration") + Has(f, "parameter_declaration"))

get_compund_statement(f) ==
    Child(f, Has(f, "constant_declaration") + Has(f, "variable_declaration")
             + Has(f, "parameter_declaration"))

(* The lists: every child but the first is dynamic. *)
get_number_of(list) == 1 + (Len(list.children) - 1) \div 2
get_element(list, i) == Child(list, i * 2)

HasUnaryOperator(node) == IF Len(node.children) = 2 THEN 1 ELSE 0
get_expression(unary) == Child(unary, HasUnaryOperator(unary))

HasSubexpression(node) == Len(node.children) = 3
get_lhs_expression(node) == Child(node, 0)
get_rhs_expression(node) == Child(node, 2)

(* What each list is a list of. *)
Lists == [declarator_list      |-> "identifier",
          init_declarator_list |-> "init_declarator",
          statement_list       |-> "statement"]

-----------------------------------------------------------------------------
(* The accessors of a node find the children they are named for. *)
Finds(node) ==
    CASE node.type = "function_definition" ->
            /\ Has(node, "parameter_declaration") = 1 =>
                  get_parameter_declarations(node).type = "parameter_declaration"
            /\ Has(node, "variable_declaration") = 1 =>
                  get_variable_declarations(node).type = "variable_declaration"
            /\ Has(node, "constant_declaration") = 1 =>
                  get_constant_declarations(node).type = "constant_declaration"
            /\ get_compund_statement(node).type = "compound_statement"
      [] node.type \in DOMAIN Lists ->
            \A i \in 0 .. get_number_of(node) - 1 :
                get_element(node, i).type = Lists[node.type]
      [] node.type = "unary_expression" ->
            get_expression(node).type = "primary_expression"
      [] OTHER -> TRUE

(* Every accessor finds the child it is named for, whichever declarations  *)
(* a function has and however long its lists are (parse_tree_nodes.cpp).   *)
(* A node is handed to its caller once and never changed, so the children  *)
(* of the calls in progress are all nodes but the function itself.         *)
AccessorsFind ==
    /\ \A i \in 1 .. Len(stack) :
          \A k \in 1 .. Len(stack[i].children) : Finds(stack[i].children[k])
    /\ outcome = "tree" => Finds(tree)
===============================================================================
