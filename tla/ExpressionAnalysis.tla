-------------------------- MODULE ExpressionAnalysis --------------------------
(***************************************************************************)
(* ASTCreator's translation of statements and expressions from the parse   *)
(* tree to the AST, where every name is declared and initialised; what     *)
(* becomes of the others is in ASTCreator.  Names and values are not told  *)
(* apart: their tokens stand for them.                                     *)
(***************************************************************************)
EXTENDS ParseTree, AST, SequencesExt

CONSTANT MaxHeight   \* bound on the height of the trees that are analysed

ASSUME ExpressionAnalysisAssumption == MaxHeight \in Nat

Operation == [PLUS_OP |-> "PLUS",     MINUS_OP |-> "MINUS",
              MULT_OP |-> "MULTIPLY", DIV_OP   |-> "DIVIDE"]

(* The operands keep their places.  Mutant: they are exchanged. *)
Combined_Swapped(left, operator, right) == Binary(right, Operation[operator], left)
Combined(left, operator, right) == Binary(left, Operation[operator], right)

(* The names of nodes: those of a parse tree, where a terminal is called   *)
(* after its token, and those of an AST.                                   *)
ParseTreeNames == TokenTypes \cup
    {"identifier", "literal", "init_declarator", "declarator_list",
     "init_declarator_list", "parameter_declaration", "variable_declaration",
     "constant_declaration", "additive_expression", "primary_expression",
     "unary_expression", "multiplicative_expression", "assignment_expression",
     "statement", "statement_list", "compound_statement", "function_definition"}

OperatorTypes == {"PLUS", "MINUS", "MULTIPLY", "DIVIDE"}
ASTNames == OperatorTypes \cup
    {"Identifier", "Literal", "ReturnStatement", "Assignment", "Function"}

(* The trees up to a height; a tree that is higher is not looked at. *)
Trees[n \in Nat] ==
    [type : ParseTreeNames \cup ASTNames,
     children : IF n = 0 THEN {<<>>} ELSE Seq(Trees[n - 1]), stale : BOOLEAN]

ParseTrees == Trees[MaxHeight]

(* The expressions of an AST up to a height. *)
Expressions[n \in Nat] ==
    LET operands == IF n = 0 THEN {} ELSE Expressions[n - 1]
    IN  {Identifier("IDENTIFIER"), Literal("LITERAL")}
        \cup [kind : {"Unary"}, operation : OperatorTypes, input : operands]
        \cup [kind : {"Binary"}, operation : OperatorTypes,
              left : operands, right : operands]

Operations == {"additive_expression", "multiplicative_expression"}
NoExpression == [kind |-> "none"]

(* How many children a node has tells which constructor made it. *)
analyze_expression[node \in ParseTrees] ==
    CASE node.type \in Operations /\ HasSubexpression(node) ->
            Combined(analyze_expression[get_lhs_expression(node)],
                     Child(node, 1).type,
                     analyze_expression[get_rhs_expression(node)])
      [] node.type \in Operations /\ Len(node.children) = 1 ->
            analyze_expression[get_lhs_expression(node)]
      [] node.type = "unary_expression" /\ Len(node.children) \in {1, 2} ->
            Unary(IF HasUnaryOperator(node) = 1 THEN Operation[Child(node, 0).type]
                                                ELSE "PLUS",
                  analyze_expression[get_expression(node)])
      [] node.type = "primary_expression" /\ Len(node.children) = 3 ->
            analyze_expression[Child(node, 1)]
      [] node.type = "primary_expression" /\ Len(node.children) = 1 ->
            IF Child(node, 0).type = "identifier" THEN Identifier("IDENTIFIER")
                                                  ELSE Literal("LITERAL")
      [] OTHER -> NoExpression

analyze_statement(statement) ==
    IF Child(statement, 0).type = "RETURN"
    THEN Return(analyze_expression[Child(statement, 1)])
    ELSE LET assignment == Child(statement, 0)
         IN  Assignment("IDENTIFIER", analyze_expression[Child(assignment, 2)])

(* The statements of a function whose analysis succeeds. *)
CreateAST(f) ==
    LET statements == Child(get_compund_statement(f), 1)
    IN  [i \in 1 .. get_number_of(statements) |->
            analyze_statement(get_element(statements, i - 1))]

-----------------------------------------------------------------------------
(* The reference: what a text means, read off its tokens. *)

(* The tokens a tree stands for. *)
Yield[node \in ParseTrees] ==
    LET upto[i \in 0 .. Len(node.children)] ==
            IF i = 0 THEN <<>> ELSE upto[i - 1] \o Yield[node.children[i]]
    IN  IF node.children = <<>> THEN <<node.type>> ELSE upto[Len(node.children)]

(* The binary operators of a text that stand outside of all brackets. *)
Count(text, token, i) == Cardinality({k \in 1 .. i : text[k] = token})

Outside(text, operators) ==
    {i \in 2 .. Len(text) :
        /\ text[i] \in operators
        /\ text[i - 1] \in {"IDENTIFIER", "LITERAL", "R_BRACKET"}
        /\ Count(text, "L_BRACKET", i) = Count(text, "R_BRACKET", i)}

Sums(text) == Outside(text, {"PLUS_OP", "MINUS_OP"})
Products(text) == Outside(text, {"MULT_OP", "DIV_OP"})
Signed(text) == Len(text) > 1 /\ text[1] \in {"PLUS_OP", "MINUS_OP"}

Meaning[text \in Seq(TokenTypes)] ==
    LET Split(i) == Binary(Meaning[SubSeq(text, 1, i - 1)], Operation[text[i]],
                           Meaning[SubSeq(text, i + 1, Len(text))])
        Operand(operand) ==
            CASE operand = <<"IDENTIFIER">> -> Identifier("IDENTIFIER")
              [] operand = <<"LITERAL">>    -> Literal("LITERAL")
              [] Len(operand) > 2           -> Meaning[SubSeq(operand, 2, Len(operand) - 1)]
              [] OTHER                      -> NoExpression
    IN  CASE Sums(text) # {} -> Split(Min(Sums(text)))
          [] Sums(text) = {} /\ Products(text) # {} -> Split(Min(Products(text)))
          [] Sums(text) \cup Products(text) = {} /\ Signed(text) ->
                Unary(Operation[text[1]], Operand(Tail(text)))
          [] OTHER -> Unary("PLUS", Operand(text))

(* What the statement means that these tokens are. *)
StatementMeaning(text) ==
    IF text[1] = "RETURN" THEN Return(Meaning[Tail(text)])
    ELSE Assignment(text[1], Meaning[SubSeq(text, 3, Len(text))])

(* The AST of a function is what the text of its statements means: one     *)
(* node per operator, with its operands in their places, * and / before +  *)
(* and -, and an operator takes everything that follows it at its level,   *)
(* so x - y - z is x - (y - z) (parser.cpp:178-222, ASTCreator.cpp:135-213)*)
AstMeansText ==
    outcome = "tree" /\ tree \in ParseTrees =>
        LET list == Child(get_compund_statement(tree), 1)
        IN  \A i \in 1 .. get_number_of(list) :
                CreateAST(tree)[i] = StatementMeaning(Yield[get_element(list, i - 1)])
===============================================================================
