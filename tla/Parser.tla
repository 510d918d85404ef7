-------------------------------- MODULE Parser --------------------------------
(***************************************************************************)
(* class parser: recursive descent with one token of lookahead.  The       *)
(* calls that are in progress are the frames of stack, innermost last; a   *)
(* frame holds the parts its parse function has still to parse (todo) and  *)
(* the children it has parsed.                                             *)
(*                                                                         *)
(* Where the lookahead is empty because the lexer met an invalid symbol,   *)
(* peek_token()->get_code_reference() reads an optional without a value;   *)
(* a frame that did has a stale position.                                  *)
(***************************************************************************)
EXTENDS Naturals, Sequences

CONSTANTS Nullopt,   \* the lexer met an invalid symbol
          Rooms      \* bounds on a text: the types of its tokens, and how
                     \* many it has up to the BEGIN (left) and behind (body)

VARIABLES next_token,
          error_flag,
          stack,
          outcome,    \* reading, or what parse_function_definition returned
          tree,       \* the function_definition_node
          room,       \* the tokens the text may still have, as in Rooms
          phrase      \* history: the tokens consumed, as Grammar reads them

vars == <<next_token, error_flag, stack, outcome, tree, room, phrase>>

TokenTypes == {"PROGRAM_TERMINATOR", "STATEMENT_TERMINATOR", "SEPARATOR", "PARAM",
               "VAR", "CONST", "INIT_ASSIGNMENT_OP", "BEGIN", "END", "RETURN",
               "VAR_ASSIGNMENT_OP", "PLUS_OP", "MINUS_OP", "MULT_OP", "DIV_OP",
               "L_BRACKET", "R_BRACKET", "LITERAL", "IDENTIFIER"}

ASSUME ParserAssumption ==
    /\ Nullopt \notin TokenTypes \cup {"EOS"}
    /\ Rooms \subseteq [types : SUBSET TokenTypes, left : Nat, body : Nat]

(* What the language allows: the specification this module implements. *)
Language == INSTANCE Grammar WITH verdict <- outcome

-----------------------------------------------------------------------------
(* The parse functions: what each parses, in order, with lookahead t.  A   *)
(* part that is not there unless the lookahead announces it says how.      *)

Part(kind, first, of) == [kind |-> kind, first |-> first, of |-> of]

Terminal(t) == Part("terminal", {t}, t)                    \* parse_terminal_token
Node(node) == Part("node", {}, node)                       \* a parse function
Optional(keyword, node) == Part("optional", {keyword}, node)
ListOf(separator, node) == Part("list", {separator}, node) \* parse_list_of
OperatorTail(operators, node) == Part("tail", operators, node)    \* operator, operand
Sign == Part("sign", {"PLUS_OP", "MINUS_OP"}, "")
HasError == Part("has_error", {}, "")                      \* gives up on an error
Nullptr == Part("nullptr", {}, "")                         \* gives up, no report

FunctionParts ==
    <<Optional("PARAM", "parameter_declaration"), HasError,
      Optional("VAR", "variable_declaration"), HasError,
      Optional("CONST", "constant_declaration"), HasError,
      Node("compound_statement"), Terminal("PROGRAM_TERMINATOR")>>

Declared(keyword, list) ==
    <<Terminal(keyword), Node(list), Terminal("STATEMENT_TERMINATOR")>>

DeclarationParts(node) ==
    CASE node = "parameter_declaration" -> Declared("PARAM", "declarator_list")
      [] node = "variable_declaration"  -> Declared("VAR", "declarator_list")
      [] node = "constant_declaration"  -> Declared("CONST", "init_declarator_list")
      [] node = "declarator_list" ->
            <<Node("identifier"), ListOf("SEPARATOR", "identifier")>>
      [] node = "init_declarator_list" ->
            <<Node("init_declarator"), ListOf("SEPARATOR", "init_declarator")>>
      [] node = "init_declarator" ->
            <<Node("identifier"), Terminal("INIT_ASSIGNMENT_OP"), Node("literal")>>

StatementParts(node, t) ==
    CASE node = "compound_statement" ->
            <<Terminal("BEGIN"), Node("statement_list"), Terminal("END")>>
      [] node = "statement_list" ->
            <<Node("statement"), ListOf("STATEMENT_TERMINATOR", "statement")>>
      [] node = "statement" ->
            IF t = "RETURN" THEN <<Terminal("RETURN"), Node("additive_expression")>>
                            ELSE <<Node("assignment_expression")>>
      [] node = "assignment_expression" ->
            <<Node("identifier"), Terminal("VAR_ASSIGNMENT_OP"),
              Node("additive_expression")>>

ExpressionParts(node, t) ==
    CASE node = "additive_expression" ->
            <<Node("multiplicative_expression"),
              OperatorTail({"PLUS_OP", "MINUS_OP"}, "additive_expression")>>
      [] node = "multiplicative_expression" ->
            <<Node("unary_expression"),
              OperatorTail({"MULT_OP", "DIV_OP"}, "multiplicative_expression")>>
      [] node = "unary_expression" -> <<Sign, Node("primary_expression")>>
      [] node = "primary_expression" ->
            CASE t = "IDENTIFIER" -> <<Node("identifier")>>
              [] t = "LITERAL"    -> <<Node("literal")>>
              [] t = "L_BRACKET"  -> <<Terminal(t), Node("additive_expression"),
                                       Terminal("R_BRACKET")>>
              [] OTHER            -> <<Nullptr>>

Declarations == {"parameter_declaration", "variable_declaration",
                 "constant_declaration"}
DeclarationNodes == Declarations \cup {"declarator_list", "init_declarator_list",
                                       "init_declarator"}
StatementNodes == {"compound_statement", "statement_list", "statement",
                   "assignment_expression"}
ExpressionNodes == {"additive_expression", "multiplicative_expression",
                    "unary_expression", "primary_expression"}
Leaves == {"identifier", "literal"}

(* Mutant of Parts: a sum begins with a sum, to group it to the left. *)
Parts_LeftRecursive(node, t) ==
    CASE node \in DeclarationNodes -> DeclarationParts(node)
      [] node \in StatementNodes   -> StatementParts(node, t)
      [] node = "additive_expression" ->
            <<Node(node), OperatorTail({"PLUS_OP", "MINUS_OP"},
                                       "multiplicative_expression")>>
      [] node \in ExpressionNodes \ {"additive_expression"} -> ExpressionParts(node, t)
      [] node = "identifier"       -> <<Terminal("IDENTIFIER")>>
      [] node = "literal"          -> <<Terminal("LITERAL")>>
Parts(node, t) ==
    CASE node \in DeclarationNodes -> DeclarationParts(node)
      [] node \in StatementNodes   -> StatementParts(node, t)
      [] node \in ExpressionNodes  -> ExpressionParts(node, t)
      [] node = "identifier"       -> <<Terminal("IDENTIFIER")>>
      [] node = "literal"          -> <<Terminal("LITERAL")>>

(* What becomes of such a part; a list goes on as long as it is announced. *)
Announced(part, t) ==
    IF t \notin part.first THEN <<>> ELSE
    CASE part.kind = "optional" -> <<Node(part.of)>>
      [] part.kind = "list"     -> <<Terminal(t), Node(part.of), part>>
      [] part.kind = "tail"     -> <<Terminal(t), Node(part.of)>>
      [] part.kind = "sign"     -> <<Terminal(t)>>

-----------------------------------------------------------------------------
(* Nodes. *)

TreeNode(type, children, stale) ==
    [type |-> type, children |-> children, stale |-> stale]

Leaf(t) == TreeNode(t, <<>>, FALSE)

(* A child that may be missing: a null pointer is not inserted. *)
OfType(children, type) ==
    LET given == {i \in DOMAIN children : children[i].type = type}
    IN  IF given = {} THEN <<>> ELSE <<children[CHOOSE i \in given : TRUE]>>

(* The constructors keep the order of the parts.  That of a function puts  *)
(* the declarations one by one in front; mutant: the variables first.      *)
FunctionChildren_Reordered(children) ==
    OfType(children, "variable_declaration") \o
       (OfType(children, "parameter_declaration") \o
          (OfType(children, "constant_declaration") \o
             (OfType(children, "compound_statement") \o
                OfType(children, "PROGRAM_TERMINATOR"))))
FunctionChildren(children) ==
    OfType(children, "parameter_declaration") \o
       (OfType(children, "variable_declaration") \o
          (OfType(children, "constant_declaration") \o
             (OfType(children, "compound_statement") \o
                OfType(children, "PROGRAM_TERMINATOR"))))

NoTree == TreeNode("none", <<>>, FALSE)

-----------------------------------------------------------------------------
Frame(node, todo, stale) ==
    [node |-> node, todo |-> todo, children |-> <<>>, stale |-> stale]

(* What lexer.next() may return: the text ends when there is no room left. *)
Lexed(space) == (IF space.left > 0 THEN space.types ELSE {}) \cup {"EOS", Nullopt}

Init ==
    /\ room \in Rooms
    /\ next_token \in Lexed(room)
    /\ error_flag = FALSE
    /\ stack = <<Frame("function_definition", FunctionParts, next_token = Nullopt)>>
    /\ outcome = "reading"
    /\ tree = NoTree
    /\ phrase = Language!Phrase("section", 0, 0)

Top == stack[Len(stack)]
Callers == SubSeq(stack, 1, Len(stack) - 1)

Todo == outcome = "reading" /\ Top.todo # <<>>
Current == Head(Top.todo)

(* The top frame goes on with other parts, and maybe one more child. *)
Going(frame, todo) == [frame EXCEPT !.todo = todo]

(* The parse function in front is called.  All but those of the leaves     *)
(* read the position of the lookahead first.                               *)
CallParse ==
    /\ Todo /\ Current.kind = "node"
    /\ stack' = Append(Append(Callers, Going(Top, Tail(Top.todo))),
                       Frame(Current.of, Parts(Current.of, next_token),
                             next_token = Nullopt /\ Current.of \notin Leaves))
    /\ UNCHANGED <<next_token, error_flag, outcome, tree, room, phrase>>

(* expect_token decides about a part. *)
Expect ==
    /\ Todo /\ Current.kind \in {"optional", "list", "tail", "sign"}
    /\ stack' = Append(Callers,
                       Going(Top, Announced(Current, next_token) \o Tail(Top.todo)))
    /\ UNCHANGED <<next_token, error_flag, outcome, tree, room, phrase>>

(* consume_token takes the lookahead if it is the one expected.  Mutant:    *)
(* it does not ask whether there is one.                                   *)
Matches_Blind(part) == next_token \in {part.of, Nullopt}
Matches(part) == next_token = part.of

(* The token becomes a child and the next one is read; an invalid symbol   *)
(* is an error at once.                                                    *)
Consume ==
    /\ Todo /\ Current.kind = "terminal" /\ Matches(Current)
    /\ stack' = Append(Callers, [Going(Top, Tail(Top.todo)) EXCEPT
                                    !.children = Append(@, Leaf(Current.of))])
    /\ room' = [room EXCEPT !.left = IF Current.of = "BEGIN" THEN room.body ELSE @ - 1]
    /\ next_token' \in IF next_token = Nullopt THEN {Nullopt} ELSE Lexed(room')
    /\ error_flag' = (error_flag \/ next_token' = Nullopt)
    /\ phrase' = Language!Extended(phrase, Current.of)
    /\ UNCHANGED <<outcome, tree>>

(* A parse function returns nullptr and so do its callers, except that     *)
(* parse_function_definition looks at has_error() after a declaration.     *)
ReturnNullptr ==
    IF Len(stack) > 1 /\ stack[2].node \in Declarations
    THEN /\ stack' = <<stack[1]>>
         /\ UNCHANGED <<next_token, outcome, tree, room, phrase>>
    ELSE /\ outcome' = "nullptr"
         /\ stack' = <<>>
         /\ UNCHANGED <<next_token, tree, room, phrase>>

(* Mutant of ReportError: the flag is not set. *)
ReportError_Forgotten == UNCHANGED error_flag
ReportError == error_flag' = TRUE

Mismatch ==
    /\ Todo /\ Current.kind = "terminal" /\ ~Matches(Current)
    /\ ReportError
    /\ ReturnNullptr

NoAlternative ==
    /\ Todo /\ Current.kind = "nullptr"
    /\ UNCHANGED error_flag
    /\ ReturnNullptr

TestHasError ==
    /\ Todo /\ Current.kind = "has_error"
    /\ stack' = IF error_flag THEN <<>> ELSE <<Going(Top, Tail(Top.todo))>>
    /\ outcome' = IF error_flag THEN "nullptr" ELSE outcome
    /\ UNCHANGED <<next_token, error_flag, tree, room, phrase>>

(* Nothing is left to parse: the node is made and handed to the caller. *)
ReturnNode ==
    /\ outcome = "reading" /\ Top.todo = <<>> /\ Len(stack) > 1
    /\ stack' = [Callers EXCEPT ![Len(stack) - 1].children =
                    Append(@, TreeNode(Top.node, Top.children, Top.stale))]
    /\ UNCHANGED <<next_token, error_flag, outcome, tree, room, phrase>>

(* Mutant of AtEnd: what is behind the "." is not looked at. *)
AtEnd_Untested == TRUE
AtEnd == next_token = "EOS"

Finish ==
    /\ outcome = "reading" /\ Top.todo = <<>> /\ Len(stack) = 1
    /\ IF AtEnd
       THEN /\ outcome' = "tree"
            /\ tree' = TreeNode(Top.node, FunctionChildren(Top.children), Top.stale)
            /\ UNCHANGED error_flag
       ELSE /\ outcome' = "nullptr"
            /\ ReportError
            /\ UNCHANGED tree
    /\ stack' = <<>>
    /\ UNCHANGED <<next_token, room, phrase>>

Next == \/ CallParse \/ Expect \/ Consume \/ Mismatch \/ NoAlternative
        \/ TestHasError \/ ReturnNode \/ Finish

(* parse_function_definition is one call that runs to its end. *)
Spec == Init /\ [][Next]_vars /\ WF_vars(Next)

-----------------------------------------------------------------------------
Kinds == {"terminal", "node", "optional", "list", "tail", "sign", "has_error",
          "nullptr"}

TypeOK ==
    /\ next_token \in TokenTypes \cup {"EOS", Nullopt}
    /\ error_flag \in BOOLEAN
    /\ outcome \in {"reading", "tree", "nullptr"}
    /\ (stack = <<>>) = (outcome # "reading")
    /\ (tree = NoTree) = (outcome # "tree")
    /\ room.left \in Nat
    /\ phrase \in Language!Phrases
    /\ \A i \in 1 .. Len(stack) :
          /\ stack[i].node = "function_definition" <=> i = 1
          /\ \A k \in 1 .. Len(stack[i].todo) : stack[i].todo[k].kind \in Kinds

(* The parser accepts the functions of the language and nothing else, and  *)
(* gives up at the first token that cannot belong to one: every run of it  *)
(* is one of the recogniser, and it ends (parser.cpp:16-311).              *)
ImplementsGrammar == Language!Spec

(* No node carries a position read from an empty lookahead: whoever read   *)
(* one finds no token to consume and returns nullptr (parser.cpp:41).      *)
NodesHavePosition ==
    \A i \in 1 .. Len(stack) :
        \A k \in 1 .. Len(stack[i].children) : ~stack[i].children[k].stale

(* The error flag agrees with the result: a tree comes without an error,   *)
(* and nullptr with one, unless an operand is missing, which is refused    *)
(* without a report (parser.cpp:237-261).                                  *)
ErrorFlagAgrees ==
    /\ outcome = "tree" => ~error_flag
    /\ outcome = "nullptr" /\ ~error_flag => phrase.at \in {"operand", "signed"}

(* Why the calls end.  A frame at a token takes it or gives up; one that   *)
(* begins calls its way down to a token, never back to itself; any other   *)
(* returns or calls again, and goes through its parts.                     *)
TokensLeft ==
    room.left + (IF phrase.at \in {"section", "name", "constant", "value", "declared"}
                 THEN room.body ELSE 0)

Descent(node) ==
    CASE node = "additive_expression" -> 4
      [] node \in {"multiplicative_expression", "statement_list"} -> 3
      [] node \in {"unary_expression", "statement", "init_declarator_list"} -> 2
      [] node \in {"primary_expression", "assignment_expression", "init_declarator",
                   "declarator_list"} -> 1
      [] OTHER -> 0

Trying == IF error_flag /\ Todo /\ Current.kind = "has_error" THEN 0 ELSE 1

AtStart == Top.children = <<>> /\ Top.node # "function_definition"
Depth == IF Todo /\ Current.kind \in {"terminal", "nullptr"} THEN 0 ELSE
         IF AtStart THEN 1 + Descent(Top.node) ELSE 5 + Len(stack)

PartsLeft == 2 * Len(Top.todo) + (IF Todo /\ Current.kind = "node" THEN 0 ELSE 1)

Measure == <<TokensLeft, Trying, Depth, PartsLeft>>

Smaller(m, n) == \E j \in DOMAIN n : /\ \A i \in 1 .. j - 1 : m[i] = n[i]
                                  /\ m[j] < n[j]

(* The descent never goes in a circle: every step of a parse that goes on  *)
(* makes what is left smaller, so it ends on every text, however deep its  *)
(* brackets are (parser.cpp:16-311).                                       *)
StepsShrink == [][outcome' = "reading" => Smaller(Measure', Measure)]_vars
===============================================================================
