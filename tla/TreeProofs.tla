------------------------------ MODULE TreeProofs ------------------------------
(***************************************************************************)
(* Theorems about the parse tree and its translation, for every text.      *)
(*                                                                         *)
(* A parse function completes a form: what it has parsed and what it has   *)
(* still to parse, as one sequence of parts.  The form of a call is one of *)
(* those its node may have, whatever comes next in the text, so the        *)
(* children of a node that is finished are known from its type.            *)
(***************************************************************************)
EXTENDS ExpressionAnalysis, ParserProofs, FiniteSetTheorems

-----------------------------------------------------------------------------
(* The form of a call. *)

(* The part a child was. *)
Kid(child) ==
    IF child.type \in TokenTypes THEN Terminal(child.type) ELSE Node(child.type)
Kids(children) == [k \in 1 .. Len(children) |-> Kid(children[k])]

Occurs(part, form) == \E k \in 1 .. Len(form) : form[k] = part

(* Elements that are parted by separators, and maybe the announcement of   *)
(* more of them.                                                           *)
ListForm(form, separator, element) ==
    \E m \in Nat :
        /\ \A j \in 0 .. m : form[2 * j + 1] = Node(element)
        /\ \A j \in 1 .. m : form[2 * j] = Terminal(separator)
        /\ \/ Len(form) = 2 * m + 1
           \/ Len(form) = 2 * m + 2 /\ form[2 * m + 2] = ListOf(separator, element)

(* An operand that may be followed by an operator and the whole again. *)
OperationForms(operand, operators, node) ==
    {<<Node(operand)>>, <<Node(operand), OperatorTail(operators, node)>>}
       \cup {<<Node(operand), Terminal(t), Node(node)>> : t \in operators}

Forms(node) ==
    CASE node = "parameter_declaration" -> {Declared("PARAM", "declarator_list")}
      [] node = "variable_declaration"  -> {Declared("VAR", "declarator_list")}
      [] node = "constant_declaration"  -> {Declared("CONST", "init_declarator_list")}
      [] node = "init_declarator" ->
            {<<Node("identifier"), Terminal("INIT_ASSIGNMENT_OP"), Node("literal")>>}
      [] node = "compound_statement" ->
            {<<Terminal("BEGIN"), Node("statement_list"), Terminal("END")>>}
      [] node = "statement" -> {<<Terminal("RETURN"), Node("additive_expression")>>,
                                <<Node("assignment_expression")>>}
      [] node = "assignment_expression" ->
            {<<Node("identifier"), Terminal("VAR_ASSIGNMENT_OP"),
               Node("additive_expression")>>}
      [] node = "additive_expression" ->
            OperationForms("multiplicative_expression", Additive, node)
      [] node = "multiplicative_expression" ->
            OperationForms("unary_expression", Multiplicative, node)
      [] node = "unary_expression" ->
            {<<Sign, Node("primary_expression")>>, <<Node("primary_expression")>>}
               \cup {<<Terminal(t), Node("primary_expression")>> : t \in Additive}
      [] node = "primary_expression" ->
            {<<Node("identifier")>>, <<Node("literal")>>, <<Nullptr>>,
             <<Terminal("L_BRACKET"), Node("additive_expression"), Terminal("R_BRACKET")>>}
      [] node = "identifier" -> {<<Terminal("IDENTIFIER")>>}
      [] node = "literal"    -> {<<Terminal("LITERAL")>>}

Separator == [declarator_list      |-> "SEPARATOR",
              init_declarator_list |-> "SEPARATOR",
              statement_list       |-> "STATEMENT_TERMINATOR"]

FormFits(node, form) ==
    /\ form \in Seq(PartSet)
    /\ IF node = "function_definition" THEN Occurs(Node("compound_statement"), form)
       ELSE IF node \in DOMAIN Lists THEN ListForm(form, Separator[node], Lists[node])
       ELSE form \in Forms(node)

(* A child is a token, or a node whose accessors find its children. *)
ChildFits(child) ==
    /\ child.type \in TokenTypes \cup Nodes
    /\ child.type \in TokenTypes => child = Leaf(child.type)
    /\ child.type \in Nodes => Finds(child)

(* Terminals and nodes are those made of their names. *)
Made(todo) ==
    \A k \in 1 .. Len(todo) :
        /\ todo[k].kind = "terminal" => todo[k] = Terminal(todo[k].of)
        /\ todo[k].kind = "node" => todo[k] = Node(todo[k].of)

FittingChildren(children) == \E S : children \in Seq(S) /\ \A c \in S : ChildFits(c)

FormOf(children, expected) == Kids(children) \o expected

(* What a call has still to parse, and before it the node of the call it   *)
(* waits for, if there is one.                                             *)
CallFitsForm(node, children, expected) ==
    /\ FittingChildren(children)
    /\ FormFits(node, FormOf(children, expected))

Awaited(st, i) ==
    IF i = Len(st) THEN st[i].todo ELSE <<Node(st[i + 1].node)>> \o st[i].todo

FormInv(st) ==
    \A i \in 1 .. Len(st) :
        /\ st[i].node \in Nodes \cup {"function_definition"}
        /\ Made(st[i].todo)
        /\ CallFitsForm(st[i].node, st[i].children, Awaited(st, i))

(* The stack while the function is parsed, and the tree at the end. *)
TreeInv ==
    /\ outcome = "reading" => FormInv(stack)
    /\ outcome = "tree" => Finds(tree)

-----------------------------------------------------------------------------
(* Sequences of parts. *)

(* A part moves from what is expected to what is there. *)
LEMMA PartMoves ==
  ASSUME NEW S, NEW u \in Seq(S), NEW a \in S, NEW v \in Seq(S)
  PROVE  /\ Append(u, a) \o v = u \o (<<a>> \o v)
         /\ <<>> \o v = v /\ v \o <<>> = v
         /\ Append(u, a) = u \o <<a>>
  OBVIOUS

(* A sequence that is not empty is its head before its tail. *)
LEMMA HeadTail ==
  ASSUME NEW S, NEW v \in Seq(S), v # <<>>
  PROVE  /\ v = <<Head(v)>> \o Tail(v)
         /\ Head(v) \in S /\ Tail(v) \in Seq(S)
         /\ Len(Tail(v)) = Len(v) - 1
         /\ \A k \in 1 .. Len(Tail(v)) : Tail(v)[k] = v[k + 1]
  OBVIOUS

(* What occurs in a sequence occurs in a part of it. *)
LEMMA OccursInParts ==
  ASSUME NEW S, NEW u \in Seq(S), NEW v \in Seq(S), NEW x
  PROVE  Occurs(x, u \o v) <=> Occurs(x, u) \/ Occurs(x, v)
<1>1. ASSUME Occurs(x, u \o v) PROVE Occurs(x, u) \/ Occurs(x, v)
  BY <1>1 DEF Occurs
<1>2. ASSUME Occurs(x, u) PROVE Occurs(x, u \o v)
  BY <1>2 DEF Occurs
<1>3. ASSUME Occurs(x, v) PROVE Occurs(x, u \o v)
  <2>1. PICK k \in 1 .. Len(v) : v[k] = x BY <1>3 DEF Occurs
  <2>2. Len(u) + k \in 1 .. Len(u \o v) /\ (u \o v)[Len(u) + k] = x
    BY <2>1
  <2> QED BY <2>2 DEF Occurs
<1> QED BY <1>1, <1>2, <1>3

(* A sequence of one element. *)
LEMMA Singleton ==
  ASSUME NEW S, NEW w \in Seq(S), Len(w) = 1 PROVE w = <<w[1]>>
  OBVIOUS

(* What stands in front of and behind the first or the second of two.      *)
LEMMA SplitAtSecond ==
  ASSUME NEW S, NEW u \in Seq(S), NEW v \in Seq(S), v # <<>>,
         Len(u \o v) = 2, Head(v) # (u \o v)[1]
  PROVE  u = <<(u \o v)[1]>> /\ Tail(v) = <<>>
<1>1. Len(u) = 0 \/ Len(u) = 1
  <2>1. Len(u) \in Nat /\ Len(v) \in Nat /\ Len(v) # 0 OBVIOUS
  <2>2. Len(u) + Len(v) = 2 OBVIOUS
  <2>3. \A i, j \in Nat : j # 0 /\ i + j = 2 => i = 0 \/ i = 1 OBVIOUS
  <2> QED BY <2>1, <2>2, <2>3, Zenon
<1>2. CASE Len(u) = 0 BY <1>2
<1>3. CASE Len(u) = 1
  <2>1. u = <<u[1]>> /\ (u \o v)[1] = u[1] /\ Len(v) = 1 BY <1>3
  <2> QED BY <2>1
<1> QED BY <1>1, <1>2, <1>3

(* A sequence of two in two parts, of which the second does not begin with *)
(* the second element: the first part is empty.                            *)
LEMMA SplitAtFirst ==
  ASSUME NEW S, NEW u \in Seq(S), NEW v \in Seq(S), v # <<>>,
         Len(u \o v) = 2, Head(v) # (u \o v)[2]
  PROVE  u = <<>> /\ Tail(v) = <<(u \o v)[2]>>
<1>1. Len(u) = 0 \/ Len(u) = 1
  <2>1. Len(u) \in Nat /\ Len(v) \in Nat /\ Len(v) # 0 OBVIOUS
  <2>2. Len(u) + Len(v) = 2 OBVIOUS
  <2>3. \A i, j \in Nat : j # 0 /\ i + j = 2 => i = 0 \/ i = 1 OBVIOUS
  <2> QED BY <2>1, <2>2, <2>3, Zenon
<1>2. CASE Len(u) = 0
  <2>1. u = <<>> BY <1>2
  <2>2. <<>> \o v = v OBVIOUS
  <2>3. u \o v = v BY <2>1, <2>2
  <2>4. Len(v) = 2 BY <2>3
  <2>5. Tail(v) = <<v[2]>>
    <3>1. Tail(v) \in Seq(S) /\ Len(Tail(v)) = 1 /\ Tail(v)[1] = v[2] BY <2>4
    <3> QED BY <3>1, Singleton
  <2> QED BY <2>1, <2>3, <2>5
<1>3. CASE Len(u) = 1
  <2>1. (u \o v)[2] = v[1] /\ Len(v) = 1 BY <1>3
  <2> QED BY <2>1
<1> QED BY <1>1, <1>2, <1>3

(* The element at which a sequence is split. *)
LEMMA SplitElement ==
  ASSUME NEW S, NEW u \in Seq(S), NEW v \in Seq(S), v # <<>>
  PROVE  /\ Len(u) + 1 \in 1 .. Len(u \o v)
         /\ (u \o v)[Len(u) + 1] = Head(v)
         /\ Len(u \o v) = Len(u) + 1 + Len(Tail(v))
  OBVIOUS

-----------------------------------------------------------------------------
(* Parts and the children they become. *)

(* The kinds of the parts and the names in them. *)
LEMMA NameFields ==
  ASSUME NEW x
  PROVE  /\ Terminal(x).kind = "terminal" /\ Terminal(x).of = x
         /\ Node(x).kind = "node" /\ Node(x).of = x
  BY DEF Terminal, Node, Part

(* The kinds of parts, and what they are of.                               *)
LEMMA PartFields ==
  ASSUME NEW x, NEW y
  PROVE  /\ Optional(y, x).kind = "optional" /\ Optional(y, x).of = x
         /\ ListOf(y, x).kind = "list" /\ ListOf(y, x).of = x
         /\ ListOf(y, x).first = {y} /\ Optional(y, x).first = {y}
         /\ OperatorTail(y, x).kind = "tail" /\ OperatorTail(y, x).of = x
         /\ OperatorTail(y, x).first = y
         /\ Sign.kind = "sign" /\ Sign.first = Additive
         /\ HasError.kind = "has_error" /\ Nullptr.kind = "nullptr"
  BY DEF Terminal, Node, Optional, ListOf, OperatorTail, Sign, HasError, Nullptr, Part,
         Additive

(* Tokens and nodes are told apart by their names. *)
LEMMA NamesApart ==
  /\ TokenTypes \cap (Nodes \cup {"function_definition"}) = {}
  /\ "function_definition" \notin Nodes
  BY DEF TokenTypes, Nodes, DeclarationNodes, Declarations, StatementNodes,
         ExpressionNodes, Leaves

(* The parts of tokens and of nodes are parts. *)
LEMMA PartTypes ==
  /\ \A t \in TokenTypes : Terminal(t) \in PartSet
  /\ \A x \in Nodes : Node(x) \in PartSet
  /\ \A part \in PartSet : Node(part.of) \in PartSet
  BY DEF PartSet, Terminal, Node, Part, Kinds

(* The part a child was is a token or a node. *)
LEMMA KidIs ==
  ASSUME NEW c, ChildFits(c)
  PROVE  /\ Kid(c) \in PartSet
         /\ Kid(c).of = c.type
         /\ Kid(c).kind \in {"terminal", "node"}
         /\ Kid(c).kind = "terminal" => c.type \in TokenTypes /\ Kid(c) = Terminal(c.type)
         /\ Kid(c).kind = "node" => c.type \in Nodes /\ Kid(c) = Node(c.type)
<1>1. c.type \in TokenTypes \/ (c.type \in Nodes /\ c.type \notin TokenTypes)
  BY DEF ChildFits
<1>2. CASE c.type \in TokenTypes
  <2>1. Kid(c) = Terminal(c.type) BY <1>2 DEF Kid
  <2> QED BY <1>2, <2>1, NameFields, PartTypes
<1>3. CASE c.type \in Nodes /\ c.type \notin TokenTypes
  <2>1. Kid(c) = Node(c.type) BY <1>3 DEF Kid
  <2> QED BY <1>3, <2>1, NameFields, PartTypes
<1> QED BY <1>1, <1>2, <1>3

(* The parts that the children of a call were. *)
LEMMA KidsAre ==
  ASSUME NEW children, FittingChildren(children)
  PROVE  /\ Kids(children) \in Seq(PartSet)
         /\ Len(children) \in Nat
         /\ Len(Kids(children)) = Len(children)
         /\ \A k \in 1 .. Len(children) :
               /\ ChildFits(children[k])
               /\ Kids(children)[k] = Kid(children[k])
               /\ Kids(children)[k] \in PartSet
               /\ Kids(children)[k].kind \in {"terminal", "node"}
<1>1. PICK S : children \in Seq(S) /\ \A c \in S : ChildFits(c)
  BY DEF FittingChildren
<1>2. Len(children) \in Nat /\ \A k \in 1 .. Len(children) : ChildFits(children[k])
  BY <1>1
<1>3. \A k \in 1 .. Len(children) :
         Kid(children[k]) \in PartSet /\ Kid(children[k]).kind \in {"terminal", "node"}
  BY <1>2, KidIs
<1> QED BY <1>2, <1>3 DEF Kids

(* A call without children. *)
LEMMA NoKids == FittingChildren(<<>>) /\ Kids(<<>>) = <<>>
<1>1. <<>> \in Seq({}) /\ \A c \in {} : ChildFits(c) OBVIOUS
<1>2. FittingChildren(<<>>)
  <2> DEFINE S == {}
  <2>1. <<>> \in Seq(S) /\ \A c \in S : ChildFits(c) BY <1>1
  <2> HIDE DEF S
  <2> QED BY <2>1 DEF FittingChildren
<1>3. Len(Kids(<<>>)) = 0 /\ Kids(<<>>) \in Seq(PartSet) BY <1>2, KidsAre
<1> QED BY <1>2, <1>3

(* One more child. *)
LEMMA OneMoreKid ==
  ASSUME NEW children, FittingChildren(children), NEW c, ChildFits(c)
  PROVE  /\ FittingChildren(Append(children, c))
         /\ Kids(Append(children, c)) = Append(Kids(children), Kid(c))
<1>1. PICK S : children \in Seq(S) /\ \A d \in S : ChildFits(d)
  BY DEF FittingChildren
<1>2. /\ Append(children, c) \in Seq(S \cup {c}) /\ \A d \in S \cup {c} : ChildFits(d)
      /\ Len(Append(children, c)) = Len(children) + 1
      /\ \A k \in 1 .. Len(children) : Append(children, c)[k] = children[k]
      /\ Append(children, c)[Len(children) + 1] = c
  BY <1>1
<1>3. FittingChildren(Append(children, c))
  BY <1>2 DEF FittingChildren
<1> DEFINE u == Kids(children)
           w == Kids(Append(children, c))
<1>4. /\ u \in Seq(PartSet) /\ Len(u) = Len(children) /\ Len(children) \in Nat
      /\ \A k \in 1 .. Len(children) : u[k] = Kid(children[k])
  BY KidsAre
<1>5. /\ w \in Seq(PartSet) /\ Len(w) = Len(children) + 1
      /\ \A k \in 1 .. Len(children) + 1 : w[k] = Kid(Append(children, c)[k])
  BY <1>2, <1>3, KidsAre
<1>6. Kid(c) \in PartSet BY KidIs
<1>7. Append(u, Kid(c)) \in Seq(PartSet)
  BY <1>4, <1>6
<1>8. ASSUME NEW k \in 1 .. Len(children) + 1 PROVE w[k] = Append(u, Kid(c))[k]
  <2>1. CASE k = Len(children) + 1 BY <1>2, <1>4, <1>5, <2>1
  <2>2. CASE k \in 1 .. Len(children)
    <3>1. w[k] = Kid(children[k]) BY <1>2, <1>5, <2>2
    <3>2. Append(u, Kid(c))[k] = u[k] BY <1>4, <2>2
    <3> QED BY <1>4, <2>2, <3>1, <3>2
  <2> QED BY <1>4, <2>1, <2>2
<1> HIDE DEF u, w
<1>9. w = Append(u, Kid(c))
  BY <1>4, <1>5, <1>7, <1>8
<1> QED BY <1>3, <1>9 DEF u, w

-----------------------------------------------------------------------------
(* The form of a call when it begins, and when a part is announced. *)

(* One, two or three parts that are terminals, nodes or none of the two. *)
Plain(part) ==
    /\ part \in PartSet
    /\ part.kind = "terminal" => part = Terminal(part.of)
    /\ part.kind = "node" => part = Node(part.of)

(* The parts the forms are written with are plain.                         *)
LEMMA PlainParts ==
  /\ \A t \in TokenTypes : Plain(Terminal(t))
  /\ \A x \in Nodes : Plain(Node(x))
  /\ \A t \in TokenTypes, x \in Nodes : Plain(ListOf(t, x))
  /\ \A F \in SUBSET TokenTypes, x \in Nodes : Plain(OperatorTail(F, x))
  /\ Plain(Sign) /\ Plain(HasError) /\ Plain(Nullptr)
  /\ \A t \in TokenTypes, x \in Nodes : Plain(Optional(t, x))
<1>1. \A t \in TokenTypes : Plain(Terminal(t))
  BY DEF Plain, PartSet, Kinds, Terminal, Part
<1>2. \A x \in Nodes : Plain(Node(x))
  BY DEF Plain, PartSet, Kinds, Node, Part
<1>3. \A t \in TokenTypes, x \in Nodes : Plain(ListOf(t, x))
  BY DEF Plain, PartSet, Kinds, ListOf, Part
<1>4. \A F \in SUBSET TokenTypes, x \in Nodes : Plain(OperatorTail(F, x))
  BY DEF Plain, PartSet, Kinds, OperatorTail, Part
<1>5. Plain(Sign) /\ Plain(HasError) /\ Plain(Nullptr)
  BY DEF Plain, PartSet, Kinds, Sign, HasError, Nullptr, Part, TokenTypes
<1>6. \A t \in TokenTypes, x \in Nodes : Plain(Optional(t, x))
  BY DEF Plain, PartSet, Kinds, Optional, Part
<1> QED BY <1>1, <1>2, <1>3, <1>4, <1>5, <1>6

(* Sequences of plain parts are made of parts.                             *)
LEMMA PlainSequences ==
  ASSUME NEW a, Plain(a), NEW b, Plain(b), NEW c, Plain(c)
  PROVE  /\ <<a>> \in Seq(PartSet) /\ Made(<<a>>)
         /\ <<a, b>> \in Seq(PartSet) /\ Made(<<a, b>>)
         /\ <<a, b, c>> \in Seq(PartSet) /\ Made(<<a, b, c>>)
  BY DEF Plain, Made

(* The names of the nodes that are parsed by name, and those of tokens. *)
LEMMA Names ==
  /\ {"parameter_declaration", "variable_declaration", "constant_declaration",
      "declarator_list", "init_declarator_list", "init_declarator",
      "compound_statement", "statement_list", "statement", "assignment_expression",
      "additive_expression", "multiplicative_expression", "unary_expression",
      "primary_expression", "identifier", "literal"} = Nodes
  /\ {"PARAM", "VAR", "CONST", "SEPARATOR", "STATEMENT_TERMINATOR",
      "INIT_ASSIGNMENT_OP", "BEGIN", "END", "RETURN", "VAR_ASSIGNMENT_OP",
      "L_BRACKET", "R_BRACKET", "IDENTIFIER", "LITERAL", "PROGRAM_TERMINATOR"}
        \subseteq TokenTypes
  /\ Additive \subseteq TokenTypes /\ Multiplicative \subseteq TokenTypes
  /\ DOMAIN Lists = {"declarator_list", "init_declarator_list", "statement_list"}
  /\ DOMAIN Separator = DOMAIN Lists
  BY DEF Nodes, DeclarationNodes, Declarations, StatementNodes, ExpressionNodes,
         Leaves, TokenTypes, Additive, Multiplicative, Lists, Separator

(* A list with its first element in front. *)
LEMMA ListBegins ==
  ASSUME NEW t \in TokenTypes, NEW x \in Nodes
  PROVE  ListForm(<<Node(x), ListOf(t, x)>>, t, x)
<1> DEFINE form == <<Node(x), ListOf(t, x)>>
<1>1. Len(form) = 2 /\ form[1] = Node(x) /\ form[2] = ListOf(t, x)
  OBVIOUS
<1> HIDE DEF form
<1>2. /\ \A j \in 0 .. 0 : form[2 * j + 1] = Node(x)
      /\ \A j \in 1 .. 0 : form[2 * j] = Terminal(t)
      /\ Len(form) = 2 * 0 + 2 /\ form[2 * 0 + 2] = ListOf(t, x)
  BY <1>1
<1>3. ListForm(form, t, x)
  BY <1>2 DEF ListForm
<1> QED BY <1>3 DEF form

(* The parts of a parse function are a form of its node. *)
LEMMA CalledForm ==
  ASSUME NEW node \in Nodes, NEW t
  PROVE  FormFits(node, Parts(node, t)) /\ Made(Parts(node, t))
<1> USE Names, PlainParts
<1>1. CASE node \in DOMAIN Lists
  <2>1. /\ Parts(node, t) = <<Node(Lists[node]), ListOf(Separator[node], Lists[node])>>
        /\ Lists[node] \in Nodes /\ Separator[node] \in TokenTypes
    BY <1>1, DeclarationPartsAre, StatementPartsAre DEF Lists, Separator
  <2>2. ListForm(Parts(node, t), Separator[node], Lists[node])
    BY <2>1, ListBegins
  <2>3. Parts(node, t) \in Seq(PartSet) /\ Made(Parts(node, t))
    <3> DEFINE a == Node(Lists[node])
               b == ListOf(Separator[node], Lists[node])
    <3>1. Plain(a) /\ Plain(b) BY <2>1
    <3> HIDE DEF a, b
    <3>2. <<a, b>> \in Seq(PartSet) /\ Made(<<a, b>>) BY <3>1, PlainSequences
    <3> QED BY <2>1, <3>2 DEF a, b
  <2>4. node # "function_definition" BY <1>1
  <2> QED BY <1>1, <2>2, <2>3, <2>4 DEF FormFits
<1>2. CASE node \notin DOMAIN Lists
  <2>1. SUFFICES Parts(node, t) \in Forms(node) /\ Parts(node, t) \in Seq(PartSet)
                   /\ Made(Parts(node, t))
    <3>1. node # "function_definition" OBVIOUS
    <3> QED BY <1>2, <2>1, <3>1 DEF FormFits
  <2>2. CASE node \in Declarations
    <3>1. PICK keyword \in TokenTypes, list \in Nodes :
             Parts(node, t) = Declared(keyword, list) /\ Forms(node) = {Declared(keyword, list)}
      BY <2>2, DeclarationPartsAre DEF Declarations, Forms
    <3>2. /\ Declared(keyword, list) \in Seq(PartSet)
          /\ Made(Declared(keyword, list))
      BY PlainSequences DEF Declared
    <3> QED BY <3>1, <3>2
  <2>3. CASE node = "init_declarator"
    <3>1. Parts(node, t) \in Forms(node) BY <2>3, DeclarationPartsAre DEF Forms
    <3>2. Parts(node, t) = <<Node("identifier"), Terminal("INIT_ASSIGNMENT_OP"), Node("literal")>>
      BY <2>3, DeclarationPartsAre
    <3>3. /\ Plain(Node("identifier")) /\ Plain(Terminal("INIT_ASSIGNMENT_OP"))
          /\ Plain(Node("literal"))
      OBVIOUS
    <3>4. /\ <<Node("identifier"), Terminal("INIT_ASSIGNMENT_OP"), Node("literal")>> \in Seq(PartSet) /\ Made(<<Node("identifier"), Terminal("INIT_ASSIGNMENT_OP"), Node("literal")>>)
      BY <3>3, PlainSequences, Zenon
    <3> QED BY <3>1, <3>2, <3>4
  <2>4. CASE node = "compound_statement"
    <3>1. Parts(node, t) \in Forms(node) BY <2>4, StatementPartsAre DEF Forms
    <3>2. Parts(node, t) = <<Terminal("BEGIN"), Node("statement_list"), Terminal("END")>>
      BY <2>4, StatementPartsAre
    <3>3. /\ Plain(Terminal("BEGIN")) /\ Plain(Node("statement_list"))
          /\ Plain(Terminal("END"))
      OBVIOUS
    <3>4. /\ <<Terminal("BEGIN"), Node("statement_list"), Terminal("END")>> \in Seq(PartSet) /\ Made(<<Terminal("BEGIN"), Node("statement_list"), Terminal("END")>>)
      BY <3>3, PlainSequences, Zenon
    <3> QED BY <3>1, <3>2, <3>4
  <2>5. CASE node = "statement"
    <3>1. Parts(node, t) \in Forms(node) BY <2>5, StatementPartsAre DEF Forms
    <3>2. \/ Parts(node, t) = <<Terminal("RETURN"), Node("additive_expression")>>
          \/ Parts(node, t) = <<Node("assignment_expression")>>
      BY <2>5, StatementPartsAre
    <3> QED BY <3>1, <3>2, PlainSequences
  <2>6. CASE node = "assignment_expression"
    <3>1. Parts(node, t) \in Forms(node) BY <2>6, StatementPartsAre DEF Forms
    <3>2. Parts(node, t) = <<Node("identifier"), Terminal("VAR_ASSIGNMENT_OP"),
                            Node("additive_expression")>>
      BY <2>6, StatementPartsAre
    <3>3. /\ Plain(Node("identifier")) /\ Plain(Terminal("VAR_ASSIGNMENT_OP"))
          /\ Plain(Node("additive_expression"))
      OBVIOUS
    <3>4. /\ <<Node("identifier"), Terminal("VAR_ASSIGNMENT_OP"), Node("additive_expression")>> \in Seq(PartSet) /\ Made(<<Node("identifier"), Terminal("VAR_ASSIGNMENT_OP"), Node("additive_expression")>>)
      BY <3>3, PlainSequences, Zenon
    <3> QED BY <3>1, <3>2, <3>4
  <2>7. CASE node = "additive_expression"
    <3>1. Parts(node, t) \in Forms(node)
      BY <2>7, ExpressionPartsAre DEF Forms, OperationForms
    <3>2. Parts(node, t) = <<Node("multiplicative_expression"),
                            OperatorTail(Additive, "additive_expression")>>
      BY <2>7, ExpressionPartsAre
    <3>3. Plain(Node("multiplicative_expression"))
            /\ Plain(OperatorTail(Additive, "additive_expression"))
      OBVIOUS
    <3> QED BY <3>1, <3>2, <3>3, PlainSequences
  <2>8. CASE node = "multiplicative_expression"
    <3>1. Parts(node, t) \in Forms(node)
      BY <2>8, ExpressionPartsAre DEF Forms, OperationForms
    <3>2. Parts(node, t) = <<Node("unary_expression"),
                            OperatorTail(Multiplicative, "multiplicative_expression")>>
      BY <2>8, ExpressionPartsAre
    <3>3. Plain(Node("unary_expression"))
            /\ Plain(OperatorTail(Multiplicative, "multiplicative_expression"))
      OBVIOUS
    <3> QED BY <3>1, <3>2, <3>3, PlainSequences
  <2>9. CASE node = "unary_expression"
    <3>1. Parts(node, t) \in Forms(node) BY <2>9, ExpressionPartsAre DEF Forms
    <3>2. Parts(node, t) = <<Sign, Node("primary_expression")>>
      BY <2>9, ExpressionPartsAre
    <3> QED BY <3>1, <3>2, PlainSequences
  <2>10. CASE node = "primary_expression"
    <3>1. Parts(node, t) \in Forms(node) BY <2>10, ExpressionPartsAre DEF Forms
    <3>2. \/ Parts(node, t) = <<Node("identifier")>>
          \/ Parts(node, t) = <<Node("literal")>>
          \/ Parts(node, t) = <<Nullptr>>
          \/ Parts(node, t) = <<Terminal("L_BRACKET"), Node("additive_expression"),
                                Terminal("R_BRACKET")>>
      BY <2>10, ExpressionPartsAre
    <3>3. /\ Plain(Terminal("L_BRACKET")) /\ Plain(Node("additive_expression"))
          /\ Plain(Terminal("R_BRACKET")) /\ Plain(Node("identifier"))
          /\ Plain(Node("literal")) /\ Plain(Nullptr)
      OBVIOUS
    <3>4. /\ <<Node("identifier")>> \in Seq(PartSet) /\ Made(<<Node("identifier")>>)
          /\ <<Node("literal")>> \in Seq(PartSet) /\ Made(<<Node("literal")>>)
          /\ <<Nullptr>> \in Seq(PartSet) /\ Made(<<Nullptr>>)
          /\ <<Terminal("L_BRACKET"), Node("additive_expression"), Terminal("R_BRACKET")>> \in Seq(PartSet) /\ Made(<<Terminal("L_BRACKET"), Node("additive_expression"), Terminal("R_BRACKET")>>)
      BY <3>3, PlainSequences, Zenon
    <3> QED BY <3>1, <3>2, <3>4
  <2>11. CASE node \in Leaves
    <3>1. Parts(node, t) \in Forms(node) BY <2>11, DeclarationPartsAre DEF Forms, Leaves
    <3>2. \/ Parts(node, t) = <<Terminal("IDENTIFIER")>>
          \/ Parts(node, t) = <<Terminal("LITERAL")>>
      BY <2>11, DeclarationPartsAre DEF Leaves
    <3> QED BY <3>1, <3>2, PlainSequences
  <2> QED BY <1>2, <2>2, <2>3, <2>4, <2>5, <2>6, <2>7, <2>8, <2>9, <2>10, <2>11
          DEF Declarations, Leaves
<1> QED BY <1>1, <1>2

(* What expect_token makes of a part. *)
LEMMA AnnouncedIs ==
  ASSUME NEW part \in PartSet, NEW t,
         part.kind \in {"optional", "list", "tail", "sign"}
  PROVE  LET x == Announced(part, t)
         IN  /\ x \in Seq(PartSet) /\ Made(x)
             /\ t \notin part.first => x = <<>>
             /\ t \in part.first =>
                   /\ t \in TokenTypes
                   /\ part.kind = "list" => x = <<Terminal(t), Node(part.of), part>>
                   /\ part.kind = "tail" => x = <<Terminal(t), Node(part.of)>>
                   /\ part.kind = "sign" => x = <<Terminal(t)>>
<1> DEFINE x == Announced(part, t)
<1>1. CASE t \notin part.first
  <2>1. x = <<>> BY <1>1 DEF Announced
  <2>2. <<>> \in Seq(PartSet) /\ Made(<<>>) BY DEF Made
  <2> QED BY <1>1, <2>1, <2>2
<1>2. CASE t \in part.first
  <2>1. t \in TokenTypes BY <1>2 DEF PartSet
  <2>2. /\ part.kind = "optional" => x = <<Node(part.of)>>
        /\ part.kind = "list" => x = <<Terminal(t), Node(part.of), part>>
        /\ part.kind = "tail" => x = <<Terminal(t), Node(part.of)>>
        /\ part.kind = "sign" => x = <<Terminal(t)>>
    BY <1>2 DEF Announced
  <2>3. /\ Plain(Terminal(t)) /\ Plain(part) BY <2>1, PlainParts DEF Plain
  <2>4. Plain(Node(part.of)) BY PartTypes, NameFields DEF Plain
  <2> DEFINE a == Terminal(t)
             b == Node(part.of)
  <2> HIDE DEF a, b, x
  <2>5. /\ <<b>> \in Seq(PartSet) /\ Made(<<b>>)
        /\ <<a>> \in Seq(PartSet) /\ Made(<<a>>)
        /\ <<a, b>> \in Seq(PartSet) /\ Made(<<a, b>>)
        /\ <<a, b, part>> \in Seq(PartSet) /\ Made(<<a, b, part>>)
    BY <2>3, <2>4, PlainSequences, Zenon DEF a, b
  <2>6. x \in Seq(PartSet) /\ Made(x)
    BY <2>2, <2>5 DEF a, b
  <2> QED BY <1>2, <2>1, <2>2, <2>6 DEF x
<1> QED BY <1>1, <1>2

(* Made parts in front of made parts, and their rest. *)
LEMMA MadeParts ==
  ASSUME NEW x \in Seq(PartSet), Made(x), NEW todo \in Seq(PartSet), todo # <<>>,
         Made(todo)
  PROVE  Made(Tail(todo)) /\ Made(x \o Tail(todo)) /\ x \o Tail(todo) \in Seq(PartSet)
<1> DEFINE v == Tail(todo)
<1>1. /\ v \in Seq(PartSet) /\ Len(v) = Len(todo) - 1
      /\ \A k \in 1 .. Len(v) : v[k] = todo[k + 1]
  BY HeadTail
<1> HIDE DEF v
<1>2. \A k \in 1 .. Len(v) : k + 1 \in 1 .. Len(todo) BY <1>1
<1>3. Made(v) BY <1>1, <1>2 DEF Made
<1>4. x \o v \in Seq(PartSet) BY <1>1
<1>5. ASSUME NEW k \in 1 .. Len(x \o v)
      PROVE  /\ (x \o v)[k].kind = "terminal" => (x \o v)[k] = Terminal((x \o v)[k].of)
             /\ (x \o v)[k].kind = "node" => (x \o v)[k] = Node((x \o v)[k].of)
  <2>1. CASE k \in 1 .. Len(x)
    <3>1. (x \o v)[k] = x[k] BY <1>1, <2>1
    <3> QED BY <2>1, <3>1 DEF Made
  <2>2. CASE k \notin 1 .. Len(x)
    <3>1. k - Len(x) \in 1 .. Len(v) /\ (x \o v)[k] = v[k - Len(x)] BY <1>1, <2>2
    <3> QED BY <1>3, <3>1 DEF Made
  <2> QED BY <2>1, <2>2
<1>6. Made(x \o v) BY <1>5 DEF Made
<1> QED BY <1>3, <1>4, <1>6 DEF v

(* A sequence of two or three elements. *)
LEMMA TwoElements ==
  ASSUME NEW S, NEW w \in Seq(S)
  PROVE  /\ Len(w) = 2 => w = <<w[1], w[2]>>
         /\ Len(w) = 3 => w = <<w[1], w[2], w[3]>>
  OBVIOUS

(* One element in front of one or two. *)
LEMMA OneInFront ==
  ASSUME NEW S, NEW u \in Seq(S), NEW v \in Seq(S)
  PROVE  /\ Len(u) = 1 /\ Len(v) = 1 => u \o v = <<u[1], v[1]>>
         /\ Len(u) = 1 /\ Len(v) = 2 => u \o v = <<u[1], v[1], v[2]>>
<1> DEFINE w == u \o v
<1>1. /\ w \in Seq(S) /\ Len(w) = Len(u) + Len(v)
      /\ \A k \in 1 .. Len(u) : w[k] = u[k]
      /\ \A k \in 1 .. Len(v) : w[Len(u) + k] = v[k]
  OBVIOUS
<1> HIDE DEF w
<1>2. ASSUME Len(u) = 1, Len(v) = 1 PROVE w = <<u[1], v[1]>>
  <2>1. Len(w) = 2 /\ w[1] = u[1] /\ w[2] = v[1] BY <1>1, <1>2
  <2> QED BY <1>1, <2>1, TwoElements, Zenon
<1>3. ASSUME Len(u) = 1, Len(v) = 2 PROVE w = <<u[1], v[1], v[2]>>
  <2>1. Len(w) = 3 /\ w[1] = u[1] BY <1>1, <1>3
  <2>2. w[1 + 1] = v[1] /\ w[1 + 2] = v[2] BY <1>1, <1>3
  <2>3. w[2] = v[1] /\ w[3] = v[2] BY <2>2
  <2> QED BY <1>1, <2>1, <2>3, TwoElements, Zenon
<1> QED BY <1>2, <1>3 DEF w

(* Short sequences put together. *)
LEMMA OneAndTwo ==
  ASSUME NEW a, NEW b, NEW c
  PROVE  /\ <<a>> \o <<b>> = <<a, b>>
         /\ <<a>> \o (<<b, c>> \o <<>>) = <<a, b, c>>
         /\ <<>> \o (<<a>> \o <<b>>) = <<a, b>>
         /\ <<>> \o (<<>> \o <<a>>) = <<a>>
<1>1. <<b, c>> \o <<>> = <<b, c>>
  <2>1. <<b, c>> \in Seq({b, c}) OBVIOUS
  <2> QED BY <2>1, PartMoves, Zenon
<1> DEFINE S == {a, b, c}
           x == <<a>>
           y == <<b>>
           z == <<b, c>>
<1>6. /\ x \in Seq(S) /\ Len(x) = 1 /\ x[1] = a
      /\ y \in Seq(S) /\ Len(y) = 1 /\ y[1] = b
      /\ z \in Seq(S) /\ Len(z) = 2 /\ z[1] = b /\ z[2] = c
  OBVIOUS
<1> HIDE DEF S, x, y, z
<1>7. x \o y = <<x[1], y[1]>> /\ x \o z = <<x[1], z[1], z[2]>>
  BY <1>6, OneInFront, Zenon
<1>2. <<a>> \o <<b>> = <<a, b>> BY <1>6, <1>7, Zenon DEF x, y
<1>3. <<a>> \o <<b, c>> = <<a, b, c>> BY <1>6, <1>7, Zenon DEF x, z
<1>4. <<>> \o <<a>> = <<a>> OBVIOUS
<1>5. <<>> \o <<a, b>> = <<a, b>> OBVIOUS
<1> QED BY <1>1, <1>2, <1>3, <1>4, <1>5, Zenon

(* An operation goes on with its operator or ends with its operand. *)
LEMMA AnnouncedOperator ==
  ASSUME NEW node \in Nodes, NEW operand \in Nodes, NEW operators \in SUBSET TokenTypes,
         NEW u \in Seq(PartSet), NEW todo \in Seq(PartSet), todo # <<>>,
         Head(todo).kind \in {"optional", "list", "tail", "sign"},
         u \o todo \in OperationForms(operand, operators, node), NEW t
  PROVE  u \o (Announced(Head(todo), t) \o Tail(todo))
            \in OperationForms(operand, operators, node)
<1> DEFINE form == u \o todo
           whole == OperatorTail(operators, node)
           part == Head(todo)
<1>1. /\ Len(u) + 1 \in 1 .. Len(form) /\ form[Len(u) + 1] = part
      /\ Len(form) = Len(u) + 1 + Len(Tail(todo)) /\ Len(u) \in Nat
      /\ part \in PartSet
  BY SplitElement, HeadTail
<1>2. part.kind # "terminal" /\ part.kind # "node"
  OBVIOUS
<1>3. Node(operand).kind = "node" /\ Node(node).kind = "node"
      /\ \A x : Terminal(x).kind = "terminal"
  BY NameFields
<1>4. form = <<Node(operand), whole>>
  <2> HIDE DEF form, part, whole
  <2>1. CASE form = <<Node(operand)>>
    <3>1. part = Node(operand) BY <1>1, <2>1
    <3> QED BY <1>2, <1>3, <3>1
  <2>2. CASE \E x \in operators : form = <<Node(operand), Terminal(x), Node(node)>>
    <3>1. PICK x \in operators : form = <<Node(operand), Terminal(x), Node(node)>>
      BY <2>2
    <3>2. part = Node(operand) \/ part = Terminal(x) \/ part = Node(node)
      BY <1>1, <3>1
    <3> QED BY <1>2, <1>3, <3>2
  <2> QED BY <2>1, <2>2 DEF OperationForms, form, whole
<1>5. u = <<Node(operand)>> /\ Tail(todo) = <<>> /\ part = whole
  <2>1. Len(form) = 2 /\ form[1] = Node(operand) /\ form[2] = whole
    BY <1>4
  <2>2. Head(todo) # (u \o todo)[1] BY <1>2, <1>3, <2>1
  <2>3. Len(u \o todo) = 2 BY <2>1
  <2>4. u = <<(u \o todo)[1]>> /\ Tail(todo) = <<>>
    <3> HIDE DEF form
    <3> QED BY <2>2, <2>3, SplitAtSecond
  <2>5. Len(u) = 1 BY <2>4
  <2>6. part = form[2] BY <1>1, <2>5
  <2> QED BY <2>1, <2>4, <2>6
<1>6. /\ whole.kind = "tail" /\ whole.of = node /\ whole.first = operators
  BY PartFields
<1>7. CASE t \notin operators
  <2>1. Announced(part, t) = <<>> BY <1>1, <1>5, <1>6, <1>7, AnnouncedIs
  <2>2. u \o (<<>> \o <<>>) = <<Node(operand)>> BY <1>5
  <2> QED BY <1>5, <2>1, <2>2 DEF OperationForms
<1>8. CASE t \in operators
  <2>1. Announced(part, t) = <<Terminal(t), Node(node)>>
    BY <1>1, <1>5, <1>6, <1>8, AnnouncedIs
  <2>2. u \o (<<Terminal(t), Node(node)>> \o <<>>)
          = <<Node(operand), Terminal(t), Node(node)>>
    BY <1>5, OneAndTwo
  <2> QED BY <1>5, <1>8, <2>1, <2>2 DEF OperationForms
<1> QED BY <1>7, <1>8

(* A list goes on with one more element or ends. *)
LEMMA AnnouncedElement ==
  ASSUME NEW separator \in TokenTypes, NEW element \in Nodes,
         NEW u \in Seq(PartSet), NEW todo \in Seq(PartSet), todo # <<>>,
         Head(todo).kind \in {"optional", "list", "tail", "sign"},
         ListForm(u \o todo, separator, element), NEW t
  PROVE  ListForm(u \o (Announced(Head(todo), t) \o Tail(todo)), separator, element)
<1> DEFINE form == u \o todo
           part == Head(todo)
<1>1. /\ Len(u) + 1 \in 1 .. Len(form) /\ form[Len(u) + 1] = part
      /\ Len(form) = Len(u) + 1 + Len(Tail(todo)) /\ Len(u) \in Nat
      /\ part \in PartSet /\ part.kind # "terminal" /\ part.kind # "node"
      /\ \A k \in 1 .. Len(u) : form[k] = u[k]
      /\ Len(Tail(todo)) \in Nat
  BY SplitElement, HeadTail
<1>2. Node(element).kind = "node" /\ Terminal(separator).kind = "terminal"
  BY NameFields
<1>3. PICK m \in Nat :
        /\ \A j \in 0 .. m : form[2 * j + 1] = Node(element)
        /\ \A j \in 1 .. m : form[2 * j] = Terminal(separator)
        /\ \/ Len(form) = 2 * m + 1
           \/ Len(form) = 2 * m + 2 /\ form[2 * m + 2] = ListOf(separator, element)
  BY DEF ListForm
<1> HIDE DEF form, part
<1>4. Len(u) = 2 * m + 1 /\ Len(form) = 2 * m + 2 /\ Tail(todo) = <<>>
      /\ part = ListOf(separator, element)
  <2>1. ASSUME NEW k \in 1 .. 2 * m + 1 PROVE form[k].kind \in {"terminal", "node"}
    <3>1. \/ \E j \in 0 .. m : k = 2 * j + 1
          \/ \E j \in 1 .. m : k = 2 * j
      <4>1. /\ k \div 2 \in Nat
            /\ k = 2 * (k \div 2) + 1 \/ k = 2 * (k \div 2)
        OBVIOUS
      <4>2. CASE k = 2 * (k \div 2) + 1
        <5>1. k \div 2 \in 0 .. m BY <4>1, <4>2
        <5> QED BY <4>2, <5>1
      <4>3. CASE k = 2 * (k \div 2)
        <5>1. k \div 2 \in 1 .. m BY <4>1, <4>3
        <5> QED BY <4>3, <5>1
      <4> QED BY <4>1, <4>2, <4>3
    <3> QED BY <1>2, <1>3, <3>1
  <2>2. ~(Len(u) + 1 <= 2 * m + 1) BY <1>1, <2>1
  <2>3. Len(u) + 1 = 2 * m + 2 /\ Len(form) = 2 * m + 2 BY <1>1, <1>3, <2>2
  <2>4. form[2 * m + 2] = ListOf(separator, element) BY <1>3, <2>3
  <2>5. Len(Tail(todo)) = 0
    <3>1. \A i, j, k \in Nat : k = i + 1 + j /\ i + 1 = k => j = 0 OBVIOUS
    <3>2. 2 * m + 2 \in Nat OBVIOUS
    <3> QED BY <1>1, <2>3, <3>1, <3>2, Zenon
  <2>6. Tail(todo) = <<>> BY <2>5, HeadTail, EmptySeq
  <2> QED BY <1>1, <2>3, <2>4, <2>6
<1>5. /\ \A j \in 0 .. m : u[2 * j + 1] = Node(element)
      /\ \A j \in 1 .. m : u[2 * j] = Terminal(separator)
  BY <1>1, <1>3, <1>4
<1>6. part.kind = "list" /\ part.of = element /\ part.first = {separator}
  BY <1>4, PartFields
<1>7. CASE t # separator
  <2>1. Announced(part, t) = <<>>
    <3>1. t \notin part.first BY <1>6, <1>7
    <3>2. part \in PartSet /\ part.kind \in {"optional", "list", "tail", "sign"}
      BY <1>1, <1>6
    <3> QED BY <3>1, <3>2, AnnouncedIs
  <2>2. u \o (<<>> \o <<>>) = u OBVIOUS
  <2>3. ListForm(u, separator, element) BY <1>4, <1>5 DEF ListForm
  <2> QED BY <1>4, <2>1, <2>2, <2>3 DEF part
<1>8. CASE t = separator
  <2> DEFINE a == Terminal(separator)
             b == Node(element)
             c == ListOf(separator, element)
             w == u \o (<<a, b, c>> \o <<>>)
  <2>1. Announced(part, t) = <<a, b, c>>
    <3>1. part \in PartSet BY <1>1
    <3>2. t \in part.first BY <1>6, <1>8
    <3>3. Announced(part, t) = <<Terminal(t), Node(part.of), part>>
      BY <1>6, <3>1, <3>2, AnnouncedIs
    <3>4. t = separator /\ part.of = element /\ part = c BY <1>4, <1>6, <1>8
    <3> QED BY <3>3, <3>4, Zenon
  <2> HIDE DEF a, b, c
  <2>2. /\ Len(w) = 2 * (m + 1) + 2
        /\ \A k \in 1 .. 2 * m + 1 : w[k] = u[k]
        /\ w[2 * m + 2] = a /\ w[2 * m + 3] = b /\ w[2 * m + 4] = c
    <3>1. <<a, b, c>> \o <<>> = <<a, b, c>> OBVIOUS
    <3>2. w = u \o <<a, b, c>> BY <3>1
    <3> DEFINE v == <<a, b, c>>
    <3>3. Len(v) = 3 /\ v[1] = a /\ v[2] = b /\ v[3] = c OBVIOUS
    <3>4. v \in Seq({a, b, c}) OBVIOUS
    <3> HIDE DEF v, w
    <3>5. /\ Len(w) = Len(u) + Len(v)
          /\ \A k \in 1 .. Len(u) : w[k] = u[k]
          /\ \A k \in 1 .. Len(v) : w[Len(u) + k] = v[k]
      BY <3>2, <3>4 DEF v
    <3>6. 1 \in 1 .. Len(v) /\ 2 \in 1 .. Len(v) /\ 3 \in 1 .. Len(v) BY <3>3
    <3>7. Len(u) = 2 * m + 1 BY <1>4
    <3> QED BY <3>3, <3>5, <3>6, <3>7
  <2> HIDE DEF w
  <2>3. ASSUME NEW j \in 0 .. m + 1 PROVE w[2 * j + 1] = Node(element)
    <3>1. CASE j \in 0 .. m
      <4>1. 2 * j + 1 \in 1 .. 2 * m + 1 BY <3>1
      <4>2. w[2 * j + 1] = u[2 * j + 1] BY <2>2, <4>1, Zenon
      <4> QED BY <1>5, <3>1, <4>2, Zenon
    <3>2. CASE j = m + 1
      <4>1. 2 * j + 1 = 2 * m + 3 BY <3>2
      <4> QED BY <2>2, <4>1, Zenon DEF b
    <3> QED BY <3>1, <3>2
  <2>4. ASSUME NEW j \in 1 .. m + 1 PROVE w[2 * j] = Terminal(separator)
    <3>1. CASE j \in 1 .. m
      <4>1. 2 * j \in 1 .. 2 * m + 1 BY <3>1
      <4>2. w[2 * j] = u[2 * j] BY <2>2, <4>1, Zenon
      <4> QED BY <1>5, <3>1, <4>2, Zenon
    <3>2. CASE j = m + 1
      <4>1. 2 * j = 2 * m + 2 BY <3>2
      <4> QED BY <2>2, <4>1, Zenon DEF a
    <3> QED BY <3>1, <3>2
  <2>5. w[2 * (m + 1) + 2] = ListOf(separator, element) BY <2>2 DEF c
  <2>6. m + 1 \in Nat OBVIOUS
  <2>7. ListForm(w, separator, element) BY <2>2, <2>3, <2>4, <2>5, <2>6 DEF ListForm
  <2> QED BY <1>4, <2>1, <2>7 DEF w, part
<1> QED BY <1>7, <1>8

(* A sign is there or not. *)
LEMMA AnnouncedSign ==
  ASSUME NEW u \in Seq(PartSet), NEW todo \in Seq(PartSet), todo # <<>>,
         Head(todo).kind \in {"optional", "list", "tail", "sign"},
         u \o todo \in Forms("unary_expression"), NEW t
  PROVE  u \o (Announced(Head(todo), t) \o Tail(todo)) \in Forms("unary_expression")
<1> DEFINE form == u \o todo
           part == Head(todo)
           primary == Node("primary_expression")
<1>1. /\ Len(u) + 1 \in 1 .. Len(form) /\ form[Len(u) + 1] = part
      /\ Len(u) \in Nat /\ part \in PartSet
  BY SplitElement, HeadTail
<1>2. part.kind # "terminal" /\ part.kind # "node"
  OBVIOUS
<1>3. /\ primary.kind = "node" /\ \A x : Terminal(x).kind = "terminal"
      /\ Sign.kind = "sign" /\ Sign.first = Additive
  BY NameFields, PartFields
<1>4. Forms("unary_expression") =
        {<<Sign, primary>>, <<primary>>} \cup {<<Terminal(x), primary>> : x \in Additive}
  BY DEF Forms
<1>5. form = <<Sign, primary>>
  <2> HIDE DEF form, part, primary
  <2>1. CASE form = <<primary>>
    <3>1. part = primary BY <1>1, <2>1
    <3> QED BY <1>2, <1>3, <3>1
  <2>2. CASE \E x \in Additive : form = <<Terminal(x), primary>>
    <3>1. PICK x \in Additive : form = <<Terminal(x), primary>> BY <2>2
    <3>2. part = primary \/ part = Terminal(x) BY <1>1, <3>1
    <3> QED BY <1>2, <1>3, <3>2
  <2> QED BY <1>4, <2>1, <2>2 DEF form
<1>6. u = <<>> /\ Tail(todo) = <<primary>> /\ part = Sign
  <2> HIDE DEF primary
  <2>1. Len(form) = 2 /\ form[1] = Sign /\ form[2] = primary BY <1>5
  <2>2. Len(u \o todo) = 2 /\ Head(todo) # (u \o todo)[2] BY <1>2, <1>3, <2>1
  <2>3. u = <<>> /\ Tail(todo) = <<(u \o todo)[2]>>
    <3> HIDE DEF form
    <3> QED BY <2>2, SplitAtFirst
  <2>4. Len(u) = 0 BY <2>3
  <2> QED BY <1>1, <2>1, <2>3, <2>4
<1>7. CASE t \notin Additive
  <2>1. Announced(part, t) = <<>> BY <1>1, <1>3, <1>6, <1>7, AnnouncedIs
  <2>2. <<>> \o (<<>> \o <<primary>>) = <<primary>> OBVIOUS
  <2> QED BY <1>4, <1>6, <2>1, <2>2
<1>8. CASE t \in Additive
  <2>1. Announced(part, t) = <<Terminal(t)>> BY <1>1, <1>3, <1>6, <1>8, AnnouncedIs
  <2>2. <<>> \o (<<Terminal(t)>> \o <<primary>>) = <<Terminal(t), primary>>
    BY OneAndTwo, Zenon
  <2> QED BY <1>4, <1>6, <1>8, <2>1, <2>2
<1> QED BY <1>7, <1>8

(* The other forms have no part that must be announced. *)
LEMMA NothingAnnounced ==
  ASSUME NEW node \in Nodes \ {"additive_expression", "multiplicative_expression",
                              "unary_expression"},
         node \notin DOMAIN Lists, NEW form \in Forms(node), NEW k \in 1 .. Len(form)
  PROVE  form[k].kind \in {"terminal", "node", "nullptr"}
<1>1. CASE \E a, b, c : /\ form = <<a, b, c>>
                        /\ a.kind \in {"terminal", "node"}
                        /\ b.kind \in {"terminal", "node"}
                        /\ c.kind \in {"terminal", "node"}
  <2>1. PICK a, b, c : /\ form = <<a, b, c>>
                       /\ a.kind \in {"terminal", "node"}
                       /\ b.kind \in {"terminal", "node"}
                       /\ c.kind \in {"terminal", "node"}
    BY <1>1
  <2>2. k = 1 \/ k = 2 \/ k = 3 BY <2>1
  <2>3. form[k] = a \/ form[k] = b \/ form[k] = c BY <2>1, <2>2
  <2> QED BY <2>1, <2>3
<1>2. CASE \E a, b : /\ form = <<a, b>>
                     /\ a.kind \in {"terminal", "node"}
                     /\ b.kind \in {"terminal", "node"}
  <2>1. PICK a, b : /\ form = <<a, b>>
                    /\ a.kind \in {"terminal", "node"}
                    /\ b.kind \in {"terminal", "node"}
    BY <1>2
  <2>2. k = 1 \/ k = 2 BY <2>1
  <2>3. form[k] = a \/ form[k] = b BY <2>1, <2>2
  <2> QED BY <2>1, <2>3
<1>3. CASE \E a : form = <<a>> /\ a.kind \in {"terminal", "node", "nullptr"}
  BY <1>3
<1>4. \A x : Terminal(x).kind = "terminal" /\ Node(x).kind = "node"
  BY NameFields
<1>5. Nullptr.kind = "nullptr" BY PartFields
<1>6. CASE node \in Declarations
  BY <1>1, <1>4, <1>6 DEF Forms, Declared, Declarations
<1>7. CASE node \in {"init_declarator", "compound_statement", "assignment_expression"}
  BY <1>1, <1>4, <1>7 DEF Forms
<1>8. CASE node = "statement"
  BY <1>2, <1>3, <1>4, <1>8 DEF Forms
<1>9. CASE node = "primary_expression"
  BY <1>1, <1>3, <1>4, <1>5, <1>9 DEF Forms
<1>10. CASE node \in Leaves
  BY <1>3, <1>4, <1>10 DEF Forms, Leaves
<1> QED BY <1>6, <1>7, <1>8, <1>9, <1>10, Names DEF Declarations, Leaves

(* What expect_token makes of a part leaves a call in a form of its node. *)
LEMMA AnnouncedForm ==
  ASSUME NEW node \in Nodes \cup {"function_definition"},
         NEW u \in Seq(PartSet), NEW todo \in Seq(PartSet), todo # <<>>, Made(todo),
         Head(todo).kind \in {"optional", "list", "tail", "sign"},
         FormFits(node, u \o todo), NEW t
  PROVE  /\ Made(Announced(Head(todo), t) \o Tail(todo))
         /\ FormFits(node, u \o (Announced(Head(todo), t) \o Tail(todo)))
<1> DEFINE part == Head(todo)
           x == Announced(part, t)
           next == x \o Tail(todo)
<1>1. part \in PartSet /\ x \in Seq(PartSet) /\ Made(x)
  BY AnnouncedIs, HeadTail
<1>2. Made(next) /\ next \in Seq(PartSet) /\ Tail(todo) \in Seq(PartSet)
  <2> HIDE DEF x
  <2> QED BY <1>1, MadeParts, HeadTail
<1>3. u \o next \in Seq(PartSet) BY <1>2
<1>4. CASE node = "function_definition"
  <2> DEFINE c == Node("compound_statement")
  <2>1. Occurs(c, u \o todo) BY <1>4 DEF FormFits
  <2>2. c # part BY NameFields
  <2>3. ASSUME Occurs(c, todo) PROVE Occurs(c, Tail(todo))
    <3>1. PICK k \in 1 .. Len(todo) : todo[k] = c BY <2>3 DEF Occurs
    <3>2. k # 1 BY <2>2, <3>1
    <3>3. /\ Len(Tail(todo)) = Len(todo) - 1 /\ Len(todo) \in Nat
          /\ \A i \in 1 .. Len(Tail(todo)) : Tail(todo)[i] = todo[i + 1]
      BY HeadTail
    <3>4. k - 1 \in 1 .. Len(Tail(todo)) /\ (k - 1) + 1 = k BY <3>2, <3>3
    <3>5. Tail(todo)[k - 1] = c BY <3>1, <3>3, <3>4
    <3> QED BY <3>4, <3>5 DEF Occurs
  <2> HIDE DEF c, x
  <2>4. Occurs(c, u) \/ Occurs(c, todo) BY <2>1, OccursInParts
  <2>5. Occurs(c, next) <=> Occurs(c, x) \/ Occurs(c, Tail(todo))
    BY <1>1, <1>2, OccursInParts
  <2>6. Occurs(c, u \o next) <=> Occurs(c, u) \/ Occurs(c, next)
    BY <1>2, OccursInParts
  <2>7. Occurs(c, u \o next) BY <2>3, <2>4, <2>5, <2>6
  <2> QED BY <1>2, <1>3, <1>4, <2>7 DEF FormFits, c, x
<1>5. CASE node \in DOMAIN Lists
  <2>1. Separator[node] \in TokenTypes /\ Lists[node] \in Nodes
    BY <1>5, Names DEF Separator, Lists
  <2>2. node # "function_definition" BY <1>5, Names
  <2>3. ListForm(u \o todo, Separator[node], Lists[node]) BY <1>5, <2>2 DEF FormFits
  <2>4. ListForm(u \o next, Separator[node], Lists[node])
    BY <2>1, <2>3, AnnouncedElement
  <2> QED BY <1>2, <1>3, <1>5, <2>2, <2>4 DEF FormFits
<1>6. CASE node # "function_definition" /\ node \notin DOMAIN Lists
  <2>1. node \in Nodes /\ u \o todo \in Forms(node) BY <1>6 DEF FormFits
  <2>2. SUFFICES u \o next \in Forms(node)
    BY <1>2, <1>3, <1>6, <2>2 DEF FormFits
  <2>3. CASE node = "additive_expression"
    <3>1. Forms(node) = OperationForms("multiplicative_expression", Additive, node)
      BY <2>3 DEF Forms
    <3>2. "multiplicative_expression" \in Nodes /\ Additive \in SUBSET TokenTypes
      BY Names
    <3>3. u \o todo \in OperationForms("multiplicative_expression", Additive, node)
      BY <2>1, <3>1
    <3>4. u \o next \in OperationForms("multiplicative_expression", Additive, node)
      BY <2>1, <3>2, <3>3, AnnouncedOperator
    <3> QED BY <3>1, <3>4
  <2>4. CASE node = "multiplicative_expression"
    <3>1. Forms(node) = OperationForms("unary_expression", Multiplicative, node)
      BY <2>4 DEF Forms
    <3>2. "unary_expression" \in Nodes /\ Multiplicative \in SUBSET TokenTypes
      BY Names
    <3>3. u \o todo \in OperationForms("unary_expression", Multiplicative, node)
      BY <2>1, <3>1
    <3>4. u \o next \in OperationForms("unary_expression", Multiplicative, node)
      BY <2>1, <3>2, <3>3, AnnouncedOperator
    <3> QED BY <3>1, <3>4
  <2>5. CASE node = "unary_expression"
    BY <2>1, <2>5, AnnouncedSign
  <2>6. CASE node \notin {"additive_expression", "multiplicative_expression",
                          "unary_expression"}
    <3>1. Len(u) + 1 \in 1 .. Len(u \o todo) /\ (u \o todo)[Len(u) + 1] = part
      BY SplitElement
    <3>2. (u \o todo)[Len(u) + 1].kind \in {"terminal", "node", "nullptr"}
      BY <1>6, <2>1, <2>6, <3>1, NothingAnnounced
    <3>3. part.kind \in {"terminal", "node", "nullptr"}
      BY <3>1, <3>2
    <3> QED BY <3>3
  <2> QED BY <2>3, <2>4, <2>5, <2>6
<1> QED BY <1>2, <1>4, <1>5, <1>6

-----------------------------------------------------------------------------
(* The calls on the stack keep their forms. *)

(* What the invariant of the parser says about the frames. *)
LEMMA Frames ==
  ASSUME Inv, outcome = "reading"
  PROVE  /\ \E F : stack \in Seq(F)
         /\ Len(stack) \in Nat /\ Len(stack) > 0 /\ Top = stack[Len(stack)]
         /\ \A i \in 1 .. Len(stack) : /\ IsFrame(stack[i])
                                       /\ stack[i].todo \in Seq(PartSet)
                                       /\ (stack[i].node = "function_definition") = (i = 1)
<1>1. PICK g : StackFits(stack, g, phrase, next_token)
  BY DEF Inv, StackInv
<1>2. Len(stack) \in Nat /\ Len(stack) > 0
  BY <1>1, TopFits
<1>3. ASSUME NEW i \in 1 .. Len(stack)
      PROVE  /\ IsFrame(stack[i]) /\ stack[i].todo \in Seq(PartSet)
             /\ (stack[i].node = "function_definition") = (i = 1)
  <2>1. FrameFits(stack[i], g[i], phrase, next_token) BY <1>1 DEF StackFits
  <2> QED BY <1>1, <2>1 DEF StackFits, FrameFits, TodoFits
<1> QED BY <1>1, <1>2, <1>3 DEF StackFits, Top

(* The top frame goes on within a form of its node. *)
LEMMA TopForm ==
  ASSUME NEW F, NEW st \in Seq(F), Len(st) > 0, FormInv(st), NEW f,
         f.node = st[Len(st)].node, Made(f.todo), CallFitsForm(f.node, f.children, f.todo)
  PROVE  FormInv(Append(SubSeq(st, 1, Len(st) - 1), f))
<1> DEFINE n == Len(st)
           st2 == Append(SubSeq(st, 1, Len(st) - 1), f)
<1>1. /\ Len(st2) = n /\ st2[n] = f /\ n \in Nat
      /\ \A i \in 1 .. n - 1 : st2[i] = st[i]
  BY TopReplaced
<1> HIDE DEF st2
<1>2. \A i \in 1 .. n : st2[i].node = st[i].node
  BY <1>1
<1>3. ASSUME NEW i \in 1 .. n
      PROVE  /\ st2[i].node \in Nodes \cup {"function_definition"}
             /\ Made(st2[i].todo)
             /\ CallFitsForm(st2[i].node, st2[i].children, Awaited(st2, i))
  <2>1. CASE i = n
    <3>1. Awaited(st2, i) = f.todo /\ st2[i] = f BY <1>1, <2>1 DEF Awaited
    <3>2. f.node \in Nodes \cup {"function_definition"} BY <2>1 DEF FormInv
    <3> QED BY <3>1, <3>2
  <2>2. CASE i # n
    <3>1. i \in 1 .. n - 1 /\ i + 1 \in 1 .. n BY <1>1, <2>2
    <3>2. st2[i] = st[i] /\ st2[i + 1].node = st[i + 1].node BY <1>1, <1>2, <3>1
    <3>3. Awaited(st2, i) = Awaited(st, i) BY <1>1, <2>2, <3>2 DEF Awaited
    <3> QED BY <3>2, <3>3 DEF FormInv
  <2> QED BY <2>1, <2>2
<1>4. FormInv(st2) BY <1>1, <1>3 DEF FormInv
<1> QED BY <1>4 DEF st2

(* A token is a child that fits. *)
LEMMA LeafFitsForm ==
  ASSUME NEW t \in TokenTypes
  PROVE  ChildFits(Leaf(t)) /\ Kid(Leaf(t)) = Terminal(t)
<1>1. Leaf(t).type = t BY DEF Leaf, TreeNode
<1> QED BY <1>1, NamesApart DEF ChildFits, Kid

(* A token that is taken moves from the parts to the children: the form is *)
(* the same.                                                               *)
LEMMA ConsumeForm ==
  ASSUME Inv, FormInv(stack), Consume
  PROVE  FormInv(stack')
<1> DEFINE n == Len(stack)
           rest == Tail(Top.todo)
           leaf == Leaf(Current.of)
           h == Going(Top, rest)
           f == [h EXCEPT !.children = Append(h.children, leaf)]
<1>1. /\ Todo /\ Current.kind = "terminal" /\ outcome = "reading" /\ Top.todo # <<>>
      /\ Current.kind # "has_error"
      /\ stack' = Append(SubSeq(stack, 1, Len(stack) - 1), f)
  BY DEF Consume, Matches, Todo, Callers
<1>2. PICK F : stack \in Seq(F)
  BY <1>1, Frames
<1>3. /\ n \in Nat /\ n > 0 /\ n \in 1 .. n /\ Top = stack[n]
      /\ IsFrame(Top) /\ Top.todo \in Seq(PartSet)
  BY <1>1, Frames
<1>4. Current.of \in TokenTypes
  <2>1. PICK g : StackFits(stack, g, phrase, next_token) BY <1>1, StackStands
  <2>2. PartOf(Top.node, Current) BY <1>1, <2>1, InFront
  <2> QED BY <1>1, <2>2 DEF PartOf
<1>5. /\ Made(Top.todo) /\ FittingChildren(Top.children)
      /\ FormFits(Top.node, Kids(Top.children) \o Top.todo)
  BY <1>3 DEF FormInv, CallFitsForm, FormOf, Awaited
<1>6. Current = Terminal(Current.of)
  <2>1. 1 \in 1 .. Len(Top.todo) /\ Top.todo[1] = Current
    BY <1>1, <1>3, EmptySeq DEF Current
  <2> QED BY <1>1, <1>5, <2>1 DEF Made
<1>7. f.node = Top.node /\ f.todo = rest /\ f.children = Append(Top.children, leaf)
  <2> HIDE DEF leaf, rest, Top
  <2>1. /\ IsFrame(h) /\ h.node = Top.node /\ h.todo = rest /\ h.children = Top.children
    BY <1>3, GoingFacts
  <2> HIDE DEF h
  <2> QED BY <2>1, ChildrenFacts
<1>8. ChildFits(leaf) /\ Kid(leaf) = Current
  BY <1>4, <1>6, LeafFitsForm
<1>9. FittingChildren(f.children) /\ Kids(f.children) = Append(Kids(Top.children), Current)
  <2> HIDE DEF leaf, f, Top, Current
  <2> QED BY <1>5, <1>7, <1>8, OneMoreKid
<1>10. Kids(f.children) \o rest = Kids(Top.children) \o Top.todo
  <2> DEFINE u == Kids(Top.children)
             todo == Top.todo
  <2>1. u \in Seq(PartSet) BY <1>5, KidsAre
  <2>2. Head(todo) \in PartSet /\ Tail(todo) \in Seq(PartSet) /\ todo = <<Head(todo)>> \o Tail(todo)
    BY <1>1, <1>3, HeadTail
  <2>3. Head(todo) = Current /\ Tail(todo) = rest BY DEF Current
  <2> HIDE DEF u, todo, rest, f
  <2>4. Append(u, Current) \o rest = u \o (<<Current>> \o rest)
    BY <2>1, <2>2, <2>3, PartMoves
  <2>5. Kids(f.children) = Append(u, Current) BY <1>9 DEF u
  <2> QED BY <2>2, <2>3, <2>4, <2>5 DEF u, todo
<1>11. Made(rest)
  <2>1. <<>> \in Seq(PartSet) /\ Made(<<>>) BY DEF Made
  <2> QED BY <1>1, <1>3, <1>5, <2>1, MadeParts
<1>12. CallFitsForm(f.node, f.children, f.todo)
  BY <1>5, <1>7, <1>9, <1>10 DEF CallFitsForm, FormOf
<1> HIDE DEF f, n, rest, leaf
<1> QED BY <1>1, <1>2, <1>3, <1>7, <1>11, <1>12, TopForm DEF n

(* A part that is announced, or missing, leaves one of the forms of its    *)
(* node.                                                                   *)
LEMMA ExpectForm ==
  ASSUME Inv, FormInv(stack), Expect
  PROVE  FormInv(stack')
<1> DEFINE n == Len(stack)
           todo == Announced(Current, next_token) \o Tail(Top.todo)
           f == Going(Top, todo)
<1>1. /\ outcome = "reading" /\ Top.todo # <<>>
      /\ Current.kind \in {"optional", "list", "tail", "sign"}
      /\ stack' = Append(SubSeq(stack, 1, Len(stack) - 1), f)
  BY DEF Expect, Todo, Callers
<1>2. PICK F : stack \in Seq(F)
  BY <1>1, Frames
<1>3. /\ n \in Nat /\ n > 0 /\ n \in 1 .. n /\ Top = stack[n]
      /\ IsFrame(Top) /\ Top.todo \in Seq(PartSet)
  BY <1>1, Frames
<1>4. /\ Top.node \in Nodes \cup {"function_definition"}
      /\ Made(Top.todo) /\ FittingChildren(Top.children)
      /\ FormFits(Top.node, Kids(Top.children) \o Top.todo)
  BY <1>3 DEF FormInv, CallFitsForm, FormOf, Awaited
<1>5. Kids(Top.children) \in Seq(PartSet)
  BY <1>4, KidsAre
<1>6. Made(todo) /\ FormFits(Top.node, Kids(Top.children) \o todo)
  <2> HIDE DEF Top
  <2> QED BY <1>1, <1>3, <1>4, <1>5, AnnouncedForm DEF Current
<1>7. f.node = Top.node /\ f.todo = todo /\ f.children = Top.children
  <2> HIDE DEF todo, Top
  <2> QED BY <1>3, GoingFacts
<1>8. CallFitsForm(f.node, f.children, f.todo)
  BY <1>4, <1>6, <1>7 DEF CallFitsForm, FormOf
<1> HIDE DEF f, n, todo
<1> QED BY <1>1, <1>2, <1>3, <1>6, <1>7, <1>8, TopForm DEF n

(* A call that waits goes on where it was, and one that begins is in a     *)
(* form of its node.                                                       *)
LEMMA CallParseForm ==
  ASSUME Inv, FormInv(stack), CallParse
  PROVE  FormInv(stack')
<1> DEFINE n == Len(stack)
           rest == Tail(Top.todo)
           h == Going(Top, rest)
           st1 == Append(SubSeq(stack, 1, Len(stack) - 1), h)
           parts == Parts(Current.of, next_token)
           called == Frame(Current.of, parts,
                           next_token = Nullopt /\ Current.of \notin Leaves)
<1>1. /\ outcome = "reading" /\ Top.todo # <<>> /\ Todo
      /\ Current.kind = "node" /\ Current.kind # "has_error"
      /\ stack' = Append(st1, called)
  BY DEF CallParse, Todo, Callers
<1>2. PICK F : stack \in Seq(F)
  BY <1>1, Frames
<1>3. /\ n \in Nat /\ n > 0 /\ n \in 1 .. n /\ Top = stack[n]
      /\ IsFrame(Top) /\ Top.todo \in Seq(PartSet)
  BY <1>1, Frames
<1>4. Current.of \in Nodes
  <2>1. PICK g : StackFits(stack, g, phrase, next_token) BY <1>1, StackStands
  <2>2. PartOf(Top.node, Current) BY <1>1, <2>1, InFront
  <2> QED BY <1>1, <2>2 DEF PartOf, Calling
<1>5. /\ Top.node \in Nodes \cup {"function_definition"}
      /\ Made(Top.todo) /\ CallFitsForm(Top.node, Top.children, Top.todo)
  BY <1>3 DEF FormInv, Awaited
<1>6. Top.todo = <<Node(Current.of)>> \o rest /\ Made(rest)
  <2>1. 1 \in 1 .. Len(Top.todo) /\ Top.todo[1] = Current
    BY <1>1, <1>3, EmptySeq DEF Current
  <2>2. Current = Node(Current.of) BY <1>1, <1>5, <2>1 DEF Made
  <2>3. Top.todo = <<Current>> \o rest BY <1>1, <1>3, HeadTail DEF Current
  <2>4. <<>> \in Seq(PartSet) /\ Made(<<>>) BY DEF Made
  <2>5. Made(rest) BY <1>1, <1>3, <1>5, <2>4, MadeParts
  <2> QED BY <2>2, <2>3, <2>5
<1>7. h.node = Top.node /\ h.todo = rest /\ h.children = Top.children
  <2> HIDE DEF rest, Top
  <2> QED BY <1>3, GoingFacts
<1>8. /\ called.node = Current.of /\ called.todo = parts /\ called.children = <<>>
  BY DEF Frame
<1>9. /\ Made(parts) /\ CallFitsForm(called.node, called.children, parts)
  <2>1. FormFits(Current.of, parts) /\ Made(parts) BY <1>4, CalledForm
  <2>2. Kids(<<>>) \o parts = parts
    <3>1. parts \in Seq(PartSet) BY <2>1 DEF FormFits
    <3> HIDE DEF parts
    <3> QED BY <3>1, NoKids, ConcatEmptySeq
  <2> QED BY <1>8, <2>1, <2>2, NoKids DEF CallFitsForm, FormOf
<1> HIDE DEF h, parts, called
<1>10. /\ st1 \in Seq(F \cup {h}) /\ Len(st1) = n /\ st1[n] = h
       /\ \A i \in 1 .. n - 1 : st1[i] = stack[i]
  BY <1>2, <1>3, TopReplaced
<1> HIDE DEF st1
<1>11. /\ Len(stack') = n + 1 /\ stack'[n + 1] = called
       /\ \A i \in 1 .. n : stack'[i] = st1[i]
  BY <1>1, <1>10, OnTop
<1> HIDE DEF n, rest
<1>12. ASSUME NEW i \in 1 .. n + 1
       PROVE  /\ stack'[i].node \in Nodes \cup {"function_definition"}
              /\ Made(stack'[i].todo)
              /\ CallFitsForm(stack'[i].node, stack'[i].children, Awaited(stack', i))
  <2>1. CASE i = n + 1
    <3>1. Awaited(stack', i) = parts BY <1>8, <1>11, <2>1 DEF Awaited
    <3> QED BY <1>4, <1>8, <1>9, <1>11, <2>1, <3>1
  <2>2. CASE i = n
    <3>1. stack'[i] = h /\ i # n + 1 BY <1>3, <1>10, <1>11, <2>2
    <3>2. Awaited(stack', i) = <<Node(Current.of)>> \o rest
      BY <1>7, <1>8, <1>11, <2>2, <3>1 DEF Awaited
    <3>3. Awaited(stack', i) = Top.todo BY <1>6, <3>2
    <3> QED BY <1>5, <1>6, <1>7, <3>1, <3>3
  <2>3. CASE i \in 1 .. n - 1
    <3>1. i \in 1 .. n /\ i + 1 \in 1 .. n /\ i # n /\ i # n + 1 BY <1>3, <2>3
    <3>2. stack'[i] = stack[i] BY <1>10, <1>11, <2>3, <3>1
    <3>3. stack'[i + 1].node = stack[i + 1].node
      <4>1. CASE i + 1 = n
        <5>1. stack'[i + 1] = h BY <1>10, <1>11, <3>1, <4>1
        <5> QED BY <1>3, <1>7, <4>1, <5>1
      <4>2. CASE i + 1 \in 1 .. n - 1 BY <1>10, <1>11, <3>1, <4>2
      <4> QED BY <1>3, <2>3, <4>1, <4>2
    <3>4. Awaited(stack', i) = Awaited(stack, i)
      BY <1>11, <3>1, <3>2, <3>3 DEF Awaited, n
    <3>5. /\ stack[i].node \in Nodes \cup {"function_definition"}
          /\ Made(stack[i].todo)
          /\ CallFitsForm(stack[i].node, stack[i].children, Awaited(stack, i))
      BY <3>1 DEF FormInv, n
    <3> QED BY <3>2, <3>4, <3>5
  <2> QED BY <1>3, <2>1, <2>2, <2>3
<1> QED BY <1>11, <1>12 DEF FormInv

(* What occurs in a sequence occurs there without another part. *)
LEMMA WithoutPart ==
  ASSUME NEW u \in Seq(PartSet), NEW v \in Seq(PartSet), NEW x \in PartSet, NEW c,
         c # x, Occurs(c, u \o (<<x>> \o v))
  PROVE  Occurs(c, u \o v)
<1> DEFINE w == <<x>>
           y == w \o v
<1>1. w \in Seq(PartSet) /\ ~Occurs(c, w) BY DEF Occurs
<1> HIDE DEF w
<1>2. y \in Seq(PartSet) BY <1>1
<1>3. Occurs(c, y) <=> Occurs(c, w) \/ Occurs(c, v) BY <1>1, OccursInParts
<1> HIDE DEF y
<1>4. Occurs(c, u \o y) BY DEF y, w
<1>5. Occurs(c, u) \/ Occurs(c, v) BY <1>1, <1>2, <1>3, <1>4, OccursInParts
<1> QED BY <1>5, OccursInParts

(* A declaration is abandoned, or the function is. *)
LEMMA ReturnNullptrForm ==
  ASSUME Inv, FormInv(stack), outcome = "reading", ReturnNullptr
  PROVE  TreeInv'
<1>1. CASE Len(stack) > 1 /\ stack[2].node \in Declarations
  <2>1. stack' = <<stack[1]>> /\ outcome' = outcome BY <1>1 DEF ReturnNullptr
  <2> DEFINE f == stack[1]
             c == Node("compound_statement")
             u == Kids(f.children)
             x == Node(stack[2].node)
  <2>2. /\ 1 \in 1 .. Len(stack) /\ f.todo \in Seq(PartSet)
        /\ f.node = "function_definition"
    BY <1>1, Frames
  <2>3. /\ Made(f.todo) /\ FittingChildren(f.children)
        /\ FormFits(f.node, u \o (<<x>> \o f.todo))
    <3>1. Awaited(stack, 1) = <<x>> \o f.todo BY <1>1 DEF Awaited
    <3>2. Made(f.todo) /\ CallFitsForm(f.node, f.children, Awaited(stack, 1))
      BY <2>2 DEF FormInv
    <3> HIDE DEF x, f
    <3> QED BY <3>1, <3>2 DEF CallFitsForm, FormOf
  <2>4. u \in Seq(PartSet) BY <2>3, KidsAre
  <2>5. stack[2].node \in Nodes /\ stack[2].node # "compound_statement"
    BY <1>1 DEF Declarations, Nodes, DeclarationNodes
  <2>6. c # x /\ x \in PartSet
    <3>1. c.of # x.of BY <2>5, NameFields
    <3> QED BY <2>5, <3>1, PartTypes
  <2> HIDE DEF u, c, x, f
  <2>7. Occurs(c, u \o (<<x>> \o f.todo)) BY <2>2, <2>3 DEF FormFits, c
  <2>11. Occurs(c, u \o f.todo) BY <2>2, <2>4, <2>6, <2>7, WithoutPart
  <2>12. u \o f.todo \in Seq(PartSet) BY <2>2, <2>4
  <2>13. CallFitsForm(f.node, f.children, f.todo)
    BY <2>2, <2>3, <2>11, <2>12 DEF CallFitsForm, FormOf, FormFits, u, c
  <2>14. /\ Len(stack') = 1 /\ stack'[1] = f BY <2>1 DEF f
  <2>15. Awaited(stack', 1) = f.todo BY <2>14 DEF Awaited
  <2>16. FormInv(stack')
    <3> SUFFICES ASSUME NEW i \in 1 .. 1
                 PROVE  /\ stack'[i].node \in Nodes \cup {"function_definition"}
                        /\ Made(stack'[i].todo)
                        /\ CallFitsForm(stack'[i].node, stack'[i].children, Awaited(stack', i))
      BY <2>14 DEF FormInv
    <3>1. i = 1 OBVIOUS
    <3> QED BY <2>2, <2>3, <2>13, <2>14, <2>15, <3>1
  <2> QED BY <2>1, <2>16 DEF TreeInv
<1>2. CASE ~(Len(stack) > 1 /\ stack[2].node \in Declarations)
  BY <1>2 DEF ReturnNullptr, TreeInv
<1> QED BY <1>1, <1>2

(* After the test of has_error() the function goes on without the part     *)
(* tested, or ends.                                                        *)
LEMMA TestHasErrorForm ==
  ASSUME Inv, FormInv(stack), TestHasError
  PROVE  TreeInv'
<1> DEFINE rest == Tail(Top.todo)
           f == Going(Top, rest)
<1>1. /\ Todo /\ Current.kind = "has_error" /\ outcome = "reading" /\ Top.todo # <<>>
      /\ stack' = IF error_flag THEN <<>> ELSE <<f>>
      /\ outcome' = IF error_flag THEN "nullptr" ELSE outcome
  BY DEF TestHasError, Todo
<1>2. CASE error_flag BY <1>1, <1>2 DEF TreeInv
<1>3. CASE ~error_flag
  <2>1. /\ Len(stack) \in 1 .. Len(stack) /\ Top = stack[Len(stack)]
        /\ IsFrame(Top) /\ Top.todo \in Seq(PartSet)
    BY <1>1, Frames
  <2>2. Top.node = "function_definition"
    <3>1. PICK g : StackFits(stack, g, phrase, next_token) BY <1>1 DEF Inv, StackInv
    <3>2. PartOf(Top.node, Current) BY <1>1, <3>1, InFront
    <3> QED BY <1>1, <3>2 DEF PartOf
  <2>3. /\ Made(Top.todo) /\ FittingChildren(Top.children)
        /\ FormFits(Top.node, Kids(Top.children) \o Top.todo)
    BY <2>1 DEF FormInv, CallFitsForm, FormOf, Awaited
  <2> DEFINE u == Kids(Top.children)
             c == Node("compound_statement")
  <2>4. /\ Head(Top.todo) # c /\ Top.todo = <<Head(Top.todo)>> \o rest
        /\ rest \in Seq(PartSet) /\ Head(Top.todo) \in PartSet
    BY <1>1, <2>1, NameFields, HeadTail DEF Current
  <2>5. Made(rest)
    <3>1. <<>> \in Seq(PartSet) /\ Made(<<>>) BY DEF Made
    <3> QED BY <1>1, <2>1, <2>3, <3>1, MadeParts
  <2>6. u \in Seq(PartSet) BY <2>3, KidsAre
  <2>7. f.node = Top.node /\ f.todo = rest /\ f.children = Top.children
    <3> HIDE DEF rest, Top
    <3> QED BY <2>1, GoingFacts
  <2>8. Occurs(c, u \o Top.todo) BY <2>2, <2>3 DEF FormFits
  <2> HIDE DEF u, c, f, rest
  <2>12. Occurs(c, u \o rest)
    <3> DEFINE x == Head(Top.todo)
    <3>1. x \in PartSet /\ c # x /\ Occurs(c, u \o (<<x>> \o rest)) BY <2>4, <2>8
    <3> HIDE DEF x
    <3> QED BY <2>4, <2>6, <3>1, WithoutPart
  <2>13. u \o rest \in Seq(PartSet) BY <2>4, <2>6
  <2>14. CallFitsForm(f.node, f.children, f.todo)
    BY <2>2, <2>3, <2>7, <2>12, <2>13 DEF CallFitsForm, FormOf, FormFits, u, c
  <2>15. /\ Len(stack') = 1 /\ stack'[1] = f BY <1>1, <1>3
  <2>16. Awaited(stack', 1) = f.todo BY <2>15 DEF Awaited
  <2>17. FormInv(stack')
    <3> SUFFICES ASSUME NEW i \in 1 .. 1
                 PROVE  /\ stack'[i].node \in Nodes \cup {"function_definition"}
                        /\ Made(stack'[i].todo)
                        /\ CallFitsForm(stack'[i].node, stack'[i].children, Awaited(stack', i))
      BY <2>15 DEF FormInv
    <3>1. i = 1 OBVIOUS
    <3> QED BY <2>2, <2>5, <2>7, <2>14, <2>15, <2>16, <3>1
  <2> QED BY <1>1, <1>3, <2>17 DEF TreeInv
<1> QED BY <1>2, <1>3

-----------------------------------------------------------------------------
(* The nodes that are made of forms that are completed. *)

(* The types of the children that were these parts. *)
LEMMA KidTypes ==
  ASSUME NEW children, FittingChildren(children), NEW k \in 1 .. Len(children), NEW x
  PROVE  /\ Kids(children)[k].of = children[k].type
         /\ Kids(children)[k].kind \in {"terminal", "node"}
         /\ Kids(children)[k] = Node(x) => children[k].type = x /\ x \in Nodes
         /\ Kids(children)[k] = Terminal(x) => children[k] = Leaf(x) /\ x \in TokenTypes
<1>1. ChildFits(children[k]) /\ Kids(children)[k] = Kid(children[k])
  BY KidsAre
<1> DEFINE c == children[k]
<1> HIDE DEF c
<1>2. /\ Kid(c).of = c.type
      /\ Kid(c).kind \in {"terminal", "node"}
      /\ Kid(c).kind = "terminal" => c.type \in TokenTypes /\ Kid(c) = Terminal(c.type)
      /\ Kid(c).kind = "node" => c.type \in Nodes /\ Kid(c) = Node(c.type)
  BY <1>1, KidIs DEF c
<1>3. /\ Node(x).kind = "node" /\ Node(x).of = x
      /\ Terminal(x).kind = "terminal" /\ Terminal(x).of = x
  BY NameFields
<1>4. c.type \in TokenTypes => c = Leaf(c.type)
  BY <1>1 DEF ChildFits, c
<1>5. Kid(c) = Node(x) => c.type = x /\ x \in Nodes
  BY <1>2, <1>3
<1>6. Kid(c) = Terminal(x) => c = Leaf(x) /\ x \in TokenTypes
  BY <1>2, <1>3, <1>4
<1> QED BY <1>1, <1>2, <1>5, <1>6 DEF c

(* A list that is completed has its elements at every other place. *)
LEMMA ListChildren ==
  ASSUME NEW children, FittingChildren(children), NEW separator, NEW element,
         ListForm(Kids(children), separator, element)
  PROVE  \E m \in Nat : /\ Len(children) = 2 * m + 1
                        /\ \A j \in 0 .. m : children[2 * j + 1].type = element
<1>1. PICK m \in Nat :
        /\ \A j \in 0 .. m : Kids(children)[2 * j + 1] = Node(element)
        /\ \/ Len(Kids(children)) = 2 * m + 1
           \/ /\ Len(Kids(children)) = 2 * m + 2
              /\ Kids(children)[2 * m + 2] = ListOf(separator, element)
  BY DEF ListForm
<1>2. Len(Kids(children)) = Len(children) /\ Len(children) \in Nat
  BY KidsAre
<1>3. Len(children) = 2 * m + 1
  <2> SUFFICES ASSUME Len(children) = 2 * m + 2,
                      Kids(children)[2 * m + 2] = ListOf(separator, element)
               PROVE  FALSE
    BY <1>1, <1>2
  <2>1. 2 * m + 2 \in 1 .. Len(children) OBVIOUS
  <2>2. Kids(children)[2 * m + 2].kind \in {"terminal", "node"}
    BY <2>1, KidTypes
  <2> QED BY <2>2, PartFields
<1>4. ASSUME NEW j \in 0 .. m PROVE children[2 * j + 1].type = element
  <2>1. 2 * j + 1 \in 1 .. Len(children) BY <1>3
  <2> QED BY <1>1, <2>1, KidTypes
<1> QED BY <1>3, <1>4

(* What there is to find, for each type of nodes. *)
LEMMA FindsIs ==
  ASSUME NEW c
  PROVE  /\ c.type \in DOMAIN Lists =>
               (Finds(c) <=> \A i \in 0 .. get_number_of(c) - 1 :
                                get_element(c, i).type = Lists[c.type])
         /\ c.type = "unary_expression" =>
               (Finds(c) <=> get_expression(c).type = "primary_expression")
         /\ c.type = "function_definition" =>
               (Finds(c) <=>
                  /\ Has(c, "parameter_declaration") = 1 =>
                        get_parameter_declarations(c).type = "parameter_declaration"
                  /\ Has(c, "variable_declaration") = 1 =>
                        get_variable_declarations(c).type = "variable_declaration"
                  /\ Has(c, "constant_declaration") = 1 =>
                        get_constant_declarations(c).type = "constant_declaration"
                  /\ get_compund_statement(c).type = "compound_statement")
         /\ c.type \notin DOMAIN Lists \cup {"function_definition", "unary_expression"} =>
               Finds(c)
<1>1. DOMAIN Lists = {"declarator_list", "init_declarator_list", "statement_list"}
  BY Names
<1>2. CASE c.type \in DOMAIN Lists
  <2>1. c.type # "function_definition" /\ c.type # "unary_expression" BY <1>1, <1>2
  <2> QED BY <1>2, <2>1 DEF Finds
<1>3. CASE c.type = "unary_expression"
  <2>1. c.type \notin DOMAIN Lists BY <1>1, <1>3
  <2> QED BY <1>3, <2>1 DEF Finds
<1>4. CASE c.type \notin DOMAIN Lists \cup {"function_definition", "unary_expression"}
  <2>1. Finds(c) BY <1>4 DEF Finds
  <2> QED BY <1>4, <2>1
<1>5. CASE c.type = "function_definition"
  <2>1. c.type \notin DOMAIN Lists /\ c.type # "unary_expression" BY <1>1, <1>5
  <2> QED BY <1>5, <2>1 DEF Finds
<1> QED BY <1>2, <1>3, <1>4, <1>5

(* The accessors of a node whose form is completed find its children. *)
LEMMA CompletedFinds ==
  ASSUME NEW node \in Nodes, NEW children, FittingChildren(children),
         FormFits(node, Kids(children)), NEW stale
  PROVE  Finds(TreeNode(node, children, stale))
<1> DEFINE c == TreeNode(node, children, stale)
           u == Kids(children)
<1> SUFFICES Finds(c)
  OBVIOUS
<1>1. c.type = node /\ c.children = children /\ node # "function_definition"
  BY NamesApart DEF TreeNode
<1>2. /\ Len(u) = Len(children) /\ Len(children) \in Nat
      /\ \A k \in 1 .. Len(children) : u[k].kind \in {"terminal", "node"}
  BY KidsAre
<1>3. CASE node \in DOMAIN Lists
  <2> HIDE DEF c
  <2>1. ListForm(u, Separator[node], Lists[node]) BY <1>1, <1>3 DEF FormFits
  <2>2. PICK m \in Nat : /\ Len(children) = 2 * m + 1
                         /\ \A j \in 0 .. m : children[2 * j + 1].type = Lists[node]
    BY <2>1, ListChildren
  <2>3. get_number_of(c) = 1 + m
    <3>1. (Len(children) - 1) \div 2 = m BY <2>2
    <3> QED BY <1>1, <3>1 DEF get_number_of
  <2>4. ASSUME NEW i \in 0 .. get_number_of(c) - 1
        PROVE  get_element(c, i).type = Lists[node]
    <3>1. i \in 0 .. m BY <2>3
    <3>2. get_element(c, i) = children[2 * i + 1] BY <1>1, <3>1 DEF get_element, Child
    <3> QED BY <2>2, <3>1, <3>2
  <2> QED BY <1>1, <1>3, <2>4, FindsIs
<1>4. CASE node = "unary_expression"
  <2> DEFINE primary == Node("primary_expression")
  <2>1. u \in Forms(node) BY <1>1, <1>4, Names DEF FormFits
  <2>2. u = <<primary>> \/ \E t \in Additive : u = <<Terminal(t), primary>>
    <3>1. Sign.kind = "sign" BY PartFields
    <3>2. u # <<Sign, primary>>
      <4> SUFFICES ASSUME u = <<Sign, primary>> PROVE FALSE OBVIOUS
      <4> HIDE DEF primary, u
      <4>1. Len(u) = 2 /\ u[1] = Sign OBVIOUS
      <4>2. 1 \in 1 .. Len(children) BY <1>2, <4>1
      <4> QED BY <1>2, <3>1, <4>1, <4>2
    <3> QED BY <1>4, <2>1, <3>2 DEF Forms
  <2>3. get_expression(c).type = "primary_expression"
    <3> HIDE DEF c, u, primary
    <3>1. CASE u = <<primary>>
      <4>1. Len(children) = 1 /\ u[1] = primary BY <1>2, <3>1
      <4>2. children[1].type = "primary_expression" BY <4>1, KidTypes DEF u, primary
      <4>3. get_expression(c) = children[1]
        BY <1>1, <4>1 DEF get_expression, HasUnaryOperator, Child
      <4> QED BY <4>2, <4>3
    <3>2. CASE \E t \in Additive : u = <<Terminal(t), primary>>
      <4>1. Len(children) = 2 /\ u[2] = primary BY <1>2, <3>2
      <4>2. children[2].type = "primary_expression" BY <4>1, KidTypes DEF u, primary
      <4>3. get_expression(c) = children[2]
        BY <1>1, <4>1 DEF get_expression, HasUnaryOperator, Child
      <4> QED BY <4>2, <4>3
    <3> QED BY <2>2, <3>1, <3>2
  <2> HIDE DEF c
  <2> QED BY <1>1, <1>4, <2>3, FindsIs
<1>5. CASE node \notin DOMAIN Lists /\ node # "unary_expression"
  <2> HIDE DEF c
  <2> QED BY <1>1, <1>5, FindsIs
<1> QED BY <1>3, <1>4, <1>5

(* A node whose form is completed is a child that fits. *)
LEMMA CompletedFits ==
  ASSUME NEW node \in Nodes, NEW children, FittingChildren(children),
         FormFits(node, Kids(children)), NEW stale
  PROVE  ChildFits(TreeNode(node, children, stale))
<1>1. TreeNode(node, children, stale).type = node
  BY DEF TreeNode
<1>2. node \notin TokenTypes
  BY NamesApart
<1> QED BY <1>1, <1>2, CompletedFinds DEF ChildFits

(* A node is handed to the call that awaits it. *)
LEMMA ReturnNodeForm ==
  ASSUME Inv, FormInv(stack), ReturnNode
  PROVE  FormInv(stack')
<1> DEFINE n == Len(stack)
           below == stack[n - 1]
           child == TreeNode(Top.node, Top.children, Top.stale)
           h == [below EXCEPT !.children = Append(below.children, child)]
<1>1. /\ outcome = "reading" /\ Top.todo = <<>> /\ n > 1
      /\ stack' = [SubSeq(stack, 1, n - 1) EXCEPT
                      ![n - 1] = [SubSeq(stack, 1, n - 1)[n - 1] EXCEPT !.children =
                         Append(SubSeq(stack, 1, n - 1)[n - 1].children, child)]]
  BY DEF ReturnNode, Callers
<1>2. \E F : stack \in Seq(F)
  BY <1>1, Frames
<1>3. /\ n \in Nat /\ n \in 1 .. n /\ Top = stack[n] /\ n - 1 \in 1 .. n /\ (n - 1) + 1 = n
      /\ IsFrame(below) /\ below.todo \in Seq(PartSet)
      /\ Top.node # "function_definition"
  <2>1. /\ n \in Nat /\ Top = stack[n]
        /\ \A i \in 1 .. n : /\ IsFrame(stack[i]) /\ stack[i].todo \in Seq(PartSet)
                             /\ (stack[i].node = "function_definition") = (i = 1)
    BY <1>1, Frames
  <2>2. n \in 1 .. n /\ n - 1 \in 1 .. n /\ (n - 1) + 1 = n /\ n # 1 BY <1>1, <2>1
  <2> QED BY <2>1, <2>2
<1>4. ChildFits(child) /\ Kid(child) = Node(Top.node) /\ Top.node \in Nodes
  <2>1. /\ Top.node \in Nodes /\ FittingChildren(Top.children)
        /\ FormFits(Top.node, Kids(Top.children) \o <<>>)
    BY <1>1, <1>3 DEF FormInv, CallFitsForm, FormOf, Awaited
  <2>2. Kids(Top.children) \o <<>> = Kids(Top.children)
    <3>1. Kids(Top.children) \in Seq(PartSet) BY <2>1, KidsAre
    <3> QED BY <3>1, ConcatEmptySeq
  <2>3. ChildFits(child) BY <2>1, <2>2, CompletedFits
  <2>4. child.type = Top.node /\ Top.node \notin TokenTypes
    BY <2>1, NamesApart DEF TreeNode
  <2> QED BY <2>1, <2>3, <2>4 DEF Kid
<1> HIDE DEF child, Top
<1>5. /\ below.node \in Nodes \cup {"function_definition"}
      /\ Made(below.todo) /\ FittingChildren(below.children)
      /\ FormFits(below.node, Kids(below.children) \o (<<Node(Top.node)>> \o below.todo))
  <2>1. Awaited(stack, n - 1) = <<Node(Top.node)>> \o below.todo
    <3>1. n - 1 # n
      <4>1. \A a \in Nat : a - 1 # a OBVIOUS
      <4> QED BY <1>3, <4>1, Zenon
    <3>2. Awaited(stack, n - 1) = <<Node(stack[(n - 1) + 1].node)>> \o stack[n - 1].todo
      BY <3>1 DEF Awaited
    <3>3. stack[(n - 1) + 1].node = Top.node BY <1>3
    <3> QED BY <3>2, <3>3
  <2> QED BY <1>3, <2>1 DEF FormInv, CallFitsForm, FormOf
<1>6. /\ h.node = below.node /\ h.todo = below.todo
      /\ h.children = Append(below.children, child)
  BY <1>3, ChildrenFacts
<1>7. /\ Len(stack') = n - 1 /\ stack'[n - 1] = h
      /\ \A i \in 1 .. n - 2 : stack'[i] = stack[i]
  <2>1. SubSeq(stack, 1, n - 1)[n - 1] = below
    BY <1>1, <1>2, HandedDown
  <2>2. stack' = WithoutTop(stack, h) BY <1>1, <2>1 DEF WithoutTop
  <2> HIDE DEF h
  <2>3. /\ Len(WithoutTop(stack, h)) = Len(stack) - 1
        /\ WithoutTop(stack, h)[Len(stack) - 1] = h
        /\ \A i \in 1 .. Len(stack) : i < Len(stack) - 1 => WithoutTop(stack, h)[i] = stack[i]
    BY <1>1, <1>2, HandedDown
  <2>4. \A i \in 1 .. n - 2 : i \in 1 .. n /\ i < n - 1 BY <1>3
  <2> QED BY <2>2, <2>3, <2>4
<1> HIDE DEF h
<1>8. CallFitsForm(h.node, h.children, h.todo)
  <2> DEFINE u == Kids(below.children)
             a == Node(Top.node)
             v == below.todo
  <2>1. /\ FittingChildren(h.children) /\ Kids(h.children) = Append(u, a)
    BY <1>4, <1>5, <1>6, OneMoreKid
  <2>2. u \in Seq(PartSet) /\ a \in PartSet /\ v \in Seq(PartSet)
    BY <1>3, <1>4, <1>5, KidsAre, PartTypes
  <2>3. FormFits(below.node, u \o (<<a>> \o v)) BY <1>5
  <2> HIDE DEF u, a, v, below
  <2>4. Append(u, a) \o v = u \o (<<a>> \o v) BY <2>2, PartMoves
  <2> QED BY <1>6, <2>1, <2>3, <2>4 DEF CallFitsForm, FormOf, v
<1> HIDE DEF below
<1>9. ASSUME NEW i \in 1 .. n - 1
      PROVE  /\ stack'[i].node \in Nodes \cup {"function_definition"}
             /\ Made(stack'[i].todo)
             /\ CallFitsForm(stack'[i].node, stack'[i].children, Awaited(stack', i))
  <2>1. CASE i = n - 1
    <3>1. Awaited(stack', i) = h.todo BY <1>7, <2>1 DEF Awaited
    <3> QED BY <1>5, <1>6, <1>7, <1>8, <2>1, <3>1
  <2>3. i = n - 1 \/ i \in 1 .. n - 2
    <3>1. \A a \in Nat : \A b \in 1 .. a - 1 : b = a - 1 \/ b \in 1 .. a - 2 OBVIOUS
    <3> QED BY <1>3, <3>1
  <2>2. CASE i \in 1 .. n - 2
    <3>1. i \in 1 .. n /\ i # n - 1 /\ i # n /\ (i + 1 \in 1 .. n - 2 \/ i + 1 = n - 1)
      <4>1. \A a \in Nat : \A b \in 1 .. a - 2 :
               b \in 1 .. a /\ b # a - 1 /\ b # a /\ (b + 1 \in 1 .. a - 2 \/ b + 1 = a - 1)
        OBVIOUS
      <4> QED BY <1>3, <2>2, <4>1, Zenon
    <3>2. stack'[i] = stack[i] /\ stack'[i + 1].node = stack[i + 1].node
      BY <1>6, <1>7, <2>2, <3>1 DEF below
    <3>3. Awaited(stack', i) = Awaited(stack, i) BY <1>7, <3>1, <3>2 DEF Awaited
    <3>4. /\ stack[i].node \in Nodes \cup {"function_definition"}
          /\ Made(stack[i].todo)
          /\ CallFitsForm(stack[i].node, stack[i].children, Awaited(stack, i))
      BY <3>1 DEF FormInv
    <3> QED BY <3>2, <3>3, <3>4
  <2> QED BY <2>1, <2>2, <2>3
<1> QED BY <1>7, <1>9 DEF FormInv

-----------------------------------------------------------------------------
(* The function. *)

(* The child of a type, if there is one. *)
LEMMA OfTypeIs ==
  ASSUME NEW S, NEW children \in Seq(S), NEW type
  PROVE  LET given == OfType(children, type)
         IN  /\ given \in Seq(S) /\ Len(given) \in {0, 1}
             /\ given = <<>> => \A k \in 1 .. Len(children) : children[k].type # type
             /\ Len(given) = 1 =>
                   \E k \in 1 .. Len(children) :
                      given[1] = children[k] /\ children[k].type = type
<1> DEFINE at == {i \in DOMAIN children : children[i].type = type}
           i == CHOOSE i \in at : TRUE
<1>1. DOMAIN children = 1 .. Len(children)
  OBVIOUS
<1>2. CASE at = {}
  <2>1. OfType(children, type) = <<>> BY <1>2 DEF OfType
  <2> QED BY <1>1, <1>2, <2>1
<1>3. CASE at # {}
  <2>1. OfType(children, type) = <<children[i]>> BY <1>3 DEF OfType
  <2>2. i \in at BY <1>3
  <2>3. i \in 1 .. Len(children) /\ children[i].type = type BY <1>1, <2>2
  <2> HIDE DEF i, at
  <2>4. children[i] \in S BY <2>3
  <2>5. <<children[i]>> \in Seq(S) /\ Len(<<children[i]>>) = 1
        /\ <<children[i]>>[1] = children[i] /\ <<children[i]>> # <<>>
    BY <2>4
  <2> QED BY <2>1, <2>3, <2>5
<1> QED BY <1>2, <1>3

(* Children of one type in front of others. *)
HasType(s, type) == \E k \in 1 .. Len(s) : s[k].type = type

(* Children inserted in front of others: the types found are those of      *)
(* both.                                                                   *)
LEMMA InFrontOf ==
  ASSUME NEW S, NEW u \in Seq(S), NEW v \in Seq(S)
  PROVE  /\ u \o v \in Seq(S)
         /\ Len(u \o v) = Len(u) + Len(v)
         /\ \A type : HasType(u \o v, type) <=> HasType(u, type) \/ HasType(v, type)
         /\ Len(u) = 1 => (u \o v)[1] = u[1]
         /\ \A k \in 1 .. Len(v) : (u \o v)[Len(u) + k] = v[k]
<1> DEFINE w == u \o v
<1>1. /\ w \in Seq(S) /\ Len(w) = Len(u) + Len(v) /\ Len(u) \in Nat /\ Len(v) \in Nat
      /\ \A k \in 1 .. Len(u) : w[k] = u[k]
      /\ \A k \in 1 .. Len(v) : w[Len(u) + k] = v[k]
  OBVIOUS
<1> HIDE DEF w
<1>2. ASSUME NEW type PROVE HasType(w, type) <=> HasType(u, type) \/ HasType(v, type)
  <2>1. ASSUME HasType(w, type) PROVE HasType(u, type) \/ HasType(v, type)
    <3>1. PICK k \in 1 .. Len(w) : w[k].type = type BY <2>1 DEF HasType
    <3>2. CASE k \in 1 .. Len(u) BY <1>1, <3>1, <3>2 DEF HasType
    <3>3. CASE k \notin 1 .. Len(u)
      <4>1. k - Len(u) \in 1 .. Len(v) /\ Len(u) + (k - Len(u)) = k BY <1>1, <3>3
      <4>2. v[k - Len(u)].type = type BY <1>1, <3>1, <4>1
      <4> QED BY <4>1, <4>2 DEF HasType
    <3> QED BY <3>2, <3>3
  <2>2. ASSUME HasType(u, type) PROVE HasType(w, type)
    <3>1. PICK k \in 1 .. Len(u) : u[k].type = type BY <2>2 DEF HasType
    <3>2. k \in 1 .. Len(w) BY <1>1
    <3> QED BY <1>1, <3>1, <3>2 DEF HasType
  <2>3. ASSUME HasType(v, type) PROVE HasType(w, type)
    <3>1. PICK k \in 1 .. Len(v) : v[k].type = type BY <2>3 DEF HasType
    <3>2. Len(u) + k \in 1 .. Len(w) BY <1>1
    <3> QED BY <1>1, <3>1, <3>2 DEF HasType
  <2> QED BY <2>1, <2>2, <2>3
<1>3. Len(u) = 1 => w[1] = u[1] BY <1>1
<1> QED BY <1>1, <1>2, <1>3 DEF w

(* The accessors of a function find its parts, whichever declarations it   *)
(* has.                                                                    *)
LEMMA FunctionFinds ==
  ASSUME NEW S, NEW children \in Seq(S), HasType(children, "compound_statement"), NEW stale
  PROVE  LET f == TreeNode("function_definition", FunctionChildren(children), stale)
         IN  /\ Finds(f)
             /\ \E k \in 1 .. Len(children) :
                   /\ get_compund_statement(f) = children[k]
                   /\ children[k].type = "compound_statement"
             /\ \E k \in 1 .. Len(f.children) : get_compund_statement(f) = f.children[k]
<1> DEFINE p == OfType(children, "parameter_declaration")
           v == OfType(children, "variable_declaration")
           c == OfType(children, "constant_declaration")
           m == OfType(children, "compound_statement")
           e == OfType(children, "PROGRAM_TERMINATOR")
           s4 == m \o e
           s3 == c \o s4
           s2 == v \o s3
           s1 == p \o s2
           f == TreeNode("function_definition", FunctionChildren(children), stale)
<1>1. /\ FunctionChildren(children) = s1 /\ f.children = s1
      /\ f.type = "function_definition"
  BY DEF FunctionChildren, TreeNode
<1>2. /\ p \in Seq(S) /\ Len(p) \in {0, 1}
      /\ Len(p) = 1 => p[1].type = "parameter_declaration"
  BY OfTypeIs
<1>3. /\ v \in Seq(S) /\ Len(v) \in {0, 1}
      /\ Len(v) = 1 => v[1].type = "variable_declaration"
  BY OfTypeIs
<1>4. /\ c \in Seq(S) /\ Len(c) \in {0, 1}
      /\ Len(c) = 1 => c[1].type = "constant_declaration"
  BY OfTypeIs
<1>5. /\ m \in Seq(S) /\ Len(m) = 1 /\ m[1].type = "compound_statement"
      /\ \E k \in 1 .. Len(children) : m[1] = children[k]
  <2>1. m # <<>> BY OfTypeIs DEF HasType
  <2>2. m \in Seq(S) /\ Len(m) \in {0, 1} BY OfTypeIs
  <2>3. Len(m) = 1
    <3> HIDE DEF m
    <3> QED BY <2>1, <2>2, EmptySeq
  <2> QED BY <2>2, <2>3, OfTypeIs
<1>6. /\ e \in Seq(S) /\ Len(e) \in {0, 1}
      /\ Len(e) = 1 => e[1].type = "PROGRAM_TERMINATOR"
  BY OfTypeIs
<1> HIDE DEF p, v, c, m, e
<1>7. \A w, own : Len(w) \in {0, 1} /\ (Len(w) = 1 => w[1].type = own) =>
                   \A type : HasType(w, type) <=> Len(w) = 1 /\ type = own
  <2> TAKE w, own
  <2> SUFFICES ASSUME Len(w) \in {0, 1}, Len(w) = 1 => w[1].type = own, NEW type
               PROVE  HasType(w, type) <=> Len(w) = 1 /\ type = own
    OBVIOUS
  <2>1. CASE Len(w) = 0 BY <2>1 DEF HasType
  <2>2. CASE Len(w) = 1 BY <2>2 DEF HasType
  <2> QED BY <2>1, <2>2
<1>8. \A type : /\ HasType(p, type) <=> Len(p) = 1 /\ type = "parameter_declaration"
                /\ HasType(v, type) <=> Len(v) = 1 /\ type = "variable_declaration"
                /\ HasType(c, type) <=> Len(c) = 1 /\ type = "constant_declaration"
                /\ HasType(m, type) <=> Len(m) = 1 /\ type = "compound_statement"
                /\ HasType(e, type) <=> Len(e) = 1 /\ type = "PROGRAM_TERMINATOR"
  <2>1. \A type : HasType(p, type) <=> Len(p) = 1 /\ type = "parameter_declaration"
    BY <1>2, <1>7, Zenon
  <2>2. \A type : HasType(v, type) <=> Len(v) = 1 /\ type = "variable_declaration"
    BY <1>3, <1>7, Zenon
  <2>3. \A type : HasType(c, type) <=> Len(c) = 1 /\ type = "constant_declaration"
    BY <1>4, <1>7, Zenon
  <2>4. \A type : HasType(m, type) <=> Len(m) = 1 /\ type = "compound_statement"
    BY <1>5, <1>7, Zenon
  <2>5. \A type : HasType(e, type) <=> Len(e) = 1 /\ type = "PROGRAM_TERMINATOR"
    BY <1>6, <1>7, Zenon
  <2> QED BY <2>1, <2>2, <2>3, <2>4, <2>5
<1>9. /\ s4 \in Seq(S) /\ Len(s4) > 0 /\ s4[1] = m[1]
      /\ \A type : HasType(s4, type) <=> HasType(m, type) \/ HasType(e, type)
  <2>1. Len(s4) = Len(m) + Len(e) BY <1>5, <1>6, InFrontOf
  <2>2. s4 \in Seq(S) /\ (Len(m) = 1 => s4[1] = m[1])
    BY <1>5, <1>6, InFrontOf
  <2>3. \A type : HasType(s4, type) <=> HasType(m, type) \/ HasType(e, type)
    BY <1>5, <1>6, InFrontOf
  <2> HIDE DEF s4
  <2> QED BY <1>5, <1>6, <2>1, <2>2, <2>3
<1> HIDE DEF s4
<1>10. /\ s3 \in Seq(S) /\ Len(s3) = Len(c) + Len(s4)
       /\ Len(c) = 1 => s3[1] = c[1]
       /\ s3[Len(c) + 1] = m[1]
       /\ \A type : HasType(s3, type) <=> HasType(c, type) \/ HasType(s4, type)
  <2>1. Len(s3) = Len(c) + Len(s4) BY <1>4, <1>9, InFrontOf
  <2>2. \A k \in 1 .. Len(s4) : s3[Len(c) + k] = s4[k] BY <1>4, <1>9, InFrontOf
  <2>3. 1 \in 1 .. Len(s4) BY <1>9
  <2> QED BY <1>4, <1>9, <2>1, <2>2, <2>3, InFrontOf
<1> HIDE DEF s3
<1>11. /\ s2 \in Seq(S) /\ Len(s2) = Len(v) + Len(s3)
       /\ Len(v) = 1 => s2[1] = v[1]
       /\ Len(c) = 1 => s2[Len(v) + 1] = c[1]
       /\ s2[Len(v) + (Len(c) + 1)] = m[1]
       /\ \A type : HasType(s2, type) <=> HasType(v, type) \/ HasType(s3, type)
  <2>1. Len(s2) = Len(v) + Len(s3) BY <1>3, <1>10, InFrontOf
  <2>2. \A k \in 1 .. Len(s3) : s2[Len(v) + k] = s3[k] BY <1>3, <1>10, InFrontOf
  <2>3. 1 \in 1 .. Len(s3) /\ Len(c) + 1 \in 1 .. Len(s3) BY <1>4, <1>9, <1>10
  <2> QED BY <1>3, <1>10, <2>1, <2>2, <2>3, InFrontOf
<1> HIDE DEF s2
<1>12. /\ s1 \in Seq(S)
       /\ Len(p) + (Len(v) + (Len(c) + 1)) \in 1 .. Len(s1)
       /\ Len(p) = 1 => s1[1] = p[1]
       /\ Len(v) = 1 => s1[Len(p) + 1] = v[1]
       /\ Len(c) = 1 => s1[Len(p) + (Len(v) + 1)] = c[1]
       /\ s1[Len(p) + (Len(v) + (Len(c) + 1))] = m[1]
       /\ \A type : HasType(s1, type) <=> HasType(p, type) \/ HasType(s2, type)
  <2>1. \A k \in 1 .. Len(s2) : s1[Len(p) + k] = s2[k] BY <1>2, <1>11, InFrontOf
  <2>2. /\ 1 \in 1 .. Len(s2) /\ Len(v) + 1 \in 1 .. Len(s2)
        /\ Len(v) + (Len(c) + 1) \in 1 .. Len(s2)
    <3>1. \A i, j \in {0, 1} : \A k \in Nat : k > 0 =>
             /\ 1 \in 1 .. i + (j + k) /\ i + 1 \in 1 .. i + (j + k)
             /\ i + (j + 1) \in 1 .. i + (j + k)
      OBVIOUS
    <3>2. /\ Len(v) \in {0, 1} /\ Len(c) \in {0, 1} /\ Len(s4) \in Nat /\ Len(s4) > 0
          /\ Len(s2) = Len(v) + (Len(c) + Len(s4))
      BY <1>3, <1>4, <1>9, <1>10, <1>11
    <3> QED BY <3>1, <3>2, Zenon
  <2>3. Len(s1) = Len(p) + Len(s2) BY <1>2, <1>11, InFrontOf
  <2> HIDE DEF s1
  <2>4. Len(p) + (Len(v) + (Len(c) + 1)) \in 1 .. Len(s1)
    <3>1. \A a, b \in Nat : \A k \in 1 .. b : a + k \in 1 .. a + b OBVIOUS
    <3>2. Len(p) \in Nat /\ Len(s2) \in Nat BY <1>2, <1>11
    <3> QED BY <2>2, <2>3, <3>1, <3>2, Zenon
  <2> QED BY <1>2, <1>11, <2>1, <2>2, <2>4, InFrontOf DEF s1
<1>13. /\ Has(f, "parameter_declaration") = Len(p)
       /\ Has(f, "variable_declaration") = Len(v)
       /\ Has(f, "constant_declaration") = Len(c)
  <2>1. \A type : Has(f, type) = IF HasType(s1, type) THEN 1 ELSE 0
    BY <1>1 DEF Has, HasType
  <2>2. /\ HasType(s1, "parameter_declaration") <=> Len(p) = 1
        /\ HasType(s1, "variable_declaration") <=> Len(v) = 1
        /\ HasType(s1, "constant_declaration") <=> Len(c) = 1
    BY <1>8, <1>9, <1>10, <1>11, <1>12
  <2> QED BY <1>2, <1>3, <1>4, <2>1, <2>2
<1> HIDE DEF f, s1
<1>14. \A i : Child(f, i) = s1[i + 1]
  BY <1>1 DEF Child
<1>15. Len(p) \in Nat /\ Len(v) \in Nat /\ Len(c) \in Nat
  BY <1>2, <1>3, <1>4
<1>16. Has(f, "parameter_declaration") = 1 =>
          get_parameter_declarations(f).type = "parameter_declaration"
  BY <1>2, <1>12, <1>13, <1>14 DEF get_parameter_declarations
<1>17. Has(f, "variable_declaration") = 1 =>
          get_variable_declarations(f).type = "variable_declaration"
  BY <1>3, <1>12, <1>13, <1>14 DEF get_variable_declarations
<1>18. Has(f, "constant_declaration") = 1 =>
          get_constant_declarations(f).type = "constant_declaration"
  <2>1. get_constant_declarations(f) = s1[Len(v) + Len(p) + 1]
    BY <1>13, <1>14 DEF get_constant_declarations
  <2>2. Len(v) + Len(p) + 1 = Len(p) + (Len(v) + 1) BY <1>15
  <2> QED BY <1>4, <1>12, <1>13, <2>1, <2>2
<1>19. get_compund_statement(f) = m[1]
  <2>1. get_compund_statement(f) = s1[Len(c) + Len(v) + Len(p) + 1]
    BY <1>13, <1>14 DEF get_compund_statement
  <2>2. Len(c) + Len(v) + Len(p) + 1 = Len(p) + (Len(v) + (Len(c) + 1)) BY <1>15
  <2> QED BY <1>12, <2>1, <2>2
<1>20. \E k \in 1 .. Len(f.children) : get_compund_statement(f) = f.children[k]
  <2>1. f.children = s1 /\ s1[Len(p) + (Len(v) + (Len(c) + 1))] = get_compund_statement(f)
    BY <1>1, <1>12, <1>19
  <2> QED BY <1>12, <2>1
<1>21. Finds(f)
  <2>1. get_compund_statement(f).type = "compound_statement" BY <1>5, <1>19
  <2> QED BY <1>1, <1>16, <1>17, <1>18, <2>1, FindsIs
<1> QED BY <1>5, <1>19, <1>20, <1>21 DEF f

(* The tree that parse_function_definition returns. *)
LEMMA FinishForm ==
  ASSUME Inv, FormInv(stack), Finish
  PROVE  TreeInv'
<1>1. outcome = "reading" /\ Top.todo = <<>> /\ Len(stack) = 1
  BY DEF Finish
<1>2. CASE next_token # "EOS"
  BY <1>2 DEF Finish, AtEnd, TreeInv
<1>3. CASE next_token = "EOS"
  <2>1. /\ outcome' = "tree"
        /\ tree' = TreeNode(Top.node, FunctionChildren(Top.children), Top.stale)
    BY <1>3 DEF Finish, AtEnd
  <2>2. 1 \in 1 .. Len(stack) /\ Top = stack[1] /\ Top.node = "function_definition"
    BY <1>1, Frames
  <2> DEFINE children == Top.children
             c == Node("compound_statement")
  <2> HIDE DEF Top
  <2>3. /\ FittingChildren(children)
        /\ FormFits("function_definition", Kids(children) \o <<>>)
    BY <1>1, <2>2 DEF FormInv, CallFitsForm, FormOf, Awaited
  <2>4. Kids(children) \o <<>> = Kids(children)
    <3>1. Kids(children) \in Seq(PartSet) BY <2>3, KidsAre
    <3> QED BY <3>1, ConcatEmptySeq
  <2>5. Occurs(c, Kids(children)) BY <2>3, <2>4 DEF FormFits
  <2> HIDE DEF children
  <2>6. HasType(children, "compound_statement")
    <3>1. PICK k \in 1 .. Len(Kids(children)) : Kids(children)[k] = c
      BY <2>5 DEF Occurs
    <3>2. k \in 1 .. Len(children) BY <2>3, KidsAre
    <3>3. children[k].type = "compound_statement" BY <2>3, <3>1, <3>2, KidTypes
    <3> QED BY <3>2, <3>3 DEF HasType
  <2>7. PICK S : children \in Seq(S) BY <2>3 DEF FittingChildren
  <2>8. Finds(tree') BY <2>1, <2>2, <2>6, <2>7, FunctionFinds DEF children
  <2> QED BY <2>1, <2>8 DEF TreeInv
<1> QED BY <1>2, <1>3

-----------------------------------------------------------------------------
(* Every step. *)

(* The call of parse_function_definition has the form of a function. *)
LEMMA InitForm == Init => TreeInv
<1> SUFFICES ASSUME Init PROVE TreeInv
  OBVIOUS
<1> DEFINE f == FunctionParts
<1>1. /\ outcome = "reading" /\ Len(stack) = 1
      /\ stack[1].node = "function_definition" /\ stack[1].todo = f
      /\ stack[1].children = <<>>
  BY DEF Init, Frame
<1>2. f \in Seq(PartSet) /\ Made(f) /\ f[7] = Node("compound_statement") /\ Len(f) = 8
  <2>1. /\ Plain(Optional("PARAM", "parameter_declaration")) /\ Plain(HasError)
        /\ Plain(Optional("VAR", "variable_declaration"))
        /\ Plain(Optional("CONST", "constant_declaration"))
        /\ Plain(Node("compound_statement")) /\ Plain(Terminal("PROGRAM_TERMINATOR"))
    <3>1. /\ {"PARAM", "VAR", "CONST", "PROGRAM_TERMINATOR"} \subseteq TokenTypes
          /\ {"parameter_declaration", "variable_declaration", "constant_declaration",
              "compound_statement"} \subseteq Nodes
      BY Names
    <3> QED BY <3>1, PlainParts
  <2>2. \A a, b, c, d, g, h :
           Plain(a) /\ Plain(b) /\ Plain(c) /\ Plain(d) /\ Plain(g) /\ Plain(h) =>
              LET s == <<a, b, c, b, d, b, g, h>>
              IN  s \in Seq(PartSet) /\ Made(s) /\ s[7] = g /\ Len(s) = 8
    BY DEF Plain, Made
  <2> QED BY <2>1, <2>2 DEF FunctionParts
<1> HIDE DEF f
<1>3. Occurs(Node("compound_statement"), f)
  BY <1>2 DEF Occurs
<1>4. CallFitsForm("function_definition", <<>>, f)
  <2>1. <<>> \o f = f BY <1>2
  <2> QED BY <1>2, <1>3, <2>1, NoKids DEF CallFitsForm, FormOf, FormFits
<1>5. Awaited(stack, 1) = f BY <1>1 DEF Awaited
<1>6. FormInv(stack)
  BY <1>1, <1>2, <1>4, <1>5 DEF FormInv
<1> QED BY <1>1, <1>6 DEF TreeInv

(* Every step keeps the forms of the calls. *)
LEMMA FormStep == Inv /\ TreeInv /\ [Next]_vars => TreeInv'
<1> SUFFICES ASSUME Inv, TreeInv, [Next]_vars PROVE TreeInv'
  OBVIOUS
<1>1. ASSUME Next PROVE outcome = "reading" /\ FormInv(stack)
  <2>1. outcome = "reading"
    BY <1>1 DEF Next, CallParse, Expect, Consume, Mismatch, NoAlternative, TestHasError,
                ReturnNode, Finish, Todo
  <2> QED BY <2>1 DEF TreeInv
<1>2. CASE CallParse
  <2>1. outcome' = "reading" BY <1>1, <1>2 DEF CallParse, Next
  <2>2. FormInv(stack') BY <1>1, <1>2, CallParseForm DEF Next
  <2> QED BY <2>1, <2>2 DEF TreeInv
<1>3. CASE Expect
  <2>1. outcome' = "reading" BY <1>1, <1>3 DEF Expect, Next
  <2>2. FormInv(stack') BY <1>1, <1>3, ExpectForm DEF Next
  <2> QED BY <2>1, <2>2 DEF TreeInv
<1>4. CASE Consume
  <2>1. outcome' = "reading" BY <1>1, <1>4 DEF Consume, Next
  <2>2. FormInv(stack') BY <1>1, <1>4, ConsumeForm DEF Next
  <2> QED BY <2>1, <2>2 DEF TreeInv
<1>5. CASE Mismatch
  BY <1>1, <1>5, ReturnNullptrForm DEF Mismatch, Next
<1>6. CASE NoAlternative
  BY <1>1, <1>6, ReturnNullptrForm DEF NoAlternative, Next
<1>7. CASE TestHasError
  BY <1>1, <1>7, TestHasErrorForm DEF Next
<1>8. CASE ReturnNode
  <2>1. outcome' = "reading" BY <1>1, <1>8 DEF ReturnNode, Next
  <2>2. FormInv(stack') BY <1>1, <1>8, ReturnNodeForm DEF Next
  <2> QED BY <2>1, <2>2 DEF TreeInv
<1>9. CASE Finish
  BY <1>1, <1>9, FinishForm DEF Next
<1>10. CASE UNCHANGED vars
  BY <1>10 DEF TreeInv, FormInv, CallFitsForm, FormOf, Awaited, FittingChildren, FormFits,
               Kids, vars
<1> QED BY <1>2, <1>3, <1>4, <1>5, <1>6, <1>7, <1>8, <1>9, <1>10 DEF Next

(* Every call in progress, whatever has been read so far, has a form its   *)
(* node may have.                                                          *)
THEOREM FormsInvariance == Spec => []TreeInv
<1>1. Init => Inv /\ TreeInv BY InitInv, InitForm
<1>2. Inv /\ TreeInv /\ [Next]_vars => (Inv /\ TreeInv)' BY NextStep, FormStep
<1> QED BY <1>1, <1>2, PTL DEF Spec

(* The accessors of every node find the children they are named for,       *)
(* whichever declarations a function has, however long its lists are and   *)
(* whatever its text is.                                                   *)
THEOREM AccessorsAlwaysFind == Spec => []AccessorsFind
<1> SUFFICES ASSUME Inv, TreeInv PROVE AccessorsFind
  BY ParserInvariance, FormsInvariance, PTL
<1>1. ASSUME NEW i \in 1 .. Len(stack), NEW k \in 1 .. Len(stack[i].children)
      PROVE  Finds(stack[i].children[k])
  <2>1. stack # <<>> BY EmptySeq
  <2>2. FormInv(stack) BY <2>1 DEF Inv, OutcomeInv, TreeInv
  <2>3. FittingChildren(stack[i].children) BY <2>2 DEF FormInv, CallFitsForm
  <2> DEFINE c == stack[i].children[k]
  <2> SUFFICES Finds(c)
    OBVIOUS
  <2>4. ChildFits(c) BY <2>3, KidsAre
  <2> HIDE DEF c
  <2>5. CASE c.type \in Nodes BY <2>4, <2>5 DEF ChildFits
  <2>6. CASE c.type \in TokenTypes
    <3>1. c.type \notin DOMAIN Lists \cup {"function_definition", "unary_expression"}
      BY <2>6, Names, NamesApart
    <3> QED BY <3>1, FindsIs
  <2> QED BY <2>4, <2>5, <2>6 DEF ChildFits
<1> QED BY <1>1 DEF AccessorsFind, TreeInv

-----------------------------------------------------------------------------
(* What is left to parse. *)

(* The order of what is left, as a relation on sequences of four numbers. *)
Ranks == [1 .. 4 -> Nat]
Lower == LexProductOrdering(OpToRel(<, Nat), Nat, 4)

(* Nothing goes down for ever in that order: it is the library's.          *)
LEMMA LowerWellFounded == IsWellFoundedOn(Lower, Ranks)
<1>1. 4 \in Nat OBVIOUS
<1> QED BY <1>1, NatLessThanWellFounded, WFLexProductOrdering DEF Lower, Ranks

(* What a step compares is that order.                                     *)
LEMMA SmallerIsLower ==
  ASSUME NEW m \in Ranks, NEW n \in Ranks, Smaller(m, n)
  PROVE  <<m, n>> \in Lower
<1>1. DOMAIN n = 1 .. 4 /\ \A i \in 1 .. 4 : m[i] \in Nat /\ n[i] \in Nat
  BY DEF Ranks
<1>2. PICK j \in 1 .. 4 : (\A i \in 1 .. j - 1 : m[i] = n[i]) /\ m[j] < n[j]
  BY <1>1 DEF Smaller
<1>3. <<m[j], n[j]>> \in OpToRel(<, Nat)
  BY <1>1, <1>2 DEF OpToRel
<1> DEFINE R == OpToRel(<, Nat)
<1> HIDE DEF R
<1>4. <<m, n>> \in LexProductOrdering(R, Nat, 4)
  BY <1>2, <1>3 DEF LexProductOrdering, Ranks, R
<1> QED BY <1>4 DEF Lower, R

(* Four numbers of which the first that differs is smaller. *)
LEMMA FirstSmaller ==
  ASSUME NEW a1, NEW a2, NEW a3, NEW a4, NEW b1, NEW b2, NEW b3, NEW b4,
         \/ a1 < b1
         \/ a1 = b1 /\ a2 < b2
         \/ a1 = b1 /\ a2 = b2 /\ a3 < b3
         \/ a1 = b1 /\ a2 = b2 /\ a3 = b3 /\ a4 < b4
  PROVE  Smaller(<<a1, a2, a3, a4>>, <<b1, b2, b3, b4>>)
<1> DEFINE m == <<a1, a2, a3, a4>>
           n == <<b1, b2, b3, b4>>
<1>1. /\ DOMAIN n = 1 .. 4
      /\ m[1] = a1 /\ m[2] = a2 /\ m[3] = a3 /\ m[4] = a4
      /\ n[1] = b1 /\ n[2] = b2 /\ n[3] = b3 /\ n[4] = b4
  OBVIOUS
<1> HIDE DEF m, n
<1>2. /\ 1 \in 1 .. 4 /\ 2 \in 1 .. 4 /\ 3 \in 1 .. 4 /\ 4 \in 1 .. 4
      /\ \A i \in 1 .. 1 - 1 : FALSE
      /\ \A i \in 1 .. 2 - 1 : i = 1
      /\ \A i \in 1 .. 3 - 1 : i = 1 \/ i = 2
      /\ \A i \in 1 .. 4 - 1 : i = 1 \/ i = 2 \/ i = 3
  OBVIOUS
<1>3. a1 < b1 => Smaller(m, n) BY <1>1, <1>2 DEF Smaller
<1>4. a1 = b1 /\ a2 < b2 => Smaller(m, n) BY <1>1, <1>2 DEF Smaller
<1>5. a1 = b1 /\ a2 = b2 /\ a3 < b3 => Smaller(m, n) BY <1>1, <1>2 DEF Smaller
<1>6. a1 = b1 /\ a2 = b2 /\ a3 = b3 /\ a4 < b4 => Smaller(m, n) BY <1>1, <1>2 DEF Smaller
<1>7. Smaller(m, n) BY <1>3, <1>4, <1>5, <1>6
<1> QED BY <1>7 DEF m, n

(* A call descends: what its form begins with is deeper. *)
LEMMA FormBegins ==
  ASSUME NEW node \in Nodes, NEW form, FormFits(node, form)
  PROVE  /\ form # <<>>
         /\ form[1].kind = "node" => Descent(form[1].of) < Descent(node)
<1>1. CASE node \in DOMAIN Lists
  <2>1. node # "function_definition" BY <1>1, Names
  <2>2. ListForm(form, Separator[node], Lists[node]) BY <1>1, <2>1 DEF FormFits
  <2>3. form[1] = Node(Lists[node]) /\ Len(form) >= 1 /\ form \in Seq(PartSet)
    <3>1. PICK m \in Nat :
             /\ \A j \in 0 .. m : form[2 * j + 1] = Node(Lists[node])
             /\ \/ Len(form) = 2 * m + 1
                \/ Len(form) = 2 * m + 2
      BY <2>2 DEF ListForm
    <3>2. 0 \in 0 .. m /\ 2 * 0 + 1 = 1 BY <3>1
    <3>3. form[1] = Node(Lists[node]) BY <3>1, <3>2
    <3>4. form \in Seq(PartSet) BY DEF FormFits
    <3> QED BY <3>1, <3>3, <3>4
  <2>4. form # <<>> BY <2>3
  <2>5. form[1].of = Lists[node] BY <2>3, NameFields
  <2>6. Descent(Lists[node]) < Descent(node) BY <1>1, Names DEF Lists, Descent
  <2> QED BY <2>4, <2>5, <2>6
<1>2. CASE node \notin DOMAIN Lists
  <2>1. node # "function_definition" BY Names
  <2>2. form \in Forms(node) BY <1>2, <2>1 DEF FormFits
  <2>3. \A a, b, c : /\ <<a>> # <<>> /\ <<a>>[1] = a
                     /\ <<a, b>> # <<>> /\ <<a, b>>[1] = a
                     /\ <<a, b, c>> # <<>> /\ <<a, b, c>>[1] = a
    OBVIOUS
  <2>4. CASE node \in Declarations \cup {"compound_statement"} \cup Leaves
    <3>1. \E t : form # <<>> /\ form[1] = Terminal(t)
      BY <2>2, <2>3, <2>4 DEF Forms, Declared, Declarations, Leaves
    <3> QED BY <3>1, NameFields
  <2>5. CASE node = "init_declarator" \/ node = "assignment_expression"
    <3>1. form # <<>> /\ form[1] = Node("identifier") BY <2>2, <2>3, <2>5 DEF Forms
    <3>2. Descent("identifier") < Descent(node) BY <2>5 DEF Descent
    <3> QED BY <3>1, <3>2, NameFields
  <2>6. CASE node = "statement"
    <3>1. form # <<>> /\ (form[1] = Terminal("RETURN") \/ form[1] = Node("assignment_expression"))
      BY <2>2, <2>3, <2>6 DEF Forms
    <3>2. Descent("assignment_expression") < Descent(node) BY <2>6 DEF Descent
    <3> QED BY <3>1, <3>2, NameFields
  <2>7. CASE node = "additive_expression"
    <3>1. form # <<>> /\ form[1] = Node("multiplicative_expression")
      BY <2>2, <2>3, <2>7 DEF Forms, OperationForms
    <3>2. Descent("multiplicative_expression") < Descent(node) BY <2>7 DEF Descent
    <3> QED BY <3>1, <3>2, NameFields
  <2>8. CASE node = "multiplicative_expression"
    <3>1. form # <<>> /\ form[1] = Node("unary_expression")
      BY <2>2, <2>3, <2>8 DEF Forms, OperationForms
    <3>2. Descent("unary_expression") < Descent(node) BY <2>8 DEF Descent
    <3> QED BY <3>1, <3>2, NameFields
  <2>9. CASE node = "unary_expression"
    <3>1. /\ form # <<>>
          /\ \/ form[1] = Sign
             \/ form[1] = Node("primary_expression")
             \/ \E t : form[1] = Terminal(t)
      BY <2>2, <2>3, <2>9 DEF Forms
    <3>2. Descent("primary_expression") < Descent(node) BY <2>9 DEF Descent
    <3>3. Sign.kind # "node" BY PartFields
    <3>4. \A t : Terminal(t).kind # "node" BY NameFields
    <3>5. Node("primary_expression").of = "primary_expression" BY NameFields
    <3> QED BY <3>1, <3>2, <3>3, <3>4, <3>5, Zenon
  <2>10. CASE node = "primary_expression"
    <3>1. /\ form # <<>>
          /\ \/ form[1] = Nullptr
             \/ form[1] = Node("identifier")
             \/ form[1] = Node("literal")
             \/ \E t : form[1] = Terminal(t)
      BY <2>2, <2>3, <2>10 DEF Forms
    <3>2. Descent("identifier") < Descent(node) /\ Descent("literal") < Descent(node)
      BY <2>10 DEF Descent
    <3>3. Nullptr.kind # "node" BY PartFields
    <3>4. \A t : Terminal(t).kind # "node" BY NameFields
    <3>5. Node("identifier").of = "identifier" /\ Node("literal").of = "literal" BY NameFields
    <3> QED BY <3>1, <3>2, <3>3, <3>4, <3>5, Zenon
  <2> QED BY <1>2, <2>4, <2>5, <2>6, <2>7, <2>8, <2>9, <2>10, Names DEF Declarations, Leaves
<1> QED BY <1>1, <1>2

(* A node is at one of five depths.                                        *)
LEMMA DescentIs ==
  ASSUME NEW node
  PROVE  Descent(node) \in Nat /\ Descent(node) < 5
  BY DEF Descent

(* How the measure is shown to be below the one before. *)
LEMMA MeasureBelow ==
  ASSUME \/ TokensLeft' < TokensLeft
         \/ TokensLeft' = TokensLeft /\ Trying' < Trying
         \/ TokensLeft' = TokensLeft /\ Trying' = Trying /\ Depth' < Depth
         \/ TokensLeft' = TokensLeft /\ Trying' = Trying /\ Depth' = Depth
            /\ PartsLeft' < PartsLeft
  PROVE  Smaller(Measure', Measure)
<1> DEFINE a1 == TokensLeft'
           a2 == Trying'
           a3 == Depth'
           a4 == PartsLeft'
           b1 == TokensLeft
           b2 == Trying
           b3 == Depth
           b4 == PartsLeft
<1>1. Measure' = <<a1, a2, a3, a4>> /\ Measure = <<b1, b2, b3, b4>>
  BY DEF Measure
<1> HIDE DEF a1, a2, a3, a4, b1, b2, b3, b4
<1>2. Smaller(<<a1, a2, a3, a4>>, <<b1, b2, b3, b4>>)
  <2>1. \/ a1 < b1
        \/ a1 = b1 /\ a2 < b2
        \/ a1 = b1 /\ a2 = b2 /\ a3 < b3
        \/ a1 = b1 /\ a2 = b2 /\ a3 = b3 /\ a4 < b4
    BY DEF a1, a2, a3, a4, b1, b2, b3, b4
  <2> QED BY <2>1, FirstSmaller
<1> QED BY <1>1, <1>2

(* The same tokens are left where none is taken. *)
LEMMA SameTokens ==
  ASSUME UNCHANGED <<room, phrase>>
  PROVE  TokensLeft' = TokensLeft
  BY DEF TokensLeft

(* Once BEGIN is read the declarations are over. *)
LEMMA ExtendedPlace ==
  ASSUME NEW q \in Language!Phrases, NEW t, Language!Extended(q, t) # Language!NoPhrase
  PROVE  LET heads == {"section", "name", "constant", "value", "declared"}
             at == Language!Extended(q, t).at
         IN  /\ t = "BEGIN" => q.at = "section" /\ at = "statement"
             /\ at \in heads => q.at \in heads
<1> DEFINE heads == {"section", "name", "constant", "value", "declared"}
           at == Language!Extended(q, t).at
<1>1. \A x, r, d : Language!Phrase(x, r, d).at = x BY DEF Language!Phrase
<1>2. q.at \in Language!Places BY DEF Language!Phrases
<1>3. CASE q.at = "section"
  BY <1>1, <1>3, FromSection
<1>4. CASE q.at \in {"name", "constant", "value", "declared"}
  <2>1. t # "BEGIN" BY <1>4, FromDeclaration
  <2> QED BY <1>4, <2>1
<1>5. CASE q.at \in {"statement", "target", "end", "function"}
  BY <1>1, <1>5, FromStatement
<1>6. CASE q.at \in {"operand", "signed"}
  BY <1>1, <1>6, FromOperand DEF Additive
<1>7. CASE q.at = "operator"
  BY <1>1, <1>7, FromOperator DEF Additive, Multiplicative
<1> QED BY <1>2, <1>3, <1>4, <1>5, <1>6, <1>7 DEF Language!Places

(* A token that is taken is one less. *)
LEMMA ConsumeShrinks ==
  ASSUME Inv, Consume
  PROVE  TokensLeft' < TokensLeft
<1>1. /\ Todo /\ Current.kind = "terminal" /\ next_token = Current.of
      /\ Current.kind # "has_error" /\ outcome = "reading" /\ Top.todo # <<>>
      /\ room' = [room EXCEPT !.left = IF Current.of = "BEGIN" THEN room.body
                                       ELSE room.left - 1]
      /\ phrase' = Language!Extended(phrase, Current.of)
  BY DEF Consume, Matches, Todo
<1>2. PICK g : /\ StackFits(stack, g, phrase, next_token)
               /\ Stands(g[Len(stack)][1], phrase, next_token)
  BY <1>1, StackStands
<1>3. /\ PartOf(Top.node, Current)
      /\ PartFits(g[Len(stack)][1], Current, Tail(g[Len(stack)])[1])
  BY <1>1, <1>2, InFront
<1>4. /\ TerminalFits(g[Len(stack)][1], Current.of, Tail(g[Len(stack)])[1])
      /\ Current.of \in TokenTypes
  BY <1>1, <1>3 DEF PartFits, PartOf
<1>5. /\ phrase \in Language!Phrases /\ next_token \in g[Len(stack)][1].may
      /\ room \in [types : SUBSET TokenTypes, left : Nat, body : Nat]
      /\ room.left > 0
  BY <1>1, <1>2, <1>4 DEF Inv, TextInv, Stands
<1>6. phrase' # Language!NoPhrase
  BY <1>1, <1>2, <1>4, <1>5 DEF TerminalFits
<1> DEFINE heads == {"section", "name", "constant", "value", "declared"}
           t == Current.of
<1>7. /\ t = "BEGIN" => phrase.at = "section" /\ phrase'.at = "statement"
      /\ phrase'.at \in heads => phrase.at \in heads
  <2> HIDE DEF t, Current
  <2>1. phrase' = Language!Extended(phrase, t) BY <1>1 DEF t
  <2> QED BY <1>5, <1>6, <2>1, ExtendedPlace
<1>8. /\ room'.left = (IF t = "BEGIN" THEN room.body ELSE room.left - 1)
      /\ room'.body = room.body /\ room.body \in Nat /\ room.left \in Nat
  BY <1>1, <1>5
<1>9. TokensLeft = room.left + (IF phrase.at \in heads THEN room.body ELSE 0)
  BY DEF TokensLeft
<1>10. TokensLeft' = room'.left + (IF phrase'.at \in heads THEN room'.body ELSE 0)
  BY DEF TokensLeft
<1>11. CASE t = "BEGIN"
  <2>1. phrase.at \in heads /\ phrase'.at \notin heads BY <1>7, <1>11
  <2>2. TokensLeft = room.left + room.body BY <1>9, <2>1
  <2>3. TokensLeft' = room.body BY <1>8, <1>10, <1>11, <2>1
  <2> QED BY <1>5, <1>8, <2>2, <2>3
<1>12. CASE t # "BEGIN"
  <2>1. CASE phrase'.at \in heads
    <3>1. TokensLeft = room.left + room.body BY <1>7, <1>9, <2>1
    <3>2. TokensLeft' = room.left - 1 + room.body BY <1>8, <1>10, <1>12, <2>1
    <3> QED BY <1>5, <1>8, <3>1, <3>2
  <2>2. CASE phrase'.at \notin heads
    <3>1. TokensLeft >= room.left BY <1>8, <1>9
    <3>2. TokensLeft' = room.left - 1 BY <1>8, <1>10, <1>12, <2>2
    <3>3. TokensLeft \in Int BY <1>8, <1>9
    <3> QED BY <1>5, <1>8, <3>1, <3>2, <3>3
  <2> QED BY <2>1, <2>2
<1> QED BY <1>11, <1>12

(* The stack is not empty while the function is parsed; its top frame is a *)
(* frame in a form of its node.                                            *)
LEMMA TopIs ==
  ASSUME Inv, TreeInv, outcome = "reading"
  PROVE  /\ \E F : stack \in Seq(F)
         /\ Len(stack) \in Nat /\ Len(stack) > 0 /\ Top = stack[Len(stack)]
         /\ IsFrame(Top) /\ Top.todo \in Seq(PartSet)
         /\ (Top.node = "function_definition") = (Len(stack) = 1)
         /\ FormInv(stack)
         /\ CallFitsForm(Top.node, Top.children, Top.todo)
         /\ Top.node \in Nodes \cup {"function_definition"}
<1>1. /\ \E F : stack \in Seq(F)
      /\ Len(stack) \in Nat /\ Len(stack) > 0 /\ Top = stack[Len(stack)]
      /\ \A i \in 1 .. Len(stack) : /\ IsFrame(stack[i])
                                    /\ stack[i].todo \in Seq(PartSet)
                                    /\ (stack[i].node = "function_definition") = (i = 1)
  BY Frames
<1>2. Len(stack) \in 1 .. Len(stack) BY <1>1
<1>3. FormInv(stack) BY DEF TreeInv
<1>4. /\ CallFitsForm(Top.node, Top.children, Top.todo)
      /\ Top.node \in Nodes \cup {"function_definition"}
  BY <1>1, <1>2, <1>3 DEF FormInv, Awaited
<1> QED BY <1>1, <1>2, <1>3, <1>4

(* A frame that begins is in front of the whole form of its node. *)
LEMMA BeginsForm ==
  ASSUME Inv, TreeInv, outcome = "reading", AtStart
  PROVE  Top.todo # <<>> /\ (Current.kind = "node" => Descent(Current.of) < Descent(Top.node))
<1>1. /\ Top.children = <<>> /\ Top.node \in Nodes /\ Top.todo \in Seq(PartSet)
      /\ FormFits(Top.node, Kids(Top.children) \o Top.todo)
  BY TopIs DEF AtStart, CallFitsForm, FormOf
<1> DEFINE todo == Top.todo
           node == Top.node
<1> HIDE DEF Top
<1>2. Kids(<<>>) \o todo = todo
  BY <1>1, NoKids
<1>3. FormFits(node, todo) /\ node \in Nodes BY <1>1, <1>2
<1>4. Current = Head(todo) BY DEF Current
<1>5. todo # <<>> => Head(todo) = todo[1] BY <1>1
<1> HIDE DEF todo, node, Current
<1>6. todo # <<>> /\ (Current.kind = "node" => Descent(Current.of) < Descent(node))
  BY <1>3, <1>4, <1>5, FormBegins
<1> QED BY <1>6 DEF todo, node

(* A call that is made is deeper than the one that makes it. *)
LEMMA CallParseShrinks ==
  ASSUME Inv, TreeInv, CallParse
  PROVE  Smaller(Measure', Measure)
<1> DEFINE n == Len(stack)
           h == Going(Top, Tail(Top.todo))
           st1 == Append(SubSeq(stack, 1, n - 1), h)
           called == Frame(Current.of, Parts(Current.of, next_token),
                           next_token = Nullopt /\ Current.of \notin Leaves)
<1>1. /\ outcome = "reading" /\ Top.todo # <<>> /\ Todo
      /\ Current.kind = "node" /\ Current.kind # "has_error"
      /\ stack' = Append(st1, called)
      /\ UNCHANGED <<error_flag, outcome, room, phrase>>
  BY DEF CallParse, Todo, Callers
<1>2. PICK F : stack \in Seq(F)
  BY <1>1, TopIs
<1>3. n \in Nat /\ n > 0
  BY <1>1, TopIs
<1>4. Current.of \in Nodes
  <2>1. PICK g : StackFits(stack, g, phrase, next_token) BY <1>1, StackStands
  <2>2. PartOf(Top.node, Current) BY <1>1, <2>1, InFront
  <2> QED BY <1>1, <2>2 DEF PartOf, Calling
<1>5. called.node = Current.of /\ called.children = <<>>
  BY DEF Frame
<1> HIDE DEF h, called
<1>6. st1 \in Seq(F \cup {h}) /\ Len(st1) = n
  BY <1>2, <1>3, TopReplaced
<1> HIDE DEF st1
<1>7. Len(stack') = n + 1 /\ stack'[n + 1] = called
  BY <1>1, <1>6, OnTop
<1> HIDE DEF n
<1>8. Top' = called
  BY <1>7 DEF Top
<1>9. AtStart'
  BY <1>4, <1>5, <1>8, NamesApart DEF AtStart
<1>10. Trying = 1 /\ Trying' \in {0, 1}
  BY <1>1 DEF Trying
<1>11. TokensLeft' = TokensLeft
  BY <1>1, SameTokens
<1>12. Depth' = 0 \/ Depth' = 1 + Descent(Current.of)
  BY <1>5, <1>8, <1>9 DEF Depth
<1>13. Depth = IF AtStart THEN 1 + Descent(Top.node) ELSE 5 + n
  BY <1>1 DEF Depth, n
<1>14. Depth' < Depth
  <2> DEFINE d == Descent(Current.of)
             e == Descent(Top.node)
  <2>1. d \in Nat /\ d < 5 /\ e \in Nat BY DescentIs
  <2>2. AtStart => d < e BY <1>1, BeginsForm
  <2>3. Depth' = 0 \/ Depth' = 1 + d BY <1>12
  <2>4. Depth = IF AtStart THEN 1 + e ELSE 5 + n BY <1>13
  <2> HIDE DEF d, e
  <2>5. CASE AtStart BY <2>1, <2>2, <2>3, <2>4, <2>5
  <2>6. CASE ~AtStart BY <1>3, <2>1, <2>3, <2>4, <2>6
  <2> QED BY <2>5, <2>6
<1> QED BY <1>10, <1>11, <1>14, MeasureBelow

(* A part that is decided is one part less, or a token is next. *)
LEMMA ExpectShrinks ==
  ASSUME Inv, TreeInv, Expect
  PROVE  Smaller(Measure', Measure)
<1> DEFINE n == Len(stack)
           x == Announced(Current, next_token)
           rest == Tail(Top.todo)
           f == Going(Top, x \o rest)
<1>1. /\ outcome = "reading" /\ Top.todo # <<>> /\ Todo
      /\ Current.kind \in {"optional", "list", "tail", "sign"}
      /\ stack' = Append(SubSeq(stack, 1, n - 1), f)
      /\ UNCHANGED <<error_flag, outcome, room, phrase>>
  BY DEF Expect, Todo, Callers
<1>2. PICK F : stack \in Seq(F)
  BY <1>1, TopIs
<1>3. n \in Nat /\ n > 0 /\ IsFrame(Top) /\ Top.todo \in Seq(PartSet)
  BY <1>1, TopIs
<1>4. f.node = Top.node /\ f.todo = x \o rest /\ f.children = Top.children
  <2> HIDE DEF x, rest, Top
  <2> QED BY <1>3, GoingFacts
<1>5. Current = Head(Top.todo) BY DEF Current
<1>6. /\ Current \in PartSet /\ rest \in Seq(PartSet) /\ Len(Top.todo) = Len(rest) + 1
      /\ Len(rest) \in Nat
  <2> HIDE DEF Top
  <2> QED BY <1>1, <1>3, <1>5
<1>7. /\ Len(stack') = n /\ stack'[n] = f
  <2> HIDE DEF f
  <2> QED BY <1>1, <1>2, <1>3, TopReplaced
<1>8. Top' = f
  BY <1>7 DEF Top
<1>9. AtStart' = AtStart
  <2> HIDE DEF f
  <2> QED BY <1>4, <1>8 DEF AtStart
<1>10. Trying = 1 /\ Trying' \in {0, 1}
  BY <1>1 DEF Trying
<1>11. TokensLeft' = TokensLeft
  BY <1>1, SameTokens
<1>12. \/ x = <<>>
       \/ x = <<Node(Current.of)>>
       \/ x \in Seq(PartSet) /\ x # <<>> /\ Head(x).kind = "terminal"
  <2> DEFINE c == Current
             t == next_token
  <2>1. c \in PartSet /\ c.kind \in {"optional", "list", "tail", "sign"} BY <1>1, <1>6
  <2>2. x = Announced(c, t) OBVIOUS
  <2> HIDE DEF c, t, x
  <2>3. /\ x \in Seq(PartSet)
        /\ t \notin c.first => x = <<>>
        /\ t \in c.first /\ c.kind = "list" => x = <<Terminal(t), Node(c.of), c>>
        /\ t \in c.first /\ c.kind = "tail" => x = <<Terminal(t), Node(c.of)>>
        /\ t \in c.first /\ c.kind = "sign" => x = <<Terminal(t)>>
    BY <2>1, <2>2, AnnouncedIs
  <2>4. t \in c.first /\ c.kind = "optional" => x = <<Node(c.of)>>
    BY <2>2 DEF Announced
  <2>5. \A a, b, d : /\ <<a>> # <<>> /\ Head(<<a>>) = a
                     /\ <<a, b>> # <<>> /\ Head(<<a, b>>) = a
                     /\ <<a, b, d>> # <<>> /\ Head(<<a, b, d>>) = a
    OBVIOUS
  <2>6. Terminal(t).kind = "terminal" BY NameFields
  <2>7. CASE t \notin c.first BY <2>3, <2>7
  <2>8. CASE t \in c.first /\ c.kind = "optional" BY <2>4, <2>8 DEF c
  <2>9. CASE t \in c.first /\ c.kind # "optional"
    <3>1. x # <<>> /\ Head(x) = Terminal(t) BY <2>1, <2>3, <2>5, <2>9
    <3> QED BY <2>3, <2>6, <3>1
  <2> QED BY <2>7, <2>8, <2>9
<1>13. Top'.todo = x \o rest /\ Top'.children = Top.children /\ Top'.node = Top.node
  <2> HIDE DEF f
  <2> QED BY <1>4, <1>8
<1>14. outcome' = "reading" /\ Len(stack') = Len(stack) BY <1>1, <1>7
<1>15. Depth = IF AtStart THEN 1 + Descent(Top.node) ELSE 5 + n
  BY <1>1 DEF Depth
<1>16. Depth' = 0 \/ Depth' = Depth
  BY <1>9, <1>13, <1>14, <1>15 DEF Depth
<1>17. Depth > 0 /\ Depth \in Nat
  <2> DEFINE e == Descent(Top.node)
  <2>1. e \in Nat BY DescentIs
  <2>2. Depth = IF AtStart THEN 1 + e ELSE 5 + n BY <1>15
  <2> HIDE DEF e, n
  <2> QED BY <1>3, <2>1, <2>2
<1>18. PartsLeft = 2 * Len(Top.todo) + 1
  BY <1>1 DEF PartsLeft
<1>19. CASE x = <<>>
  <2>1. Top'.todo = rest BY <1>6, <1>13, <1>19
  <2>2. PartsLeft' = 2 * Len(rest) \/ PartsLeft' = 2 * Len(rest) + 1
    <3> DEFINE l == Len(rest)
               e == IF Todo' /\ Current'.kind = "node" THEN 0 ELSE 1
    <3>1. PartsLeft' = 2 * l + e BY <2>1 DEF PartsLeft
    <3>2. l \in Nat BY <1>6
    <3>3. e = 0 \/ e = 1 OBVIOUS
    <3> HIDE DEF e, l
    <3>4. PartsLeft' = 2 * l \/ PartsLeft' = 2 * l + 1 BY <3>1, <3>2, <3>3
    <3> QED BY <3>4 DEF l
  <2>3. PartsLeft' < PartsLeft
    <3> HIDE DEF rest, Top
    <3> QED BY <1>6, <1>18, <2>2
  <2> QED BY <1>10, <1>11, <1>16, <1>17, <2>3, MeasureBelow
<1>20. CASE x = <<Node(Current.of)>>
  <2> DEFINE a == Node(Current.of)
  <2>1. Node(Current.of).kind = "node" BY NameFields
  <2>2. Top'.todo = <<a>> \o rest BY <1>13, <1>20
  <2> HIDE DEF a, rest, x, f
  <2>3. Len(Top'.todo) = Len(rest) + 1 /\ Head(Top'.todo) = a /\ Top'.todo # <<>>
    BY <1>6, <2>2
  <2>4. Todo' /\ Current'.kind = "node"
    BY <1>14, <2>1, <2>3 DEF Todo, Current, a
  <2>5. PartsLeft' = 2 * (Len(rest) + 1) + 0
    BY <2>3, <2>4 DEF PartsLeft
  <2>6. PartsLeft' < PartsLeft BY <1>6, <1>18, <2>5
  <2> QED BY <1>10, <1>11, <1>16, <1>17, <2>6, MeasureBelow
<1>21. CASE x \in Seq(PartSet) /\ x # <<>> /\ Head(x).kind = "terminal"
  <2>1. Top'.todo # <<>> /\ Head(Top'.todo) = Head(x)
    <3> HIDE DEF x, rest
    <3> QED BY <1>6, <1>13, <1>21
  <2>2. Depth' = 0
    BY <1>14, <1>21, <2>1 DEF Depth, Todo, Current
  <2> QED BY <1>10, <1>11, <1>17, <2>2, MeasureBelow
<1> QED BY <1>12, <1>19, <1>20, <1>21

(* A declaration that is abandoned is one chance less. *)
LEMMA MismatchShrinks ==
  ASSUME Inv, TreeInv, Mismatch, outcome' = "reading"
  PROVE  Smaller(Measure', Measure)
<1>1. /\ Todo /\ Current.kind = "terminal" /\ outcome = "reading"
      /\ error_flag' = TRUE /\ ReturnNullptr
  BY DEF Mismatch, ReportError, Todo
<1>2. /\ Len(stack) > 1 /\ stack[2].node \in Declarations
      /\ stack' = <<stack[1]>> /\ UNCHANGED <<room, phrase>>
  BY <1>1 DEF ReturnNullptr
<1>3. stack[1].todo # <<>> /\ Head(stack[1].todo) = HasError
  BY <1>1, <1>2 DEF Inv, StackInv, Declaring
<1>4. Top' = stack[1]
  BY <1>2 DEF Top
<1>5. Todo' /\ Current'.kind = "has_error"
  BY <1>3, <1>4, PartFields DEF Todo, Current
<1>6. Trying' = 0 BY <1>1, <1>5 DEF Trying
<1>7. Trying = 1 BY <1>1 DEF Trying
<1> QED BY <1>2, <1>6, <1>7, SameTokens, MeasureBelow

(* The function goes on with one part less. *)
LEMMA TestHasErrorShrinks ==
  ASSUME Inv, TreeInv, TestHasError, outcome' = "reading"
  PROVE  Smaller(Measure', Measure)
<1> DEFINE rest == Tail(Top.todo)
           f == Going(Top, rest)
<1>1. /\ Todo /\ Current.kind = "has_error" /\ outcome = "reading" /\ Top.todo # <<>>
      /\ ~error_flag /\ stack' = <<f>>
      /\ UNCHANGED <<error_flag, room, phrase>>
  BY DEF TestHasError, Todo
<1>2. IsFrame(Top) /\ Top.todo \in Seq(PartSet) /\ Len(stack) \in Nat
  BY <1>1, TopIs
<1>3. Top.node = "function_definition" /\ Len(stack) = 1
  <2>1. PICK g : StackFits(stack, g, phrase, next_token) BY <1>1 DEF Inv, StackInv
  <2>2. PartOf(Top.node, Current) BY <1>1, <2>1, InFront
  <2>3. Top.node = "function_definition" BY <1>1, <2>2 DEF PartOf
  <2> QED BY <1>1, <2>3, TopIs
<1>4. f.node = Top.node /\ f.todo = rest
  <2> HIDE DEF rest, Top
  <2> QED BY <1>2, GoingFacts
<1>5. Len(rest) \in Nat /\ Len(Top.todo) = Len(rest) + 1
  <2> HIDE DEF Top
  <2> QED BY <1>1, <1>2
<1> HIDE DEF f
<1>6. Top' = f /\ Len(stack') = 1
  BY <1>1 DEF Top
<1>7. Trying' = 1 /\ Trying = 1
  BY <1>1 DEF Trying
<1>8. Depth = 6
  BY <1>1, <1>3 DEF Depth, AtStart
<1>9. Depth' = 0 \/ Depth' = 6
  BY <1>3, <1>4, <1>6 DEF Depth, AtStart
<1>10. PartsLeft = 2 * Len(Top.todo) + 1
  BY <1>1 DEF PartsLeft
<1>11. PartsLeft' = 2 * Len(rest) \/ PartsLeft' = 2 * Len(rest) + 1
  <2> DEFINE l == Len(rest)
  <2>1. l \in Nat BY <1>5
  <2>2. Len(Top'.todo) = l BY <1>4, <1>6
  <2> HIDE DEF l, rest
  <2> DEFINE e == IF Todo' /\ Current'.kind = "node" THEN 0 ELSE 1
  <2>3. PartsLeft' = 2 * l + e BY <2>2 DEF PartsLeft
  <2>4. e = 0 \/ e = 1 OBVIOUS
  <2> HIDE DEF e
  <2>5. PartsLeft' = 2 * l \/ PartsLeft' = 2 * l + 1 BY <2>1, <2>3, <2>4
  <2> QED BY <2>5 DEF l
<1>12. PartsLeft' < PartsLeft
  <2> HIDE DEF rest, Top
  <2> QED BY <1>5, <1>10, <1>11
<1> QED BY <1>1, <1>7, <1>8, <1>9, <1>12, SameTokens, MeasureBelow

(* A call that returns is one less. *)
LEMMA ReturnNodeShrinks ==
  ASSUME Inv, TreeInv, ReturnNode
  PROVE  Smaller(Measure', Measure)
<1> DEFINE n == Len(stack)
           below == stack[n - 1]
           child == TreeNode(Top.node, Top.children, Top.stale)
           h == [below EXCEPT !.children = Append(below.children, child)]
<1>1. /\ outcome = "reading" /\ Top.todo = <<>> /\ n > 1
      /\ stack' = [SubSeq(stack, 1, n - 1) EXCEPT
                      ![n - 1] = [SubSeq(stack, 1, n - 1)[n - 1] EXCEPT !.children =
                         Append(SubSeq(stack, 1, n - 1)[n - 1].children, child)]]
      /\ UNCHANGED <<error_flag, outcome, room, phrase>>
  BY DEF ReturnNode, Callers
<1>2. (\E F : stack \in Seq(F)) /\ n \in Nat
  BY <1>1, TopIs
<1>3. IsFrame(below) /\ \E S : below.children \in Seq(S)
  <2>1. n - 1 \in 1 .. n BY <1>1, <1>2
  <2>2. IsFrame(below) BY <1>1, <2>1, Frames
  <2>3. FittingChildren(below.children) BY <1>1, <2>1 DEF TreeInv, FormInv, CallFitsForm
  <2> QED BY <2>2, <2>3 DEF FittingChildren
<1>4. h.children = Append(below.children, child) /\ h.children # <<>>
  <2> DEFINE children == Append(below.children, child)
  <2> HIDE DEF below, child
  <2>1. h.children = children BY <1>3, ChildrenFacts
  <2>2. children # <<>> BY <1>3
  <2> QED BY <2>1, <2>2
<1> HIDE DEF h
<1>5. Len(stack') = n - 1 /\ stack'[n - 1] = h
  <2>1. SubSeq(stack, 1, n - 1)[n - 1] = below
    BY <1>1, <1>2, HandedDown
  <2>2. stack' = WithoutTop(stack, h) BY <1>1, <2>1 DEF WithoutTop, h
  <2> QED BY <1>1, <1>2, <2>2, HandedDown
<1> HIDE DEF n
<1>6. Top' = h BY <1>5 DEF Top
<1>7. ~AtStart' BY <1>4, <1>6 DEF AtStart
<1>8. ~AtStart
  <2>1. CASE AtStart BY <1>1, <2>1, BeginsForm
  <2> QED BY <2>1
<1>9. Depth = 5 + n BY <1>1, <1>8 DEF Depth, Todo, n
<1>10. Depth' = 0 \/ Depth' = 5 + (n - 1) BY <1>5, <1>7 DEF Depth
<1>11. Depth' < Depth BY <1>2, <1>9, <1>10 DEF n
<1>12. Trying = 1 /\ Trying' \in {0, 1} BY <1>1 DEF Trying, Todo
<1> QED BY <1>1, <1>11, <1>12, SameTokens, MeasureBelow

(* Every step of a parse that goes on makes what is left smaller. *)
LEMMA StepShrinks ==
  ASSUME Inv, TreeInv, Next, outcome' = "reading"
  PROVE  Smaller(Measure', Measure)
<1>1. CASE CallParse BY <1>1, CallParseShrinks
<1>2. CASE Expect BY <1>2, ExpectShrinks
<1>3. CASE Consume BY <1>3, ConsumeShrinks, MeasureBelow
<1>4. CASE Mismatch BY <1>4, MismatchShrinks
<1>5. CASE NoAlternative
  <2>1. Language!Reject BY <1>5, NoAlternativeStep
  <2> QED BY <2>1 DEF Language!Reject
<1>6. CASE TestHasError BY <1>6, TestHasErrorShrinks
<1>7. CASE ReturnNode BY <1>7, ReturnNodeShrinks
<1>8. CASE Finish BY <1>8 DEF Finish
<1> QED BY <1>1, <1>2, <1>3, <1>4, <1>5, <1>6, <1>7, <1>8 DEF Next

(* What is left is four numbers. *)
LEMMA MeasureType ==
  ASSUME Inv, TreeInv, outcome = "reading"
  PROVE  Measure \in Ranks
<1>1. Len(stack) \in Nat /\ Len(Top.todo) \in Nat
  <2>1. Len(stack) \in Nat /\ Top.todo \in Seq(PartSet) BY TopIs
  <2> HIDE DEF Top
  <2> QED BY <2>1
<1>2. TokensLeft \in Nat BY DEF TokensLeft, Inv, TextInv
<1>3. Trying \in Nat BY DEF Trying
<1>4. Depth \in Nat
  <2>1. Descent(Top.node) \in Nat BY DescentIs
  <2> QED BY <1>1, <2>1 DEF Depth
<1>5. PartsLeft \in Nat
  <2> DEFINE l == Len(Top.todo)
  <2>1. PartsLeft = 2 * l + (IF Todo /\ Current.kind = "node" THEN 0 ELSE 1)
    BY DEF PartsLeft
  <2>2. l \in Nat BY <1>1
  <2> HIDE DEF l, Todo, Current
  <2>3. (IF Todo /\ Current.kind = "node" THEN 0 ELSE 1) \in Nat OBVIOUS
  <2> QED BY <2>1, <2>2, <2>3
<1>6. \A a, b, c, d \in Nat : <<a, b, c, d>> \in Ranks BY DEF Ranks
<1> QED BY <1>2, <1>3, <1>4, <1>5, <1>6 DEF Measure

(* The parser descends into no circle: every step of a parse that goes on  *)
(* makes its measure smaller in an order in which nothing can become       *)
(* smaller for ever, on every text and at every depth of brackets.         *)
THEOREM ParserStepsShrink ==
  /\ IsWellFoundedOn(Lower, Ranks)
  /\ Spec => [](outcome = "reading" => Measure \in Ranks)
  /\ Spec => StepsShrink
  /\ \A m, n \in Ranks : Smaller(m, n) => <<m, n>> \in Lower
<1>1. Inv /\ TreeInv => (outcome = "reading" => Measure \in Ranks)
  BY MeasureType
<1>2. Inv /\ TreeInv /\ [Next]_vars =>
         [outcome' = "reading" => Smaller(Measure', Measure)]_vars
  BY StepShrinks
<1>3. Spec => [](outcome = "reading" => Measure \in Ranks)
  BY <1>1, ParserInvariance, FormsInvariance, PTL
<1>4. Spec => StepsShrink
  BY <1>2, ParserInvariance, FormsInvariance, PTL DEF Spec, StepsShrink
<1> QED BY <1>3, <1>4, LowerWellFounded, SmallerIsLower
===============================================================================
