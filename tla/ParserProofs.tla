------------------------------ MODULE ParserProofs ------------------------------
(***************************************************************************)
(* Theorems about Parser for every bound on its texts: that no node is     *)
(* without a position, that the error flag agrees with the result, and     *)
(* that the parser accepts the language of Grammar and gives up at the     *)
(* first token that cannot belong to it.                                   *)
(*                                                                         *)
(* The recogniser reads a phrase, the parser calls functions.  A spot says *)
(* where a parse function stands in the phrase; each part leads from one   *)
(* spot to the next, or meets a token the recogniser refuses there.  So    *)
(* every frame on the stack leads, through the spots of its parts, to the  *)
(* spot where its caller goes on.                                          *)
(***************************************************************************)
EXTENDS Parser, SequenceTheorems, TLAPS

(* Every lookahead. *)
All == TokenTypes \cup {"EOS", Nullopt}

Additive == {"PLUS_OP", "MINUS_OP"}
Multiplicative == {"MULT_OP", "DIV_OP"}

-----------------------------------------------------------------------------
(* Where a parse function may stand in the text: a place of the language,  *)
(* which declarations or how many brackets are behind it (n), and the      *)
(* tokens that may come (may). primary stands behind a sign that may be    *)
(* missing.                                                                *)
Spots == [at : Language!Places \cup {"primary"}, n : Nat, may : SUBSET All]
Spot(at, n, may) == [at |-> at, n |-> n, may |-> may]
Only(s, t) == Spot(s.at, s.n, {t})

(* Phrase q with lookahead t stands at spot s. *)
Stands(s, q, t) ==
    /\ t \in s.may
    /\ \/ /\ s.at = "section"
          /\ q.at = "section" /\ q.rank <= s.n /\ q.depth = 0
          /\ \A r \in 1 .. 3 : q.rank < r /\ r <= s.n => t # Language!Keyword[r]
       \/ /\ s.at \in {"name", "constant", "value", "declared"}
          /\ q.at = s.at /\ q.rank = s.n /\ q.depth = 0
       \/ /\ s.at = "primary"
          /\ q.at = "signed" \/ (q.at = "operand" /\ t \notin Additive)
          /\ q.depth = s.n
       \/ /\ s.at \in {"statement", "target", "operand", "operator", "end", "function"}
          /\ q.at = s.at /\ q.depth = s.n

(* The spots between the parts of the parse functions. *)
InSection(n)  == Spot("section", n, All)
AtName(n)     == Spot("name", n, All)
AtConstant    == Spot("constant", 3, All)
AtValue       == Spot("value", 3, All)
AtDeclared(n) == Spot("declared", n, All)
AtListed(n)   == Spot("declared", n, All \ {"SEPARATOR"})
AtStatement   == Spot("statement", 0, All)
AtAssignment  == Spot("statement", 0, All \ {"RETURN"})
AtTarget      == Spot("target", 0, All)
AtOperand(d)  == Spot("operand", d, All)
AtPrimary(d)  == Spot("primary", d, All)
AtOperator(d) == Spot("operator", d, All)
AtProduct(d)  == Spot("operator", d, All \ Multiplicative)
AtSum(d)      == Spot("operator", d, All \ (Additive \cup Multiplicative))
AtStatements  ==
    Spot("operator", 0,
         All \ (Additive \cup Multiplicative \cup {"STATEMENT_TERMINATOR"}))
AtPeriod      == Spot("end", 0, All)
AtFunction    == Spot("function", 0, All)

(* The language does not go on from q with t, nor does it end there. *)
Refused(q, t) ==
    /\ t \in TokenTypes => Language!Extended(q, t) = Language!NoPhrase
    /\ t = "EOS" => q.at # "function"

(* Token x leads from s to s2, and anything else at s is refused. *)
TerminalFits(s, x, s2) ==
    \A q \in Language!Phrases, t \in s.may : Stands(s, q, t) =>
        IF t = x THEN /\ Language!Extended(q, t) \in Language!Phrases \ {Language!NoPhrase}
                      /\ \A u \in All : Stands(s2, Language!Extended(q, t), u)
                 ELSE Refused(q, t)

-----------------------------------------------------------------------------
(* The fields of a phrase are those it is made of, and a place of the      *)
(* language is never that of no function.                                  *)
LEMMA PhraseFacts ==
  ASSUME NEW at \in Language!Places, NEW r \in 0 .. 3, NEW d \in Nat
  PROVE  /\ Language!Phrase(at, r, d) \in Language!Phrases \ {Language!NoPhrase}
         /\ Language!Phrase(at, r, d).at = at
         /\ Language!Phrase(at, r, d).rank = r
         /\ Language!Phrase(at, r, d).depth = d
<1>1. Language!NoPhrase.at = "no function"
  BY DEF Language!Phrase, Language!NoPhrase
<1>2. "no function" \notin Language!Places
  BY DEF Language!Places
<1>3. Language!Phrase(at, r, d).at # Language!NoPhrase.at
  BY <1>1, <1>2 DEF Language!Phrase
<1>4. Language!Phrase(at, r, d) \in Language!Phrases
  BY DEF Language!Phrase, Language!Phrases
<1> QED BY <1>3, <1>4 DEF Language!Phrase

(* What a token makes of a phrase that stands before a declaration or the  *)
(* statements.                                                             *)
LEMMA FromSection ==
  ASSUME NEW q \in Language!Phrases, NEW t, q.at = "section"
  PROVE  Language!Extended(q, t) =
            CASE t = "BEGIN" -> Language!Phrase("statement", q.rank, q.depth)
              [] t = "PARAM" /\ q.rank < 1 -> Language!Phrase("name", 1, 0)
              [] t = "VAR" /\ q.rank < 2 -> Language!Phrase("name", 2, 0)
              [] t = "CONST" /\ q.rank < 3 -> Language!Phrase("name", 3, 0)
              [] OTHER -> Language!NoPhrase
<1>1. /\ Language!Rank("PARAM") = 1
      /\ Language!Rank("VAR") = 2
      /\ Language!Rank("CONST") = 3
  BY DEF Language!Rank, Language!Keyword
<1>2. (\E r \in q.rank + 1 .. 3 : Language!Keyword[r] = t) <=>
         \/ t = "PARAM" /\ q.rank < 1
         \/ t = "VAR" /\ q.rank < 2
         \/ t = "CONST" /\ q.rank < 3
  BY DEF Language!Keyword, Language!Phrases
<1> QED BY <1>1, <1>2 DEF Language!Extended, Language!Phrases

(* What a token makes of a phrase inside a declaration. *)
LEMMA FromDeclaration ==
  ASSUME NEW q \in Language!Phrases, NEW t,
         q.at \in {"name", "constant", "value", "declared"}
  PROVE  Language!Extended(q, t) =
            CASE q.at = "name" /\ t = "IDENTIFIER" ->
                    Language!Phrase(IF q.rank = 3 THEN "constant" ELSE "declared",
                                    q.rank, q.depth)
              [] q.at = "constant" /\ t = "INIT_ASSIGNMENT_OP" ->
                    Language!Phrase("value", q.rank, q.depth)
              [] q.at = "value" /\ t = "LITERAL" ->
                    Language!Phrase("declared", q.rank, q.depth)
              [] q.at = "declared" /\ t = "SEPARATOR" ->
                    Language!Phrase("name", q.rank, q.depth)
              [] q.at = "declared" /\ t = "STATEMENT_TERMINATOR" ->
                    Language!Phrase("section", q.rank, q.depth)
              [] OTHER -> Language!NoPhrase
  BY DEF Language!Extended, Language!Phrases

(* What a token makes of a phrase at a statement, an assignment or the end. *)
LEMMA FromStatement ==
  ASSUME NEW q \in Language!Phrases, NEW t,
         q.at \in {"statement", "target", "end", "function"}
  PROVE  Language!Extended(q, t) =
            CASE q.at = "statement" /\ t = "RETURN" ->
                    Language!Phrase("operand", q.rank, q.depth)
              [] q.at = "statement" /\ t = "IDENTIFIER" ->
                    Language!Phrase("target", q.rank, q.depth)
              [] q.at = "target" /\ t = "VAR_ASSIGNMENT_OP" ->
                    Language!Phrase("operand", q.rank, q.depth)
              [] q.at = "end" /\ t = "PROGRAM_TERMINATOR" ->
                    Language!Phrase("function", q.rank, q.depth)
              [] OTHER -> Language!NoPhrase
  BY DEF Language!Extended, Language!Phrases

(* What a token makes of a phrase that expects an operand. *)
LEMMA FromOperand ==
  ASSUME NEW q \in Language!Phrases, NEW t, q.at \in {"operand", "signed"}
  PROVE  Language!Extended(q, t) =
            CASE q.at = "operand" /\ t \in Additive ->
                    Language!Phrase("signed", q.rank, q.depth)
              [] t \in {"IDENTIFIER", "LITERAL"} ->
                    Language!Phrase("operator", q.rank, q.depth)
              [] t = "L_BRACKET" -> Language!Phrase("operand", q.rank, q.depth + 1)
              [] OTHER -> Language!NoPhrase
  BY DEF Language!Extended, Language!Phrases, Additive

(* What a token makes of a phrase behind an operand. *)
LEMMA FromOperator ==
  ASSUME NEW q \in Language!Phrases, NEW t, q.at = "operator"
  PROVE  Language!Extended(q, t) =
            CASE t \in Additive \cup Multiplicative ->
                    Language!Phrase("operand", q.rank, q.depth)
              [] t = "R_BRACKET" /\ q.depth > 0 ->
                    Language!Phrase("operator", q.rank, q.depth - 1)
              [] t = "STATEMENT_TERMINATOR" /\ q.depth = 0 ->
                    Language!Phrase("statement", q.rank, q.depth)
              [] t = "END" /\ q.depth = 0 -> Language!Phrase("end", q.rank, q.depth)
              [] OTHER -> Language!NoPhrase
  BY DEF Language!Extended, Language!Phrases, Additive, Multiplicative

-----------------------------------------------------------------------------
(* The tokens of declarations lead from spot to spot, and any other token  *)
(* is refused there (parse_terminal_token, parser.cpp:29).                 *)
LEMMA DeclarationTokens ==
  /\ \A n \in 1 .. 3 : TerminalFits(Only(InSection(n - 1), Language!Keyword[n]),
                                    Language!Keyword[n], AtName(n))
  /\ \A n \in 1 .. 2 : TerminalFits(AtName(n), "IDENTIFIER", AtDeclared(n))
  /\ TerminalFits(AtName(3), "IDENTIFIER", AtConstant)
  /\ TerminalFits(AtConstant, "INIT_ASSIGNMENT_OP", AtValue)
  /\ TerminalFits(AtValue, "LITERAL", AtDeclared(3))
  /\ \A n \in 1 .. 3 : TerminalFits(Only(AtDeclared(n), "SEPARATOR"), "SEPARATOR", AtName(n))
  /\ \A n \in 1 .. 3 : TerminalFits(AtListed(n), "STATEMENT_TERMINATOR", InSection(n))
<1> USE ParserAssumption, PhraseFacts
    DEF TerminalFits, Only, Spot, Stands, Refused, Language!Phrases, Language!Places
<1>1. ASSUME NEW n \in 1 .. 3
      PROVE TerminalFits(Only(InSection(n - 1), Language!Keyword[n]),
                         Language!Keyword[n], AtName(n))
  <2>1. CASE n = 1 BY <2>1, FromSection DEF InSection, AtName, Language!Keyword
  <2>2. CASE n = 2 BY <2>2, FromSection DEF InSection, AtName, Language!Keyword
  <2>3. CASE n = 3 BY <2>3, FromSection DEF InSection, AtName, Language!Keyword
  <2>4. n = 1 \/ n = 2 \/ n = 3 OBVIOUS
  <2> HIDE DEF TerminalFits
  <2> QED BY <2>1, <2>2, <2>3, <2>4, Zenon
<1>2. ASSUME NEW n \in 1 .. 2 PROVE TerminalFits(AtName(n), "IDENTIFIER", AtDeclared(n))
  BY FromDeclaration DEF AtName, AtDeclared, All, TokenTypes
<1>3. TerminalFits(AtName(3), "IDENTIFIER", AtConstant)
  BY FromDeclaration DEF AtName, AtConstant, All, TokenTypes
<1>4. TerminalFits(AtConstant, "INIT_ASSIGNMENT_OP", AtValue)
  BY FromDeclaration DEF AtValue, AtConstant, All, TokenTypes
<1>5. TerminalFits(AtValue, "LITERAL", AtDeclared(3))
  BY FromDeclaration DEF AtValue, AtDeclared, All, TokenTypes
<1>6. ASSUME NEW n \in 1 .. 3
      PROVE TerminalFits(Only(AtDeclared(n), "SEPARATOR"), "SEPARATOR", AtName(n))
  BY FromDeclaration DEF AtName, AtDeclared, All, TokenTypes
<1>7. ASSUME NEW n \in 1 .. 3
      PROVE TerminalFits(AtListed(n), "STATEMENT_TERMINATOR", InSection(n))
  BY FromDeclaration DEF AtListed, InSection, All, TokenTypes
<1> HIDE DEF TerminalFits
<1> QED BY <1>1, <1>2, <1>3, <1>4, <1>5, <1>6, <1>7

(* So do the tokens of statements and of the function. *)
LEMMA StatementTokens ==
  /\ TerminalFits(InSection(3), "BEGIN", AtStatement)
  /\ TerminalFits(Only(AtSum(0), "STATEMENT_TERMINATOR"), "STATEMENT_TERMINATOR", AtStatement)
  /\ TerminalFits(AtStatements, "END", AtPeriod)
  /\ TerminalFits(AtPeriod, "PROGRAM_TERMINATOR", AtFunction)
  /\ TerminalFits(Only(AtStatement, "RETURN"), "RETURN", AtOperand(0))
  /\ TerminalFits(AtAssignment, "IDENTIFIER", AtTarget)
  /\ TerminalFits(AtTarget, "VAR_ASSIGNMENT_OP", AtOperand(0))
<1> USE ParserAssumption, PhraseFacts
    DEF TerminalFits, Only, Spot, Stands, Refused, Language!Phrases, Language!Places
<1>1. TerminalFits(InSection(3), "BEGIN", AtStatement)
  BY FromSection DEF InSection, AtStatement, All, TokenTypes, Language!Keyword
<1>2. TerminalFits(Only(AtSum(0), "STATEMENT_TERMINATOR"), "STATEMENT_TERMINATOR", AtStatement)
  BY FromOperator DEF AtSum, AtStatement, All, TokenTypes, Additive, Multiplicative
<1>3. TerminalFits(AtStatements, "END", AtPeriod)
  BY FromOperator DEF AtStatements, AtPeriod, All, TokenTypes, Additive, Multiplicative
<1>4. TerminalFits(AtPeriod, "PROGRAM_TERMINATOR", AtFunction)
  BY FromStatement DEF AtPeriod, AtFunction, All, TokenTypes
<1>5. TerminalFits(Only(AtStatement, "RETURN"), "RETURN", AtOperand(0))
  BY FromStatement DEF AtStatement, AtOperand, All, TokenTypes
<1>6. TerminalFits(AtAssignment, "IDENTIFIER", AtTarget)
  BY FromStatement DEF AtAssignment, AtTarget, All, TokenTypes
<1>7. TerminalFits(AtTarget, "VAR_ASSIGNMENT_OP", AtOperand(0))
  BY FromStatement DEF AtTarget, AtOperand, All, TokenTypes
<1> HIDE DEF TerminalFits
<1> QED BY <1>1, <1>2, <1>3, <1>4, <1>5, <1>6, <1>7

(* So do the tokens of expressions, in any depth of brackets. *)
LEMMA ExpressionTokens ==
  ASSUME NEW d \in Nat
  PROVE
  /\ \A t \in Additive : TerminalFits(Only(AtOperand(d), t), t, AtPrimary(d))
  /\ \A t \in Additive : TerminalFits(Only(AtProduct(d), t), t, AtOperand(d))
  /\ \A t \in Multiplicative : TerminalFits(Only(AtOperator(d), t), t, AtOperand(d))
  /\ \A t \in {"IDENTIFIER", "LITERAL"} :
        TerminalFits(Only(AtPrimary(d), t), t, AtOperator(d))
  /\ TerminalFits(Only(AtPrimary(d), "L_BRACKET"), "L_BRACKET", AtOperand(d + 1))
  /\ TerminalFits(AtSum(d + 1), "R_BRACKET", AtOperator(d))
<1> USE ParserAssumption, PhraseFacts
    DEF TerminalFits, Only, Spot, Stands, Refused, Language!Phrases, Language!Places
<1>1. ASSUME NEW t \in Additive PROVE TerminalFits(Only(AtOperand(d), t), t, AtPrimary(d))
  BY FromOperand DEF AtOperand, AtPrimary, Additive, All
<1>2. ASSUME NEW t \in Additive PROVE TerminalFits(Only(AtProduct(d), t), t, AtOperand(d))
  BY FromOperator DEF AtProduct, AtOperand, Additive, All
<1>3. ASSUME NEW t \in Multiplicative
      PROVE TerminalFits(Only(AtOperator(d), t), t, AtOperand(d))
  BY FromOperator DEF AtOperator, AtOperand, Multiplicative, All
<1>4. ASSUME NEW t \in {"IDENTIFIER", "LITERAL"}
      PROVE  TerminalFits(Only(AtPrimary(d), t), t, AtOperator(d))
  BY FromOperand DEF AtPrimary, AtOperator, Additive, All
<1>5. TerminalFits(Only(AtPrimary(d), "L_BRACKET"), "L_BRACKET", AtOperand(d + 1))
  BY FromOperand DEF AtPrimary, AtOperand, Additive, All
<1>6. TerminalFits(AtSum(d + 1), "R_BRACKET", AtOperator(d))
  BY FromOperator DEF AtSum, AtOperator, All, TokenTypes, Additive, Multiplicative
<1> HIDE DEF TerminalFits
<1> QED BY <1>1, <1>2, <1>3, <1>4, <1>5, <1>6

-----------------------------------------------------------------------------
(* The declaration in each section. *)
Declaration == <<"parameter_declaration", "variable_declaration",
                 "constant_declaration">>
Nodes == DeclarationNodes \cup StatementNodes \cup ExpressionNodes \cup Leaves
DeclaringNodes == DeclarationNodes \cup Leaves

(* The parse functions lead from s to s2. *)
NodeFits(s, node, s2) ==
    \/ node = "identifier" /\ TerminalFits(s, "IDENTIFIER", s2)
    \/ node = "literal" /\ TerminalFits(s, "LITERAL", s2)
    \/ \E n \in 1 .. 3 : /\ node = Declaration[n]
                         /\ s = Only(InSection(n - 1), Language!Keyword[n])
                         /\ s2 = InSection(n)
    \/ \E n \in 1 .. 2 : node = "declarator_list" /\ s = AtName(n) /\ s2 = AtListed(n)
    \/ node = "init_declarator_list" /\ s = AtName(3) /\ s2 = AtListed(3)
    \/ node = "init_declarator" /\ s = AtName(3) /\ s2 = AtDeclared(3)
    \/ node = "compound_statement" /\ s = InSection(3) /\ s2 = AtPeriod
    \/ node = "statement_list" /\ s = AtStatement /\ s2 = AtStatements
    \/ node = "statement" /\ s = AtStatement /\ s2 = AtSum(0)
    \/ node = "assignment_expression" /\ s = AtAssignment /\ s2 = AtSum(0)
    \/ \E d \in Nat :
          \/ node = "additive_expression" /\ s = AtOperand(d) /\ s2 = AtSum(d)
          \/ node = "multiplicative_expression" /\ s = AtOperand(d) /\ s2 = AtProduct(d)
          \/ node = "unary_expression" /\ s = AtOperand(d) /\ s2 = AtOperator(d)
          \/ node = "primary_expression" /\ s = AtPrimary(d) /\ s2 = AtOperator(d)

(* Without a token of first, to stand at s is to stand at s2. *)
Passes(s, first, s2) ==
    \A q \in Language!Phrases, t \in All \ first : Stands(s, q, t) => Stands(s2, q, t)

(* A part leads from s to s2, or is refused on the way. *)
PartFits(s, part, s2) ==
    \/ part.kind = "terminal" /\ TerminalFits(s, part.of, s2)
    \/ part.kind = "node" /\ NodeFits(s, part.of, s2)
    \/ part.kind = "has_error" /\ s = s2
    \/ /\ part.kind = "nullptr"
       /\ \A q \in Language!Phrases, t \in All :
             Stands(s, q, t) => Refused(q, t) /\ q.at \in {"operand", "signed"}
    \/ /\ part.kind = "optional" /\ Passes(s, part.first, s2)
       /\ \A t \in part.first : NodeFits(Only(s, t), part.of, s2)
    \/ /\ part.kind = "list" /\ Passes(s, part.first, s2)
       /\ \A t \in part.first : \E m \in Spots : /\ TerminalFits(Only(s, t), t, m)
                                               /\ NodeFits(m, part.of, s)
    \/ /\ part.kind = "tail" /\ Passes(s, part.first, s2)
       /\ \A t \in part.first : \E m \in Spots : /\ TerminalFits(Only(s, t), t, m)
                                               /\ NodeFits(m, part.of, s2)
    \/ /\ part.kind = "sign" /\ Passes(s, part.first, s2)
       /\ \A t \in part.first : TerminalFits(Only(s, t), t, s2)

PartSet == [kind : Kinds, first : SUBSET TokenTypes, of : TokenTypes \cup Nodes \cup {""}]
Calling == {"node", "optional", "list", "tail"}

(* A part a parse function may have; one within a declaration reports its  *)
(* errors.                                                                 *)
PartOf(node, part) ==
    /\ part \in PartSet
    /\ part.kind = "terminal" => part.of \in TokenTypes
    /\ part.kind \in Calling => part.of \in Nodes
    /\ part.kind \in {"list", "tail"} => part.of \notin Declarations
    /\ part.kind = "has_error" => part = HasError /\ node = "function_definition"
    /\ node \in DeclaringNodes =>
          /\ part.kind # "nullptr"
          /\ part.kind \in Calling => part.of \in DeclaringNodes

(* The parts todo lead through the spots s, one before and one behind each. *)
TodoFits(node, todo, s) ==
    /\ todo \in Seq(PartSet)
    /\ s \in Seq(Spots)
    /\ Len(s) = Len(todo) + 1
    /\ \A k \in 1 .. Len(todo) :
          PartOf(node, todo[k]) /\ PartFits(s[k], todo[k], s[k + 1])

(* Nothing to parse fits any spot. *)
LEMMA NoParts ==
  ASSUME NEW node, NEW a \in Spots PROVE TodoFits(node, <<>>, <<a>>)
  BY DEF TodoFits

(* One part fits between the spots before and behind it. *)
LEMMA OnePart ==
  ASSUME NEW node, NEW x, NEW a \in Spots, NEW b \in Spots,
         PartOf(node, x), PartFits(a, x, b)
  PROVE TodoFits(node, <<x>>, <<a, b>>)
<1>1. x \in PartSet BY DEF PartOf
<1> QED BY <1>1 DEF TodoFits

(* Two parts that fit one behind the other. *)
LEMMA TwoParts ==
  ASSUME NEW node, NEW x, NEW y, NEW a \in Spots, NEW b \in Spots, NEW c \in Spots,
         PartOf(node, x), PartFits(a, x, b), PartOf(node, y), PartFits(b, y, c)
  PROVE TodoFits(node, <<x, y>>, <<a, b, c>>)
<1>1. x \in PartSet /\ y \in PartSet BY DEF PartOf
<1> QED BY <1>1 DEF TodoFits

(* Three parts that fit one behind the other. *)
LEMMA ThreeParts ==
  ASSUME NEW node, NEW x, NEW y, NEW z, NEW a \in Spots, NEW b \in Spots,
         NEW c \in Spots, NEW d \in Spots, PartOf(node, x), PartFits(a, x, b),
         PartOf(node, y), PartFits(b, y, c), PartOf(node, z), PartFits(c, z, d)
  PROVE TodoFits(node, <<x, y, z>>, <<a, b, c, d>>)
<1>1. x \in PartSet /\ y \in PartSet /\ z \in PartSet BY DEF PartOf
<1> QED BY <1>1 DEF TodoFits
(* One, two or three more in front of a sequence. *)
Before1(x, s) == <<x>> \o s
Before2(x, y, s) == <<x, y>> \o s
Before3(x, y, z, s) == <<x, y, z>> \o s

(* A part that fits may be put in front of what fits. *)
LEMMA FrontPart ==
  ASSUME NEW node, NEW todo, NEW s, TodoFits(node, todo, s),
         NEW x, NEW a \in Spots, PartOf(node, x), PartFits(a, x, s[1])
  PROVE  /\ TodoFits(node, Before1(x, todo), Before1(a, s))
         /\ Before1(a, s)[1] = a
         /\ Before1(a, s)[Len(Before1(a, s))] = s[Len(s)]
<1> DEFINE todo2 == <<x>> \o todo
           s2 == <<a>> \o s
<1>1. x \in PartSet
  BY DEF PartOf
<1>2. /\ todo2 \in Seq(PartSet) /\ Len(todo2) = Len(todo) + 1
      /\ \A k \in 1 .. Len(todo) : todo2[k + 1] = todo[k]
      /\ todo2[1] = x
  BY <1>1 DEF TodoFits
<1>3. /\ s2 \in Seq(Spots) /\ Len(s2) = Len(s) + 1
      /\ \A k \in 1 .. Len(s) : s2[k + 1] = s[k]
      /\ s2[1] = a
  BY DEF TodoFits
<1>4. /\ todo \in Seq(PartSet) /\ Len(todo) \in Nat /\ Len(s) = Len(todo) + 1
  BY DEF TodoFits
<1> HIDE DEF todo2, s2
<1>5. ASSUME NEW k \in 1 .. Len(todo2)
      PROVE  PartOf(node, todo2[k]) /\ PartFits(s2[k], todo2[k], s2[k + 1])
  <2>1. CASE k = 1 BY <2>1, <1>2, <1>3, <1>4, 1 + 1 = 2
  <2>2. CASE k > 1
    <3>1. PICK j \in 1 .. Len(todo) : k = j + 1
      <4>1. k - 1 \in 1 .. Len(todo) /\ k = (k - 1) + 1
        BY <2>2, <1>2, <1>4
      <4> QED BY <4>1
    <3>2. /\ j \in 1 .. Len(s) /\ j + 1 \in 1 .. Len(s)
          /\ k + 1 = (j + 1) + 1
      BY <3>1, <1>4
    <3>3. s2[k] = s[j] /\ s2[k + 1] = s[j + 1] /\ todo2[k] = todo[j]
      BY <3>1, <3>2, <1>2, <1>3
    <3>4. PartOf(node, todo[j]) /\ PartFits(s[j], todo[j], s[j + 1])
      BY DEF TodoFits
    <3> QED BY <3>3, <3>4
  <2> QED BY <1>4, <2>1, <2>2
<1>6. TodoFits(node, todo2, s2)
  BY <1>2, <1>3, <1>4, <1>5 DEF TodoFits
<1>7. s2[Len(s2)] = s[Len(s)]
  BY <1>3, <1>4
<1>8. todo2 = Before1(x, todo) /\ s2 = Before1(a, s)
  BY DEF Before1, todo2, s2
<1> QED BY <1>3, <1>6, <1>7, <1>8

(* Two parts that fit may be put in front of what fits. *)
LEMMA FrontTwo ==
  ASSUME NEW node, NEW todo, NEW s, TodoFits(node, todo, s),
         NEW x, NEW a \in Spots, NEW y, NEW b \in Spots,
         PartOf(node, x), PartFits(a, x, b), PartOf(node, y), PartFits(b, y, s[1])
  PROVE  /\ TodoFits(node, Before2(x, y, todo), Before2(a, b, s))
         /\ Before2(a, b, s)[1] = a
         /\ Before2(a, b, s)[Len(Before2(a, b, s))] = s[Len(s)]
<1> DEFINE todo2 == <<x, y>> \o todo
           s2 == <<a, b>> \o s
<1>1. x \in PartSet /\ y \in PartSet
  BY DEF PartOf
<1>2. /\ todo2 \in Seq(PartSet) /\ Len(todo2) = Len(todo) + 2
      /\ \A k \in 1 .. Len(todo) : todo2[k + 2] = todo[k]
      /\ todo2[1] = x /\ todo2[2] = y
  BY <1>1 DEF TodoFits
<1>3. /\ s2 \in Seq(Spots) /\ Len(s2) = Len(s) + 2
      /\ \A k \in 1 .. Len(s) : s2[k + 2] = s[k]
      /\ s2[1] = a /\ s2[2] = b
  BY DEF TodoFits
<1>4. /\ todo \in Seq(PartSet) /\ Len(todo) \in Nat /\ Len(s) = Len(todo) + 1
  BY DEF TodoFits
<1> HIDE DEF todo2, s2
<1>5. ASSUME NEW k \in 1 .. Len(todo2)
      PROVE  PartOf(node, todo2[k]) /\ PartFits(s2[k], todo2[k], s2[k + 1])
  <2>1. CASE k = 1 BY <2>1, <1>2, <1>3, <1>4
  <2>2. CASE k = 2 BY <2>2, <1>2, <1>3, <1>4, 1 + 2 = 3
  <2>3. CASE k > 2
    <3>1. PICK j \in 1 .. Len(todo) : k = j + 2
      <4>1. k - 2 \in 1 .. Len(todo) /\ k = (k - 2) + 2
        BY <2>3, <1>2, <1>4
      <4> QED BY <4>1
    <3>2. /\ j \in 1 .. Len(s) /\ j + 1 \in 1 .. Len(s)
          /\ k + 1 = (j + 1) + 2
      BY <3>1, <1>4
    <3>3. s2[k] = s[j] /\ s2[k + 1] = s[j + 1] /\ todo2[k] = todo[j]
      BY <3>1, <3>2, <1>2, <1>3
    <3>4. PartOf(node, todo[j]) /\ PartFits(s[j], todo[j], s[j + 1])
      BY DEF TodoFits
    <3> QED BY <3>3, <3>4
  <2> QED BY <1>4, <2>1, <2>2, <2>3
<1>6. TodoFits(node, todo2, s2)
  BY <1>2, <1>3, <1>4, <1>5 DEF TodoFits
<1>7. s2[Len(s2)] = s[Len(s)]
  BY <1>3, <1>4
<1>8. todo2 = Before2(x, y, todo) /\ s2 = Before2(a, b, s)
  BY DEF Before2, todo2, s2
<1> QED BY <1>3, <1>6, <1>7, <1>8

(* Three parts that fit may be put in front of what fits. *)
LEMMA FrontThree ==
  ASSUME NEW node, NEW todo, NEW s, TodoFits(node, todo, s),
         NEW x, NEW a \in Spots, NEW y, NEW b \in Spots, NEW z, NEW c \in Spots,
         PartOf(node, x), PartFits(a, x, b), PartOf(node, y), PartFits(b, y, c),
         PartOf(node, z), PartFits(c, z, s[1])
  PROVE  /\ TodoFits(node, Before3(x, y, z, todo), Before3(a, b, c, s))
         /\ Before3(a, b, c, s)[1] = a
         /\ Before3(a, b, c, s)[Len(Before3(a, b, c, s))] = s[Len(s)]
<1> DEFINE todo2 == <<x, y, z>> \o todo
           s2 == <<a, b, c>> \o s
<1>1. x \in PartSet /\ y \in PartSet /\ z \in PartSet
  BY DEF PartOf
<1>2. /\ todo2 \in Seq(PartSet) /\ Len(todo2) = Len(todo) + 3
      /\ \A k \in 1 .. Len(todo) : todo2[k + 3] = todo[k]
      /\ todo2[1] = x /\ todo2[2] = y /\ todo2[3] = z
  BY <1>1 DEF TodoFits
<1>3. /\ s2 \in Seq(Spots) /\ Len(s2) = Len(s) + 3
      /\ \A k \in 1 .. Len(s) : s2[k + 3] = s[k]
      /\ s2[1] = a /\ s2[2] = b /\ s2[3] = c
  BY DEF TodoFits
<1>4. /\ todo \in Seq(PartSet) /\ Len(todo) \in Nat /\ Len(s) = Len(todo) + 1
  BY DEF TodoFits
<1> HIDE DEF todo2, s2
<1>5. ASSUME NEW k \in 1 .. Len(todo2)
      PROVE  PartOf(node, todo2[k]) /\ PartFits(s2[k], todo2[k], s2[k + 1])
  <2>1. CASE k = 1 BY <2>1, <1>2, <1>3, <1>4
  <2>2. CASE k = 2 BY <2>2, <1>2, <1>3, <1>4
  <2>3. CASE k = 3 BY <2>3, <1>2, <1>3, <1>4, 1 + 3 = 4
  <2>4. CASE k > 3
    <3>1. PICK j \in 1 .. Len(todo) : k = j + 3
      <4>1. k - 3 \in 1 .. Len(todo) /\ k = (k - 3) + 3
        BY <2>4, <1>2, <1>4
      <4> QED BY <4>1
    <3>2. /\ j \in 1 .. Len(s) /\ j + 1 \in 1 .. Len(s)
          /\ k + 1 = (j + 1) + 3
      BY <3>1, <1>4
    <3>3. s2[k] = s[j] /\ s2[k + 1] = s[j + 1] /\ todo2[k] = todo[j]
      BY <3>1, <3>2, <1>2, <1>3
    <3>4. PartOf(node, todo[j]) /\ PartFits(s[j], todo[j], s[j + 1])
      BY DEF TodoFits
    <3> QED BY <3>3, <3>4
  <2> QED BY <1>4, <2>1, <2>2, <2>3, <2>4
<1>6. TodoFits(node, todo2, s2)
  BY <1>2, <1>3, <1>4, <1>5 DEF TodoFits
<1>7. s2[Len(s2)] = s[Len(s)]
  BY <1>3, <1>4
<1>8. todo2 = Before3(x, y, z, todo) /\ s2 = Before3(a, b, c, s)
  BY DEF Before3, todo2, s2
<1> QED BY <1>3, <1>6, <1>7, <1>8

(* When the part in front is done, the rest fits, up to the same last spot. *)
LEMMA RestOfParts ==
  ASSUME NEW node, NEW todo, NEW s, TodoFits(node, todo, s), todo # <<>>
  PROVE /\ TodoFits(node, Tail(todo), Tail(s))
        /\ PartOf(node, Head(todo))
        /\ PartFits(s[1], Head(todo), Tail(s)[1])
        /\ s[1] \in Spots /\ Tail(s)[1] \in Spots
        /\ Tail(s)[Len(Tail(s))] = s[Len(s)]
<1>1. /\ Len(todo) \in Nat /\ Len(todo) > 0 /\ Len(Tail(todo)) = Len(todo) - 1
      /\ Tail(todo) \in Seq(PartSet) /\ Head(todo) = todo[1]
      /\ \A k \in 1 .. Len(todo) - 1 : Tail(todo)[k] = todo[k + 1]
  BY DEF TodoFits
<1>2. /\ Len(s) = Len(todo) + 1 /\ Len(Tail(s)) = Len(todo)
      /\ Tail(s) \in Seq(Spots)
      /\ \A k \in 1 .. Len(todo) : Tail(s)[k] = s[k + 1]
  BY <1>1 DEF TodoFits
<1>3. ASSUME NEW k \in 1 .. Len(todo) - 1
      PROVE  /\ PartOf(node, Tail(todo)[k])
             /\ PartFits(Tail(s)[k], Tail(todo)[k], Tail(s)[k + 1])
  BY <1>1, <1>2 DEF TodoFits
<1> QED BY <1>1, <1>2, <1>3 DEF TodoFits

-----------------------------------------------------------------------------
(* A node's parts, one lemma per parse function. *)
(* A parse function called with lookahead t has parts that lead to s2. *)
Fitting(node, t, q, s2) ==
    \E m : /\ TodoFits(node, Parts(node, t), m)
          /\ Stands(m[1], q, t)
          /\ m[Len(m)] = s2

(* Every spot the parse functions stand at is one of Spots. *)
LEMMA SpotTypes ==
  /\ \A n \in Nat : /\ InSection(n) \in Spots /\ AtName(n) \in Spots
                   /\ AtDeclared(n) \in Spots /\ AtListed(n) \in Spots
  /\ AtConstant \in Spots /\ AtValue \in Spots
  /\ AtStatement \in Spots /\ AtAssignment \in Spots /\ AtTarget \in Spots
  /\ AtStatements \in Spots /\ AtPeriod \in Spots /\ AtFunction \in Spots
  /\ \A d \in Nat : /\ AtOperand(d) \in Spots /\ AtPrimary(d) \in Spots
                   /\ AtOperator(d) \in Spots /\ AtProduct(d) \in Spots
                   /\ AtSum(d) \in Spots
  /\ \A s \in Spots, t \in All : Only(s, t) \in Spots
  BY DEF InSection, AtName, AtDeclared, AtListed, AtConstant, AtValue, AtStatement,
         AtAssignment, AtTarget, AtStatements, AtPeriod, AtFunction, AtOperand, AtPrimary,
         AtOperator, AtProduct, AtSum, Only, Spot, Spots, Language!Places

(* A terminal is a part that fits where its token does. *)
LEMMA TerminalPart ==
  ASSUME NEW node, NEW x \in TokenTypes, NEW a, NEW b, TerminalFits(a, x, b)
  PROVE  PartOf(node, Terminal(x)) /\ PartFits(a, Terminal(x), b)
<1>1. Terminal(x).kind = "terminal" /\ Terminal(x).of = x /\ Terminal(x) \in PartSet
  BY DEF Terminal, Part, PartSet, Kinds
<1> QED BY <1>1 DEF PartOf, PartFits, Calling

(* A parse function is a part that fits where the function does. *)
LEMMA NodePart ==
  ASSUME NEW node, NEW x \in Nodes, NEW a, NEW b, NodeFits(a, x, b),
         node \in DeclaringNodes => x \in DeclaringNodes
  PROVE  PartOf(node, Node(x)) /\ PartFits(a, Node(x), b)
<1>1. Node(x).kind = "node" /\ Node(x).of = x /\ Node(x) \in PartSet
  BY DEF Node, Part, PartSet, Kinds
<1> QED BY <1>1 DEF PartOf, PartFits, Calling

(* The parts of each parse function for declarations and leaves. *)
LEMMA DeclarationPartsAre ==
  ASSUME NEW t
  PROVE  /\ Parts("parameter_declaration", t) = Declared("PARAM", "declarator_list")
         /\ Parts("variable_declaration", t) = Declared("VAR", "declarator_list")
         /\ Parts("constant_declaration", t) = Declared("CONST", "init_declarator_list")
         /\ Parts("declarator_list", t) =
               <<Node("identifier"), ListOf("SEPARATOR", "identifier")>>
         /\ Parts("init_declarator_list", t) =
               <<Node("init_declarator"), ListOf("SEPARATOR", "init_declarator")>>
         /\ Parts("init_declarator", t) =
               <<Node("identifier"), Terminal("INIT_ASSIGNMENT_OP"), Node("literal")>>
         /\ Parts("identifier", t) = <<Terminal("IDENTIFIER")>>
         /\ Parts("literal", t) = <<Terminal("LITERAL")>>
  BY DEF Parts, DeclarationParts, DeclarationNodes, Declarations, StatementNodes, ExpressionNodes

(* The parts of each parse function for statements. *)
LEMMA StatementPartsAre ==
  ASSUME NEW t
  PROVE  /\ Parts("compound_statement", t) =
               <<Terminal("BEGIN"), Node("statement_list"), Terminal("END")>>
         /\ Parts("statement_list", t) =
               <<Node("statement"), ListOf("STATEMENT_TERMINATOR", "statement")>>
         /\ t = "RETURN" => Parts("statement", t) =
               <<Terminal("RETURN"), Node("additive_expression")>>
         /\ t # "RETURN" => Parts("statement", t) = <<Node("assignment_expression")>>
         /\ Parts("assignment_expression", t) =
               <<Node("identifier"), Terminal("VAR_ASSIGNMENT_OP"),
                 Node("additive_expression")>>
  BY DEF Parts, StatementParts, DeclarationNodes, Declarations, StatementNodes, ExpressionNodes

(* The parts of each parse function for expressions. *)
LEMMA ExpressionPartsAre ==
  ASSUME NEW t
  PROVE  /\ Parts("additive_expression", t) =
               <<Node("multiplicative_expression"),
                 OperatorTail(Additive, "additive_expression")>>
         /\ Parts("multiplicative_expression", t) =
               <<Node("unary_expression"),
                 OperatorTail(Multiplicative, "multiplicative_expression")>>
         /\ Parts("unary_expression", t) = <<Sign, Node("primary_expression")>>
         /\ t = "IDENTIFIER" => Parts("primary_expression", t) = <<Node("identifier")>>
         /\ t = "LITERAL" => Parts("primary_expression", t) = <<Node("literal")>>
         /\ t = "L_BRACKET" => Parts("primary_expression", t) =
               <<Terminal("L_BRACKET"), Node("additive_expression"), Terminal("R_BRACKET")>>
         /\ t \notin {"IDENTIFIER", "LITERAL", "L_BRACKET"} =>
               Parts("primary_expression", t) = <<Nullptr>>
  BY DEF Parts, ExpressionParts, DeclarationNodes, Declarations, StatementNodes,
         ExpressionNodes, Additive, Multiplicative

(* A parse function of one part fits if the part does. *)
LEMMA FittingOne ==
  ASSUME NEW node, NEW t, NEW q, NEW x, NEW a, NEW b,
         Parts(node, t) = <<x>>, TodoFits(node, <<x>>, <<a, b>>), Stands(a, q, t)
  PROVE  Fitting(node, t, q, b)
<1> DEFINE m == <<a, b>>
<1>1. m[1] = a /\ m[Len(m)] = b OBVIOUS
<1> HIDE DEF m
<1> QED BY <1>1 DEF Fitting, m

(* A parse function of two parts fits if the parts do. *)
LEMMA FittingTwo ==
  ASSUME NEW node, NEW t, NEW q, NEW x, NEW y, NEW a, NEW b, NEW c,
         Parts(node, t) = <<x, y>>, TodoFits(node, <<x, y>>, <<a, b, c>>), Stands(a, q, t)
  PROVE  Fitting(node, t, q, c)
<1> DEFINE m == <<a, b, c>>
<1>1. m[1] = a /\ m[Len(m)] = c OBVIOUS
<1> HIDE DEF m
<1> QED BY <1>1 DEF Fitting, m

(* A parse function of three parts fits if the parts do. *)
LEMMA FittingThree ==
  ASSUME NEW node, NEW t, NEW q, NEW x, NEW y, NEW z, NEW a, NEW b, NEW c, NEW d,
         Parts(node, t) = <<x, y, z>>, TodoFits(node, <<x, y, z>>, <<a, b, c, d>>),
         Stands(a, q, t)
  PROVE  Fitting(node, t, q, d)
<1> DEFINE m == <<a, b, c, d>>
<1>1. m[1] = a /\ m[Len(m)] = d OBVIOUS
<1> HIDE DEF m
<1> QED BY <1>1 DEF Fitting, m

(* parse_parameter_declaration and its like lead behind their section. *)
LEMMA DeclarationFits ==
  ASSUME NEW n \in 1 .. 3, NEW t, NEW q,
         Stands(Only(InSection(n - 1), Language!Keyword[n]), q, t)
  PROVE  Fitting(Declaration[n], t, q, InSection(n))
<1> DEFINE node == Declaration[n]
           key == Language!Keyword[n]
           list == IF n = 3 THEN "init_declarator_list" ELSE "declarator_list"
           s == Only(InSection(n - 1), key)
<1>1. Parts(node, t) = <<Terminal(key), Node(list), Terminal("STATEMENT_TERMINATOR")>>
  <2>1. n = 1 \/ n = 2 \/ n = 3 OBVIOUS
  <2> QED BY <2>1, DeclarationPartsAre DEF Declared, Declaration, Language!Keyword
<1>2. key \in TokenTypes /\ list \in Nodes /\ list \in DeclaringNodes
  BY DEF Language!Keyword, TokenTypes, Nodes, DeclarationNodes, DeclaringNodes
<1>3. s \in Spots /\ AtName(n) \in Spots /\ AtListed(n) \in Spots /\ InSection(n) \in Spots
  BY <1>2, SpotTypes DEF All
<1>4. PartOf(node, Terminal(key)) /\ PartFits(s, Terminal(key), AtName(n))
  BY <1>2, TerminalPart, DeclarationTokens
<1>5. NodeFits(AtName(n), list, AtListed(n))
  BY DEF NodeFits
<1>6. PartOf(node, Node(list)) /\ PartFits(AtName(n), Node(list), AtListed(n))
  BY <1>2, <1>5, NodePart
<1>7. /\ PartOf(node, Terminal("STATEMENT_TERMINATOR"))
      /\ PartFits(AtListed(n), Terminal("STATEMENT_TERMINATOR"), InSection(n))
  BY TerminalPart, DeclarationTokens DEF TokenTypes
<1>8. TodoFits(node, <<Terminal(key), Node(list), Terminal("STATEMENT_TERMINATOR")>>,
               <<s, AtName(n), AtListed(n), InSection(n)>>)
  BY <1>3, <1>4, <1>6, <1>7, ThreeParts
<1> QED BY <1>1, <1>8, FittingThree

(* A list of declarators goes on until no separator follows. *)
LEMMA DeclaratorListFits ==
  ASSUME NEW n \in 1 .. 3, NEW node \in {"declarator_list", "init_declarator_list"}, NEW t, NEW q,
         (node = "declarator_list") = (n # 3), Stands(AtName(n), q, t)
  PROVE  Fitting(node, t, q, AtListed(n))
<1> DEFINE item == IF n = 3 THEN "init_declarator" ELSE "identifier"
<1>1. Parts(node, t) = <<Node(item), ListOf("SEPARATOR", item)>>
  BY DeclarationPartsAre
<1>2. item \in Nodes /\ item \in DeclaringNodes /\ item \notin Declarations
  BY DEF Nodes, DeclarationNodes, DeclaringNodes, Leaves, Declarations
<1>3. AtName(n) \in Spots /\ AtDeclared(n) \in Spots /\ AtListed(n) \in Spots
  BY SpotTypes
<1>4. NodeFits(AtName(n), item, AtDeclared(n))
  BY DeclarationTokens DEF NodeFits
<1>5. PartOf(node, Node(item)) /\ PartFits(AtName(n), Node(item), AtDeclared(n))
  BY <1>2, <1>4, NodePart
<1>6. Passes(AtDeclared(n), {"SEPARATOR"}, AtListed(n))
  BY DEF Passes, Stands, AtDeclared, AtListed, Spot
<1>7. TerminalFits(Only(AtDeclared(n), "SEPARATOR"), "SEPARATOR", AtName(n))
  BY DeclarationTokens
<1>8. /\ PartOf(node, ListOf("SEPARATOR", item))
      /\ PartFits(AtDeclared(n), ListOf("SEPARATOR", item), AtListed(n))
  <2> DEFINE x == ListOf("SEPARATOR", item)
  <2>1. x.kind = "list" /\ x.of = item /\ x.first = {"SEPARATOR"} /\ x \in PartSet
    BY <1>2 DEF ListOf, Part, PartSet, Kinds, TokenTypes
  <2> HIDE DEF x, item
  <2>2. PartOf(node, x) BY <1>2, <2>1 DEF PartOf, Calling
  <2>3. PartFits(AtDeclared(n), x, AtListed(n)) BY <1>3, <1>4, <1>6, <1>7, <2>1 DEF PartFits
  <2> QED BY <2>2, <2>3 DEF x
<1>9. TodoFits(node, <<Node(item), ListOf("SEPARATOR", item)>>,
               <<AtName(n), AtDeclared(n), AtListed(n)>>)
  BY <1>3, <1>5, <1>8, TwoParts
<1> QED BY <1>1, <1>9, FittingTwo

(* parse_identifier and parse_literal fit where their token does. *)
LEMMA LeafFits ==
  ASSUME NEW a \in Spots, NEW b \in Spots, NEW t, NEW q, Stands(a, q, t)
  PROVE  /\ TerminalFits(a, "IDENTIFIER", b) => Fitting("identifier", t, q, b)
         /\ TerminalFits(a, "LITERAL", b) => Fitting("literal", t, q, b)
<1>1. ASSUME TerminalFits(a, "IDENTIFIER", b) PROVE Fitting("identifier", t, q, b)
  BY <1>1, TerminalPart, OnePart, FittingOne, DeclarationPartsAre DEF TokenTypes
<1>2. ASSUME TerminalFits(a, "LITERAL", b) PROVE Fitting("literal", t, q, b)
  BY <1>2, TerminalPart, OnePart, FittingOne, DeclarationPartsAre DEF TokenTypes
<1> QED BY <1>1, <1>2

(* parse_init_declarator leads behind the value of a constant. *)
LEMMA InitDeclaratorFits ==
  ASSUME NEW t, NEW q, Stands(AtName(3), q, t)
  PROVE  Fitting("init_declarator", t, q, AtDeclared(3))
<1>1. NodeFits(AtName(3), "identifier", AtConstant) /\ NodeFits(AtValue, "literal", AtDeclared(3))
  BY DeclarationTokens DEF NodeFits
<1>2. /\ PartOf("init_declarator", Node("identifier"))
      /\ PartFits(AtName(3), Node("identifier"), AtConstant)
      /\ PartOf("init_declarator", Node("literal"))
      /\ PartFits(AtValue, Node("literal"), AtDeclared(3))
  BY <1>1, NodePart DEF Nodes, Leaves, DeclaringNodes
<1>3. /\ PartOf("init_declarator", Terminal("INIT_ASSIGNMENT_OP"))
      /\ PartFits(AtConstant, Terminal("INIT_ASSIGNMENT_OP"), AtValue)
  BY TerminalPart, DeclarationTokens DEF TokenTypes
<1>4. TodoFits("init_declarator",
               <<Node("identifier"), Terminal("INIT_ASSIGNMENT_OP"), Node("literal")>>,
               <<AtName(3), AtConstant, AtValue, AtDeclared(3)>>)
  BY <1>2, <1>3, ThreeParts, SpotTypes
<1> QED BY <1>4, FittingThree, DeclarationPartsAre

(* parse_compound_statement leads from behind the declarations to the      *)
(* period.                                                                 *)
LEMMA CompoundFits ==
  ASSUME NEW t, NEW q, Stands(InSection(3), q, t)
  PROVE  Fitting("compound_statement", t, q, AtPeriod)
<1>1. NodeFits(AtStatement, "statement_list", AtStatements)
  BY DEF NodeFits
<1>2. /\ PartOf("compound_statement", Node("statement_list"))
      /\ PartFits(AtStatement, Node("statement_list"), AtStatements)
  BY <1>1, NodePart DEF Nodes, StatementNodes, DeclaringNodes, DeclarationNodes, Declarations, Leaves
<1>3. /\ PartOf("compound_statement", Terminal("BEGIN"))
      /\ PartFits(InSection(3), Terminal("BEGIN"), AtStatement)
      /\ PartOf("compound_statement", Terminal("END"))
      /\ PartFits(AtStatements, Terminal("END"), AtPeriod)
  BY TerminalPart, StatementTokens DEF TokenTypes
<1>4. TodoFits("compound_statement",
               <<Terminal("BEGIN"), Node("statement_list"), Terminal("END")>>,
               <<InSection(3), AtStatement, AtStatements, AtPeriod>>)
  BY <1>2, <1>3, ThreeParts, SpotTypes
<1> QED BY <1>4, FittingThree, StatementPartsAre

(* A list of separated nodes is a part that fits if it comes back to where *)
(* it begins.                                                              *)
LEMMA ListPart ==
  ASSUME NEW node, NEW t \in TokenTypes, NEW x \in Nodes, x \notin Declarations,
         node \in DeclaringNodes => x \in DeclaringNodes,
         NEW s \in Spots, NEW s2, NEW m \in Spots, Passes(s, {t}, s2),
         TerminalFits(Only(s, t), t, m), NodeFits(m, x, s)
  PROVE  PartOf(node, ListOf(t, x)) /\ PartFits(s, ListOf(t, x), s2)
<1> DEFINE part == ListOf(t, x)
<1>1. part.kind = "list" /\ part.of = x /\ part.first = {t} /\ part \in PartSet
  BY DEF ListOf, Part, PartSet, Kinds, TokenTypes
<1> HIDE DEF part
<1>2. PartOf(node, part) BY <1>1 DEF PartOf, Calling
<1>3. PartFits(s, part, s2) BY <1>1 DEF PartFits
<1> QED BY <1>2, <1>3 DEF part

(* An operator and its operand are a part that fits if the operand leads on. *)
LEMMA TailPart ==
  ASSUME NEW node, NEW F \in SUBSET TokenTypes, NEW x \in Nodes, x \notin Declarations,
         node \notin DeclaringNodes, NEW s, NEW s2, NEW m \in Spots, Passes(s, F, s2),
         \A t \in F : TerminalFits(Only(s, t), t, m), NodeFits(m, x, s2)
  PROVE  PartOf(node, OperatorTail(F, x)) /\ PartFits(s, OperatorTail(F, x), s2)
<1> DEFINE part == OperatorTail(F, x)
<1>1. part.kind = "tail" /\ part.of = x /\ part.first = F /\ part \in PartSet
  BY DEF OperatorTail, Part, PartSet, Kinds, TokenTypes
<1> HIDE DEF part
<1>2. PartOf(node, part) BY <1>1 DEF PartOf, Calling
<1>3. PartFits(s, part, s2) BY <1>1 DEF PartFits
<1> QED BY <1>2, <1>3 DEF part

(* parse_statement_list goes on until no separator follows. *)
LEMMA StatementListFits ==
  ASSUME NEW t, NEW q, Stands(AtStatement, q, t)
  PROVE  Fitting("statement_list", t, q, AtStatements)
<1>1. NodeFits(AtStatement, "statement", AtSum(0))
  BY DEF NodeFits
<1>2. /\ PartOf("statement_list", Node("statement"))
      /\ PartFits(AtStatement, Node("statement"), AtSum(0))
  BY <1>1, NodePart DEF Nodes, StatementNodes, DeclaringNodes, DeclarationNodes, Declarations, Leaves
<1>3. Passes(AtSum(0), {"STATEMENT_TERMINATOR"}, AtStatements)
  BY DEF Passes, Stands, AtSum, AtStatements, Spot
<1>4. /\ PartOf("statement_list", ListOf("STATEMENT_TERMINATOR", "statement"))
      /\ PartFits(AtSum(0), ListOf("STATEMENT_TERMINATOR", "statement"), AtStatements)
  <2>1. /\ "STATEMENT_TERMINATOR" \in TokenTypes
        /\ "statement" \in Nodes /\ "statement" \notin Declarations
        /\ "statement_list" \notin DeclaringNodes
    BY DEF TokenTypes, Nodes, StatementNodes, DeclaringNodes, DeclarationNodes, Declarations, Leaves
  <2> QED BY <1>1, <1>3, <2>1, ListPart, SpotTypes, StatementTokens
<1>5. TodoFits("statement_list",
               <<Node("statement"), ListOf("STATEMENT_TERMINATOR", "statement")>>,
               <<AtStatement, AtSum(0), AtStatements>>)
  BY <1>2, <1>4, TwoParts, SpotTypes
<1> QED BY <1>5, FittingTwo, StatementPartsAre

(* parse_statement leads behind a return statement or an assignment. *)
LEMMA StatementFits ==
  ASSUME NEW t \in All, NEW q, Stands(AtStatement, q, t)
  PROVE  Fitting("statement", t, q, AtSum(0))
<1>1. NodeFits(AtOperand(0), "additive_expression", AtSum(0))
  BY DEF NodeFits
<1>2. NodeFits(AtAssignment, "assignment_expression", AtSum(0))
  BY DEF NodeFits
<1>3. /\ PartOf("statement", Node("additive_expression"))
      /\ PartFits(AtOperand(0), Node("additive_expression"), AtSum(0))
      /\ PartOf("statement", Node("assignment_expression"))
      /\ PartFits(AtAssignment, Node("assignment_expression"), AtSum(0))
  BY <1>1, <1>2, NodePart
     DEF Nodes, StatementNodes, ExpressionNodes, DeclaringNodes, DeclarationNodes, Declarations, Leaves
<1>4. CASE t = "RETURN"
  <2>1. Stands(Only(AtStatement, "RETURN"), q, t)
    BY <1>4 DEF Stands, Only, AtStatement, Spot
  <2>2. /\ PartOf("statement", Terminal("RETURN"))
        /\ PartFits(Only(AtStatement, "RETURN"), Terminal("RETURN"), AtOperand(0))
    BY TerminalPart, StatementTokens DEF TokenTypes
  <2>3. Only(AtStatement, "RETURN") \in Spots
    BY <1>4, SpotTypes
  <2>4. TodoFits("statement", <<Terminal("RETURN"), Node("additive_expression")>>,
                 <<Only(AtStatement, "RETURN"), AtOperand(0), AtSum(0)>>)
    BY <2>2, <2>3, <1>3, TwoParts, SpotTypes
  <2> QED BY <1>4, <2>1, <2>4, FittingTwo, StatementPartsAre
<1>5. CASE t # "RETURN"
  <2>1. Stands(AtAssignment, q, t)
    BY <1>5 DEF Stands, AtAssignment, AtStatement, Spot
  <2>2. TodoFits("statement", <<Node("assignment_expression")>>, <<AtAssignment, AtSum(0)>>)
    BY <1>3, OnePart, SpotTypes
  <2> QED BY <1>5, <2>1, <2>2, FittingOne, StatementPartsAre
<1> QED BY <1>4, <1>5

(* parse_assignment_expression leads behind its expression. *)
LEMMA AssignmentFits ==
  ASSUME NEW t, NEW q, Stands(AtAssignment, q, t)
  PROVE  Fitting("assignment_expression", t, q, AtSum(0))
<1>1. NodeFits(AtAssignment, "identifier", AtTarget)
  BY StatementTokens DEF NodeFits
<1>2. NodeFits(AtOperand(0), "additive_expression", AtSum(0))
  BY DEF NodeFits
<1>3. /\ PartOf("assignment_expression", Node("identifier"))
      /\ PartFits(AtAssignment, Node("identifier"), AtTarget)
      /\ PartOf("assignment_expression", Node("additive_expression"))
      /\ PartFits(AtOperand(0), Node("additive_expression"), AtSum(0))
  BY <1>1, <1>2, NodePart
     DEF Nodes, StatementNodes, ExpressionNodes, DeclaringNodes, DeclarationNodes, Declarations, Leaves
<1>4. /\ PartOf("assignment_expression", Terminal("VAR_ASSIGNMENT_OP"))
      /\ PartFits(AtTarget, Terminal("VAR_ASSIGNMENT_OP"), AtOperand(0))
  BY TerminalPart, StatementTokens DEF TokenTypes
<1>5. TodoFits("assignment_expression",
               <<Node("identifier"), Terminal("VAR_ASSIGNMENT_OP"), Node("additive_expression")>>,
               <<AtAssignment, AtTarget, AtOperand(0), AtSum(0)>>)
  BY <1>3, <1>4, ThreeParts, SpotTypes
<1> QED BY <1>5, FittingThree, StatementPartsAre

(* parse_additive_expression leads to where no operator follows. *)
LEMMA AdditiveFits ==
  ASSUME NEW d \in Nat, NEW t, NEW q, Stands(AtOperand(d), q, t)
  PROVE  Fitting("additive_expression", t, q, AtSum(d))
<1>1. /\ NodeFits(AtOperand(d), "multiplicative_expression", AtProduct(d))
      /\ NodeFits(AtOperand(d), "additive_expression", AtSum(d))
  BY DEF NodeFits
<1>2. /\ "multiplicative_expression" \in Nodes
      /\ "additive_expression" \in Nodes \ (Declarations \cup DeclaringNodes)
      /\ Additive \in SUBSET TokenTypes
  BY DEF Nodes, ExpressionNodes, DeclaringNodes, DeclarationNodes, Declarations, Leaves,
         Additive, TokenTypes
<1>3. /\ PartOf("additive_expression", Node("multiplicative_expression"))
      /\ PartFits(AtOperand(d), Node("multiplicative_expression"), AtProduct(d))
  BY <1>1, <1>2, NodePart
<1>4. Passes(AtProduct(d), Additive, AtSum(d))
  BY DEF Passes, Stands, AtSum, AtProduct, Spot
<1>5. /\ PartOf("additive_expression", OperatorTail(Additive, "additive_expression"))
      /\ PartFits(AtProduct(d), OperatorTail(Additive, "additive_expression"), AtSum(d))
  BY <1>1, <1>2, <1>4, TailPart, SpotTypes, ExpressionTokens
<1>6. TodoFits("additive_expression",
               <<Node("multiplicative_expression"),
                 OperatorTail(Additive, "additive_expression")>>,
               <<AtOperand(d), AtProduct(d), AtSum(d)>>)
  BY <1>3, <1>5, TwoParts, SpotTypes
<1> QED BY <1>6, FittingTwo, ExpressionPartsAre

(* parse_multiplicative_expression leads to where no product follows. *)
LEMMA MultiplicativeFits ==
  ASSUME NEW d \in Nat, NEW t, NEW q, Stands(AtOperand(d), q, t)
  PROVE  Fitting("multiplicative_expression", t, q, AtProduct(d))
<1>1. /\ NodeFits(AtOperand(d), "unary_expression", AtOperator(d))
      /\ NodeFits(AtOperand(d), "multiplicative_expression", AtProduct(d))
  BY DEF NodeFits
<1>2. /\ "unary_expression" \in Nodes
      /\ "multiplicative_expression" \in Nodes \ (Declarations \cup DeclaringNodes)
      /\ Multiplicative \in SUBSET TokenTypes
  BY DEF Nodes, ExpressionNodes, DeclaringNodes, DeclarationNodes, Declarations, Leaves,
         Multiplicative, TokenTypes
<1>3. /\ PartOf("multiplicative_expression", Node("unary_expression"))
      /\ PartFits(AtOperand(d), Node("unary_expression"), AtOperator(d))
  BY <1>1, <1>2, NodePart
<1>4. Passes(AtOperator(d), Multiplicative, AtProduct(d))
  BY DEF Passes, Stands, AtOperator, AtProduct, Spot
<1>5. /\ PartOf("multiplicative_expression",
                OperatorTail(Multiplicative, "multiplicative_expression"))
      /\ PartFits(AtOperator(d), OperatorTail(Multiplicative, "multiplicative_expression"),
                  AtProduct(d))
  BY <1>1, <1>2, <1>4, TailPart, SpotTypes, ExpressionTokens
<1>6. TodoFits("multiplicative_expression",
               <<Node("unary_expression"),
                 OperatorTail(Multiplicative, "multiplicative_expression")>>,
               <<AtOperand(d), AtOperator(d), AtProduct(d)>>)
  BY <1>3, <1>5, TwoParts, SpotTypes
<1> QED BY <1>6, FittingTwo, ExpressionPartsAre

(* parse_unary_expression leads behind an operand with its sign. *)
LEMMA UnaryFits ==
  ASSUME NEW d \in Nat, NEW t, NEW q, Stands(AtOperand(d), q, t)
  PROVE  Fitting("unary_expression", t, q, AtOperator(d))
<1>1. NodeFits(AtPrimary(d), "primary_expression", AtOperator(d))
  BY DEF NodeFits
<1>2. /\ PartOf("unary_expression", Node("primary_expression"))
      /\ PartFits(AtPrimary(d), Node("primary_expression"), AtOperator(d))
  BY <1>1, NodePart
     DEF Nodes, ExpressionNodes, DeclaringNodes, DeclarationNodes, Declarations, Leaves
<1>3. Passes(AtOperand(d), Additive, AtPrimary(d))
  BY DEF Passes, Stands, AtOperand, AtPrimary, Spot
<1>4. Sign.kind = "sign" /\ Sign.first = Additive /\ Sign \in PartSet
  BY DEF Sign, Part, PartSet, Kinds, Additive, TokenTypes
<1>5. PartOf("unary_expression", Sign)
  BY <1>4 DEF PartOf, Calling, DeclaringNodes, DeclarationNodes, Declarations, Leaves
<1>6. PartFits(AtOperand(d), Sign, AtPrimary(d))
  BY <1>3, <1>4, ExpressionTokens DEF PartFits
<1>7. TodoFits("unary_expression", <<Sign, Node("primary_expression")>>,
               <<AtOperand(d), AtPrimary(d), AtOperator(d)>>)
  BY <1>2, <1>5, <1>6, TwoParts, SpotTypes
<1> QED BY <1>7, FittingTwo, ExpressionPartsAre

(* parse_primary_expression leads behind an operand, or has no alternative. *)
LEMMA PrimaryFits ==
  ASSUME NEW d \in Nat, NEW t \in All, NEW q, Stands(AtPrimary(d), q, t)
  PROVE  Fitting("primary_expression", t, q, AtOperator(d))
<1> DEFINE s == Only(AtPrimary(d), t)
<1>1. s \in Spots /\ AtOperator(d) \in Spots /\ AtOperand(d + 1) \in Spots
      /\ AtSum(d + 1) \in Spots
  BY SpotTypes
<1>2. Stands(s, q, t)
  BY DEF Stands, Only, AtPrimary, Spot
<1> HIDE DEF s
<1>3. CASE t = "IDENTIFIER"
  <2>1. NodeFits(s, "identifier", AtOperator(d))
    BY <1>3, ExpressionTokens DEF NodeFits, s
  <2>2. /\ PartOf("primary_expression", Node("identifier"))
        /\ PartFits(s, Node("identifier"), AtOperator(d))
    BY <2>1, NodePart DEF Nodes, Leaves, DeclaringNodes
  <2> QED BY <1>1, <1>2, <1>3, <2>2, OnePart, FittingOne, ExpressionPartsAre
<1>4. CASE t = "LITERAL"
  <2>1. NodeFits(s, "literal", AtOperator(d))
    BY <1>4, ExpressionTokens DEF NodeFits, s
  <2>2. /\ PartOf("primary_expression", Node("literal"))
        /\ PartFits(s, Node("literal"), AtOperator(d))
    BY <2>1, NodePart DEF Nodes, Leaves, DeclaringNodes
  <2> QED BY <1>1, <1>2, <1>4, <2>2, OnePart, FittingOne, ExpressionPartsAre
<1>5. CASE t = "L_BRACKET"
  <2>1. /\ PartOf("primary_expression", Terminal("L_BRACKET"))
        /\ PartFits(s, Terminal("L_BRACKET"), AtOperand(d + 1))
        /\ PartOf("primary_expression", Terminal("R_BRACKET"))
        /\ PartFits(AtSum(d + 1), Terminal("R_BRACKET"), AtOperator(d))
    BY <1>5, TerminalPart, ExpressionTokens DEF TokenTypes, s
  <2>2. NodeFits(AtOperand(d + 1), "additive_expression", AtSum(d + 1))
    BY DEF NodeFits
  <2>3. /\ PartOf("primary_expression", Node("additive_expression"))
        /\ PartFits(AtOperand(d + 1), Node("additive_expression"), AtSum(d + 1))
    BY <2>2, NodePart
       DEF Nodes, ExpressionNodes, DeclaringNodes, DeclarationNodes, Declarations, Leaves
  <2>4. TodoFits("primary_expression",
                 <<Terminal("L_BRACKET"), Node("additive_expression"), Terminal("R_BRACKET")>>,
                 <<s, AtOperand(d + 1), AtSum(d + 1), AtOperator(d)>>)
    BY <1>1, <2>1, <2>3, ThreeParts
  <2> QED BY <1>2, <1>5, <2>4, FittingThree, ExpressionPartsAre
<1>6. CASE t \notin {"IDENTIFIER", "LITERAL", "L_BRACKET"}
  <2>1. Nullptr.kind = "nullptr" /\ Nullptr \in PartSet
    BY DEF Nullptr, Part, PartSet, Kinds
  <2>2. PartOf("primary_expression", Nullptr)
    BY <2>1 DEF PartOf, Calling, DeclaringNodes, DeclarationNodes, Declarations, Leaves
  <2>3. ASSUME NEW q2 \in Language!Phrases, NEW u \in All, Stands(s, q2, u)
        PROVE  Refused(q2, u) /\ q2.at \in {"operand", "signed"}
    <3>1. /\ u = t /\ q2.at \in {"operand", "signed"}
          /\ q2.at = "operand" => t \notin Additive
      BY <2>3 DEF s, Stands, Only, AtPrimary, Spot
    <3> QED BY <3>1, <1>6, FromOperand DEF Refused
  <2>4. PartFits(s, Nullptr, AtOperator(d))
    BY <2>1, <2>3 DEF PartFits
  <2> QED BY <1>1, <1>2, <1>6, <2>2, <2>4, OnePart, FittingOne, ExpressionPartsAre
<1> QED BY <1>3, <1>4, <1>5, <1>6

(* Whichever parse function is called, its parts lead from the spot of the *)
(* call to the spot behind it; and one that reads the position of an empty *)
(* lookahead will find no token to get there.                              *)
LEMMA CalledFits ==
  ASSUME NEW node, NEW a \in Spots, NEW b \in Spots, NodeFits(a, node, b),
         NEW q, NEW t \in All, Stands(a, q, t)
  PROVE  /\ node \in Nodes
         /\ Fitting(node, t, q, b)
         /\ t = Nullopt /\ node \notin Leaves => ~Stands(b, q, t)
<1> DEFINE Apart == t = Nullopt /\ node \notin Leaves => ~Stands(b, q, t)
           Goal == node \in Nodes /\ Fitting(node, t, q, b) /\ Apart
<1>1. CASE \/ node = "identifier" /\ TerminalFits(a, "IDENTIFIER", b)
           \/ node = "literal" /\ TerminalFits(a, "LITERAL", b)
  BY <1>1, LeafFits DEF Nodes, Leaves
<1>2. ASSUME NEW n \in 1 .. 3, node = Declaration[n],
             a = Only(InSection(n - 1), Language!Keyword[n]), b = InSection(n)
      PROVE Goal
  <2>1. node \in Nodes BY <1>2 DEF Declaration, Nodes, DeclarationNodes, Declarations
  <2>2. t = Language!Keyword[n]
    BY <1>2 DEF Stands, Only, Spot
  <2>3. t # Nullopt
    BY <2>2, ParserAssumption DEF Language!Keyword, TokenTypes
  <2> QED BY <1>2, <2>1, <2>3, DeclarationFits
<1>3. ASSUME NEW n \in 1 .. 2, node = "declarator_list", a = AtName(n), b = AtListed(n)
      PROVE Goal
  BY <1>3, DeclaratorListFits
     DEF Nodes, DeclarationNodes, Stands, AtName, AtListed, Spot
<1>4. CASE node = "init_declarator_list" /\ a = AtName(3) /\ b = AtListed(3)
  BY <1>4, DeclaratorListFits
     DEF Nodes, DeclarationNodes, Stands, AtName, AtListed, Spot
<1>5. CASE node = "init_declarator" /\ a = AtName(3) /\ b = AtDeclared(3)
  BY <1>5, InitDeclaratorFits
     DEF Nodes, DeclarationNodes, Stands, AtName, AtDeclared, Spot
<1>6. CASE node = "compound_statement" /\ a = InSection(3) /\ b = AtPeriod
  BY <1>6, CompoundFits
     DEF Nodes, StatementNodes, Stands, InSection, AtPeriod, Spot
<1>7. CASE node = "statement_list" /\ a = AtStatement /\ b = AtStatements
  BY <1>7, StatementListFits
     DEF Nodes, StatementNodes, Stands, AtStatement, AtStatements, Spot
<1>8. CASE node = "statement" /\ a = AtStatement /\ b = AtSum(0)
  BY <1>8, StatementFits
     DEF Nodes, StatementNodes, Stands, AtStatement, AtSum, Spot
<1>9. CASE node = "assignment_expression" /\ a = AtAssignment /\ b = AtSum(0)
  BY <1>9, AssignmentFits
     DEF Nodes, StatementNodes, Stands, AtAssignment, AtSum, Spot
<1>10. ASSUME NEW d \in Nat, node = "additive_expression", a = AtOperand(d), b = AtSum(d)
       PROVE Goal
  BY <1>10, AdditiveFits
     DEF Nodes, ExpressionNodes, Stands, AtOperand, AtSum, Spot
<1>11. ASSUME NEW d \in Nat, node = "multiplicative_expression",
              a = AtOperand(d), b = AtProduct(d)
       PROVE Goal
  BY <1>11, MultiplicativeFits
     DEF Nodes, ExpressionNodes, Stands, AtOperand, AtProduct, Spot
<1>12. ASSUME NEW d \in Nat, node = "unary_expression", a = AtOperand(d), b = AtOperator(d)
       PROVE Goal
  BY <1>12, UnaryFits
     DEF Nodes, ExpressionNodes, Stands, AtOperand, AtOperator, Spot
<1>13. ASSUME NEW d \in Nat, node = "primary_expression", a = AtPrimary(d), b = AtOperator(d)
       PROVE Goal
  BY <1>13, PrimaryFits
     DEF Nodes, ExpressionNodes, Stands, AtPrimary, AtOperator, Spot
<1> QED BY <1>1, <1>2, <1>3, <1>4, <1>5, <1>6, <1>7, <1>8, <1>9, <1>10, <1>11, <1>12,
           <1>13 DEF NodeFits

-----------------------------------------------------------------------------
FunctionSpots ==
    <<InSection(0), InSection(1), InSection(1), InSection(2), InSection(2),
      InSection(3), InSection(3), AtPeriod, AtFunction>>

(* A declaration that may be missing leads behind its section. *)
LEMMA DeclarationPart ==
  ASSUME NEW n \in 1 .. 3
  PROVE  LET part == Optional(Language!Keyword[n], Declaration[n])
         IN  /\ PartOf("function_definition", part)
             /\ PartFits(InSection(n - 1), part, InSection(n))
<1> DEFINE part == Optional(Language!Keyword[n], Declaration[n])
<1>1. Language!Keyword[n] \in TokenTypes /\ Declaration[n] \in Nodes
  BY DEF Language!Keyword, TokenTypes, Declaration, Nodes, DeclarationNodes, Declarations
<1>2. /\ part.kind = "optional" /\ part.first = {Language!Keyword[n]}
      /\ part.of = Declaration[n] /\ part \in PartSet
  BY <1>1 DEF Optional, Part, PartSet, Kinds
<1>3. Passes(InSection(n - 1), {Language!Keyword[n]}, InSection(n))
  <2> SUFFICES ASSUME NEW q \in Language!Phrases, NEW t \in All \ {Language!Keyword[n]},
                      Stands(InSection(n - 1), q, t)
               PROVE  Stands(InSection(n), q, t)
    BY DEF Passes
  <2>1. /\ q.at = "section" /\ q.rank <= n - 1 /\ q.depth = 0
        /\ \A r \in 1 .. 3 : q.rank < r /\ r <= n - 1 => t # Language!Keyword[r]
    BY DEF Stands, InSection, Spot
  <2>2. \A r \in 1 .. 3 : q.rank < r /\ r <= n => t # Language!Keyword[r]
    BY <2>1
  <2>3. q.rank <= n BY <2>1 DEF Language!Phrases
  <2> QED BY <2>1, <2>2, <2>3 DEF Stands, InSection, Spot
<1>4. NodeFits(Only(InSection(n - 1), Language!Keyword[n]), Declaration[n], InSection(n))
  BY DEF NodeFits
<1> HIDE DEF part
<1>5. PartOf("function_definition", part)
  BY <1>1, <1>2
     DEF PartOf, Calling, DeclaringNodes, DeclarationNodes, Declarations, Leaves
<1>6. PartFits(InSection(n - 1), part, InSection(n))
  BY <1>2, <1>3, <1>4 DEF PartFits
<1> QED BY <1>5, <1>6 DEF part

(* Behind every declaration has_error() is tested. *)
Separate(todo) ==
    \A k \in 1 .. Len(todo) :
        /\ todo[k].kind \in {"terminal", "node", "optional", "has_error"}
        /\ todo[k].of \in Declarations => k < Len(todo) /\ todo[k + 1] = HasError

(* The parts of parse_function_definition lead from the start to the       *)
(* period, with a test of has_error() behind every declaration.            *)
LEMMA FunctionFits ==
  /\ TodoFits("function_definition", FunctionParts, FunctionSpots)
  /\ Separate(FunctionParts)
<1> DEFINE P1 == Optional("PARAM", "parameter_declaration")
           P2 == Optional("VAR", "variable_declaration")
           P3 == Optional("CONST", "constant_declaration")
           P4 == Node("compound_statement")
           P5 == Terminal("PROGRAM_TERMINATOR")
           node == "function_definition"
<1>1. FunctionParts = <<P1, HasError, P2, HasError, P3, HasError, P4, P5>>
  BY DEF FunctionParts
<1>2. /\ PartOf(node, P1) /\ PartFits(InSection(0), P1, InSection(1))
      /\ PartOf(node, P2) /\ PartFits(InSection(1), P2, InSection(2))
      /\ PartOf(node, P3) /\ PartFits(InSection(2), P3, InSection(3))
  <2>1. /\ Language!Keyword[1] = "PARAM" /\ Declaration[1] = "parameter_declaration"
        /\ Language!Keyword[2] = "VAR" /\ Declaration[2] = "variable_declaration"
        /\ Language!Keyword[3] = "CONST" /\ Declaration[3] = "constant_declaration"
    BY DEF Language!Keyword, Declaration
  <2>2. 1 - 1 = 0 /\ 2 - 1 = 1 /\ 3 - 1 = 2 OBVIOUS
  <2> QED BY <2>1, <2>2, DeclarationPart
<1>3. NodeFits(InSection(3), "compound_statement", AtPeriod)
  BY DEF NodeFits
<1>4. PartOf(node, P4) /\ PartFits(InSection(3), P4, AtPeriod)
  BY <1>3, NodePart
     DEF Nodes, StatementNodes, DeclaringNodes, DeclarationNodes, Declarations, Leaves
<1>5. PartOf(node, P5) /\ PartFits(AtPeriod, P5, AtFunction)
  BY TerminalPart, StatementTokens DEF TokenTypes
<1>6. HasError.kind = "has_error" /\ HasError \in PartSet /\ HasError.of = ""
  BY DEF HasError, Part, PartSet, Kinds
<1>7. PartOf(node, HasError) /\ \A a : PartFits(a, HasError, a)
  BY <1>6 DEF PartOf, PartFits, Calling, DeclaringNodes, DeclarationNodes, Declarations, Leaves
<1>8. /\ P1 \in PartSet /\ P2 \in PartSet /\ P3 \in PartSet /\ P4 \in PartSet
      /\ P5 \in PartSet
  BY <1>2, <1>4, <1>5 DEF PartOf
<1>9. P4.of \notin Declarations /\ P5.of \notin Declarations /\ "" \notin Declarations
  BY DEF Node, Terminal, Part, Declarations
<1>10. \A n \in 0 .. 3 : InSection(n) \in Spots
  BY SpotTypes
<1>10a. AtPeriod \in Spots /\ AtFunction \in Spots
  BY SpotTypes
<1> HIDE DEF P1, P2, P3, P4, P5, node
<1> DEFINE last == <<P4, P5>>
           lastSpots == <<InSection(3), AtPeriod, AtFunction>>
           rest == Before3(HasError, P3, HasError, last)
           restSpots == Before3(InSection(2), InSection(2), InSection(3), lastSpots)
<1>11. TodoFits(node, last, lastSpots) /\ lastSpots[1] = InSection(3)
  BY <1>4, <1>5, <1>10, <1>10a, TwoParts
<1>12. FunctionParts = Before3(P1, HasError, P2, rest)
  BY <1>1 DEF Before3
<1>13. FunctionSpots = Before3(InSection(0), InSection(1), InSection(1), restSpots)
  BY DEF Before3, FunctionSpots
<1> HIDE DEF last, lastSpots
<1>14. TodoFits(node, rest, restSpots) /\ restSpots[1] = InSection(2)
  <2>1. /\ PartFits(InSection(2), HasError, InSection(2))
        /\ PartFits(InSection(3), HasError, lastSpots[1])
    BY <1>7, <1>11
  <2>2. InSection(2) \in Spots /\ InSection(3) \in Spots
    BY <1>10
  <2>3. /\ TodoFits(node, Before3(HasError, P3, HasError, last),
                     Before3(InSection(2), InSection(2), InSection(3), lastSpots))
        /\ Before3(InSection(2), InSection(2), InSection(3), lastSpots)[1] = InSection(2)
    <3>1. /\ PartOf(node, HasError) /\ PartOf(node, P3)
          /\ PartFits(InSection(2), P3, InSection(3))
          /\ TodoFits(node, last, lastSpots)
      BY <1>2, <1>7, <1>11
    <3> QED BY <3>1, <2>1, <2>2, FrontThree
  <2> QED BY <2>3
<1> HIDE DEF rest, restSpots
<1>15. TodoFits(node, FunctionParts, FunctionSpots)
  BY <1>2, <1>7, <1>10, <1>12, <1>13, <1>14, FrontThree
<1>16. ASSUME NEW k \in 1 .. 8, FunctionParts[k].of \in Declarations
       PROVE  k < 8 /\ FunctionParts[k + 1] = HasError
  <2>1. k = 1 \/ k = 2 \/ k = 3 \/ k = 4 \/ k = 5 \/ k = 6 \/ k = 7 \/ k = 8
    OBVIOUS
  <2>2. k = 1 \/ k = 3 \/ k = 5
    <3>1. /\ FunctionParts[2] = HasError /\ FunctionParts[4] = HasError
          /\ FunctionParts[6] = HasError
          /\ FunctionParts[7] = P4 /\ FunctionParts[8] = P5
      BY <1>1
    <3> QED BY <2>1, <3>1, <1>6, <1>9, <1>16
  <2> QED BY <1>1, <2>2
<1>17. Len(FunctionParts) = 8 /\ Separate(FunctionParts)
  <2>1. Len(FunctionParts) = 8 BY <1>1
  <2>2. ASSUME NEW k \in 1 .. 8
        PROVE  FunctionParts[k].kind \in {"terminal", "node", "optional", "has_error"}
    <3>1. /\ P1.kind = "optional" /\ P2.kind = "optional" /\ P3.kind = "optional"
          /\ P4.kind = "node" /\ P5.kind = "terminal"
      BY DEF P1, P2, P3, P4, P5, Optional, Node, Terminal, Part
    <3>2. k = 1 \/ k = 2 \/ k = 3 \/ k = 4 \/ k = 5 \/ k = 6 \/ k = 7 \/ k = 8
      OBVIOUS
    <3>3. /\ FunctionParts[1] = P1 /\ FunctionParts[2] = HasError
          /\ FunctionParts[3] = P2 /\ FunctionParts[4] = HasError
          /\ FunctionParts[5] = P3 /\ FunctionParts[6] = HasError
          /\ FunctionParts[7] = P4 /\ FunctionParts[8] = P5
      BY <1>1
    <3> QED BY <1>6, <3>1, <3>2, <3>3
  <2> QED BY <1>16, <2>1, <2>2 DEF Separate
<1> QED BY <1>15, <1>17 DEF node

(* What expect_token makes of a part fits, whatever the lookahead is. *)
LEMMA AnnouncedFits ==
  ASSUME NEW node, NEW part, part.kind \in {"optional", "list", "tail", "sign"},
         NEW a \in Spots, NEW rest, NEW s, PartOf(node, part), PartFits(a, part, s[1]),
         TodoFits(node, rest, s), NEW q \in Language!Phrases, NEW t \in All, Stands(a, q, t)
  PROVE  \E m : /\ TodoFits(node, Announced(part, t) \o rest, m)
               /\ Stands(m[1], q, t)
               /\ m[Len(m)] = s[Len(s)]
<1> DEFINE b == s[1]
           on == Only(a, t)
<1>1. /\ rest \in Seq(PartSet) /\ part \in PartSet /\ on \in Spots
      /\ part.first \subseteq TokenTypes
  BY SpotTypes DEF TodoFits, PartOf, PartSet
<1>2. Stands(on, q, t)
  BY DEF Stands, Only, Spot
<1>3. CASE t \notin part.first
  <2>1. Announced(part, t) \o rest = rest BY <1>1, <1>3 DEF Announced
  <2>2. Passes(a, part.first, b) BY DEF PartFits
  <2>3. Stands(b, q, t) BY <1>3, <2>2 DEF Passes
  <2> QED BY <2>1, <2>3
<1>4. CASE t \in part.first /\ part.kind = "optional"
  <2>1. Announced(part, t) = <<Node(part.of)>> BY <1>4 DEF Announced
  <2>2. NodeFits(on, part.of, b) BY <1>4 DEF PartFits
  <2>3. /\ PartOf(node, Node(part.of)) /\ PartFits(on, Node(part.of), b)
        /\ Node(part.of) \in PartSet
    BY <1>4, <2>2, NodePart DEF PartOf, Calling
  <2>4. Announced(part, t) \o rest = Before1(Node(part.of), rest)
    BY <2>1 DEF Before1
  <2> DEFINE m == Before1(on, s)
  <2>5. /\ TodoFits(node, Before1(Node(part.of), rest), m)
        /\ m[1] = on /\ m[Len(m)] = s[Len(s)]
    <3> HIDE DEF on
    <3>1. on \in Spots /\ PartOf(node, Node(part.of)) /\ PartFits(on, Node(part.of), s[1])
      BY <1>1, <2>3
    <3>2. TodoFits(node, rest, s) OBVIOUS
    <3> QED BY <3>1, <3>2, FrontPart
  <2> QED BY <1>2, <2>4, <2>5
<1>5. CASE t \in part.first /\ part.kind = "list"
  <2>1. Announced(part, t) = <<Terminal(t), Node(part.of), part>> BY <1>5 DEF Announced
  <2>2. PICK c \in Spots : TerminalFits(on, t, c) /\ NodeFits(c, part.of, a)
    BY <1>5 DEF PartFits
  <2>3. /\ PartOf(node, Node(part.of)) /\ PartFits(c, Node(part.of), a)
        /\ Node(part.of) \in PartSet
    BY <1>5, <2>2, NodePart DEF PartOf, Calling
  <2>4. /\ PartOf(node, Terminal(t)) /\ PartFits(on, Terminal(t), c)
        /\ Terminal(t) \in PartSet
    BY <1>1, <1>5, <2>2, TerminalPart DEF PartOf
  <2>5. Announced(part, t) \o rest = Before3(Terminal(t), Node(part.of), part, rest)
    BY <2>1 DEF Before3
  <2> DEFINE m == Before3(on, c, a, s)
  <2>6. /\ TodoFits(node, Announced(part, t) \o rest, m)
        /\ m[1] = on /\ m[Len(m)] = s[Len(s)]
    BY <1>1, <2>3, <2>4, <2>5, FrontThree
  <2> QED BY <1>2, <2>6
<1>6. CASE t \in part.first /\ part.kind = "tail"
  <2>1. Announced(part, t) = <<Terminal(t), Node(part.of)>> BY <1>6 DEF Announced
  <2>2. PICK c \in Spots : TerminalFits(on, t, c) /\ NodeFits(c, part.of, b)
    BY <1>6 DEF PartFits
  <2>3. /\ PartOf(node, Node(part.of)) /\ PartFits(c, Node(part.of), b)
        /\ Node(part.of) \in PartSet
    BY <1>6, <2>2, NodePart DEF PartOf, Calling
  <2>4. /\ PartOf(node, Terminal(t)) /\ PartFits(on, Terminal(t), c)
        /\ Terminal(t) \in PartSet
    BY <1>1, <1>6, <2>2, TerminalPart DEF PartOf
  <2>5. Announced(part, t) \o rest = Before2(Terminal(t), Node(part.of), rest)
    BY <2>1 DEF Before2
  <2> DEFINE m == Before2(on, c, s)
  <2>6. /\ TodoFits(node, Announced(part, t) \o rest, m)
        /\ m[1] = on /\ m[Len(m)] = s[Len(s)]
    BY <1>1, <2>3, <2>4, <2>5, FrontTwo
  <2> QED BY <1>2, <2>6
<1>7. CASE t \in part.first /\ part.kind = "sign"
  <2>1. Announced(part, t) = <<Terminal(t)>> BY <1>7 DEF Announced
  <2>2. TerminalFits(on, t, b) BY <1>7 DEF PartFits
  <2>3. /\ PartOf(node, Terminal(t)) /\ PartFits(on, Terminal(t), b)
        /\ Terminal(t) \in PartSet
    BY <1>1, <1>7, <2>2, TerminalPart DEF PartOf
  <2>4. Announced(part, t) \o rest = Before1(Terminal(t), rest)
    BY <2>1 DEF Before1
  <2> DEFINE m == Before1(on, s)
  <2>5. /\ TodoFits(node, Announced(part, t) \o rest, m)
        /\ m[1] = on /\ m[Len(m)] = s[Len(s)]
    BY <1>1, <2>3, <2>4, FrontPart
  <2> QED BY <1>2, <2>5
<1> QED BY <1>3, <1>4, <1>5, <1>6, <1>7

-----------------------------------------------------------------------------
(* A frame has these fields and no other. *)
IsFrame(f) ==
    f = [node |-> f.node, todo |-> f.todo, children |-> f.children, stale |-> f.stale]

(* No child is without a position. *)
Sound(children) == \E S : children \in Seq(S) /\ \A c \in S : ~c.stale

(* The parts of a frame lead through s; it has no position only if the     *)
(* lookahead is empty, and then its end is not reached.                    *)
FrameFits(f, s, q, t) ==
    /\ IsFrame(f)
    /\ Sound(f.children)
    /\ TodoFits(f.node, f.todo, s)
    /\ f.stale => t = Nullopt /\ ~Stands(s[Len(s)], q, t)

(* Each frame leads to where its caller goes on, and the function to its   *)
(* end.                                                                    *)
StackFits(st, g, q, t) ==
    /\ \E F : st \in Seq(F)
    /\ Len(st) > 0
    /\ \A i \in 1 .. Len(st) : (st[i].node = "function_definition") = (i = 1)
    /\ \A i \in 1 .. Len(st) : FrameFits(st[i], g[i], q, t)
    /\ \A i \in 1 .. Len(st) - 1 : g[i][1] = g[i + 1][Len(g[i + 1])]
    /\ g[1][Len(g[1])] = AtFunction

(* While a declaration is parsed, every call belongs to it and the         *)
(* function goes on with the test of has_error().                          *)
Declaring(st) ==
    /\ Separate(st[1].todo)
    /\ Len(st) > 1 /\ st[2].node \in Declarations =>
          /\ st[1].todo # <<>>
          /\ Head(st[1].todo) = HasError
          /\ \A i \in 2 .. Len(st) : st[i].node \in DeclaringNodes

(* A declaration was abandoned and the function is about to test           *)
(* has_error().                                                            *)
Aborting(st) == Len(st) = 1 /\ st[1].todo # <<>> /\ Head(st[1].todo) = HasError

(* The phrase stands where the part in front begins. *)
StackInv ==
    /\ Declaring(stack)
    /\ \E g : /\ StackFits(stack, g, phrase, next_token)
              /\ \/ Stands(g[Len(stack)][1], phrase, next_token)
                 \/ error_flag /\ Aborting(stack)

(* The text consumed and the text to come. *)
TextInv ==
    /\ next_token \in All
    /\ phrase \in Language!Phrases
    /\ room \in [types : SUBSET TokenTypes, left : Nat, body : Nat]
    /\ next_token \in TokenTypes => room.left > 0

(* The error flag, the outcome and the tree agree; an error is refused. *)
OutcomeInv ==
    /\ error_flag \in BOOLEAN
    /\ outcome \in {"reading", "tree", "nullptr"}
    /\ (stack = <<>>) = (outcome # "reading")
    /\ (tree = NoTree) = (outcome # "tree")
    /\ outcome = "reading" /\ error_flag => Refused(phrase, next_token)
    /\ outcome = "tree" => ~error_flag
    /\ outcome = "nullptr" /\ ~error_flag => phrase.at \in {"operand", "signed"}

Inv == TextInv /\ OutcomeInv /\ (outcome = "reading" => StackInv)

-----------------------------------------------------------------------------
(* Children from a set of nodes with a position are sound. *)
LEMMA SoundChildren ==
  ASSUME NEW S, NEW children \in Seq(S), \A c \in S : ~c.stale
  PROVE  Sound(children)
  BY DEF Sound

(* A new frame has no children without a position. *)
LEMMA NoChildren == Sound(<<>>)
<1> DEFINE S == {NoTree}
<1>1. <<>> \in Seq(S) /\ \A c \in S : ~c.stale
  BY DEF NoTree, TreeNode
<1> HIDE DEF S
<1> QED BY <1>1, SoundChildren

(* A node with a position may be added to sound children. *)
LEMMA OneMoreChild ==
  ASSUME NEW children, Sound(children), NEW c, ~c.stale
  PROVE  Sound(Append(children, c))
<1>1. PICK S : children \in Seq(S) /\ \A d \in S : ~d.stale
  BY DEF Sound
<1>2. Append(children, c) \in Seq(S \cup {c}) /\ \A d \in S \cup {c} : ~d.stale
  BY <1>1
<1> QED BY <1>2, SoundChildren

(* The frame of a parse function that is called fits. *)
LEMMA NewFrameFits ==
  ASSUME NEW node, NEW todo, NEW stale \in BOOLEAN, NEW s, NEW q, NEW t,
         TodoFits(node, todo, s), stale => t = Nullopt /\ ~Stands(s[Len(s)], q, t)
  PROVE  /\ FrameFits(Frame(node, todo, stale), s, q, t)
         /\ Frame(node, todo, stale).node = node
         /\ Frame(node, todo, stale).todo = todo
<1>1. /\ IsFrame(Frame(node, todo, stale))
      /\ Frame(node, todo, stale).node = node
      /\ Frame(node, todo, stale).todo = todo
      /\ Frame(node, todo, stale).children = <<>>
      /\ Frame(node, todo, stale).stale = stale
  BY DEF Frame, IsFrame
<1> QED BY <1>1, NoChildren DEF FrameFits

(* The invariant holds when parse_function_definition is called. *)
LEMMA InitInv == Init => Inv
<1> SUFFICES ASSUME Init PROVE Inv
  OBVIOUS
<1> DEFINE f == Frame("function_definition", FunctionParts, next_token = Nullopt)
<1>1. /\ room \in [types : SUBSET TokenTypes, left : Nat, body : Nat]
      /\ next_token \in Lexed(room)
  BY ParserAssumption DEF Init
<1>2. TextInv
  <2>1. next_token \in All /\ (next_token \in TokenTypes => room.left > 0)
    BY <1>1, ParserAssumption DEF Lexed, All, TokenTypes
  <2>2. phrase \in Language!Phrases
    BY PhraseFacts DEF Init, Language!Places
  <2> QED BY <1>1, <2>1, <2>2 DEF TextInv
<1>3. OutcomeInv
  BY DEF Init, OutcomeInv, NoTree
<1>4. stack = <<f>> /\ stack \in Seq({f}) /\ Len(stack) = 1 /\ stack[1] = f
  BY DEF Init
<1>7. Stands(InSection(0), phrase, next_token)
  BY <1>2 DEF Init, Stands, InSection, Spot, TextInv, Language!Phrase
<1>8. ~Stands(AtFunction, phrase, next_token)
  BY DEF Init, Stands, AtFunction, Spot, Language!Phrase
<1>9. FunctionSpots[1] = InSection(0) /\ FunctionSpots[Len(FunctionSpots)] = AtFunction
  BY DEF FunctionSpots
<1>10. /\ FrameFits(f, FunctionSpots, phrase, next_token)
       /\ f.node = "function_definition" /\ f.todo = FunctionParts
  <2>1. TodoFits("function_definition", FunctionParts, FunctionSpots)
    BY FunctionFits
  <2>2. (next_token = Nullopt) =>
           /\ next_token = Nullopt
           /\ ~Stands(FunctionSpots[Len(FunctionSpots)], phrase, next_token)
    BY <1>8, <1>9
  <2> DEFINE stale == next_token = Nullopt
  <2>3. /\ stale \in BOOLEAN
        /\ TodoFits("function_definition", FunctionParts, FunctionSpots)
        /\ stale => /\ next_token = Nullopt
                    /\ ~Stands(FunctionSpots[Len(FunctionSpots)], phrase, next_token)
        /\ f = Frame("function_definition", FunctionParts, stale)
    BY <2>1, <2>2
  <2> HIDE DEF stale, f
  <2> QED BY <2>3, NewFrameFits
<1> HIDE DEF f
<1>6. Declaring(stack)
  BY <1>4, <1>10, FunctionFits DEF Declaring
<1> DEFINE g == [i \in {1} |-> FunctionSpots]
<1>12. g[1] = FunctionSpots OBVIOUS
<1> HIDE DEF g
<1>13. StackFits(stack, g, phrase, next_token)
  <2>1. \E F : stack \in Seq(F)
    <3> WITNESS {f}
    <3> QED BY <1>4
  <2>2. \A i \in 1 .. Len(stack) : (stack[i].node = "function_definition") = (i = 1)
    BY <1>4, <1>10
  <2>3. \A i \in 1 .. Len(stack) : FrameFits(stack[i], g[i], phrase, next_token)
    BY <1>4, <1>10, <1>12
  <2>4. /\ Len(stack) > 0
        /\ \A i \in 1 .. Len(stack) - 1 : g[i][1] = g[i + 1][Len(g[i + 1])]
    BY <1>4
  <2>5. g[1][Len(g[1])] = AtFunction
    BY <1>9, <1>12
  <2> QED BY <2>1, <2>2, <2>3, <2>4, <2>5 DEF StackFits
<1>14. Stands(g[Len(stack)][1], phrase, next_token)
  BY <1>4, <1>7, <1>9, <1>12
<1>15. StackInv
  <2>1. \E h : /\ StackFits(stack, h, phrase, next_token)
               /\ \/ Stands(h[Len(stack)][1], phrase, next_token)
                  \/ error_flag /\ Aborting(stack)
    <3> WITNESS g
    <3> QED BY <1>13, <1>14
  <2> QED BY <1>6, <2>1 DEF StackInv
<1> QED BY <1>2, <1>3, <1>15 DEF Inv

-----------------------------------------------------------------------------
(* Arithmetic about the last index of a sequence that is not empty. *)
LEMMA LastIndex ==
  ASSUME NEW n \in Nat, n > 0
  PROVE  /\ n # 1 => n > 1 /\ 1 \in 1 .. n - 1 /\ n \in 2 .. n
         /\ (IF 1 <= n - 1 THEN n - 1 - 1 + 1 ELSE 0) = n - 1
  OBVIOUS

(* Replacing the top of a stack leaves what is below. *)
LEMMA TopReplaced ==
  ASSUME NEW F, NEW st \in Seq(F), Len(st) > 0, NEW f
  PROVE  LET st2 == Append(SubSeq(st, 1, Len(st) - 1), f)
         IN  /\ st2 \in Seq(F \cup {f})
             /\ Len(st2) = Len(st)
             /\ st2[Len(st)] = f
             /\ \A i \in 1 .. Len(st) - 1 : st2[i] = st[i]
<1> DEFINE u == SubSeq(st, 1, Len(st) - 1)
           R == F \cup {f}
<1>1. Len(st) \in Nat /\ \A i \in 1 .. Len(st) - 1 : st[i] \in R
  OBVIOUS
<1>2. /\ u \in Seq(R)
      /\ Len(u) = IF 1 <= Len(st) - 1 THEN Len(st) - 1 - 1 + 1 ELSE 0
      /\ \A i \in 1 .. Len(st) - 1 - 1 + 1 : u[i] = st[1 + i - 1]
  <2> HIDE DEF R
  <2>1. 1 \in Int /\ Len(st) - 1 \in Int BY <1>1
  <2> QED BY <1>1, <2>1, SubSeqProperties
<1>3. u \in Seq(R) /\ Len(u) = Len(st) - 1 /\ \A i \in 1 .. Len(st) - 1 : u[i] = st[i]
  <2> HIDE DEF u, R
  <2>1. Len(st) - 1 - 1 + 1 = Len(st) - 1 BY <1>1
  <2>2. Len(u) = Len(st) - 1 BY <1>1, <1>2, LastIndex
  <2>3. ASSUME NEW i \in 1 .. Len(st) - 1 PROVE u[i] = st[i]
    <3>1. 1 + i - 1 = i OBVIOUS
    <3>2. u[i] = st[1 + i - 1] BY <1>2, <2>1
    <3> QED BY <3>1, <3>2
  <2> QED BY <1>2, <2>2, <2>3
<1>4. f \in R OBVIOUS
<1> HIDE DEF u, R
<1>5. /\ Append(u, f) \in Seq(R) /\ Len(Append(u, f)) = Len(u) + 1
      /\ Append(u, f)[Len(u) + 1] = f
      /\ \A i \in 1 .. Len(u) : Append(u, f)[i] = u[i]
  BY <1>3, <1>4
<1>6. Len(u) = Len(st) - 1 /\ Len(u) + 1 = Len(st)
  BY <1>1, <1>3
<1> QED BY <1>3, <1>5, <1>6 DEF u, R

(* Pushing a frame leaves what is below. *)
LEMMA OnTop ==
  ASSUME NEW F, NEW st \in Seq(F), NEW f
  PROVE  LET st2 == Append(st, f)
         IN  /\ st2 \in Seq(F \cup {f})
             /\ Len(st2) = Len(st) + 1
             /\ st2[Len(st) + 1] = f
             /\ \A i \in 1 .. Len(st) : st2[i] = st[i]
<1>1. st \in Seq(F \cup {f})
  OBVIOUS
<1> QED BY <1>1

(* Going changes what a frame has still to parse and nothing else. *)
LEMMA GoingFacts ==
  ASSUME NEW f, IsFrame(f), NEW todo
  PROVE  /\ IsFrame(Going(f, todo))
         /\ Going(f, todo).node = f.node
         /\ Going(f, todo).todo = todo
         /\ Going(f, todo).children = f.children
         /\ Going(f, todo).stale = f.stale
  BY DEF IsFrame, Going

(* Another child changes the children of a frame and nothing else. *)
LEMMA ChildrenFacts ==
  ASSUME NEW f, IsFrame(f), NEW children
  PROVE  /\ IsFrame([f EXCEPT !.children = children])
         /\ [f EXCEPT !.children = children].node = f.node
         /\ [f EXCEPT !.children = children].todo = f.todo
         /\ [f EXCEPT !.children = children].children = children
         /\ [f EXCEPT !.children = children].stale = f.stale
  BY DEF IsFrame

(* The stack fits when its top frame goes on with parts that lead to the   *)
(* same last spot; the text may go on too if the lookahead is not empty,   *)
(* for then no frame is without a position.                                *)
LEMMA TopGoesOn ==
  ASSUME NEW st, NEW g, NEW q, NEW t, StackFits(st, g, q, t),
         NEW f, NEW m, NEW q2, NEW t2,
         f.node = st[Len(st)].node, FrameFits(f, m, q2, t2),
         m[Len(m)] = g[Len(st)][Len(g[Len(st)])],
         (q2 = q /\ t2 = t) \/ t # Nullopt
  PROVE  LET st2 == Append(SubSeq(st, 1, Len(st) - 1), f)
             g2 == [i \in 1 .. Len(st) |-> IF i = Len(st) THEN m ELSE g[i]]
         IN  /\ StackFits(st2, g2, q2, t2)
             /\ Len(st2) = Len(st) /\ st2[Len(st)] = f /\ g2[Len(st)] = m
             /\ \A i \in 1 .. Len(st) - 1 : st2[i] = st[i]
<1> DEFINE st2 == Append(SubSeq(st, 1, Len(st) - 1), f)
           n == Len(st)
           g2 == [i \in 1 .. n |-> IF i = n THEN m ELSE g[i]]
<1>1. PICK F : st \in Seq(F)
  BY DEF StackFits
<1>2. n \in Nat /\ n > 0
  BY <1>1 DEF StackFits
<1>3. /\ st2 \in Seq(F \cup {f})
      /\ Len(st2) = n /\ st2[n] = f
      /\ \A i \in 1 .. n - 1 : st2[i] = st[i]
  BY <1>1, <1>2, TopReplaced
<1>4. g2[n] = m /\ \A i \in 1 .. n - 1 : g2[i] = g[i]
  BY <1>2
<1> HIDE DEF st2, g2
<1>5. \E R : st2 \in Seq(R)
  <2> WITNESS F \cup {f}
  <2> QED BY <1>3
<1>6. \A i \in 1 .. n : (st2[i].node = "function_definition") = (i = 1)
  <2>1. \A i \in 1 .. n : (st[i].node = "function_definition") = (i = 1)
    BY DEF StackFits
  <2>2. \A i \in 1 .. n : st2[i].node = st[i].node
    BY <1>2, <1>3
  <2> QED BY <2>1, <2>2
<1>7. ASSUME NEW i \in 1 .. n
      PROVE  FrameFits(st2[i], g2[i], q2, t2)
  <2>1. CASE i = n BY <1>3, <1>4, <2>1
  <2>2. CASE i # n
    <3>1. i \in 1 .. n - 1 BY <1>2, <2>2
    <3>2. FrameFits(st[i], g[i], q, t) BY DEF StackFits
    <3>3. FrameFits(st[i], g[i], q2, t2) BY <3>2 DEF FrameFits
    <3> QED BY <1>3, <1>4, <3>1, <3>3
  <2> QED BY <2>1, <2>2
<1>8. ASSUME NEW i \in 1 .. n - 1
      PROVE  g2[i][1] = g2[i + 1][Len(g2[i + 1])]
  <2>1. g[i][1] = g[i + 1][Len(g[i + 1])] BY DEF StackFits
  <2>2. CASE i + 1 = n
    <3>1. g2[i] = g[i] /\ g2[i + 1] = m BY <1>4, <2>2
    <3>2. m[Len(m)] = g[i + 1][Len(g[i + 1])] BY <2>2
    <3> QED BY <2>1, <3>1, <3>2
  <2>3. CASE i + 1 # n
    <3>1. i + 1 \in 1 .. n - 1 BY <1>2, <2>3
    <3>2. g2[i] = g[i] /\ g2[i + 1] = g[i + 1] BY <1>4, <3>1
    <3> QED BY <2>1, <3>2
  <2> QED BY <2>2, <2>3
<1>9. g2[1][Len(g2[1])] = AtFunction
  <2>1. g[1][Len(g[1])] = AtFunction BY DEF StackFits
  <2>2. CASE n = 1
    <3>1. g2[1] = m /\ m[Len(m)] = g[1][Len(g[1])] BY <1>4, <2>2
    <3> QED BY <2>1, <3>1
  <2>3. CASE n # 1
    <3>1. 1 \in 1 .. n - 1 BY <1>2, <2>3, LastIndex
    <3>2. g2[1] = g[1] BY <1>4, <3>1
    <3> QED BY <2>1, <3>2
  <2> QED BY <2>2, <2>3
<1>10. StackFits(st2, g2, q2, t2)
  BY <1>2, <1>3, <1>5, <1>6, <1>7, <1>8, <1>9 DEF StackFits
<1> QED BY <1>3, <1>4, <1>10 DEF st2, g2

(* The stack fits with a called parse function on top. *)
LEMMA CallFits ==
  ASSUME NEW st, NEW g, NEW q, NEW t, StackFits(st, g, q, t),
         NEW f, NEW m, f.node \in Nodes, FrameFits(f, m, q, t),
         m[Len(m)] = g[Len(st)][1]
  PROVE  LET st2 == Append(st, f)
             g2 == [i \in 1 .. Len(st) + 1 |-> IF i = Len(st) + 1 THEN m ELSE g[i]]
         IN  /\ StackFits(st2, g2, q, t)
             /\ Len(st2) = Len(st) + 1 /\ st2[Len(st) + 1] = f /\ g2[Len(st) + 1] = m
             /\ \A i \in 1 .. Len(st) : st2[i] = st[i]
<1> DEFINE st2 == Append(st, f)
           n == Len(st)
           g2 == [i \in 1 .. n + 1 |-> IF i = n + 1 THEN m ELSE g[i]]
<1>1. PICK F : st \in Seq(F)
  BY DEF StackFits
<1>2. n \in Nat /\ n > 0
  BY <1>1 DEF StackFits
<1>3. /\ st2 \in Seq(F \cup {f})
      /\ Len(st2) = n + 1 /\ st2[n + 1] = f
      /\ \A i \in 1 .. n : st2[i] = st[i]
  BY <1>1, OnTop
<1>4. g2[n + 1] = m /\ \A i \in 1 .. n : g2[i] = g[i]
  BY <1>2
<1> HIDE DEF st2, g2
<1>5. \E R : st2 \in Seq(R)
  <2> WITNESS F \cup {f}
  <2> QED BY <1>3
<1>6. \A i \in 1 .. n + 1 : (st2[i].node = "function_definition") = (i = 1)
  <2>1. \A i \in 1 .. n : (st[i].node = "function_definition") = (i = 1)
    BY DEF StackFits
  <2>2. f.node # "function_definition"
    BY DEF Nodes, DeclarationNodes, Declarations, StatementNodes, ExpressionNodes, Leaves
  <2> QED BY <1>2, <1>3, <2>1, <2>2
<1>7. \A i \in 1 .. n + 1 : FrameFits(st2[i], g2[i], q, t)
  <2>1. \A i \in 1 .. n : FrameFits(st[i], g[i], q, t) BY DEF StackFits
  <2> QED BY <1>2, <1>3, <1>4, <2>1
<1>8. \A i \in 1 .. n : g2[i][1] = g2[i + 1][Len(g2[i + 1])]
  <2>1. \A i \in 1 .. n - 1 : g[i][1] = g[i + 1][Len(g[i + 1])] BY DEF StackFits
  <2>2. ASSUME NEW i \in 1 .. n, i # n
        PROVE  g2[i][1] = g2[i + 1][Len(g2[i + 1])]
    <3>1. i \in 1 .. n - 1 /\ i + 1 \in 1 .. n BY <1>2, <2>2
    <3>2. g2[i] = g[i] /\ g2[i + 1] = g[i + 1] BY <1>4, <3>1
    <3> QED BY <2>1, <3>1, <3>2
  <2>3. g2[n] = g[n] /\ g2[n + 1] = m BY <1>2, <1>4
  <2> QED BY <2>2, <2>3
<1>9. g2[1][Len(g2[1])] = AtFunction
  <2>1. g[1][Len(g[1])] = AtFunction BY DEF StackFits
  <2>2. g2[1] = g[1] BY <1>2, <1>4
  <2> QED BY <2>1, <2>2
<1>10. StackFits(st2, g2, q, t)
  <2>1. Len(st2) > 0 /\ Len(st2) - 1 = n BY <1>2, <1>3
  <2> QED BY <1>3, <1>5, <1>6, <1>7, <1>8, <1>9, <2>1 DEF StackFits
<1> QED BY <1>3, <1>4, <1>10 DEF st2, g2

(* The stack whose top frame goes on with todo. *)
WithTop(st, todo) == Append(SubSeq(st, 1, Len(st) - 1), Going(st[Len(st)], todo))

(* TopGoesOn for a frame that only goes on with other parts. *)
LEMMA TopGoing ==
  ASSUME NEW st, NEW g, NEW q, NEW t, StackFits(st, g, q, t), NEW todo, NEW m,
         TodoFits(st[Len(st)].node, todo, m),
         m[Len(m)] = g[Len(st)][Len(g[Len(st)])]
  PROVE  /\ \E g2 : StackFits(WithTop(st, todo), g2, q, t) /\ g2[Len(st)] = m
         /\ Len(WithTop(st, todo)) = Len(st)
         /\ WithTop(st, todo)[Len(st)].node = st[Len(st)].node
         /\ WithTop(st, todo)[Len(st)].todo = todo
         /\ \A i \in 1 .. Len(st) - 1 : WithTop(st, todo)[i] = st[i]
<1> DEFINE n == Len(st)
           f == Going(st[n], todo)
           st2 == Append(SubSeq(st, 1, n - 1), f)
           g2 == [i \in 1 .. n |-> IF i = n THEN m ELSE g[i]]
<1>1. FrameFits(st[n], g[n], q, t)
  <2>1. PICK F : st \in Seq(F) BY DEF StackFits
  <2>2. n \in 1 .. n BY <2>1 DEF StackFits
  <2> QED BY <2>2 DEF StackFits
<1>2. /\ f.node = st[n].node /\ f.todo = todo
      /\ IsFrame(f) /\ f.children = st[n].children /\ f.stale = st[n].stale
  BY <1>1, GoingFacts DEF FrameFits
<1>3. FrameFits(f, m, q, t)
  <2> HIDE DEF f, n
  <2>1. /\ Sound(st[n].children)
        /\ st[n].stale => t = Nullopt /\ ~Stands(g[n][Len(g[n])], q, t)
    BY <1>1 DEF FrameFits
  <2>2. m[Len(m)] = g[n][Len(g[n])] /\ TodoFits(st[n].node, todo, m)
    BY DEF n
  <2> QED BY <1>2, <2>1, <2>2 DEF FrameFits
<1> HIDE DEF f
<1>4. /\ StackFits(st2, g2, q, t)
      /\ Len(st2) = n /\ st2[n] = f /\ g2[n] = m
      /\ \A i \in 1 .. n - 1 : st2[i] = st[i]
  BY <1>2, <1>3, TopGoesOn
<1> HIDE DEF g2, st2
<1>5. \E h : StackFits(st2, h, q, t) /\ h[n] = m
  <2> WITNESS g2
  <2> QED BY <1>4
<1> QED BY <1>2, <1>4, <1>5 DEF f, st2, WithTop

(* Behind a declaration comes the test of has_error(). *)
LEMMA SeparateTail ==
  ASSUME NEW todo \in Seq(PartSet), todo # <<>>, Separate(todo)
  PROVE  /\ Separate(Tail(todo))
         /\ Head(todo).kind \in {"terminal", "node", "optional", "has_error"}
         /\ Head(todo).of \in Declarations =>
               Tail(todo) # <<>> /\ Head(Tail(todo)) = HasError
<1>1. /\ Len(todo) \in Nat /\ Len(todo) >= 1 /\ Head(todo) = todo[1]
      /\ Tail(todo) \in Seq(PartSet) /\ Len(Tail(todo)) = Len(todo) - 1
      /\ \A k \in 1 .. Len(todo) - 1 : Tail(todo)[k] = todo[k + 1]
  OBVIOUS
<1>2. Separate(Tail(todo))
  <2> SUFFICES ASSUME NEW k \in 1 .. Len(todo) - 1
               PROVE  /\ Tail(todo)[k].kind \in {"terminal", "node", "optional", "has_error"}
                      /\ Tail(todo)[k].of \in Declarations =>
                            k < Len(todo) - 1 /\ Tail(todo)[k + 1] = HasError
    BY <1>1 DEF Separate
  <2>1. k + 1 \in 1 .. Len(todo) /\ Tail(todo)[k] = todo[k + 1]
    BY <1>1
  <2>2. ASSUME todo[k + 1].of \in Declarations
        PROVE  k < Len(todo) - 1 /\ Tail(todo)[k + 1] = HasError
    <3>1. k + 1 < Len(todo) /\ todo[k + 1 + 1] = HasError
      BY <2>1, <2>2 DEF Separate
    <3>2. k + 1 \in 1 .. Len(todo) - 1 BY <1>1, <3>1
    <3> QED BY <1>1, <3>1, <3>2
  <2> QED BY <2>1, <2>2 DEF Separate
<1>3. 1 \in 1 .. Len(todo) BY <1>1
<1>4. ASSUME todo[1].of \in Declarations
      PROVE  Tail(todo) # <<>> /\ Head(Tail(todo)) = HasError
  <2>1. 1 < Len(todo) /\ todo[2] = HasError BY <1>3, <1>4 DEF Separate
  <2>2. 1 \in 1 .. Len(todo) - 1 BY <1>1, <2>1
  <2>3. Tail(todo)[1] = HasError BY <1>1, <2>1, <2>2
  <2>4. Len(Tail(todo)) >= 1 BY <1>1, <2>1
  <2>5. \A s \in Seq(PartSet) : Len(s) >= 1 => s # <<>> /\ Head(s) = s[1]
    OBVIOUS
  <2> QED BY <1>1, <2>3, <2>4, <2>5
<1> QED BY <1>1, <1>2, <1>3, <1>4 DEF Separate

(* It still does when the declaration is announced or missing. *)
LEMMA SeparateOptional ==
  ASSUME NEW todo \in Seq(PartSet), todo # <<>>, Separate(todo),
         Head(todo).kind = "optional", NEW t
  PROVE  Separate(Announced(Head(todo), t) \o Tail(todo))
<1> DEFINE part == Head(todo)
           rest == Tail(todo)
           new == <<Node(part.of)>> \o rest
<1>1. /\ Separate(rest)
      /\ part.of \in Declarations => rest # <<>> /\ Head(rest) = HasError
  BY SeparateTail
<1>2. rest \in Seq(PartSet) /\ part \in PartSet
  OBVIOUS
<1>3. Announced(part, t) = <<>> \/ Announced(part, t) = <<Node(part.of)>>
  BY DEF Announced
<1>4. CASE Announced(part, t) = <<>>
  <2>1. Announced(part, t) \o rest = rest
    <3> HIDE DEF rest, part
    <3> QED BY <1>2, <1>4
  <2> QED BY <1>1, <2>1
<1>5. Separate(new)
  <2>1. Node(part.of).kind = "node" /\ Node(part.of).of = part.of
    BY DEF Node, Part
  <2>2. /\ Len(rest) \in Nat /\ Len(new) = Len(rest) + 1 /\ new[1] = Node(part.of)
        /\ \A k \in 1 .. Len(rest) : new[k + 1] = rest[k]
    BY <1>2
  <2>3. ASSUME rest # <<>> PROVE Len(rest) >= 1 /\ rest[1] = Head(rest)
    BY <1>2, <2>3
  <2> HIDE DEF new, rest, part
  <2> SUFFICES ASSUME NEW k \in 1 .. Len(rest) + 1
               PROVE  /\ new[k].kind \in {"terminal", "node", "optional", "has_error"}
                      /\ new[k].of \in Declarations =>
                            k < Len(rest) + 1 /\ new[k + 1] = HasError
    BY <2>2 DEF Separate
  <2>4. CASE k = 1
    <3>1. ASSUME part.of \in Declarations
          PROVE  1 < Len(rest) + 1 /\ new[2] = HasError
      <4>1. Len(rest) >= 1 /\ rest[1] = HasError BY <1>1, <2>3, <3>1
      <4>2. 1 \in 1 .. Len(rest) BY <2>2, <4>1
      <4> QED BY <2>2, <4>1, <4>2
    <3> QED BY <2>1, <2>2, <2>4, <3>1
  <2>5. CASE k # 1
    <3>1. k - 1 \in 1 .. Len(rest) /\ k = (k - 1) + 1 BY <2>2, <2>5
    <3>2. new[k] = rest[k - 1] BY <2>2, <3>1
    <3>3. ASSUME rest[k - 1].of \in Declarations
          PROVE  k < Len(rest) + 1 /\ new[k + 1] = HasError
      <4>1. k - 1 < Len(rest) /\ rest[k] = HasError
        BY <1>1, <3>1, <3>3 DEF Separate
      <4>2. k \in 1 .. Len(rest) BY <2>2, <4>1
      <4> QED BY <2>2, <4>1, <4>2
    <3> QED BY <1>1, <3>1, <3>2, <3>3 DEF Separate
  <2> QED BY <2>4, <2>5
<1>6. CASE Announced(part, t) = <<Node(part.of)>>
  BY <1>5, <1>6
<1> QED BY <1>3, <1>4, <1>6

(* While calls go on above the function, a declaration stays a declaration. *)
LEMMA DeclaringGoesOn ==
  ASSUME NEW st, NEW st2, Declaring(st), Len(st) \in Nat, Len(st) > 1,
         Len(st2) = Len(st), \A i \in 1 .. Len(st) - 1 : st2[i] = st[i],
         st2[Len(st)].node = st[Len(st)].node
  PROVE  Declaring(st2)
<1>1. \A i \in 1 .. Len(st) : st2[i].node = st[i].node
  OBVIOUS
<1>2. 1 \in 1 .. Len(st) - 1 BY LastIndex
<1>3. st2[1] = st[1] BY <1>2
<1>4. 2 \in 1 .. Len(st) OBVIOUS
<1>5. \A i \in 2 .. Len(st) : st2[i].node = st[i].node BY <1>1
<1> QED BY <1>1, <1>3, <1>4, <1>5 DEF Declaring

-----------------------------------------------------------------------------
(* What a stack that fits says of its top frame. *)
LEMMA TopFits ==
  ASSUME NEW st, NEW g, NEW q, NEW t, StackFits(st, g, q, t)
  PROVE  /\ Len(st) \in Nat /\ Len(st) > 0 /\ Len(st) \in 1 .. Len(st)
         /\ st # <<>>
         /\ FrameFits(st[Len(st)], g[Len(st)], q, t)
         /\ (st[Len(st)].node = "function_definition") = (Len(st) = 1)
<1>1. PICK F : st \in Seq(F) BY DEF StackFits
<1>2. /\ Len(st) \in Nat /\ Len(st) > 0 /\ Len(st) \in 1 .. Len(st)
      /\ st # <<>>
  BY <1>1 DEF StackFits
<1> QED BY <1>2 DEF StackFits

(* What it says of the part in front. *)
LEMMA InFront ==
  ASSUME NEW g, StackFits(stack, g, phrase, next_token), Top.todo # <<>>
  PROVE  LET n == Len(stack)
             s == g[n]
         IN  /\ n \in Nat /\ n > 0 /\ stack # <<>>
             /\ (Top.node = "function_definition") = (n = 1)
             /\ TodoFits(Top.node, Tail(Top.todo), Tail(s))
             /\ PartOf(Top.node, Current)
             /\ PartFits(s[1], Current, Tail(s)[1])
             /\ s[1] \in Spots /\ Tail(s)[1] \in Spots
             /\ Tail(s)[Len(Tail(s))] = s[Len(s)]
             /\ Top.todo \in Seq(PartSet)
             /\ Top.todo = stack[n].todo /\ Top = stack[n]
<1>1. /\ Len(stack) \in Nat /\ Len(stack) > 0 /\ stack # <<>>
      /\ FrameFits(Top, g[Len(stack)], phrase, next_token)
      /\ (Top.node = "function_definition") = (Len(stack) = 1)
  BY TopFits DEF Top
<1>2. TodoFits(Top.node, Top.todo, g[Len(stack)])
  BY <1>1 DEF FrameFits
<1>3. Top.todo \in Seq(PartSet)
  BY <1>2 DEF TodoFits
<1>4. Top = stack[Len(stack)]
  BY DEF Top
<1> HIDE DEF Top
<1>5. /\ TodoFits(Top.node, Tail(Top.todo), Tail(g[Len(stack)]))
      /\ PartOf(Top.node, Head(Top.todo))
      /\ PartFits(g[Len(stack)][1], Head(Top.todo), Tail(g[Len(stack)])[1])
      /\ g[Len(stack)][1] \in Spots /\ Tail(g[Len(stack)])[1] \in Spots
      /\ Tail(g[Len(stack)])[Len(Tail(g[Len(stack)]))] = g[Len(stack)][Len(g[Len(stack)])]
  BY <1>2, RestOfParts
<1> QED BY <1>1, <1>3, <1>4, <1>5 DEF Current

(* A phrase that the lookahead cannot continue is not complete either: the *)
(* language rejects the text.                                              *)
LEMMA RefusedStops ==
  ASSUME TextInv, Refused(phrase, next_token)
  PROVE  ~Language!Complete /\ ~Language!Continues(next_token)
  BY DEF TextInv, Refused, Language!Complete, Language!Continues

(* Unless an abandoned declaration waits for the test of has_error(), the  *)
(* phrase stands where the part in front begins.                           *)
LEMMA StackStands ==
  ASSUME Inv, Todo, Current.kind # "has_error"
  PROVE  \E g : /\ StackFits(stack, g, phrase, next_token)
                /\ Stands(g[Len(stack)][1], phrase, next_token)
<1>1. PICK g : /\ StackFits(stack, g, phrase, next_token)
               /\ \/ Stands(g[Len(stack)][1], phrase, next_token)
                  \/ error_flag /\ Aborting(stack)
  BY DEF Inv, StackInv, Todo
<1>2. HasError.kind = "has_error"
  BY DEF HasError, Part
<1>3. ~Aborting(stack)
  BY <1>2 DEF Aborting, Current, Top
<1> QED BY <1>1, <1>3

(* How the next stack is shown to satisfy the invariant. *)
LEMMA StackInvNext ==
  ASSUME NEW g, StackFits(stack', g, phrase', next_token'), Declaring(stack'),
         Stands(g[Len(stack')][1], phrase', next_token')
  PROVE  StackInv'
  BY DEF StackInv

(* A call of a parse function keeps the invariant; the language stutters. *)
LEMMA CallParseStep ==
  ASSUME Inv, CallParse
  PROVE  Inv' /\ UNCHANGED Language!vars
<1> DEFINE n == Len(stack)
           part == Current
           stale == next_token = Nullopt /\ Current.of \notin Leaves
           rest == Tail(Top.todo)
           st1 == WithTop(stack, rest)
           called == Frame(Current.of, Parts(Current.of, next_token), stale)
<1>1. /\ Todo /\ Current.kind = "node" /\ Top.todo # <<>>
      /\ stack' = Append(st1, called)
      /\ UNCHANGED <<next_token, error_flag, outcome, tree, room, phrase>>
  BY DEF CallParse, Todo, WithTop, Callers, Top
<1>2. PICK g : /\ StackFits(stack, g, phrase, next_token)
               /\ Stands(g[n][1], phrase, next_token)
  BY <1>1, StackStands
<1>3. /\ n \in Nat /\ n > 0 /\ stack # <<>>
      /\ (Top.node = "function_definition") = (n = 1)
      /\ TodoFits(Top.node, rest, Tail(g[n]))
      /\ PartOf(Top.node, Current)
      /\ PartFits(g[n][1], Current, Tail(g[n])[1])
      /\ g[n][1] \in Spots /\ Tail(g[n])[1] \in Spots
      /\ Tail(g[n])[Len(Tail(g[n]))] = g[n][Len(g[n])]
      /\ Top.todo \in Seq(PartSet)
      /\ Top = stack[n]
  BY <1>1, <1>2, InFront
<1>4. /\ next_token \in All /\ Declaring(stack) /\ phrase \in Language!Phrases
  BY <1>1 DEF Inv, TextInv, StackInv, Todo
<1> HIDE DEF Top, Current
<1>5. NodeFits(g[n][1], Current.of, Tail(g[n])[1])
  BY <1>1, <1>3 DEF PartFits
<1>6. /\ Current.of \in Nodes
      /\ Fitting(Current.of, next_token, phrase, Tail(g[n])[1])
      /\ next_token = Nullopt /\ Current.of \notin Leaves
            => ~Stands(Tail(g[n])[1], phrase, next_token)
  BY <1>2, <1>3, <1>4, <1>5, CalledFits
<1>7. PICK m : /\ TodoFits(Current.of, Parts(Current.of, next_token), m)
               /\ Stands(m[1], phrase, next_token)
               /\ m[Len(m)] = Tail(g[n])[1]
  BY <1>6 DEF Fitting
<1>8. /\ \E g1 : StackFits(st1, g1, phrase, next_token) /\ g1[n] = Tail(g[n])
      /\ Len(st1) = n /\ st1[n].node = Top.node /\ st1[n].todo = rest
      /\ \A i \in 1 .. n - 1 : st1[i] = stack[i]
  <2> DEFINE s == Tail(g[n])
  <2>1. /\ StackFits(stack, g, phrase, next_token)
        /\ TodoFits(stack[Len(stack)].node, rest, s)
        /\ s[Len(s)] = g[Len(stack)][Len(g[Len(stack)])]
    BY <1>2, <1>3
  <2> HIDE DEF s, rest, st1
  <2>2. /\ \E g1 : /\ StackFits(WithTop(stack, rest), g1, phrase, next_token)
                  /\ g1[Len(stack)] = s
        /\ Len(WithTop(stack, rest)) = Len(stack)
        /\ WithTop(stack, rest)[Len(stack)].node = stack[Len(stack)].node
        /\ WithTop(stack, rest)[Len(stack)].todo = rest
        /\ \A i \in 1 .. Len(stack) - 1 : WithTop(stack, rest)[i] = stack[i]
    BY <2>1, TopGoing
  <2> QED BY <1>3, <2>2 DEF s, st1
<1>9. PICK g1 : StackFits(st1, g1, phrase, next_token) /\ g1[n] = Tail(g[n])
  BY <1>8
<1>10. /\ FrameFits(called, m, phrase, next_token)
       /\ called.node = Current.of
  <2>1. /\ stale \in BOOLEAN
        /\ stale => next_token = Nullopt /\ ~Stands(m[Len(m)], phrase, next_token)
    BY <1>6, <1>7
  <2> DEFINE todo == Parts(Current.of, next_token)
  <2>2. called = Frame(Current.of, todo, stale) /\ TodoFits(Current.of, todo, m)
    BY <1>7
  <2> HIDE DEF stale, todo, called
  <2> QED BY <2>1, <2>2, NewFrameFits
<1> HIDE DEF st1, called, rest
<1>11. /\ \E g2 : /\ StackFits(stack', g2, phrase, next_token)
                  /\ g2[n + 1] = m
       /\ Len(stack') = n + 1 /\ stack'[n + 1] = called
       /\ \A i \in 1 .. n : stack'[i] = st1[i]
  <2> DEFINE g2 == [i \in 1 .. n + 1 |-> IF i = n + 1 THEN m ELSE g1[i]]
  <2>1. m[Len(m)] = g1[Len(st1)][1] BY <1>7, <1>8, <1>9
  <2>2. /\ stack' = Append(st1, called) /\ Len(st1) = n /\ called.node \in Nodes
        /\ StackFits(st1, g1, phrase, next_token)
        /\ FrameFits(called, m, phrase, next_token)
    BY <1>1, <1>6, <1>8, <1>9, <1>10
  <2>3. /\ StackFits(stack', [i \in 1 .. Len(st1) + 1 |->
                               IF i = Len(st1) + 1 THEN m ELSE g1[i]], phrase, next_token)
        /\ Len(stack') = Len(st1) + 1 /\ stack'[Len(st1) + 1] = called
        /\ [i \in 1 .. Len(st1) + 1 |->
               IF i = Len(st1) + 1 THEN m ELSE g1[i]][Len(st1) + 1] = m
        /\ \A i \in 1 .. Len(st1) : stack'[i] = st1[i]
    <3> HIDE DEF n
    <3> QED BY <2>1, <2>2, CallFits
  <2>4. /\ StackFits(stack', g2, phrase, next_token)
        /\ Len(stack') = n + 1 /\ stack'[n + 1] = called /\ g2[n + 1] = m
        /\ \A i \in 1 .. n : stack'[i] = st1[i]
    <3> HIDE DEF n
    <3> QED BY <2>2, <2>3
  <2> HIDE DEF g2
  <2> QED BY <2>4
<1>12. PICK g2 : StackFits(stack', g2, phrase, next_token) /\ g2[n + 1] = m
  BY <1>11
<1>13. Declaring(stack')
  <2>1. CASE n = 1
    <3>1. /\ stack'[1].todo = rest /\ stack'[2] = called /\ Len(stack') = 2
      BY <1>8, <1>11, <2>1
    <3>2. Top.todo \in Seq(PartSet) /\ Top.todo # <<>> /\ Separate(Top.todo)
      BY <1>1, <1>3, <1>4, <2>1 DEF Declaring
    <3>3. /\ Separate(rest)
          /\ Current.of \in Declarations => rest # <<>> /\ Head(rest) = HasError
      BY <3>2, SeparateTail DEF rest, Current
    <3>4. \A i \in 2 .. 2 : stack'[i].node = Current.of
      BY <1>10, <3>1
    <3>5. Declarations \subseteq DeclaringNodes
      BY DEF DeclaringNodes, DeclarationNodes
    <3> QED BY <1>10, <3>1, <3>3, <3>4, <3>5 DEF Declaring
  <2>2. CASE n # 1
    <3>1. /\ Len(stack) \in Nat /\ Len(stack) > 1 /\ Len(st1) = Len(stack)
          /\ st1[Len(stack)].node = stack[Len(stack)].node
      BY <1>3, <1>8, <2>2
    <3>2. \A i \in 1 .. Len(stack) - 1 : st1[i] = stack[i]
      BY <1>8
    <3>3. Declaring(st1)
      BY <1>4, <3>1, <3>2, DeclaringGoesOn
    <3>4. stack'[1] = st1[1] /\ stack'[2] = st1[2] /\ Len(st1) > 1 /\ Len(stack') > 1
      BY <1>3, <1>8, <1>11, <3>1
    <3>5. ASSUME st1[2].node \in Declarations, NEW i \in 2 .. n + 1
          PROVE  stack'[i].node \in DeclaringNodes
      <4>1. \A j \in 2 .. n : st1[j].node \in DeclaringNodes
        BY <1>8, <3>3, <3>4, <3>5 DEF Declaring
      <4>2. CASE i = n + 1
        <5>1. n \in 2 .. n BY <1>3, <2>2, LastIndex
        <5>2. Top.node \in DeclaringNodes BY <1>8, <4>1, <5>1
        <5>3. Current.of \in DeclaringNodes
          BY <1>1, <1>3, <5>2 DEF PartOf, Calling
        <5> QED BY <1>10, <1>11, <4>2, <5>3
      <4>3. CASE i # n + 1
        <5>1. i \in 1 .. n /\ i \in 2 .. n BY <1>3, <4>3
        <5> QED BY <1>11, <4>1, <5>1
      <4> QED BY <4>2, <4>3
    <3> QED BY <1>11, <3>3, <3>4, <3>5 DEF Declaring
  <2> QED BY <2>1, <2>2
<1>14. StackInv'
  <2>1. /\ StackFits(stack', g2, phrase', next_token')
        /\ Stands(g2[Len(stack')][1], phrase', next_token')
    BY <1>1, <1>7, <1>11, <1>12
  <2> QED BY <1>13, <2>1, StackInvNext
<1>15. Inv'
  <2>1. TextInv' BY <1>1 DEF Inv, TextInv
  <2>2. stack' # <<>> BY <1>12, TopFits
  <2>3. OutcomeInv' BY <1>1, <1>3, <2>2 DEF Inv, OutcomeInv, Todo
  <2> QED BY <1>14, <2>1, <2>3 DEF Inv
<1> QED BY <1>1, <1>15 DEF Language!vars

(* So does a top frame that goes on with parts that fit. *)
LEMMA TopGoesOnInv ==
  ASSUME Inv, outcome = "reading", NEW g, StackFits(stack, g, phrase, next_token),
         NEW todo, NEW m, TodoFits(Top.node, todo, m),
         m[Len(m)] = g[Len(stack)][Len(g[Len(stack)])],
         Stands(m[1], phrase, next_token), Len(stack) = 1 => Separate(todo),
         stack' = WithTop(stack, todo),
         UNCHANGED <<next_token, error_flag, outcome, tree, room, phrase>>
  PROVE  Inv'
<1>1. /\ Len(stack) \in Nat /\ Len(stack) > 0
      /\ TodoFits(stack[Len(stack)].node, todo, m)
  BY TopFits DEF Top
<1>2. /\ \E g1 : StackFits(WithTop(stack, todo), g1, phrase, next_token)
                 /\ g1[Len(stack)] = m
      /\ Len(WithTop(stack, todo)) = Len(stack)
      /\ WithTop(stack, todo)[Len(stack)].node = stack[Len(stack)].node
      /\ WithTop(stack, todo)[Len(stack)].todo = todo
      /\ \A i \in 1 .. Len(stack) - 1 : WithTop(stack, todo)[i] = stack[i]
  BY <1>1, TopGoing
<1>3. PICK g1 : StackFits(stack', g1, phrase, next_token) /\ g1[Len(stack)] = m
  BY <1>2
<1>4. Declaring(stack')
  <2>1. Declaring(stack) BY DEF Inv, StackInv
  <2>2. CASE Len(stack) = 1
    <3>1. Len(stack') = 1 /\ stack'[1].todo = todo BY <1>2, <2>2
    <3> QED BY <2>2, <3>1 DEF Declaring
  <2>3. CASE Len(stack) # 1
    <3>1. Len(stack) > 1 BY <1>1, <2>3, LastIndex
    <3> QED BY <1>1, <1>2, <2>1, <3>1, DeclaringGoesOn
  <2> QED BY <2>2, <2>3
<1>5. StackInv'
  <2>1. /\ StackFits(stack', g1, phrase', next_token')
        /\ Stands(g1[Len(stack')][1], phrase', next_token')
    BY <1>2, <1>3
  <2> QED BY <1>4, <2>1, StackInvNext
<1>6. TextInv' BY DEF Inv, TextInv
<1>7. stack' # <<>> BY <1>3, TopFits
<1>8. stack # <<>> BY TopFits
<1>9. OutcomeInv' BY <1>7, <1>8 DEF Inv, OutcomeInv
<1> QED BY <1>5, <1>6, <1>9 DEF Inv

(* A decision of expect_token keeps the invariant; the language stutters. *)
LEMMA ExpectStep ==
  ASSUME Inv, Expect
  PROVE  Inv' /\ UNCHANGED Language!vars
<1> DEFINE n == Len(stack)
           rest == Tail(Top.todo)
           todo == Announced(Current, next_token) \o rest
<1>1. /\ Todo /\ Current.kind \in {"optional", "list", "tail", "sign"} /\ Top.todo # <<>>
      /\ Current.kind # "has_error" /\ outcome = "reading"
      /\ stack' = WithTop(stack, todo)
      /\ UNCHANGED <<next_token, error_flag, outcome, tree, room, phrase>>
  BY DEF Expect, Todo, WithTop, Callers, Top
<1>2. PICK g : /\ StackFits(stack, g, phrase, next_token)
               /\ Stands(g[n][1], phrase, next_token)
  BY <1>1, StackStands
<1>3. /\ (Top.node = "function_definition") = (n = 1)
      /\ TodoFits(Top.node, rest, Tail(g[n]))
      /\ PartOf(Top.node, Current)
      /\ PartFits(g[n][1], Current, Tail(g[n])[1])
      /\ g[n][1] \in Spots /\ Tail(g[n])[1] \in Spots
      /\ Tail(g[n])[Len(Tail(g[n]))] = g[n][Len(g[n])]
      /\ Top.todo \in Seq(PartSet)
      /\ Top = stack[n]
  BY <1>1, <1>2, InFront
<1>4. /\ next_token \in All /\ Declaring(stack) /\ phrase \in Language!Phrases
  BY <1>1 DEF Inv, TextInv, StackInv
<1> DEFINE s == Tail(g[n])
           a == g[n][1]
<1>5. \E m : /\ TodoFits(Top.node, todo, m)
             /\ Stands(m[1], phrase, next_token)
             /\ m[Len(m)] = s[Len(s)]
  <2>1. /\ Current.kind \in {"optional", "list", "tail", "sign"}
        /\ a \in Spots /\ PartOf(Top.node, Current) /\ PartFits(a, Current, s[1])
        /\ TodoFits(Top.node, rest, s) /\ Stands(a, phrase, next_token)
    BY <1>1, <1>2, <1>3
  <2> HIDE DEF Top, Current, rest, s, a
  <2> QED BY <1>4, <2>1, AnnouncedFits
<1>6. PICK m : /\ TodoFits(Top.node, todo, m)
               /\ Stands(m[1], phrase, next_token)
               /\ m[Len(m)] = s[Len(s)]
  BY <1>5
<1>7. ASSUME n = 1 PROVE Separate(todo)
  <2>1. Separate(Top.todo) BY <1>3, <1>4, <1>7 DEF Declaring
  <2>2. Current.kind = "optional"
    BY <1>1, <1>3, <2>1, SeparateTail DEF Current
  <2> QED BY <1>1, <1>3, <2>1, <2>2, SeparateOptional DEF Current
<1>8. Inv'
  <2>1. m[Len(m)] = g[Len(stack)][Len(g[Len(stack)])]
    BY <1>3, <1>6
  <2> HIDE DEF todo
  <2> QED BY <1>1, <1>2, <1>6, <1>7, <2>1, TopGoesOnInv
<1> QED BY <1>1, <1>8 DEF Language!vars

(* nullptr is returned only at a token the language refuses. *)
LEMMA GivenUp ==
  ASSUME Inv, outcome = "reading", outcome' = "nullptr", stack' = <<>>,
         UNCHANGED <<next_token, tree, room, phrase>>,
         error_flag' \in BOOLEAN, Refused(phrase, next_token),
         ~error_flag' => phrase.at \in {"operand", "signed"}
  PROVE  Inv' /\ Language!Reject
<1>1. TextInv /\ TextInv'
  BY DEF Inv, TextInv
<1>2. OutcomeInv'
  BY DEF Inv, OutcomeInv
<1>3. Language!Reject
  BY <1>1, RefusedStops DEF Language!Reject
<1> QED BY <1>1, <1>2, <1>3 DEF Inv

(* The end of parse_function_definition accepts or rejects (parser.cpp:16). *)
LEMMA FinishStep ==
  ASSUME Inv, Finish
  PROVE  Inv' /\ Language!Next
<1>1. PICK g : /\ StackFits(stack, g, phrase, next_token)
               /\ \/ Stands(g[Len(stack)][1], phrase, next_token)
                  \/ error_flag /\ Aborting(stack)
  BY DEF Inv, StackInv, Finish
<1>2. Len(stack) = 1 /\ Top.todo = <<>> /\ Top = stack[1] /\ outcome = "reading"
      /\ stack # <<>>
  <2>1. Len(stack) = 1 /\ Top.todo = <<>> /\ outcome = "reading"
    BY DEF Finish
  <2>2. Top = stack[1] BY <2>1 DEF Top
  <2> HIDE DEF Top
  <2>3. stack # <<>> BY <1>1, TopFits
  <2> QED BY <2>1, <2>2, <2>3
<1>3. Len(g[1]) = 1
  BY <1>1, <1>2, TopFits DEF FrameFits, TodoFits
<1>4. Stands(AtFunction, phrase, next_token)
  <2>1. ~Aborting(stack) BY <1>2 DEF Aborting
  <2> QED BY <1>1, <1>2, <1>3, <2>1 DEF StackFits
<1>5. phrase.at = "function" /\ phrase \in Language!Phrases /\ next_token \in All
  BY <1>4 DEF Stands, AtFunction, Spot, Inv, TextInv
<1>6. CASE next_token = "EOS"
  <2>1. ~error_flag
    BY <1>2, <1>5, <1>6 DEF Inv, OutcomeInv, Refused
  <2>2. /\ outcome' = "tree" /\ stack' = <<>> /\ UNCHANGED <<error_flag, next_token, room, phrase>>
        /\ tree' = TreeNode(Top.node, FunctionChildren(Top.children), Top.stale)
    BY <1>6 DEF Finish, AtEnd
  <2>3. tree' # NoTree
    <3>1. Top.node = "function_definition" BY <1>1, <1>2, TopFits
    <3>2. tree'.type = "function_definition" BY <2>2, <3>1 DEF TreeNode
    <3>3. NoTree.type = "none" BY DEF NoTree, TreeNode
    <3> QED BY <3>2, <3>3
  <2>4. TextInv' BY <2>2 DEF Inv, TextInv
  <2>5. OutcomeInv' BY <2>1, <2>2, <2>3 DEF Inv, OutcomeInv
  <2>6. Language!Accept
    BY <1>2, <1>5, <1>6, <2>2 DEF Language!Accept, Language!Complete
  <2> QED BY <2>2, <2>4, <2>5, <2>6 DEF Inv, Language!Next
<1>7. CASE next_token # "EOS"
  <2>1. /\ outcome' = "nullptr" /\ stack' = <<>> /\ error_flag' = TRUE
        /\ UNCHANGED <<tree, next_token, room, phrase>>
    BY <1>7 DEF Finish, AtEnd, ReportError
  <2>2. Refused(phrase, next_token)
    BY <1>5, <1>7, FromStatement DEF Refused
  <2> QED BY <1>2, <2>1, <2>2, GivenUp DEF Language!Next
<1> QED BY <1>6, <1>7

(* The frame of the function fits after its declaration is abandoned. *)
LEMMA AbandonedFits ==
  ASSUME NEW st, NEW g, NEW q, NEW t, StackFits(st, g, q, t)
  PROVE  /\ \E g1 : StackFits(<<st[1]>>, g1, q, t)
         /\ Len(<<st[1]>>) = 1 /\ <<st[1]>>[1] = st[1] /\ <<st[1]>> # <<>>
<1> DEFINE f == st[1]
           st2 == <<f>>
           g2 == [i \in {1} |-> g[1]]
<1>1. /\ st2 \in Seq({f}) /\ Len(st2) = 1 /\ st2[1] = f /\ st2 # <<>>
      /\ g2[1] = g[1]
  OBVIOUS
<1>2. 1 \in 1 .. Len(st)
  BY TopFits
<1>3. /\ (f.node = "function_definition") = (1 = 1)
      /\ FrameFits(f, g[1], q, t)
      /\ g[1][Len(g[1])] = AtFunction
  BY <1>2 DEF StackFits
<1> HIDE DEF f, st2, g2
<1>4. \E F : st2 \in Seq(F)
  <2> WITNESS {f}
  <2> QED BY <1>1
<1>5. /\ \A i \in 1 .. Len(st2) : (st2[i].node = "function_definition") = (i = 1)
      /\ \A i \in 1 .. Len(st2) : FrameFits(st2[i], g2[i], q, t)
      /\ \A i \in 1 .. Len(st2) - 1 : g2[i][1] = g2[i + 1][Len(g2[i + 1])]
      /\ Len(st2) > 0 /\ g2[1][Len(g2[1])] = AtFunction
  BY <1>1, <1>3
<1>6. StackFits(st2, g2, q, t)
  BY <1>4, <1>5 DEF StackFits
<1>7. \E h : StackFits(st2, h, q, t)
  <2> WITNESS g2
  <2> QED BY <1>6
<1> QED BY <1>1, <1>7 DEF st2, f

(* A token that is not the expected one is refused by the language; it     *)
(* rejects, now or after the test of has_error().                          *)
LEMMA MismatchStep ==
  ASSUME Inv, Mismatch
  PROVE  Inv' /\ (Language!Reject \/ UNCHANGED Language!vars)
<1> DEFINE n == Len(stack)
<1>1. /\ Todo /\ Current.kind = "terminal" /\ next_token # Current.of
      /\ outcome = "reading" /\ Top.todo # <<>>
      /\ error_flag' = TRUE /\ ReturnNullptr
  BY DEF Mismatch, Matches, ReportError, Todo
<1>2. PICK g : /\ StackFits(stack, g, phrase, next_token)
               /\ Stands(g[n][1], phrase, next_token)
  BY <1>1, StackStands
<1>3. PartFits(g[n][1], Current, Tail(g[n])[1])
  BY <1>1, <1>2, InFront
<1>4. TerminalFits(g[n][1], Current.of, Tail(g[n])[1])
  BY <1>1, <1>3 DEF PartFits
<1>5. /\ next_token \in All /\ phrase \in Language!Phrases /\ Declaring(stack)
      /\ next_token \in g[n][1].may
  BY <1>1, <1>2 DEF Inv, TextInv, StackInv, Stands
<1>6. Refused(phrase, next_token)
  BY <1>1, <1>2, <1>4, <1>5 DEF TerminalFits
<1>7. CASE Len(stack) > 1 /\ stack[2].node \in Declarations
  <2>1. stack' = <<stack[1]>> /\ UNCHANGED <<next_token, outcome, tree, room, phrase>>
    BY <1>1, <1>7 DEF ReturnNullptr
  <2>2. /\ Separate(stack[1].todo) /\ stack[1].todo # <<>>
        /\ Head(stack[1].todo) = HasError
    BY <1>5, <1>7 DEF Declaring
  <2>3. PICK g1 : StackFits(stack', g1, phrase, next_token)
    BY <1>2, <2>1, AbandonedFits
  <2>4. Len(stack') = 1 /\ stack'[1] = stack[1] /\ stack' # <<>>
    BY <1>2, <2>1, AbandonedFits
  <2>5. Declaring(stack') /\ Aborting(stack')
    BY <2>2, <2>4 DEF Declaring, Aborting
  <2>6. StackInv'
    BY <1>1, <2>1, <2>3, <2>5 DEF StackInv
  <2>7. TextInv' BY <2>1 DEF Inv, TextInv
  <2>8. OutcomeInv' BY <1>1, <1>6, <2>1, <2>4 DEF Inv, OutcomeInv
  <2> QED BY <2>1, <2>6, <2>7, <2>8 DEF Inv, Language!vars
<1>8. CASE ~(Len(stack) > 1 /\ stack[2].node \in Declarations)
  <2>1. /\ outcome' = "nullptr" /\ stack' = <<>>
        /\ UNCHANGED <<next_token, tree, room, phrase>>
    BY <1>1, <1>8 DEF ReturnNullptr
  <2> QED BY <1>1, <1>6, <2>1, GivenUp
<1> QED BY <1>7, <1>8

(* An operand that is missing is refused by the language, and no           *)
(* declaration is there to catch it.                                       *)
LEMMA NoAlternativeStep ==
  ASSUME Inv, NoAlternative
  PROVE  Inv' /\ Language!Reject
<1> DEFINE n == Len(stack)
<1>1. /\ Todo /\ Current.kind = "nullptr" /\ outcome = "reading" /\ Top.todo # <<>>
      /\ UNCHANGED error_flag /\ ReturnNullptr
  BY DEF NoAlternative, Todo
<1>2. PICK g : /\ StackFits(stack, g, phrase, next_token)
               /\ Stands(g[n][1], phrase, next_token)
  BY <1>1, StackStands
<1>3. /\ n \in Nat /\ n > 0
      /\ PartOf(Top.node, Current)
      /\ PartFits(g[n][1], Current, Tail(g[n])[1])
      /\ Top = stack[n]
  BY <1>1, <1>2, InFront
<1>4. next_token \in All /\ phrase \in Language!Phrases /\ Declaring(stack)
  BY <1>1 DEF Inv, TextInv, StackInv
<1>5. Refused(phrase, next_token) /\ phrase.at \in {"operand", "signed"}
  BY <1>1, <1>2, <1>3, <1>4 DEF PartFits
<1>6. ~(Len(stack) > 1 /\ stack[2].node \in Declarations)
  <2>1. Top.node \notin DeclaringNodes
    BY <1>1, <1>3 DEF PartOf
  <2>2. ASSUME Len(stack) > 1, stack[2].node \in Declarations
        PROVE  FALSE
    <3>1. n \in 2 .. n BY <1>3, <2>2
    <3>2. stack[n].node \in DeclaringNodes
      BY <1>4, <2>2, <3>1 DEF Declaring
    <3> QED BY <1>3, <2>1, <3>2
  <2> QED BY <2>2
<1>7. /\ outcome' = "nullptr" /\ stack' = <<>>
      /\ UNCHANGED <<next_token, tree, room, phrase>>
  BY <1>1, <1>6 DEF ReturnNullptr
<1>8. error_flag' \in BOOLEAN BY <1>1 DEF Inv, OutcomeInv
<1> QED BY <1>1, <1>5, <1>7, <1>8, GivenUp

(* has_error() is true only where the language refuses the lookahead. *)
LEMMA TestHasErrorStep ==
  ASSUME Inv, TestHasError
  PROVE  Inv' /\ (Language!Reject \/ UNCHANGED Language!vars)
<1> DEFINE rest == Tail(Top.todo)
<1>1. /\ Todo /\ Current.kind = "has_error" /\ outcome = "reading" /\ Top.todo # <<>>
      /\ stack' = IF error_flag THEN <<>> ELSE <<Going(Top, rest)>>
      /\ outcome' = IF error_flag THEN "nullptr" ELSE outcome
      /\ UNCHANGED <<next_token, error_flag, tree, room, phrase>>
  BY DEF TestHasError, Todo
<1>2. CASE error_flag
  <2>1. /\ outcome' = "nullptr" /\ stack' = <<>> BY <1>1, <1>2
  <2>2. Refused(phrase, next_token) /\ error_flag' \in BOOLEAN /\ error_flag'
    BY <1>1, <1>2 DEF Inv, OutcomeInv
  <2> QED BY <1>1, <2>1, <2>2, GivenUp
<1>3. CASE ~error_flag
  <2>1. PICK g : /\ StackFits(stack, g, phrase, next_token)
                 /\ Stands(g[Len(stack)][1], phrase, next_token)
    BY <1>1, <1>3 DEF Inv, StackInv
  <2> DEFINE n == Len(stack)
             s == Tail(g[n])
  <2>2. /\ (Top.node = "function_definition") = (n = 1)
        /\ TodoFits(Top.node, rest, s)
        /\ PartOf(Top.node, Current)
        /\ PartFits(g[n][1], Current, s[1])
        /\ s[Len(s)] = g[n][Len(g[n])]
        /\ Top.todo \in Seq(PartSet)
        /\ Top = stack[n]
    BY <1>1, <2>1, InFront
  <2>3. n = 1 /\ g[n][1] = s[1]
    BY <1>1, <2>2 DEF PartOf, PartFits
  <2>4. Separate(rest)
    <3>1. Separate(Top.todo) BY <1>1, <2>2, <2>3 DEF Declaring, Inv, StackInv
    <3> QED BY <1>1, <2>2, <3>1, SeparateTail
  <2>5. stack' = WithTop(stack, rest)
    <3>1. SubSeq(stack, 1, 0) = <<>> BY SubSeqEmpty
    <3>2. stack' = <<Going(Top, rest)>> BY <1>1, <1>3
    <3>3. WithTop(stack, rest) = Append(<<>>, Going(Top, rest))
      <4>1. n = 1 /\ stack[n] = Top /\ n - 1 = 0 BY <2>2, <2>3
      <4> DEFINE f == Going(stack[n], rest)
      <4>2. WithTop(stack, rest) = Append(SubSeq(stack, 1, n - 1), f)
        BY DEF WithTop
      <4>3. f = Going(Top, rest) BY <4>1
      <4> HIDE DEF f, n
      <4> QED BY <3>1, <4>1, <4>2, <4>3
    <3> HIDE DEF rest, Top
    <3> QED BY <3>2, <3>3
  <2>6. /\ Stands(s[1], phrase, next_token)
        /\ s[Len(s)] = g[Len(stack)][Len(g[Len(stack)])]
        /\ outcome' = outcome
    BY <1>1, <1>3, <2>1, <2>2, <2>3
  <2>7. Inv'
    <3> HIDE DEF s, rest
    <3> QED BY <1>1, <2>1, <2>2, <2>4, <2>5, <2>6, TopGoesOnInv
  <2> QED BY <1>1, <2>6, <2>7 DEF Language!vars
<1> QED BY <1>2, <1>3

(* The stack without its top frame, with h in the place of the caller. *)
WithoutTop(st, h) == [SubSeq(st, 1, Len(st) - 1) EXCEPT ![Len(st) - 1] = h]

(* A stack whose top frame is gone and whose new top got a child. *)
LEMMA HandedDown ==
  ASSUME NEW st, \E F : st \in Seq(F), Len(st) > 1, NEW h
  PROVE  /\ \E R : WithoutTop(st, h) \in Seq(R)
         /\ Len(WithoutTop(st, h)) = Len(st) - 1
         /\ WithoutTop(st, h)[Len(st) - 1] = h
         /\ \A i \in 1 .. Len(st) : i < Len(st) - 1 => WithoutTop(st, h)[i] = st[i]
         /\ SubSeq(st, 1, Len(st) - 1)[Len(st) - 1] = st[Len(st) - 1]
<1>a. PICK F : st \in Seq(F)
  OBVIOUS
<1> DEFINE n == Len(st)
           u == SubSeq(st, 1, n - 1)
           R == F \cup {h}
           v == [u EXCEPT ![n - 1] = h]
<1>0. n \in Nat /\ n > 1
  BY <1>a
<1> HIDE DEF n
<1>1. n - 1 \in Nat /\ n - 1 >= 1 /\ \A i \in 1 .. n - 1 : i \in 1 .. n
  BY <1>0
<1>2. \A i \in 1 .. n - 1 : st[i] \in R
  BY <1>a, <1>1 DEF n
<1>3. /\ u \in Seq(R)
      /\ Len(u) = IF 1 <= n - 1 THEN n - 1 - 1 + 1 ELSE 0
      /\ \A i \in 1 .. n - 1 - 1 + 1 : u[i] = st[1 + i - 1]
  <2> HIDE DEF R
  <2>1. 1 \in Int /\ n - 1 \in Int BY <1>1
  <2> QED BY <1>2, <2>1, SubSeqProperties
<1>4. u \in Seq(R) /\ Len(u) = n - 1 /\ \A i \in 1 .. n - 1 : u[i] = st[i]
  <2> HIDE DEF u, R
  <2>1. n - 1 - 1 + 1 = n - 1 BY <1>0
  <2>2. Len(u) = n - 1 BY <1>0, <1>3, LastIndex
  <2>3. ASSUME NEW i \in 1 .. n - 1 PROVE u[i] = st[i]
    <3>1. 1 + i - 1 = i OBVIOUS
    <3>2. u[i] = st[1 + i - 1] BY <1>3, <2>1
    <3> QED BY <3>1, <3>2
  <2> QED BY <1>3, <2>2, <2>3
<1>5. h \in R OBVIOUS
<1> HIDE DEF u, R
<1>6. v \in Seq(R) /\ Len(v) = n - 1
  BY <1>1, <1>4, <1>5
<1>7. v[n - 1] = h /\ \A i \in 1 .. n - 2 : v[i] = u[i]
  BY <1>0, <1>1, <1>4
<1>8. /\ v \in Seq(R) /\ Len(v) = n - 1 /\ v[n - 1] = h
      /\ \A i \in 1 .. n : i < n - 1 => v[i] = st[i]
      /\ u[n - 1] = st[n - 1]
  <2> HIDE DEF v
  <2>1. \A i \in 1 .. n : i < n - 1 => i \in 1 .. n - 1 /\ i \in 1 .. n - 2 BY <1>0
  <2>2. n - 1 \in 1 .. n - 1 BY <1>1
  <2> QED BY <1>4, <1>6, <1>7, <2>1, <2>2
<1>9. \E Q : v \in Seq(Q)
  <2> WITNESS R
  <2> QED BY <1>8
<1> QED BY <1>8, <1>9 DEF n, u, R, WithoutTop

(* A node that is returned has its position; the language stutters. *)
LEMMA ReturnNodeStep ==
  ASSUME Inv, ReturnNode
  PROVE  Inv' /\ UNCHANGED Language!vars
<1> DEFINE n == Len(stack)
           below == stack[n - 1]
           child == TreeNode(Top.node, Top.children, Top.stale)
           h == [below EXCEPT !.children = Append(below.children, child)]
<1>1. /\ outcome = "reading" /\ Top.todo = <<>> /\ n > 1
      /\ stack' = [SubSeq(stack, 1, n - 1) EXCEPT
                      ![n - 1] = [SubSeq(stack, 1, n - 1)[n - 1] EXCEPT !.children =
                         Append(SubSeq(stack, 1, n - 1)[n - 1].children, child)]]
      /\ UNCHANGED <<next_token, error_flag, outcome, tree, room, phrase>>
  BY DEF ReturnNode, Callers
<1>2. PICK g : /\ StackFits(stack, g, phrase, next_token)
               /\ \/ Stands(g[n][1], phrase, next_token)
                  \/ error_flag /\ Aborting(stack)
  BY <1>1 DEF Inv, StackInv
<1>3. /\ n \in Nat /\ n \in 1 .. n /\ FrameFits(stack[n], g[n], phrase, next_token)
      /\ Stands(g[n][1], phrase, next_token)
  BY <1>1, <1>2, TopFits DEF Aborting
<1>4. n - 1 \in 1 .. n /\ n - 1 \in 1 .. n - 1 /\ (n - 1) + 1 = n
  BY <1>1, <1>3
<1>5. Len(g[n]) = 1 /\ ~Top.stale
  <2>1. TodoFits(Top.node, <<>>, g[n]) BY <1>1, <1>3 DEF FrameFits, Top
  <2>2. Len(g[n]) = 1 BY <2>1 DEF TodoFits
  <2> QED BY <1>3, <2>2 DEF FrameFits, Top
<1>6. g[n - 1][1] = g[n][1]
  BY <1>2, <1>4, <1>5 DEF StackFits
<1>7. FrameFits(below, g[n - 1], phrase, next_token)
  BY <1>2, <1>4 DEF StackFits
<1>8. /\ FrameFits(h, g[n - 1], phrase, next_token)
      /\ h.node = below.node /\ h.todo = below.todo
  <2>1. child.stale = Top.stale BY DEF TreeNode
  <2> HIDE DEF child, below
  <2>2. Sound(Append(below.children, child))
    BY <1>5, <1>7, <2>1, OneMoreChild DEF FrameFits
  <2>3. /\ IsFrame(h) /\ h.node = below.node /\ h.todo = below.todo
        /\ h.children = Append(below.children, child) /\ h.stale = below.stale
    BY <1>7, ChildrenFacts DEF FrameFits
  <2> HIDE DEF h
  <2> QED BY <1>7, <2>2, <2>3 DEF FrameFits
<1>9. \E F : stack \in Seq(F)
  BY <1>2 DEF StackFits
<1>10. /\ \E R : stack' \in Seq(R)
       /\ Len(stack') = n - 1 /\ stack'[n - 1] = h
       /\ \A i \in 1 .. n - 2 : stack'[i] = stack[i]
  <2>1. SubSeq(stack, 1, n - 1)[n - 1] = below
    BY <1>1, <1>9, HandedDown
  <2>2. stack' = WithoutTop(stack, h) BY <1>1, <2>1 DEF WithoutTop
  <2> HIDE DEF h
  <2>3. /\ \E R : WithoutTop(stack, h) \in Seq(R)
        /\ Len(WithoutTop(stack, h)) = Len(stack) - 1
        /\ WithoutTop(stack, h)[Len(stack) - 1] = h
        /\ \A i \in 1 .. Len(stack) : i < Len(stack) - 1 => WithoutTop(stack, h)[i] = stack[i]
    BY <1>1, <1>9, HandedDown
  <2>4. \A i \in 1 .. n - 2 : i \in 1 .. n /\ i < n - 1 BY <1>3
  <2> QED BY <2>2, <2>3, <2>4
<1> HIDE DEF h
<1>11. \A i \in 1 .. n - 1 : i = n - 1 \/ i \in 1 .. n - 2
  BY <1>3
<1>12. StackFits(stack', g, phrase, next_token)
  <2>1. \E R : stack' \in Seq(R)
    BY <1>10
  <2>2. \A i \in 1 .. n - 1 : stack'[i].node = stack[i].node
    BY <1>8, <1>10, <1>11
  <2>3. \A i \in 1 .. n - 1 : (stack'[i].node = "function_definition") = (i = 1)
    BY <1>2, <1>3, <2>2 DEF StackFits
  <2>4. ASSUME NEW i \in 1 .. n - 1
        PROVE  FrameFits(stack'[i], g[i], phrase, next_token)
    <3>1. CASE i = n - 1 BY <1>8, <1>10, <3>1
    <3>2. CASE i \in 1 .. n - 2
      <4>1. i \in 1 .. n /\ stack'[i] = stack[i] BY <1>3, <1>10, <3>2
      <4>2. FrameFits(stack[i], g[i], phrase, next_token) BY <1>2, <4>1 DEF StackFits
      <4> QED BY <4>1, <4>2
    <3> QED BY <1>11, <3>1, <3>2
  <2>5. \A i \in 1 .. (n - 1) - 1 : g[i][1] = g[i + 1][Len(g[i + 1])]
    BY <1>2, <1>3 DEF StackFits
  <2>6. Len(stack') > 0 BY <1>4, <1>10
  <2>7. g[1][Len(g[1])] = AtFunction BY <1>2 DEF StackFits
  <2> QED BY <1>10, <2>1, <2>3, <2>4, <2>5, <2>6, <2>7 DEF StackFits
<1>13. Declaring(stack')
  <2>1. Declaring(stack) BY <1>1 DEF Inv, StackInv
  <2>2. \A i \in 1 .. n - 1 : stack'[i].node = stack[i].node /\ stack'[i].todo = stack[i].todo
    BY <1>8, <1>10, <1>11
  <2>3. stack'[1].todo = stack[1].todo BY <1>4, <2>2
  <2>4. ASSUME n - 1 > 1, stack'[2].node \in Declarations
        PROVE  /\ stack[1].todo # <<>> /\ Head(stack[1].todo) = HasError
               /\ \A i \in 2 .. n - 1 : stack'[i].node \in DeclaringNodes
    <3>1. stack[2].node \in Declarations /\ \A i \in 2 .. n - 1 : i \in 2 .. n
      BY <1>3, <2>2, <2>4
    <3> QED BY <1>1, <2>1, <2>2, <3>1 DEF Declaring
  <2> QED BY <1>10, <2>1, <2>3, <2>4 DEF Declaring
<1>14. StackInv'
  <2>1. /\ StackFits(stack', g, phrase', next_token')
        /\ Stands(g[Len(stack')][1], phrase', next_token')
    BY <1>1, <1>3, <1>6, <1>10, <1>12
  <2> QED BY <1>13, <2>1, StackInvNext
<1>15. TextInv' BY <1>1 DEF Inv, TextInv
<1>16. stack' # <<>> /\ stack # <<>> BY <1>2, <1>12, TopFits
<1>17. OutcomeInv' BY <1>1, <1>16 DEF Inv, OutcomeInv
<1> QED BY <1>1, <1>14, <1>15, <1>17 DEF Inv, Language!vars

(* A token that is consumed is one the language reads. *)
LEMMA ConsumeStep ==
  ASSUME Inv, Consume
  PROVE  Inv' /\ Language!Shift
<1> DEFINE n == Len(stack)
           rest == Tail(Top.todo)
           leaf == Leaf(Current.of)
           h == Going(Top, rest)
           f == [h EXCEPT !.children = Append(h.children, leaf)]
           read == Language!Extended(phrase, Current.of)
<1>1. /\ Todo /\ Current.kind = "terminal" /\ next_token = Current.of
      /\ Current.kind # "has_error" /\ outcome = "reading" /\ Top.todo # <<>>
      /\ stack' = Append(Callers, f)
      /\ room' = [room EXCEPT !.left = IF Current.of = "BEGIN" THEN room.body
                                       ELSE room.left - 1]
      /\ next_token' \in IF next_token = Nullopt THEN {Nullopt} ELSE Lexed(room')
      /\ error_flag' = (error_flag \/ next_token' = Nullopt)
      /\ phrase' = read
      /\ UNCHANGED <<outcome, tree>>
  BY DEF Consume, Matches, Todo
<1>2. PICK g : /\ StackFits(stack, g, phrase, next_token)
               /\ Stands(g[n][1], phrase, next_token)
  BY <1>1, StackStands
<1> DEFINE s == Tail(g[n])
<1>3. /\ n \in Nat /\ n > 0 /\ stack # <<>>
      /\ TodoFits(Top.node, rest, s)
      /\ PartOf(Top.node, Current)
      /\ PartFits(g[n][1], Current, s[1])
      /\ s[Len(s)] = g[n][Len(g[n])]
      /\ Top.todo \in Seq(PartSet)
      /\ Top = stack[n]
  BY <1>1, <1>2, InFront
<1>4. TerminalFits(g[n][1], Current.of, s[1]) /\ Current.of \in TokenTypes
  BY <1>1, <1>3 DEF PartFits, PartOf
<1>5. /\ next_token \in All /\ phrase \in Language!Phrases /\ Declaring(stack)
      /\ next_token \in g[n][1].may
      /\ room \in [types : SUBSET TokenTypes, left : Nat, body : Nat]
      /\ next_token \in TokenTypes => room.left > 0
  BY <1>1, <1>2 DEF Inv, TextInv, StackInv, Stands
<1>6. /\ read \in Language!Phrases \ {Language!NoPhrase}
      /\ \A u \in All : Stands(s[1], read, u)
  BY <1>1, <1>2, <1>4, <1>5 DEF TerminalFits
<1>7. next_token # Nullopt
  BY <1>1, <1>4, ParserAssumption
<1>8. ~error_flag
  <2>1. error_flag => Refused(phrase, next_token) BY <1>1 DEF Inv, OutcomeInv
  <2> QED BY <1>1, <1>4, <1>6, <2>1 DEF Refused
<1>9. /\ TextInv' /\ next_token' \in All
  <2>1. room.left > 0 /\ room.left \in Nat /\ room.body \in Nat BY <1>1, <1>4, <1>5
  <2>2. room.left - 1 \in Nat BY <2>1
  <2>3. room' \in [types : SUBSET TokenTypes, left : Nat, body : Nat]
    BY <1>1, <1>5, <2>1, <2>2
  <2>4. next_token' \in Lexed(room') BY <1>1, <1>7
  <2>5. next_token' \in All /\ (next_token' \in TokenTypes => room'.left > 0)
    BY <2>3, <2>4, ParserAssumption DEF Lexed, All, TokenTypes
  <2> QED BY <1>1, <1>6, <2>3, <2>5 DEF TextInv
<1>10. /\ FrameFits(f, s, phrase', next_token')
       /\ f.node = stack[n].node /\ f.todo = rest
  <2>1. FrameFits(Top, g[n], phrase, next_token) BY <1>2, TopFits DEF Top
  <2>2. IsFrame(Top) /\ Sound(Top.children) /\ ~Top.stale
    BY <1>7, <2>1 DEF FrameFits
  <2> HIDE DEF Top, rest
  <2>3. /\ IsFrame(h) /\ h.node = Top.node /\ h.todo = rest
        /\ h.children = Top.children /\ h.stale = Top.stale
    BY <2>2, GoingFacts
  <2> HIDE DEF h
  <2>4. ~leaf.stale BY DEF Leaf, TreeNode
  <2> HIDE DEF leaf
  <2>5. Sound(Append(h.children, leaf)) BY <2>2, <2>3, <2>4, OneMoreChild
  <2>6. /\ IsFrame(f) /\ f.node = Top.node /\ f.todo = rest
        /\ f.children = Append(h.children, leaf) /\ f.stale = Top.stale
    BY <2>3, ChildrenFacts
  <2> HIDE DEF f, s
  <2> QED BY <1>3, <2>2, <2>5, <2>6 DEF FrameFits
<1>11. /\ \E g1 : StackFits(stack', g1, phrase', next_token') /\ g1[n] = s
       /\ Len(stack') = n /\ stack'[n] = f
       /\ \A i \in 1 .. n - 1 : stack'[i] = stack[i]
  <2> DEFINE g2 == [i \in 1 .. Len(stack) |-> IF i = Len(stack) THEN s ELSE g[i]]
             st2 == Append(SubSeq(stack, 1, Len(stack) - 1), f)
  <2>1. stack' = st2 BY <1>1 DEF Callers
  <2>2. /\ StackFits(st2, g2, phrase', next_token')
        /\ Len(st2) = Len(stack) /\ st2[Len(stack)] = f /\ g2[Len(stack)] = s
        /\ \A i \in 1 .. Len(stack) - 1 : st2[i] = stack[i]
    <3>1. /\ StackFits(stack, g, phrase, next_token)
          /\ f.node = stack[Len(stack)].node /\ FrameFits(f, s, phrase', next_token')
          /\ s[Len(s)] = g[Len(stack)][Len(g[Len(stack)])]
      BY <1>2, <1>3, <1>10
    <3> HIDE DEF f, s
    <3> QED BY <1>7, <3>1, TopGoesOn
  <2> HIDE DEF g2, st2, f, s
  <2> QED BY <2>1, <2>2
<1> HIDE DEF f, s
<1>12. PICK g1 : StackFits(stack', g1, phrase', next_token') /\ g1[n] = s
  BY <1>11
<1>13. Declaring(stack')
  <2>1. CASE n = 1
    <3>1. Len(stack') = 1 /\ stack'[1].todo = rest BY <1>10, <1>11, <2>1
    <3>2. Separate(Top.todo) BY <1>3, <1>5, <2>1 DEF Declaring
    <3>3. Separate(rest) BY <1>1, <1>3, <3>2, SeparateTail
    <3> QED BY <3>1, <3>3 DEF Declaring
  <2>2. CASE n # 1
    <3>1. n > 1 BY <1>3, <2>2, LastIndex
    <3> QED BY <1>3, <1>5, <1>10, <1>11, <3>1, DeclaringGoesOn
  <2> QED BY <2>1, <2>2
<1>14. StackInv'
  <2>1. Stands(s[1], phrase', next_token') BY <1>1, <1>6, <1>9
  <2>2. Stands(g1[Len(stack')][1], phrase', next_token') BY <1>11, <1>12, <2>1
  <2> QED BY <1>12, <1>13, <2>2, StackInvNext
<1>15. OutcomeInv'
  <2>1. stack' # <<>> BY <1>12, TopFits
  <2>2. error_flag' \in BOOLEAN /\ (error_flag' => next_token' = Nullopt)
    BY <1>1, <1>8
  <2>3. error_flag' => Refused(phrase', next_token')
    BY <2>2, ParserAssumption DEF Refused
  <2> QED BY <1>1, <1>3, <2>1, <2>2, <2>3 DEF Inv, OutcomeInv
<1>16. Language!Shift
  <2>1. Language!Continues(next_token)
    BY <1>1, <1>4, <1>6 DEF Language!Continues
  <2>2. next_token' \in Language!Tokens BY <1>9 DEF Language!Tokens, All
  <2> QED BY <1>1, <2>1, <2>2 DEF Language!Shift
<1> QED BY <1>9, <1>14, <1>15, <1>16 DEF Inv

-----------------------------------------------------------------------------
(* Every step keeps the invariant and is one of the language or none. *)
LEMMA NextStep ==
  ASSUME Inv, [Next]_vars
  PROVE  Inv' /\ [Language!Next]_Language!vars
<1>1. CASE CallParse BY <1>1, CallParseStep
<1>2. CASE Expect BY <1>2, ExpectStep
<1>3. CASE Consume BY <1>3, ConsumeStep DEF Language!Next
<1>4. CASE Mismatch BY <1>4, MismatchStep DEF Language!Next
<1>5. CASE NoAlternative BY <1>5, NoAlternativeStep DEF Language!Next
<1>6. CASE TestHasError BY <1>6, TestHasErrorStep DEF Language!Next
<1>7. CASE ReturnNode BY <1>7, ReturnNodeStep
<1>8. CASE Finish BY <1>8, FinishStep
<1>9. CASE UNCHANGED vars
  <2>1. TextInv' BY <1>9 DEF Inv, TextInv, vars
  <2>2. OutcomeInv' BY <1>9 DEF Inv, OutcomeInv, vars
  <2>3. (outcome = "reading" => StackInv)' BY <1>9 DEF Inv, StackInv, vars
  <2>4. UNCHANGED Language!vars BY <1>9 DEF vars, Language!vars
  <2> QED BY <2>1, <2>2, <2>3, <2>4 DEF Inv
<1> QED BY <1>1, <1>2, <1>3, <1>4, <1>5, <1>6, <1>7, <1>8, <1>9 DEF Next

(* The invariant that relates the frames on the stack to the tokens        *)
(* consumed.                                                               *)
THEOREM ParserInvariance == Spec => []Inv
<1>1. Init => Inv BY InitInv
<1>2. Inv /\ [Next]_vars => Inv' BY NextStep
<1> QED BY <1>1, <1>2, PTL DEF Spec

(* Every variable of Parser keeps its type, for any bounds on the text. *)
THEOREM ParserTypeCorrect == Spec => []TypeOK
<1> SUFFICES ASSUME Inv PROVE TypeOK
  BY ParserInvariance, PTL
<1>1. /\ next_token \in TokenTypes \cup {"EOS", Nullopt}
      /\ error_flag \in BOOLEAN
      /\ outcome \in {"reading", "tree", "nullptr"}
      /\ (stack = <<>>) = (outcome # "reading")
      /\ (tree = NoTree) = (outcome # "tree")
      /\ room.left \in Nat
      /\ phrase \in Language!Phrases
  BY DEF Inv, TextInv, OutcomeInv, All
<1>2. ASSUME NEW i \in 1 .. Len(stack)
      PROVE  /\ stack[i].node = "function_definition" <=> i = 1
             /\ \A k \in 1 .. Len(stack[i].todo) : stack[i].todo[k].kind \in Kinds
  <2>1. stack # <<>> BY <1>2
  <2>2. StackInv BY <1>1, <2>1 DEF Inv
  <2>3. PICK g : StackFits(stack, g, phrase, next_token) BY <2>2 DEF StackInv
  <2>4. /\ (stack[i].node = "function_definition") = (i = 1)
        /\ FrameFits(stack[i], g[i], phrase, next_token)
    BY <2>3 DEF StackFits
  <2>5. stack[i].todo \in Seq(PartSet) BY <2>4 DEF FrameFits, TodoFits
  <2>6. \A part \in PartSet : part.kind \in Kinds BY DEF PartSet
  <2> QED BY <2>4, <2>5, <2>6
<1> QED BY <1>1, <1>2 DEF TypeOK

(* No parse tree node ever carries a position read from an empty lookahead. *)
THEOREM NodesAlwaysHavePosition == Spec => []NodesHavePosition
<1> SUFFICES ASSUME Inv PROVE NodesHavePosition
  BY ParserInvariance, PTL
<1> SUFFICES ASSUME NEW i \in 1 .. Len(stack), NEW k \in 1 .. Len(stack[i].children)
             PROVE  ~stack[i].children[k].stale
  BY DEF NodesHavePosition
<1>1. stack # <<>> OBVIOUS
<1>2. StackInv BY <1>1 DEF Inv, OutcomeInv
<1>3. PICK g : StackFits(stack, g, phrase, next_token) BY <1>2 DEF StackInv
<1>4. Sound(stack[i].children) BY <1>3 DEF StackFits, FrameFits
<1> QED BY <1>4 DEF Sound

(* A tree comes without an error and nullptr with one, unless an operand   *)
(* is missing.                                                             *)
THEOREM ErrorFlagAlwaysAgrees == Spec => []ErrorFlagAgrees
<1>1. Inv => ErrorFlagAgrees BY DEF Inv, OutcomeInv, ErrorFlagAgrees
<1> QED BY <1>1, ParserInvariance, PTL

(* Every run of the parser is, without its fairness, one of the            *)
(* recogniser: it accepts what the language contains and gives up at the   *)
(* first token that cannot belong to it.                                   *)
THEOREM ParserImplementsGrammar ==
  Spec => Language!Init /\ [][Language!Next]_Language!vars
<1>1. Init => Language!Init
  <2> SUFFICES ASSUME Init PROVE Language!Init
    OBVIOUS
  <2>1. next_token \in All BY InitInv DEF Inv, TextInv
  <2> QED BY <2>1 DEF Init, Language!Init, Language!Tokens, All
<1>2. Inv /\ [Next]_vars => [Language!Next]_Language!vars BY NextStep
<1> QED BY <1>1, <1>2, ParserInvariance, PTL DEF Spec
================================================================================
