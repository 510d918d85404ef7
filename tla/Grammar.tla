-------------------------------- MODULE Grammar --------------------------------
(***************************************************************************)
(* The language of PL/0 functions as a recogniser that reads one token     *)
(* after the other: what class parser promises.  A phrase says what may    *)
(* come next (at), which of the declarations PARAM, VAR and CONST came     *)
(* last (rank, 1 to 3) and how many brackets are open (depth).  A text is  *)
(* refused at the first token that no function continues.                  *)
(***************************************************************************)
EXTENDS Naturals

CONSTANT TokenTypes,   \* the types of tokens a text is made of
         Nullopt       \* what the lexer returns for an invalid symbol

VARIABLES phrase,      \* the tokens read so far
          next_token,  \* the lookahead
          verdict      \* reading, tree or nullptr

vars == <<phrase, next_token, verdict>>

Phrase(at, rank, depth) == [at |-> at, rank |-> rank, depth |-> depth]

NoPhrase == Phrase("no function", 0, 0)

Places == {"section", "name", "constant", "value", "declared", "statement", "target",
           "operand", "signed", "operator", "end", "function"}
Phrases == [at : Places, rank : 0 .. 3, depth : Nat]

Keyword == <<"PARAM", "VAR", "CONST">>
Rank(t) == CHOOSE r \in 1 .. 3 : Keyword[r] = t

(* The phrase that q and a token t make. *)
Extended(q, t) ==
    LET To(at) == Phrase(at, q.rank, q.depth) IN
    CASE q.at = "section" /\ \E r \in q.rank + 1 .. 3 : Keyword[r] = t ->
            Phrase("name", Rank(t), 0)
      [] q.at = "section" /\ t = "BEGIN" -> To("statement")
      [] q.at = "name" /\ t = "IDENTIFIER" ->
            To(IF q.rank = 3 THEN "constant" ELSE "declared")
      [] q.at = "constant" /\ t = "INIT_ASSIGNMENT_OP" -> To("value")
      [] q.at = "value" /\ t = "LITERAL" -> To("declared")
      [] q.at = "declared" /\ t = "SEPARATOR" -> To("name")
      [] q.at = "declared" /\ t = "STATEMENT_TERMINATOR" -> To("section")
      [] q.at = "statement" /\ t = "RETURN" -> To("operand")
      [] q.at = "statement" /\ t = "IDENTIFIER" -> To("target")
      [] q.at = "target" /\ t = "VAR_ASSIGNMENT_OP" -> To("operand")
      [] q.at = "operand" /\ t \in {"PLUS_OP", "MINUS_OP"} -> To("signed")
      [] q.at \in {"operand", "signed"} /\ t \in {"IDENTIFIER", "LITERAL"} ->
            To("operator")
      [] q.at \in {"operand", "signed"} /\ t = "L_BRACKET" ->
            Phrase("operand", q.rank, q.depth + 1)
      [] q.at = "operator" /\ t \in {"PLUS_OP", "MINUS_OP", "MULT_OP", "DIV_OP"} ->
            To("operand")
      [] q.at = "operator" /\ t = "R_BRACKET" /\ q.depth > 0 ->
            Phrase("operator", q.rank, q.depth - 1)
      [] q.at = "operator" /\ t = "STATEMENT_TERMINATOR" /\ q.depth = 0 ->
            To("statement")
      [] q.at = "operator" /\ t = "END" /\ q.depth = 0 -> To("end")
      [] q.at = "end" /\ t = "PROGRAM_TERMINATOR" -> To("function")
      [] OTHER -> NoPhrase

Continues(t) == t \in TokenTypes /\ Extended(phrase, t) # NoPhrase

Complete == phrase.at = "function" /\ next_token = "EOS"

(* What the lexer gives: anything, but the end of the text and an invalid  *)
(* symbol stay.                                                            *)
Tokens == TokenTypes \cup {"EOS", Nullopt}

Init == /\ phrase = Phrase("section", 0, 0)
        /\ next_token \in Tokens
        /\ verdict = "reading"

Shift == /\ verdict = "reading"
         /\ Continues(next_token)
         /\ phrase' = Extended(phrase, next_token)
         /\ next_token' \in Tokens
         /\ UNCHANGED verdict

Accept == /\ verdict = "reading"
          /\ Complete
          /\ verdict' = "tree"
          /\ UNCHANGED <<phrase, next_token>>

Reject == /\ verdict = "reading"
          /\ ~Complete /\ ~Continues(next_token)
          /\ verdict' = "nullptr"
          /\ UNCHANGED <<phrase, next_token>>

Next == Shift \/ Accept \/ Reject

Spec == Init /\ [][Next]_vars /\ WF_vars(Next)
===============================================================================
