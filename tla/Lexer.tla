-------------------------------- MODULE Lexer --------------------------------
(***************************************************************************)
(* class lexer.  A call of next() skips white space and reads one token;   *)
(* the loops inside it are modelled turn by turn, because the iterator is  *)
(* dereferenced in each turn and must not stand behind the text then.      *)
(* next() may be called again after the end of the text and after an       *)
(* invalid symbol.                                                         *)
(***************************************************************************)
EXTENDS SourceCode

CONSTANTS Texts,     \* the source texts
          Whitespace, Digits, Letters,
          Symbols,   \* the one-character tokens and the two halves of :=
          Keywords   \* maps the words that are keywords to their tokens

ASSUME LexerAssumption ==
    /\ Texts \subseteq Seq(Chars)
    /\ Whitespace \cup Digits \cup Letters \cup Symbols \subseteq Chars
    /\ {":", "="} \subseteq Symbols
    /\ Newline \in Whitespace
    /\ Whitespace \cap (Digits \cup Letters \cup Symbols) = {}
    /\ Symbols \cap (Digits \cup Letters) = {}
    /\ Digits \cap Letters = {}
    /\ "LITERAL" \notin Symbols \cup {Keywords[w] : w \in DOMAIN Keywords}

VARIABLES input_iter,
          pc,          \* between calls, or the loop next() is in
          begin_pos,   \* where the token being read begins
          returned,    \* what the last call returned: nothing, EOS or a token
          tokens       \* history: every token returned so far

vars == <<source, input_iter, pc, begin_pos, returned, tokens>>

Nullopt == "nullopt"

(* The characters that are a token by themselves. *)
Singletons == Symbols \ {":"}

(* A word is a keyword or an identifier.  Mutant: the type parse_keyword    *)
(* uses for "no keyword" reaches the token.                                *)
WordType_Sentinel(text) == IF text \in DOMAIN Keywords THEN Keywords[text] ELSE "EOS"
WordType(text) == IF text \in DOMAIN Keywords THEN Keywords[text] ELSE "IDENTIFIER"

Init ==
    /\ SourceInit(Texts)
    /\ input_iter = Begin
    /\ pc = "idle"
    /\ begin_pos = Begin
    /\ returned = "nothing"
    /\ tokens = <<>>

Goto(from, to) == pc = from /\ pc' = to

Current == CharAt(input_iter)

(* next() returns the token between begin and the new input_iter. *)
ReturnToken(type, begin) ==
    /\ returned' = "token"
    /\ tokens' = Append(tokens, [type |-> type, begin |-> begin, end |-> input_iter'])

-----------------------------------------------------------------------------
Call ==
    /\ Goto("idle", "discard")
    /\ UNCHANGED <<source, input_iter, begin_pos, returned, tokens>>

DiscardWhitespace ==
    /\ pc = "discard"
    /\ input_iter # End
    /\ Current \in Whitespace
    /\ input_iter' = Advance(input_iter)
    /\ UNCHANGED <<source, pc, begin_pos, returned, tokens>>

ReturnEos ==
    /\ Goto("discard", "idle")
    /\ input_iter = End
    /\ returned' = "EOS"
    /\ UNCHANGED <<source, input_iter, begin_pos, tokens>>

IsValidSymbol(c) == c \in Digits \cup Letters \cup Symbols

(* The iterator stays on the symbol; the mutant steps over it. *)
RejectSymbol_Skips ==
    /\ Goto("discard", "idle")
    /\ input_iter # End
    /\ Current \notin Whitespace
    /\ ~IsValidSymbol(Current)
    /\ returned' = Nullopt
    /\ input_iter' = Advance(input_iter)
    /\ UNCHANGED <<source, begin_pos, tokens>>
RejectSymbol ==
    /\ Goto("discard", "idle")
    /\ input_iter # End
    /\ Current \notin Whitespace
    /\ ~IsValidSymbol(Current)
    /\ returned' = Nullopt
    /\ UNCHANGED <<source, input_iter, begin_pos, tokens>>

ParseSingleton ==
    /\ Goto("discard", "idle")
    /\ Current \in Singletons
    /\ input_iter' = Advance(input_iter)
    /\ ReturnToken(Current, input_iter)
    /\ UNCHANGED <<source, begin_pos>>

(* ':' opens an assignment operator, a digit a literal, all else a word.   *)
StartAssignment ==
    /\ Goto("discard", "assignment")
    /\ Current = ":"
    /\ begin_pos' = input_iter
    /\ input_iter' = Advance(input_iter)
    /\ UNCHANGED <<source, returned, tokens>>

StartLiteral ==
    /\ Goto("discard", "literal")
    /\ Current \in Digits
    /\ begin_pos' = input_iter
    /\ UNCHANGED <<source, input_iter, returned, tokens>>

StartWord ==
    /\ Goto("discard", "word")
    /\ IsValidSymbol(Current)
    /\ Current \notin Digits \cup Symbols
    /\ begin_pos' = input_iter
    /\ UNCHANGED <<source, input_iter, returned, tokens>>

(* Anything but '=' behind the ':' resets the iterator.  Mutants: it is     *)
(* not reset, or next() starts over instead of returning.                  *)
FinishAssignment_NoReset ==
    /\ Goto("assignment", "idle")
    /\ IF Current = "="
       THEN /\ input_iter' = Advance(input_iter)
            /\ ReturnToken("VAR_ASSIGNMENT_OP", begin_pos)
       ELSE /\ returned' = Nullopt
            /\ UNCHANGED <<input_iter, tokens>>
    /\ UNCHANGED <<source, begin_pos>>
FinishAssignment_Retries ==
    /\ pc = "assignment"
    /\ pc' = IF Current = "=" THEN "idle" ELSE "discard"
    /\ IF Current = "="
       THEN /\ input_iter' = Advance(input_iter)
            /\ ReturnToken("VAR_ASSIGNMENT_OP", begin_pos)
       ELSE /\ input_iter' = begin_pos
            /\ UNCHANGED <<returned, tokens>>
    /\ UNCHANGED <<source, begin_pos>>
FinishAssignment ==
    /\ Goto("assignment", "idle")
    /\ IF Current = "="
       THEN /\ input_iter' = Advance(input_iter)
            /\ ReturnToken("VAR_ASSIGNMENT_OP", begin_pos)
       ELSE /\ input_iter' = begin_pos
            /\ returned' = Nullopt
            /\ UNCHANGED tokens
    /\ UNCHANGED <<source, begin_pos>>

(* read_until: the predicate of each loop, and a mutant that lets a        *)
(* literal run on into letters.                                            *)
Continues_Alnum(c) == \/ pc = "literal" /\ c \in Digits \cup Letters
                      \/ pc = "word" /\ c \in Letters
Continues(c) == \/ pc = "literal" /\ c \in Digits
                \/ pc = "word" /\ c \in Letters

ReadOne ==
    /\ IsValidSymbol(Current)
    /\ Continues(Current)
    /\ input_iter' = Advance(input_iter)
    /\ UNCHANGED <<source, pc, begin_pos, returned, tokens>>

FinishRead ==
    /\ pc \in {"literal", "word"}
    /\ ~(IsValidSymbol(Current) /\ Continues(Current))
    /\ pc' = "idle"
    /\ UNCHANGED <<source, input_iter, begin_pos>>
    /\ ReturnToken(IF pc = "literal" THEN "LITERAL"
                   ELSE WordType(Text([begin |-> begin_pos, end |-> input_iter])),
                   begin_pos)

Running == \/ DiscardWhitespace \/ ReturnEos \/ RejectSymbol \/ ParseSingleton
           \/ StartAssignment \/ FinishAssignment \/ StartLiteral \/ StartWord
           \/ ReadOne \/ FinishRead

Next == Call \/ Running

(* next() runs to its end once called; the parser need not call it. *)
Spec == Init /\ [][Next]_vars /\ WF_vars(Running)

-----------------------------------------------------------------------------
TokenTypes == Singletons \cup {"VAR_ASSIGNMENT_OP", "LITERAL", "IDENTIFIER"}
                \cup {Keywords[w] : w \in DOMAIN Keywords}

TypeOK ==
    /\ code \in Seq(Chars)
    /\ lines \in Seq(Nat)
    /\ input_iter \in Position
    /\ pc \in {"idle", "discard", "assignment", "literal", "word"}
    /\ begin_pos \in Position
    /\ returned \in {"nothing", "EOS", Nullopt, "token"}
    /\ \A k \in DOMAIN tokens : tokens[k].type \in TokenTypes

(* Every dereference of input_iter is inside the text, although read_until *)
(* and the test behind ':' never compare it with eos: the newline the      *)
(* constructor appends stops them (lexer.hpp:26, lexer.cpp:25).            *)
NoReadPastEnd == input_iter # End \/ pc \in {"assignment", "literal", "word"}
                    => Readable(input_iter)

(* The (line, cursor) iterator walks the text character by character, and  *)
(* -- undoes ++ (the reverse iteration TestSourceManagement.cpp:72 leaves  *)
(* to do).                                                                 *)
IteratorIsFlat ==
    input_iter # End =>
        LET after == Advance(input_iter)
        IN  /\ Offset(after) = Offset(input_iter) + 1
            /\ Retreat(after) = input_iter

(* Tokens tile the text: none is empty or crosses a line, each begins      *)
(* behind the one before, and only white space lies between them.          *)
TokensTile ==
    \A k \in DOMAIN tokens :
        LET behind == IF k = 1 THEN 0 ELSE Offset(tokens[k - 1].end)
            first  == Offset(tokens[k].begin)
        IN /\ behind <= first
           /\ first < Offset(tokens[k].end)
           /\ \A i \in behind + 1 .. first : code[i] \in Whitespace
           /\ Newline \notin {code[i] : i \in first + 1 .. Offset(tokens[k].end)}

(* Literals and words are maximal and pure: the text is a run of one class *)
(* that the next character does not continue, and it is a keyword exactly  *)
(* when the whole word is one.                                             *)
MaximalMunch ==
    \A k \in DOMAIN tokens :
        LET token == tokens[k]
            text  == Text(token)
            chars == {text[i] : i \in 1 .. Len(text)}
        IN CASE token.type = "LITERAL" ->
                    chars \subseteq Digits /\ CharAt(token.end) \notin Digits
             [] text[1] \in Letters ->
                    /\ chars \subseteq Letters
                    /\ CharAt(token.end) \notin Letters
                    /\ IF text \in DOMAIN Keywords
                       THEN token.type = Keywords[text]
                       ELSE token.type = "IDENTIFIER"
             [] OTHER -> TRUE

(* Invalid input is not skipped: once a call has returned nullopt, and     *)
(* once one has returned EOS, every later call returns the same.           *)
VerdictIsSticky ==
    [][(returned \in {Nullopt, "EOS"}) => (UNCHANGED <<returned, tokens>>)]_vars

(* Every call of next() returns. *)
NextReturns == pc = "discard" ~> pc = "idle"
===============================================================================
