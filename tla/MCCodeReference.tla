---------------------------- MODULE MCCodeReference ----------------------------
(* Every source text of at most MaxLength characters over one character of  *)
(* each class the lexer tells apart; "if" is the one keyword.               *)
EXTENDS CodeReference

CONSTANT MaxLength   \* bound on the length of a source text

MCChars == {"\n", " ", "7", "i", "f", ":", "=", "?"}
MCNewline == "\n"
MCWhitespace == {"\n", " "}
MCDigits == {"7"}
MCLetters == {"i", "f"}
MCSymbols == {":", "="}
MCKeywords == [w \in {<<"i", "f">>} |-> "KEYWORD"]
MCTexts == UNION {[1 .. n -> MCChars] : n \in 0 .. MaxLength}
===============================================================================
