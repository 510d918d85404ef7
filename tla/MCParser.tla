------------------------------- MODULE MCParser -------------------------------
(* The classes of texts that are parsed: a short function with every       *)
(* token, a long body without declarations and with one operator of each   *)
(* kind, and all declarations before a short body.                         *)
EXTENDS DotPrinter

Short == [types |-> TokenTypes, left |-> 1, body |-> 6]

LongBody == [types |-> {"BEGIN", "END", "RETURN", "IDENTIFIER", "VAR_ASSIGNMENT_OP",
                        "MINUS_OP", "DIV_OP", "L_BRACKET", "R_BRACKET",
                        "STATEMENT_TERMINATOR", "PROGRAM_TERMINATOR"},
             left |-> 1, body |-> 8]

LongHead == [types |-> TokenTypes \ {"MINUS_OP", "DIV_OP", "L_BRACKET", "R_BRACKET"},
             left |-> 14, body |-> 4]

MCRooms == {Short, LongBody, LongHead}
===============================================================================
