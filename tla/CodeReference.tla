----------------------------- MODULE CodeReference -----------------------------
(***************************************************************************)
(* The source fragment a parse tree node carries for error messages.  Each *)
(* parse function starts from the fragment of its first token and extends  *)
(* it by the fragment of its last child; reference is the fragment of a    *)
(* node that spans every token lexed so far, extended token by token.      *)
(***************************************************************************)
EXTENDS Lexer

VARIABLE reference

ReferenceInit == Init /\ reference = EmptyFragment

ReferenceOf(token) == [begin |-> token.begin, end |-> token.end]

(* The first token starts the reference, each later one extends it. *)
ReferenceNext ==
    /\ Next
    /\ reference' =
          IF tokens' = tokens THEN reference
          ELSE LET latest == ReferenceOf(tokens'[Len(tokens')])
               IN  IF tokens = <<>> THEN latest ELSE Extend(reference, latest)

ReferenceSpec ==
    /\ ReferenceInit /\ [][ReferenceNext]_<<vars, reference>>
    /\ WF_<<vars, reference>>(Running /\ ReferenceNext)

-----------------------------------------------------------------------------
Spanned == tokens # <<>>
FirstBegin == tokens[1].begin
LastEnd == tokens[Len(tokens)].end

(* On a line of its own a node's reference covers all its tokens.  Of a    *)
(* node on several lines it covers those on the last one only, since       *)
(* positions on different lines are each less than the other               *)
(* (SourceCode.cpp:57,97-104).                                             *)
ReferenceCoversLine ==
    Spanned /\ FirstBegin.line = LastEnd.line =>
        reference = [begin |-> FirstBegin, end |-> LastEnd]
===============================================================================
