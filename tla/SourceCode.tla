------------------------------ MODULE SourceCode ------------------------------
(***************************************************************************)
(* The source text of a function as SourceCode keeps it, and the positions *)
(* in it: SourcePosition is a bidirectional iterator that stores a line    *)
(* and a cursor in that line, both counted from 0, and never an offset.    *)
(* lines[k] is the offset just behind the newline of line k - 1, the       *)
(* vector of the code with its indices counted from 1.                     *)
(***************************************************************************)
EXTENDS Naturals, Sequences, FiniteSets

CONSTANTS Chars,     \* the characters a source text is made of
          Newline,   \* '\n'
          NoChar     \* what a read outside the text gives

ASSUME SourceCodeAssumption == Newline \in Chars /\ NoChar \notin Chars

VARIABLES code,      \* the text
          lines      \* the end of every line

source == <<code, lines>>

(* The constructor completes the last line. *)
Completed(text) ==
    IF text = <<>> \/ text[Len(text)] = Newline THEN text
                                                ELSE Append(text, Newline)

(* Where the lines of a text end, in order: there is one such sequence. *)
LineEnds(text) ==
    LET newlines == {i \in 1 .. Len(text) : text[i] = Newline}
    IN  {ends \in [1 .. Cardinality(newlines) -> newlines] :
            /\ \A j, k \in DOMAIN ends : j < k => ends[j] < ends[k]
            /\ \A i \in newlines : \E k \in DOMAIN ends : ends[k] = i}

SourceInit(Texts) ==
    \E text \in Texts : code = Completed(text) /\ lines \in LineEnds(code)

-----------------------------------------------------------------------------
Position == [line : Nat, cursor : Nat]

Begin == [line |-> 0, cursor |-> 0]
End == [line |-> Len(lines), cursor |-> 0]

(* get_line_offset; line may be number_of_lines() *)
LineOffset(line) == IF line = 0 THEN 0 ELSE lines[line]

LineLength(line) == lines[line + 1] - LineOffset(line)

(* The offset a position stands for. *)
Offset(pos) == LineOffset(pos.line) + pos.cursor

(* The bounds get(line, cursor) asserts or takes for granted. *)
Readable(pos) == pos.line < Len(lines) /\ pos.cursor < LineLength(pos.line)

CharAt(pos) == IF Readable(pos) THEN code[Offset(pos) + 1] ELSE NoChar

(* operator++; its mutant never leaves a line. *)
Advance_NoWrap(pos) == [pos EXCEPT !.cursor = @ + 1]
Advance(pos) ==
    IF pos.cursor + 1 = LineLength(pos.line)
    THEN [line |-> pos.line + 1, cursor |-> 0]
    ELSE [pos EXCEPT !.cursor = @ + 1]

(* operator--; its mutant forgets that the last index is one less.         *)
Retreat_OffByOne(pos) ==
    IF pos.cursor = 0
    THEN [line |-> pos.line - 1, cursor |-> LineLength(pos.line - 1)]
    ELSE [pos EXCEPT !.cursor = @ - 1]
Retreat(pos) ==
    IF pos.cursor = 0
    THEN [line |-> pos.line - 1, cursor |-> LineLength(pos.line - 1) - 1]
    ELSE [pos EXCEPT !.cursor = @ - 1]

(* operator<, as written: two positions on different lines are each less   *)
(* than the other.                                                         *)
Less(p, q) == p.line < q.line \/ p.line > q.line \/ p.cursor < q.cursor

-----------------------------------------------------------------------------
(* SourceFragment: a half-open range of positions. *)
Fragment == [begin : Position, end : Position]

EmptyFragment == [begin |-> Begin, end |-> Begin]

Text(fragment) == SubSeq(code, Offset(fragment.begin) + 1, Offset(fragment.end))

(* SourceFragment::extend; each comparison is evaluated on the fragment as *)
(* the one before it left it.  Mutant: the end moves the wrong way.        *)
Extend_Backwards(fragment, other) ==
    [begin |-> IF Less(other.begin, fragment.begin) THEN other.begin
                                                    ELSE fragment.begin,
     end |-> IF Less(other.end, fragment.end) THEN other.end ELSE fragment.end]
Extend(fragment, other) ==
    [begin |-> IF Less(other.begin, fragment.begin) THEN other.begin
                                                    ELSE fragment.begin,
     end |-> IF Less(fragment.end, other.end) THEN other.end ELSE fragment.end]
===============================================================================
