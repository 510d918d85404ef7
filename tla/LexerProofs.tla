------------------------------ MODULE LexerProofs ------------------------------
(***************************************************************************)
(* Theorems about Lexer for every alphabet, every table of keywords and    *)
(* every set of source texts, and about the source fragments of nodes.     *)
(*                                                                         *)
(* The text ends in a newline, and a character of a token is never one:    *)
(* that is what keeps the iterator inside the text where the code does not *)
(* compare it with the end.  So the invariant says of a token that is      *)
(* being read that it begins and stands on one line.                       *)
(***************************************************************************)
EXTENDS CodeReference, FiniteSetTheorems, SequenceTheorems, TLAPS

(* What the constructor of SourceCode leaves behind. *)
SourceInv ==
    /\ code \in Seq(Chars)
    /\ lines \in Seq(Nat)
    /\ \A k \in 1 .. Len(lines) :
          lines[k] \in 1 .. Len(code) /\ code[lines[k]] = Newline
    /\ \A j, k \in 1 .. Len(lines) : j < k => lines[j] < lines[k]
    /\ \A i \in 1 .. Len(code) :
          code[i] = Newline => \E k \in 1 .. Len(lines) : lines[k] = i

(* A position an iterator may have. *)
InText(p) == p \in Position /\ (p = End \/ Readable(p))

Before(p, q) == p.line < q.line \/ (p.line = q.line /\ p.cursor <= q.cursor)

(* The characters between two positions. *)
Between(p, q) == {code[i] : i \in Offset(p) + 1 .. Offset(q)}

-----------------------------------------------------------------------------
(* The constructor: what a text becomes has a newline behind every line.   *)
LEMMA SourceInitInv == SourceInit(Texts) => SourceInv
<1> SUFFICES ASSUME NEW text \in Texts, code = Completed(text), lines \in LineEnds(code)
             PROVE  SourceInv
  BY DEF SourceInit
<1>1. text \in Seq(Chars) BY LexerAssumption
<1>2. code \in Seq(Chars)
  BY <1>1, SourceCodeAssumption DEF Completed
<1> DEFINE newlines == {i \in 1 .. Len(code) : code[i] = Newline}
<1>3. Cardinality(newlines) \in Nat
  <2>1. IsFiniteSet(1 .. Len(code)) BY <1>2, FS_Interval
  <2>2. newlines \in SUBSET (1 .. Len(code)) OBVIOUS
  <2>3. IsFiniteSet(newlines) BY <2>1, <2>2, FS_Subset
  <2> HIDE DEF newlines
  <2> QED BY <2>3, FS_CardinalityType
<1>4. /\ lines \in [1 .. Cardinality(newlines) -> newlines]
      /\ \A j, k \in DOMAIN lines : j < k => lines[j] < lines[k]
      /\ \A i \in newlines : \E k \in DOMAIN lines : lines[k] = i
  BY DEF LineEnds
<1>5. lines \in Seq(Nat) /\ Len(lines) = Cardinality(newlines)
      /\ DOMAIN lines = 1 .. Len(lines)
  <2>1. newlines \in SUBSET Nat BY <1>2
  <2> HIDE DEF newlines
  <2>2. lines \in [1 .. Cardinality(newlines) -> Nat] BY <1>4, <2>1
  <2> QED BY <1>3, <1>4, <2>2
<1> QED BY <1>2, <1>4, <1>5 DEF SourceInv

(* The ends of the lines are numbers, in order. *)
LEMMA LinesInOrder ==
    ASSUME SourceInv
    PROVE  /\ Len(lines) \in Nat /\ Len(code) \in Nat
           /\ \A k \in 1 .. Len(lines) : lines[k] \in Nat /\ lines[k] \in 1 .. Len(code)
           /\ \A j, k \in 1 .. Len(lines) : j <= k => lines[j] <= lines[k]
<1>1. Len(lines) \in Nat /\ Len(code) \in Nat BY DEF SourceInv
<1>2. \A k \in 1 .. Len(lines) : lines[k] \in Nat /\ lines[k] \in 1 .. Len(code)
  BY DEF SourceInv
<1>3. ASSUME NEW j \in 1 .. Len(lines), NEW k \in 1 .. Len(lines), j <= k
      PROVE  lines[j] <= lines[k]
  <2>1. CASE j = k BY <2>1, <1>2
  <2>2. CASE j < k
    <3>1. lines[j] < lines[k] BY <2>2 DEF SourceInv
    <3> QED BY <3>1, <1>2
  <2> QED BY <1>1, <1>3, <2>1, <2>2
<1> QED BY <1>1, <1>2, <1>3

(* What a readable position stands for. *)
LEMMA ReadablePosition ==
    ASSUME SourceInv, NEW p \in Position, Readable(p)
    PROVE  /\ LineOffset(p.line) \in Nat
           /\ Offset(p) \in Nat
           /\ p.line + 1 \in 1 .. Len(lines)
           /\ lines[p.line + 1] \in 1 .. Len(code)
           /\ LineLength(p.line) = lines[p.line + 1] - LineOffset(p.line)
           /\ LineOffset(p.line) <= Offset(p)
           /\ Offset(p) + 1 \in 1 .. lines[p.line + 1]
           /\ Offset(p) + 1 \in 1 .. Len(code)
           /\ CharAt(p) = code[Offset(p) + 1]
           /\ CharAt(p) \in Chars
<1>1. p.line \in Nat /\ p.cursor \in Nat /\ p.line + 1 \in 1 .. Len(lines)
  BY LinesInOrder DEF Position, Readable
<1>2. lines[p.line + 1] \in 1 .. Len(code) /\ lines[p.line + 1] \in Nat
  BY <1>1, LinesInOrder
<1>3. LineOffset(p.line) \in Nat BY <1>1, LinesInOrder DEF LineOffset
<1>4. LineLength(p.line) = lines[p.line + 1] - LineOffset(p.line)
      /\ Offset(p) = LineOffset(p.line) + p.cursor
  BY DEF LineLength, Offset
<1>5. p.cursor < LineLength(p.line) BY DEF Readable
<1>6. Offset(p) + 1 \in 1 .. lines[p.line + 1] /\ Offset(p) + 1 \in 1 .. Len(code)
      /\ Offset(p) \in Nat /\ LineOffset(p.line) <= Offset(p)
  BY <1>1, <1>2, <1>3, <1>4, <1>5, LinesInOrder
<1>7. CharAt(p) = code[Offset(p) + 1] BY DEF CharAt
<1>8. code[Offset(p) + 1] \in Chars BY <1>6 DEF SourceInv
<1> QED BY <1>1, <1>2, <1>3, <1>4, <1>6, <1>7, <1>8

(* A readable position holds the newline exactly at the end of its line.   *)
LEMMA NewlineEndsLine ==
    ASSUME SourceInv, NEW p \in Position, Readable(p)
    PROVE  CharAt(p) = Newline <=> p.cursor + 1 = LineLength(p.line)
<1>1. PICK n \in 1 .. Len(lines), i \in 1 .. Len(code), first \in Nat, cursor \in Nat :
         /\ n = p.line + 1 /\ cursor = p.cursor /\ first = LineOffset(p.line)
         /\ i = first + cursor + 1 /\ CharAt(p) = code[i]
         /\ LineLength(p.line) = lines[n] - first /\ i <= lines[n]
  BY ReadablePosition DEF Position, Offset
<1>2. lines[n] \in Nat /\ n \in Nat /\ i \in Nat BY LinesInOrder
<1>3. cursor + 1 = lines[n] - first <=> i = lines[n] BY <1>1, <1>2
<1>4. ASSUME i = lines[n] PROVE code[i] = Newline BY <1>4 DEF SourceInv
<1>5. ASSUME code[i] = Newline PROVE i = lines[n]
  <2>1. PICK m \in 1 .. Len(lines) : lines[m] = i BY <1>5 DEF SourceInv
  <2>2. m \in Nat BY LinesInOrder
  <2>3. CASE m < n
    <3>1. n - 1 \in 1 .. Len(lines) /\ m <= n - 1 BY <2>2, <2>3, LinesInOrder
    <3>2. lines[m] <= lines[n - 1] /\ lines[n - 1] \in Nat BY <3>1, LinesInOrder
    <3>3. first = lines[n - 1] BY <1>1, <3>1 DEF LineOffset, Position
    <3> QED BY <1>1, <1>2, <2>1, <3>2, <3>3
  <2>4. CASE n < m
    <3>1. lines[n] < lines[m] BY <2>4 DEF SourceInv
    <3> QED BY <1>1, <1>2, <2>1, <3>1
  <2> QED BY <1>2, <2>1, <2>2, <2>3, <2>4
<1> QED BY <1>1, <1>3, <1>4, <1>5

(* The iterator: ++ stays in the text and goes on by one character, and -- *)
(* undoes it; from a character that is no newline it stays on the line.    *)
LEMMA AdvanceSteps ==
    ASSUME SourceInv, NEW p \in Position, Readable(p)
    PROVE  /\ InText(Advance(p))
           /\ Offset(Advance(p)) = Offset(p) + 1
           /\ Retreat(Advance(p)) = p
           /\ Before(p, Advance(p))
           /\ CharAt(p) # Newline => /\ Readable(Advance(p))
                                     /\ Advance(p).line = p.line
                                     /\ Advance(p).cursor = p.cursor + 1
<1>p. p = [line |-> p.line, cursor |-> p.cursor] BY DEF Position
<1>0. p.line \in Nat /\ p.cursor \in Nat BY DEF Position
<1>a. /\ LineOffset(p.line) \in Nat
      /\ p.line + 1 \in 1 .. Len(lines)
      /\ LineLength(p.line) = lines[p.line + 1] - LineOffset(p.line)
  BY ReadablePosition
<1>b. Len(lines) \in Nat /\ lines[p.line + 1] \in Nat BY <1>a, LinesInOrder
<1>c. LineLength(p.line) \in Int BY ONLY <1>a, <1>b
<1>d. p.line < Len(lines) /\ p.cursor < LineLength(p.line) BY DEF Readable
<1>1. CASE p.cursor + 1 = LineLength(p.line)
  <2>1. Advance(p) = [line |-> p.line + 1, cursor |-> 0] BY <1>1 DEF Advance
  <2>2. CharAt(p) = Newline BY <1>1, NewlineEndsLine
  <2>3. Offset(Advance(p)) = lines[p.line + 1]
    BY ONLY <2>1, <1>0, <1>b DEF Offset, LineOffset
  <2>4. Offset(p) + 1 = lines[p.line + 1]
    <3>1. lines[p.line + 1] = LineOffset(p.line) + LineLength(p.line)
      BY ONLY <1>a, <1>b, <1>c
    <3>2. Offset(p) = LineOffset(p.line) + p.cursor BY DEF Offset
    <3> QED BY ONLY <3>1, <3>2, <1>0, <1>1, <1>a, <1>c
  <2>5. InText(Advance(p))
    <3>1. CASE p.line + 1 = Len(lines)
      <4>1. Advance(p) = End BY ONLY <2>1, <3>1 DEF End
      <4>2. Advance(p) \in Position BY ONLY <2>1, <1>0 DEF Position
      <4> QED BY <4>1, <4>2 DEF InText
    <3>2. CASE p.line + 1 < Len(lines)
      <4>0. p.line + 1 \in 1 .. Len(lines) /\ p.line + 2 \in 1 .. Len(lines)
        <5>1. Len(lines) \in Nat BY <1>b
        <5> QED BY ONLY <5>1, <3>2, <1>0
      <4>1. lines[p.line + 1] < lines[p.line + 2] BY <4>0, <1>0 DEF SourceInv
      <4>2. LineLength(p.line + 1) = lines[p.line + 2] - lines[p.line + 1]
        BY ONLY <1>0 DEF LineLength, LineOffset
      <4>3. lines[p.line + 1] \in Nat /\ lines[p.line + 2] \in Nat
        BY <4>0, LinesInOrder
      <4>4. Advance(p) \in Position BY ONLY <2>1, <1>0 DEF Position
      <4>5. Readable(Advance(p))
        BY ONLY <4>1, <4>2, <4>3, <3>2, <2>1 DEF Readable
      <4> QED BY <4>4, <4>5 DEF InText
    <3> QED BY <3>1, <3>2, <1>0, <1>b, <1>d
  <2>6. Retreat(Advance(p)) = p
    <3>1. Retreat(Advance(p)) = [line |-> p.line, cursor |-> LineLength(p.line) - 1]
      BY ONLY <2>1, <1>0 DEF Retreat
    <3>2. LineLength(p.line) - 1 = p.cursor BY ONLY <1>0, <1>1, <1>c
    <3> QED BY ONLY <3>1, <3>2, <1>p
  <2>7. Before(p, Advance(p)) BY ONLY <2>1, <1>0 DEF Before
  <2> QED BY <2>2, <2>3, <2>4, <2>5, <2>6, <2>7
<1>2. CASE p.cursor + 1 # LineLength(p.line)
  <2>1. Advance(p) = [line |-> p.line, cursor |-> p.cursor + 1]
    BY ONLY <1>p, <1>0, <1>2 DEF Advance
  <2>2. Advance(p).line = p.line /\ Advance(p).cursor = p.cursor + 1
    BY ONLY <2>1
  <2>3. p.cursor + 1 < LineLength(p.line) BY ONLY <1>0, <1>2, <1>c, <1>d
  <2>4. Readable(Advance(p)) BY ONLY <1>d, <2>2, <2>3 DEF Readable
  <2>5. Offset(Advance(p)) = Offset(p) + 1
    BY ONLY <1>0, <1>a, <2>2 DEF Offset
  <2>6. Retreat(Advance(p)) = p BY ONLY <1>p, <1>0, <2>1 DEF Retreat
  <2>7. Advance(p) \in Position BY ONLY <2>1, <1>0 DEF Position
  <2> QED BY <1>0, <2>2, <2>4, <2>5, <2>6, <2>7 DEF InText, Before
<1> QED BY <1>1, <1>2

(* The order of positions is the order of the offsets they stand for. *)
LEMMA OffsetsOrdered ==
    ASSUME SourceInv, NEW p, NEW q, InText(p), InText(q), Before(p, q)
    PROVE  Offset(p) \in Nat /\ Offset(q) \in Nat /\ Offset(p) <= Offset(q)
<1>1. ASSUME NEW r, InText(r)
      PROVE  /\ r.line \in 0 .. Len(lines) /\ r.cursor \in Nat
             /\ LineOffset(r.line) \in Nat
             /\ Offset(r) = LineOffset(r.line) + r.cursor
             /\ r.line # 0 => LineOffset(r.line) = lines[r.line]
  BY <1>1, ReadablePosition
     DEF InText, Position, Offset, LineOffset, End, SourceInv, Readable
<1>2. CASE p.line = q.line BY <1>1, <1>2 DEF Before
<1>3. CASE p.line < q.line
  <2>1. p # End BY <1>1, <1>3, LinesInOrder DEF End
  <2>2. /\ Offset(p) \in Nat /\ Offset(p) + 1 <= lines[p.line + 1]
        /\ p.line + 1 \in 1 .. Len(lines)
    BY <2>1, ReadablePosition DEF InText
  <2>3. /\ q.line \in 1 .. Len(lines) /\ p.line + 1 <= q.line
        /\ LineOffset(q.line) = lines[q.line]
    <3>1. p.line \in Nat /\ q.line \in 0 .. Len(lines) BY <1>1, LinesInOrder
    <3> QED BY <3>1, <1>1, <1>3, LinesInOrder
  <2>4. lines[p.line + 1] <= lines[q.line] BY <2>2, <2>3, LinesInOrder
  <2>5. lines[p.line + 1] \in Nat /\ lines[q.line] \in Nat
    BY <2>2, <2>3, LinesInOrder
  <2>6. Offset(q) = lines[q.line] + q.cursor /\ q.cursor \in Nat
    BY <1>1, <2>3
  <2> QED BY <2>2, <2>4, <2>5, <2>6
<1> QED BY <1>1, <1>2, <1>3 DEF Before

LEMMA BeginInText ==
    ASSUME SourceInv PROVE InText(Begin) /\ Offset(Begin) = 0
<1>1. CASE lines = <<>>
  BY <1>1 DEF InText, Begin, End, Position, Offset, LineOffset
<1>2. CASE lines # <<>>
  <2>1. 1 \in 1 .. Len(lines) BY <1>2 DEF SourceInv
  <2>2. lines[1] \in 1 .. Len(code) BY <2>1 DEF SourceInv
  <2> QED BY <2>1, <2>2
      DEF InText, Begin, Position, Readable, LineLength, LineOffset, Offset, SourceInv
<1> QED BY <1>1, <1>2
-----------------------------------------------------------------------------
(***************************************************************************)
(* The invariant.  Its parts are operators of what the lexer changes, so   *)
(* that a part may be stated of the values a step leaves behind.           *)
(***************************************************************************)
Reading == {"assignment", "literal", "word"}

OnOneLine(p, q) ==
    /\ p.line = q.line /\ p.cursor <= q.cursor
    /\ Newline \notin Between(p, q)

(* Where the iterator stands, and the token being read. *)
Standing(iter, at, begin) ==
    /\ InText(iter) /\ InText(begin)
    /\ at \in {"idle", "discard"} \cup Reading
    /\ at \in Reading => Readable(iter) /\ Readable(begin) /\ OnOneLine(begin, iter)
    /\ at = "assignment" => CharAt(begin) = ":" /\ iter = Advance(begin)
    /\ at = "literal" => CharAt(begin) \in Digits /\ Between(begin, iter) \subseteq Digits
    /\ at = "word" => CharAt(begin) \in Letters /\ Between(begin, iter) \subseteq Letters

TokenRecords == [type : TokenTypes, begin : Position, end : Position]

(* A token is not empty, stands on one line and is maximal. *)
TokenInv(token) ==
    /\ InText(token.begin) /\ InText(token.end)
    /\ OnOneLine(token.begin, token.end) /\ token.begin # token.end
    /\ token.type = "LITERAL" =>
          /\ CharAt(token.begin) \in Digits
          /\ Between(token.begin, token.end) \subseteq Digits
          /\ CharAt(token.end) \notin Digits
    /\ CharAt(token.begin) \in Letters =>
          /\ token.type = WordType(Text(token))
          /\ Between(token.begin, token.end) \subseteq Letters
          /\ CharAt(token.end) \notin Letters

OnlySpace(p, q) == Before(p, q) /\ Between(p, q) \subseteq Whitespace

(* Where the last token ends, and where the first unread character stands. *)
Behind(seen) == IF seen = <<>> THEN Begin ELSE seen[Len(seen)].end
Unread(iter, at, begin) == IF at \in Reading THEN begin ELSE iter

TokensInv(seen) ==
    /\ seen \in Seq(TokenRecords)
    /\ \A k \in 1 .. Len(seen) :
          /\ TokenInv(seen[k])
          /\ OnlySpace(IF k = 1 THEN Begin ELSE seen[k - 1].end, seen[k].begin)

(* Where the last call found no token, the next one finds none either. *)
Rejected(p) ==
    /\ Readable(p) /\ CharAt(p) \notin Whitespace
    /\ \/ ~IsValidSymbol(CharAt(p))
       \/ CharAt(p) = ":" /\ CharAt(Advance(p)) # "="

VerdictInv(iter, at, begin, verdict) ==
    /\ verdict \in {"nothing", "EOS", Nullopt, "token"}
    /\ verdict = "EOS" => iter = End /\ at \in {"idle", "discard"}
    /\ verdict = Nullopt =>
          at \notin {"literal", "word"} /\ Rejected(Unread(iter, at, begin))

Good(iter, at, begin, verdict, seen) ==
    /\ Standing(iter, at, begin)
    /\ TokensInv(seen)
    /\ OnlySpace(Behind(seen), Unread(iter, at, begin))
    /\ VerdictInv(iter, at, begin, verdict)

Inv == SourceInv /\ Good(input_iter, pc, begin_pos, returned, tokens)

(* The text never changes, so the invariant holds after a step if it holds *)
(* of the values the step leaves.                                          *)
LEMMA InvAfter ==
    ASSUME SourceInv, UNCHANGED source,
           Good(input_iter', pc', begin_pos', returned', tokens')
    PROVE  Inv'
<1>1. code' = code /\ lines' = lines BY DEF source
<1> USE <1>1 DEF Between, Before, InText, Readable, End, Begin, Offset, LineOffset,
                 LineLength, CharAt, Advance
<1>2. SourceInv' BY DEF SourceInv
<1>3. Standing(input_iter, pc, begin_pos)'
  <2>1. Standing(input_iter', pc', begin_pos') BY DEF Good
  <2> QED BY <2>1 DEF Standing, OnOneLine
<1>4. TokensInv(tokens)'
  <2>1. TokensInv(tokens') BY DEF Good
  <2>2. ASSUME NEW k \in 1 .. Len(tokens'), TokenInv(tokens'[k])
        PROVE  TokenInv(tokens[k])'
    BY <2>2 DEF TokenInv, OnOneLine, Text
  <2>3. ASSUME NEW k \in 1 .. Len(tokens')
        PROVE  OnlySpace(IF k = 1 THEN Begin ELSE tokens[k - 1].end, tokens[k].begin)'
    BY <2>1 DEF TokensInv, OnlySpace
  <2> QED
    <3> HIDE DEF Between, Before, InText, Readable, End, Begin, Offset, LineOffset,
                 LineLength, CharAt, Advance
    <3> QED BY <2>1, <2>2, <2>3 DEF TokensInv
<1>5. OnlySpace(Behind(tokens), Unread(input_iter, pc, begin_pos))'
  <2>1. OnlySpace(Behind(tokens'), Unread(input_iter', pc', begin_pos'))
    BY DEF Good
  <2> QED BY <2>1 DEF OnlySpace, Behind, Unread
<1>6. VerdictInv(input_iter, pc, begin_pos, returned)'
  <2>1. VerdictInv(input_iter', pc', begin_pos', returned') BY DEF Good
  <2> QED BY <2>1 DEF VerdictInv, Rejected, Unread
<1> QED BY <1>2, <1>3, <1>4, <1>5, <1>6 DEF Inv, Good

-----------------------------------------------------------------------------
(* One more character. *)
LEMMA BetweenGrows ==
    ASSUME SourceInv, NEW p, NEW q, InText(p), q \in Position, Readable(q), Before(p, q)
    PROVE  /\ Between(p, Advance(q)) = Between(p, q) \cup {CharAt(q)}
           /\ Before(p, Advance(q))
<1>1. InText(q) BY DEF InText
<1>2. /\ Offset(p) \in Nat /\ Offset(q) \in Nat /\ Offset(p) <= Offset(q)
  BY <1>1, OffsetsOrdered
<1>3. Offset(Advance(q)) = Offset(q) + 1 /\ CharAt(q) = code[Offset(q) + 1]
  BY AdvanceSteps, ReadablePosition
<1>4. Between(p, Advance(q)) = Between(p, q) \cup {CharAt(q)}
  <2>1. Offset(p) + 1 .. Offset(q) + 1 = (Offset(p) + 1 .. Offset(q)) \cup {Offset(q) + 1}
    BY <1>2
  <2> QED BY <2>1, <1>3 DEF Between
<1>5. Before(p, Advance(q))
  <2>1. Before(q, Advance(q)) /\ InText(Advance(q)) BY AdvanceSteps
  <2>2. p.line \in Nat /\ q.line \in Nat /\ Advance(q).line \in Nat
        /\ p.cursor \in Nat /\ q.cursor \in Nat /\ Advance(q).cursor \in Nat
    BY <2>1, <1>1 DEF InText, Position
  <2> QED BY <2>1, <2>2 DEF Before
<1> QED BY <1>4, <1>5

LEMMA NothingBetween ==
    ASSUME SourceInv, NEW p, InText(p)
    PROVE  Between(p, p) = {} /\ Before(p, p) /\ OnOneLine(p, p)
<1>1. Before(p, p) BY DEF Before, InText, Position
<1>2. Offset(p) \in Nat BY <1>1, OffsetsOrdered
<1>3. Between(p, p) = {} BY <1>2 DEF Between
<1> QED BY <1>1, <1>3 DEF OnOneLine, InText, Position

(* One more token. *)
LEMMA OneMoreToken ==
    ASSUME SourceInv, NEW seen, NEW token, TokensInv(seen), token \in TokenRecords,
           TokenInv(token), OnlySpace(Behind(seen), token.begin)
    PROVE  /\ TokensInv(Append(seen, token))
           /\ OnlySpace(Behind(Append(seen, token)), token.end)
<1>1. seen \in Seq(TokenRecords) /\ Len(seen) \in Nat BY DEF TokensInv
<1>2. /\ Append(seen, token) \in Seq(TokenRecords)
      /\ Len(Append(seen, token)) = Len(seen) + 1
      /\ Append(seen, token)[Len(seen) + 1] = token
      /\ \A k \in 1 .. Len(seen) : Append(seen, token)[k] = seen[k]
  BY <1>1
<1>3. Behind(Append(seen, token)) = token.end
  BY <1>1, <1>2 DEF Behind
<1>4. ASSUME NEW k \in 1 .. Len(seen) + 1
      PROVE  /\ TokenInv(Append(seen, token)[k])
             /\ OnlySpace(IF k = 1 THEN Begin ELSE Append(seen, token)[k - 1].end,
                          Append(seen, token)[k].begin)
  <2>1. CASE k <= Len(seen)
    <3>1. k \in 1 .. Len(seen) /\ (k # 1 => k - 1 \in 1 .. Len(seen)) BY <2>1, <1>1
    <3> QED BY <3>1, <1>2 DEF TokensInv
  <2>2. CASE k = Len(seen) + 1
    <3>1. (IF k = 1 THEN Begin ELSE Append(seen, token)[k - 1].end) = Behind(seen)
      <4>1. CASE k = 1
        <5>1. seen = <<>> BY <4>1, <2>2, <1>1
        <5> QED BY <5>1, <4>1 DEF Behind
      <4>2. CASE k # 1
        <5>1. k - 1 = Len(seen) /\ Len(seen) \in 1 .. Len(seen) /\ seen # <<>>
          BY <4>2, <2>2, <1>1
        <5> QED BY <5>1, <4>2, <1>2 DEF Behind
      <4> QED BY <4>1, <4>2
    <3> QED BY <3>1, <2>2, <1>2
  <2> QED BY <2>1, <2>2, <1>1
<1>5. OnlySpace(token.end, token.end)
  BY NothingBetween DEF TokenInv, OnlySpace
<1> QED BY <1>2, <1>3, <1>4, <1>5 DEF TokensInv
-----------------------------------------------------------------------------
(* What the invariant says at a character that is not the end. *)
LEMMA AtCharacter ==
    ASSUME Inv, Current # NoChar \/ input_iter # End
    PROVE  /\ input_iter \in Position /\ Readable(input_iter) /\ input_iter # End
           /\ Current \in Chars
<1>1. InText(input_iter) /\ SourceInv BY DEF Inv, Good, Standing
<1>2. ~Readable(End) BY DEF Readable, End, SourceInv
<1>3. Readable(input_iter) BY <1>1 DEF InText, Current, CharAt, Readable, End, SourceInv
<1> QED BY <1>1, <1>2, <1>3, ReadablePosition DEF InText, Current

LEMMA BehindInText == ASSUME Inv PROVE InText(Behind(tokens))
<1>1. SourceInv /\ TokensInv(tokens) BY DEF Inv, Good
<1>2. CASE tokens = <<>> BY <1>1, <1>2, BeginInText DEF Behind
<1>3. CASE tokens # <<>>
  <2>1. Len(tokens) \in 1 .. Len(tokens) BY <1>1, <1>3 DEF TokensInv
  <2> QED BY <1>1, <1>3, <2>1 DEF Behind, TokensInv, TokenInv
<1> QED BY <1>2, <1>3

LEMMA InitInv == Init => Inv
<1> SUFFICES ASSUME Init PROVE Inv
  OBVIOUS
<1>1. SourceInv BY SourceInitInv DEF Init
<1>2. /\ input_iter = Begin /\ begin_pos = Begin /\ pc = "idle"
      /\ returned = "nothing" /\ tokens = <<>>
  BY DEF Init
<1>3. InText(Begin) BY <1>1, BeginInText
<1>4. Standing(Begin, "idle", Begin) BY <1>3 DEF Standing, Reading
<1>5. TokensInv(<<>>) BY DEF TokensInv
<1>6. OnlySpace(Behind(<<>>), Unread(Begin, "idle", Begin))
  BY <1>1, <1>3, NothingBetween DEF Behind, Unread, Reading, OnlySpace
<1>7. VerdictInv(Begin, "idle", Begin, "nothing") BY DEF VerdictInv, Nullopt
<1> QED BY <1>1, <1>2, <1>4, <1>5, <1>6, <1>7 DEF Inv, Good

(* A call begins, skips white space, or ends without a token. *)
LEMMA SkippingKeepsInv ==
    ASSUME Inv, Call \/ DiscardWhitespace \/ ReturnEos \/ RejectSymbol PROVE Inv'
<1> USE DEF Good, Standing, Unread, Reading, VerdictInv, Nullopt
<1>0. SourceInv BY DEF Inv
<1>1. CASE Call
  <2>1. Good(input_iter', pc', begin_pos', returned', tokens')
    BY <1>1 DEF Inv, Call, Goto
  <2> QED BY <1>0, <1>1, <2>1, InvAfter DEF Call
<1>2. CASE DiscardWhitespace
  <2>1. /\ pc = "discard" /\ input_iter # End /\ Current \in Whitespace
        /\ UNCHANGED <<source, pc, begin_pos, returned, tokens>>
        /\ input_iter' = Advance(input_iter)
    BY <1>2 DEF DiscardWhitespace
  <2>2. input_iter \in Position /\ Readable(input_iter) BY <2>1, AtCharacter
  <2>3. InText(Advance(input_iter)) BY <1>0, <2>2, AdvanceSteps
  <2>4. OnlySpace(Behind(tokens), input_iter) BY <2>1 DEF Inv
  <2>5. OnlySpace(Behind(tokens), Advance(input_iter))
    BY <1>0, <2>1, <2>2, <2>4, BehindInText, BetweenGrows DEF OnlySpace, Current
  <2>6. returned \notin {"EOS", "nullopt"} BY <2>1 DEF Inv, Rejected, Current
  <2>7. Good(input_iter', pc', begin_pos', returned', tokens')
    BY <2>1, <2>3, <2>5, <2>6 DEF Inv
  <2> QED BY <1>0, <2>1, <2>7, InvAfter
<1>3. CASE ReturnEos
  <2>1. Good(input_iter', pc', begin_pos', returned', tokens')
    BY <1>3 DEF Inv, ReturnEos, Goto
  <2> QED BY <1>0, <1>3, <2>1, InvAfter DEF ReturnEos
<1>4. CASE RejectSymbol
  <2>1. /\ pc = "discard" /\ pc' = "idle" /\ input_iter # End /\ returned' = "nullopt"
        /\ Current \notin Whitespace /\ ~IsValidSymbol(Current)
        /\ UNCHANGED <<source, input_iter, begin_pos, tokens>>
    BY <1>4 DEF RejectSymbol, Goto
  <2>2. Rejected(input_iter) BY <2>1, AtCharacter DEF Rejected, Current
  <2>3. Good(input_iter', pc', begin_pos', returned', tokens')
    BY <2>1, <2>2 DEF Inv
  <2> QED BY <1>0, <2>1, <2>3, InvAfter
<1> QED BY <1>1, <1>2, <1>3, <1>4

(* A token of one character. *)
LEMMA SingletonKeepsInv == ASSUME Inv, ParseSingleton PROVE Inv'
<1> DEFINE token == [type |-> Current, begin |-> input_iter, end |-> Advance(input_iter)]
<1>0. SourceInv BY DEF Inv
<1>1. /\ pc = "discard" /\ pc' = "idle" /\ Current \in Singletons
      /\ UNCHANGED <<source, begin_pos>> /\ input_iter' = Advance(input_iter)
      /\ returned' = "token" /\ tokens' = Append(tokens, token)
  BY DEF ParseSingleton, Goto, ReturnToken
<1>2. Current \in Symbols /\ Current # NoChar /\ Current # Newline
      /\ Current \notin Letters /\ Current # "LITERAL"
  BY <1>1, LexerAssumption, SourceCodeAssumption DEF Singletons
<1>3. input_iter \in Position /\ Readable(input_iter) BY <1>2, AtCharacter
<1>4. /\ InText(Advance(input_iter)) /\ InText(input_iter)
      /\ Advance(input_iter).line = input_iter.line
      /\ Advance(input_iter).cursor = input_iter.cursor + 1
  BY <1>0, <1>2, <1>3, AdvanceSteps DEF Current, InText
<1>5. Between(input_iter, Advance(input_iter)) = {Current}
  BY <1>0, <1>3, <1>4, NothingBetween, BetweenGrows DEF Current
<1>6. TokenInv(token)
  BY <1>2, <1>3, <1>4, <1>5 DEF TokenInv, OnOneLine, Current, Position
<1>7. token \in TokenRecords
  BY <1>1, <1>3, <1>4 DEF TokenRecords, TokenTypes, InText
<1>8. OnlySpace(Behind(tokens), input_iter) /\ TokensInv(tokens)
  BY <1>1 DEF Inv, Good, Unread, Reading
<1>9. TokensInv(tokens') /\ OnlySpace(Behind(tokens'), input_iter')
  <2> HIDE DEF token
  <2>1. token.begin = input_iter /\ token.end = Advance(input_iter) BY DEF token
  <2> QED BY <1>0, <1>1, <1>6, <1>7, <1>8, <2>1, OneMoreToken
<1>10. Good(input_iter', pc', begin_pos', returned', tokens')
  <2>1. Standing(input_iter', pc', begin_pos')
    BY <1>1, <1>4 DEF Inv, Good, Standing, Reading
  <2> QED BY <1>1, <1>9, <2>1 DEF Good, Unread, Reading, VerdictInv, Nullopt
<1> QED BY <1>0, <1>1, <1>10, InvAfter

(* A longer token is begun. *)
LEMMA StartKeepsInv ==
    ASSUME Inv, StartAssignment \/ StartLiteral \/ StartWord PROVE Inv'
<1> USE DEF Reading, Nullopt
<1>0. SourceInv BY DEF Inv
<1>1. /\ pc = "discard" /\ begin_pos' = input_iter
      /\ UNCHANGED <<source, returned, tokens>>
      /\ Current \in Chars /\ IsValidSymbol(Current)
      /\ \/ /\ pc' = "assignment" /\ input_iter' = Advance(input_iter)
            /\ Current = ":"
         \/ pc' = "literal" /\ input_iter' = input_iter /\ Current \in Digits
         \/ pc' = "word" /\ input_iter' = input_iter /\ Current \in Letters
  BY LexerAssumption
     DEF StartAssignment, StartLiteral, StartWord, Goto, IsValidSymbol
<1>2. input_iter \in Position /\ Readable(input_iter) /\ input_iter # End
      /\ InText(input_iter)
  BY <1>1, SourceCodeAssumption, AtCharacter DEF InText
<1>3. OnlySpace(Behind(tokens), input_iter) /\ TokensInv(tokens)
  BY <1>1 DEF Inv, Good, Unread
<1>4. Standing(input_iter', pc', begin_pos')
  <2>1. CASE pc' = "assignment"
    <3>1. Current # Newline /\ Current = ":" /\ input_iter' = Advance(input_iter)
      BY <1>1, <2>1, LexerAssumption
    <3>2. /\ InText(Advance(input_iter)) /\ Readable(Advance(input_iter))
          /\ Advance(input_iter).line = input_iter.line
          /\ Advance(input_iter).cursor = input_iter.cursor + 1
      BY <1>0, <1>2, <3>1, AdvanceSteps DEF Current
    <3>3. Between(input_iter, Advance(input_iter)) = {Current}
      BY <1>0, <1>2, NothingBetween, BetweenGrows DEF Current
    <3>4. OnOneLine(input_iter, Advance(input_iter))
      BY <1>2, <3>1, <3>2, <3>3 DEF OnOneLine, Position
    <3> QED BY <1>1, <1>2, <2>1, <3>1, <3>2, <3>4 DEF Standing, Current
  <2>2. CASE pc' # "assignment"
    BY <1>0, <1>1, <1>2, <2>2, NothingBetween DEF Standing, Current
  <2> QED BY <2>1, <2>2
<1>5. VerdictInv(input_iter', pc', begin_pos', returned')
  <2>1. VerdictInv(input_iter, pc, begin_pos, returned) BY DEF Inv, Good
  <2>2. returned # "EOS" BY <1>2, <2>1 DEF VerdictInv
  <2>3. ASSUME returned = "nullopt" PROVE pc' = "assignment" /\ Rejected(input_iter)
    <3>1. Rejected(input_iter) BY <1>1, <2>1, <2>3 DEF VerdictInv, Unread
    <3>2. Current = ":" BY <1>1, <3>1 DEF Rejected, Current
    <3> QED BY <1>1, <3>1, <3>2, LexerAssumption
  <2> QED BY <1>1, <2>1, <2>2, <2>3 DEF VerdictInv, Unread
<1>6. OnlySpace(Behind(tokens'), Unread(input_iter', pc', begin_pos'))
  BY <1>1, <1>3 DEF Unread
<1>7. Good(input_iter', pc', begin_pos', returned', tokens')
  BY <1>1, <1>3, <1>4, <1>5, <1>6 DEF Good
<1> QED BY <1>0, <1>1, <1>7, InvAfter

(* What a token that was read leaves behind. *)
LEMMA TokenKeepsInv ==
    ASSUME Inv, NEW token \in TokenRecords, TokenInv(token), UNCHANGED source,
           pc \in Reading, token.begin = begin_pos, token.end = input_iter',
           pc' = "idle", begin_pos' = begin_pos, returned' = "token",
           tokens' = Append(tokens, token)
    PROVE  Inv'
<1> USE DEF Reading, Nullopt
<1>0. SourceInv BY DEF Inv
<1>1. OnlySpace(Behind(tokens), begin_pos) /\ TokensInv(tokens)
  BY DEF Inv, Good, Unread
<1>2. TokensInv(tokens') /\ OnlySpace(Behind(tokens'), input_iter')
  BY <1>0, <1>1, OneMoreToken
<1>3. Standing(input_iter', pc', begin_pos')
  BY DEF Inv, Good, Standing, TokenInv
<1>4. Good(input_iter', pc', begin_pos', returned', tokens')
  BY <1>2, <1>3 DEF Good, Unread, VerdictInv
<1> QED BY <1>0, <1>4, InvAfter

(* ":=", or a ":" that is given back. *)
LEMMA AssignmentKeepsInv == ASSUME Inv, FinishAssignment PROVE Inv'
<1> USE DEF Reading, Nullopt
<1>0. SourceInv BY DEF Inv
<1>1. /\ pc = "assignment" /\ pc' = "idle"
      /\ UNCHANGED <<source, begin_pos>>
  BY DEF FinishAssignment, Goto
<1>2. /\ Readable(begin_pos) /\ Readable(input_iter) /\ OnOneLine(begin_pos, input_iter)
      /\ InText(begin_pos) /\ InText(input_iter)
      /\ CharAt(begin_pos) = ":" /\ input_iter = Advance(begin_pos)
  BY <1>1 DEF Inv, Good, Standing
<1>3. begin_pos \in Position /\ input_iter \in Position
  BY <1>2 DEF InText, Position, End, SourceInv
<1>4. ":" \in Symbols /\ ":" \notin Whitespace \cup Digits \cup Letters
      /\ "=" # Newline
  BY LexerAssumption
<1>5. CASE Current = "="
  <2> DEFINE token == [type |-> "VAR_ASSIGNMENT_OP", begin |-> begin_pos,
                       end |-> Advance(input_iter)]
  <2>1. /\ input_iter' = Advance(input_iter) /\ returned' = "token"
        /\ tokens' = Append(tokens, token)
    BY <1>5 DEF FinishAssignment, ReturnToken
  <2>2. /\ InText(Advance(input_iter))
        /\ Advance(input_iter).line = input_iter.line
        /\ Advance(input_iter).cursor = input_iter.cursor + 1
    BY <1>0, <1>2, <1>3, <1>4, <1>5, AdvanceSteps DEF Current
  <2>3. Before(begin_pos, input_iter) BY <1>2 DEF OnOneLine, Before
  <2>4. Between(begin_pos, Advance(input_iter)) = Between(begin_pos, input_iter) \cup {Current}
    BY <1>0, <1>2, <1>3, <2>3, BetweenGrows DEF Current
  <2>5. OnOneLine(begin_pos, Advance(input_iter)) /\ begin_pos # Advance(input_iter)
    BY <1>2, <1>3, <1>4, <1>5, <2>2, <2>4 DEF OnOneLine, Position
  <2>6. TokenInv(token) BY <1>2, <1>4, <2>2, <2>5 DEF TokenInv
  <2>7. Advance(input_iter) \in Position BY <2>2 DEF InText
  <2>8. token \in TokenRecords BY <1>3, <2>7 DEF TokenRecords, TokenTypes
  <2>9. token.begin = begin_pos /\ token.end = input_iter' BY <2>1
  <2> HIDE DEF token
  <2> QED BY <1>1, <2>1, <2>6, <2>8, <2>9, TokenKeepsInv
<1>6. CASE Current # "="
  <2>1. /\ input_iter' = begin_pos /\ returned' = "nullopt" /\ tokens' = tokens
    BY <1>6 DEF FinishAssignment
  <2>2. Rejected(begin_pos) BY <1>2, <1>4, <1>6 DEF Rejected, Current
  <2>3. OnlySpace(Behind(tokens), begin_pos) /\ TokensInv(tokens)
    BY <1>1 DEF Inv, Good, Unread
  <2>4. Good(input_iter', pc', begin_pos', returned', tokens')
    BY <1>1, <1>2, <2>1, <2>2, <2>3 DEF Good, Standing, Unread, VerdictInv
  <2> QED BY <1>0, <1>1, <2>4, InvAfter
<1> QED BY <1>5, <1>6

(* One more character of a literal or a word, or the end of it. *)
LEMMA ReadKeepsInv == ASSUME Inv, ReadOne PROVE Inv'
<1> USE DEF Reading, Nullopt
<1>0. SourceInv BY DEF Inv
<1>1. /\ pc \in {"literal", "word"}
      /\ pc = "literal" => Current \in Digits
      /\ pc = "word" => Current \in Letters
      /\ UNCHANGED <<source, pc, begin_pos, returned, tokens>>
      /\ input_iter' = Advance(input_iter)
  BY DEF ReadOne, Continues
<1>2. Current # Newline BY <1>1, LexerAssumption
<1>3. /\ Readable(begin_pos) /\ Readable(input_iter) /\ OnOneLine(begin_pos, input_iter)
      /\ InText(begin_pos) /\ InText(input_iter)
  BY <1>1 DEF Inv, Good, Standing
<1>4. begin_pos \in Position /\ input_iter \in Position BY <1>3 DEF InText
<1>5. /\ InText(Advance(input_iter)) /\ Readable(Advance(input_iter))
      /\ Advance(input_iter).line = input_iter.line
      /\ Advance(input_iter).cursor = input_iter.cursor + 1
  BY <1>0, <1>2, <1>3, <1>4, AdvanceSteps DEF Current
<1>6. Before(begin_pos, input_iter) BY <1>3 DEF OnOneLine, Before
<1>7. Between(begin_pos, Advance(input_iter)) = Between(begin_pos, input_iter) \cup {Current}
  BY <1>0, <1>3, <1>4, <1>6, BetweenGrows DEF Current
<1>8. OnOneLine(begin_pos, Advance(input_iter))
  BY <1>2, <1>3, <1>4, <1>5, <1>7 DEF OnOneLine, Position
<1>9. Standing(input_iter', pc', begin_pos')
  <2>1. Standing(input_iter, pc, begin_pos) BY DEF Inv, Good
  <2> QED BY <1>1, <1>3, <1>5, <1>7, <1>8, <2>1 DEF Standing
<1>10. Good(input_iter', pc', begin_pos', returned', tokens')
  BY <1>1, <1>9 DEF Inv, Good, Unread, VerdictInv
<1> QED BY <1>0, <1>1, <1>10, InvAfter

LEMMA FinishReadKeepsInv == ASSUME Inv, FinishRead PROVE Inv'
<1> USE DEF Reading
<1> DEFINE text == Text([begin |-> begin_pos, end |-> input_iter])
           type == IF pc = "literal" THEN "LITERAL" ELSE WordType(text)
           token == [type |-> type, begin |-> begin_pos, end |-> input_iter]
<1>1. /\ pc \in {"literal", "word"} /\ pc' = "idle"
      /\ ~(IsValidSymbol(Current) /\ Continues(Current))
      /\ UNCHANGED <<source, input_iter, begin_pos>>
      /\ returned' = "token" /\ tokens' = Append(tokens, token)
  BY DEF FinishRead, ReturnToken
<1>2. /\ Readable(begin_pos) /\ OnOneLine(begin_pos, input_iter)
      /\ InText(begin_pos) /\ InText(input_iter)
      /\ pc = "literal" => CharAt(begin_pos) \in Digits
                              /\ Between(begin_pos, input_iter) \subseteq Digits
      /\ pc = "word" => CharAt(begin_pos) \in Letters
                           /\ Between(begin_pos, input_iter) \subseteq Letters
  BY <1>1 DEF Inv, Good, Standing
<1>3. /\ pc = "literal" => Current \notin Digits
      /\ pc = "word" => Current \notin Letters
  BY <1>1 DEF IsValidSymbol, Continues
<1>4. begin_pos # input_iter BY <1>1, <1>2, <1>3 DEF Current
<1>5. begin_pos \in Position /\ input_iter \in Position
  BY <1>2 DEF InText, Position, End, SourceInv, Inv
<1>6. /\ type \in TokenTypes
      /\ pc = "word" => type # "LITERAL"
  BY <1>1, LexerAssumption DEF TokenTypes, WordType
<1> HIDE DEF type
<1>7. token \in TokenRecords BY <1>5, <1>6 DEF TokenRecords
<1>8. Text(token) = text BY DEF Text
<1>9. TokenInv(token)
  <2>1. CASE pc = "literal"
    <3>1. CharAt(begin_pos) \notin Letters BY <1>2, <2>1, LexerAssumption
    <3> QED BY <1>2, <1>3, <1>4, <2>1, <3>1 DEF TokenInv, Current
  <2>2. CASE pc = "word"
    <3>1. type = WordType(text) BY <2>2 DEF type
    <3> QED BY <1>2, <1>3, <1>4, <1>6, <1>8, <2>2, <3>1 DEF TokenInv, Current
  <2> QED BY <1>1, <2>1, <2>2
<1>10. token.begin = begin_pos /\ token.end = input_iter' BY <1>1
<1> HIDE DEF token
<1> QED BY <1>1, <1>7, <1>9, <1>10, TokenKeepsInv

LEMMA NextInv == Inv /\ [Next]_vars => Inv'
<1> SUFFICES ASSUME Inv, [Next]_vars PROVE Inv'
  OBVIOUS
<1>1. CASE UNCHANGED vars
  <2>1. Good(input_iter', pc', begin_pos', returned', tokens')
    BY <1>1 DEF Inv, vars
  <2> QED BY <1>1, <2>1, InvAfter DEF Inv, vars
<1>2. CASE Call \/ DiscardWhitespace \/ ReturnEos \/ RejectSymbol
  BY <1>2, SkippingKeepsInv
<1>3. CASE ParseSingleton BY <1>3, SingletonKeepsInv
<1>4. CASE StartAssignment \/ StartLiteral \/ StartWord BY <1>4, StartKeepsInv
<1>5. CASE FinishAssignment BY <1>5, AssignmentKeepsInv
<1>6. CASE ReadOne BY <1>6, ReadKeepsInv
<1>7. CASE FinishRead BY <1>7, FinishReadKeepsInv
<1> QED BY <1>1, <1>2, <1>3, <1>4, <1>5, <1>6, <1>7 DEF Next, Running

(* Inv holds throughout every execution. *)
THEOREM Invariance == Spec => []Inv
  BY InitInv, NextInv, PTL DEF Spec

(* Every variable keeps its type, and every token has one of the language. *)
THEOREM LexerTypeCorrect == Spec => []TypeOK
<1>1. Inv => TypeOK
  <2> SUFFICES ASSUME Inv PROVE TypeOK
    OBVIOUS
  <2>1. code \in Seq(Chars) /\ lines \in Seq(Nat) BY DEF Inv, SourceInv
  <2>2. input_iter \in Position /\ begin_pos \in Position
    BY DEF Inv, Good, Standing, InText
  <2>3. /\ pc \in {"idle", "discard", "assignment", "literal", "word"}
        /\ returned \in {"nothing", "EOS", Nullopt, "token"}
    BY DEF Inv, Good, Standing, Reading, VerdictInv
  <2>4. \A k \in DOMAIN tokens : tokens[k].type \in TokenTypes
    <3>1. tokens \in Seq(TokenRecords) BY DEF Inv, Good, TokensInv
    <3>2. \A k \in DOMAIN tokens : tokens[k] \in TokenRecords BY <3>1
    <3> QED BY <3>2 DEF TokenRecords
  <2> QED BY <2>1, <2>2, <2>3, <2>4 DEF TypeOK
<1> QED BY <1>1, Invariance, PTL

(* No loop of the lexer dereferences its iterator behind the text,         *)
(* whatever the text: a character that keeps a loop going is no newline,   *)
(* and the last character is one (lexer.hpp:23-28, lexer.cpp:20-43).       *)
THEOREM NeverReadsPastEnd == Spec => []NoReadPastEnd
<1>1. Inv => NoReadPastEnd
  BY DEF Inv, Good, Standing, Reading, InText, NoReadPastEnd
<1> QED BY <1>1, Invariance, PTL

(* ++ goes on by one character and -- undoes it, across the ends of lines  *)
(* too (SourceCode.cpp:22-39).                                             *)
THEOREM IteratorWalksTheText == Spec => []IteratorIsFlat
<1>1. Inv => IteratorIsFlat
  <2> SUFFICES ASSUME Inv, input_iter # End
               PROVE  /\ Offset(Advance(input_iter)) = Offset(input_iter) + 1
                      /\ Retreat(Advance(input_iter)) = input_iter
    BY DEF IteratorIsFlat
  <2> QED BY AtCharacter, AdvanceSteps DEF Inv
<1> QED BY <1>1, Invariance, PTL

(* The offsets of a token. *)
LEMMA OffsetInCode ==
    ASSUME SourceInv, NEW p, InText(p) PROVE Offset(p) \in 0 .. Len(code)
<1>1. CASE Readable(p) BY <1>1, ReadablePosition, LinesInOrder DEF InText
<1>2. CASE p = End
  <2>1. Offset(p) = LineOffset(Len(lines))
    BY <1>2, LinesInOrder DEF Offset, End, LineOffset
  <2>2. CASE Len(lines) = 0 BY <2>1, <2>2, LinesInOrder DEF LineOffset
  <2>3. CASE Len(lines) # 0
    <3>1. Len(lines) \in 1 .. Len(lines) BY <2>3, LinesInOrder
    <3> QED BY <2>1, <2>3, <3>1, LinesInOrder DEF LineOffset
  <2> QED BY <2>2, <2>3
<1> QED BY <1>1, <1>2 DEF InText

LEMMA TokensNotEmpty ==
    ASSUME SourceInv, NEW p, NEW q, InText(p), InText(q), OnOneLine(p, q), p # q
    PROVE  Offset(p) \in Nat /\ Offset(q) \in Nat /\ Offset(p) < Offset(q)
<1>1. Before(p, q) BY DEF OnOneLine, Before
<1>2. Offset(p) \in Nat /\ Offset(q) \in Nat /\ Offset(p) <= Offset(q)
  BY <1>1, OffsetsOrdered
<1>3. p.line = q.line /\ p.cursor \in Nat /\ q.cursor \in Nat /\ p.cursor # q.cursor
  BY DEF OnOneLine, InText, Position
<1>4. LineOffset(p.line) \in Nat
  BY <1>3, LinesInOrder DEF LineOffset, InText, Position, Readable, End
<1> QED BY <1>2, <1>3, <1>4 DEF Offset

(* The tokens of any text tile it, with only white space between them.     *)
THEOREM TokensTileTheText == Spec => []TokensTile
<1>1. Inv => TokensTile
  <2> SUFFICES ASSUME Inv, NEW k \in DOMAIN tokens
               PROVE  LET behind == IF k = 1 THEN 0 ELSE Offset(tokens[k - 1].end)
                          first  == Offset(tokens[k].begin)
                      IN /\ behind <= first
                         /\ first < Offset(tokens[k].end)
                         /\ \A i \in behind + 1 .. first : code[i] \in Whitespace
                         /\ Newline \notin {code[i] : i \in first + 1 .. Offset(tokens[k].end)}
    BY DEF TokensTile
  <2> DEFINE previous == IF k = 1 THEN Begin ELSE tokens[k - 1].end
             begin == tokens[k].begin
             end == tokens[k].end
  <2>1. SourceInv /\ TokensInv(tokens) /\ k \in 1 .. Len(tokens)
    BY DEF Inv, Good, TokensInv
  <2>2. TokenInv(tokens[k]) /\ OnlySpace(previous, begin) BY <2>1 DEF TokensInv
  <2>3. InText(previous)
    <3>1. CASE k = 1 BY <3>1, <2>1, BeginInText
    <3>2. CASE k # 1
      <4>1. k - 1 \in 1 .. Len(tokens) BY <2>1, <3>2
      <4> QED BY <4>1, <3>2, <2>1 DEF TokensInv, TokenInv
    <3> QED BY <3>1, <3>2
  <2>4. Offset(previous) = IF k = 1 THEN 0 ELSE Offset(tokens[k - 1].end)
    BY <2>1, BeginInText
  <2>5. InText(begin) /\ InText(end) /\ OnOneLine(begin, end) /\ begin # end
    BY <2>2 DEF TokenInv
  <2>6. Offset(previous) <= Offset(begin)
    BY <2>1, <2>2, <2>3, <2>5, OffsetsOrdered DEF OnlySpace
  <2>7. Offset(begin) < Offset(end) BY <2>1, <2>5, TokensNotEmpty
  <2>8. Between(previous, begin) \subseteq Whitespace BY <2>2 DEF OnlySpace
  <2>9. Newline \notin Between(begin, end) BY <2>5 DEF OnOneLine
  <2> HIDE DEF previous
  <2> QED BY <2>4, <2>6, <2>7, <2>8, <2>9 DEF Between
<1> QED BY <1>1, Invariance, PTL

(* Literals and words are maximal runs of one class, and a word is a       *)
(* keyword exactly when the whole of it is one (lexer.cpp:34-43,103-135).  *)
THEOREM MunchIsMaximal == Spec => []MaximalMunch
<1>1. Inv => MaximalMunch
  <2> SUFFICES ASSUME Inv, NEW k \in DOMAIN tokens
               PROVE  LET token == tokens[k]
                          text  == Text(token)
                          chars == {text[i] : i \in 1 .. Len(text)}
                      IN CASE token.type = "LITERAL" ->
                                  chars \subseteq Digits /\ CharAt(token.end) \notin Digits
                           [] text[1] \in Letters ->
                                  /\ chars \subseteq Letters
                                  /\ CharAt(token.end) \notin Letters
                                  /\ IF text \in DOMAIN Keywords
                                     THEN token.type = Keywords[text]
                                     ELSE token.type = "IDENTIFIER"
                           [] OTHER -> TRUE
    BY DEF MaximalMunch
  <2> DEFINE token == tokens[k]
             text  == Text(token)
             chars == {text[i] : i \in 1 .. Len(text)}
             first == Offset(token.begin)
             last  == Offset(token.end)
  <2>1. SourceInv /\ k \in 1 .. Len(tokens) /\ TokenInv(token)
    BY DEF Inv, Good, TokensInv
  <2>2. /\ InText(token.begin) /\ InText(token.end) /\ OnOneLine(token.begin, token.end)
        /\ token.begin # token.end
    BY <2>1 DEF TokenInv
  <2>3. Readable(token.begin) /\ token.begin \in Position
    <3>1. token.begin = End => ~Readable(token.end)
      BY <2>2, <2>1, LinesInOrder DEF OnOneLine, End, Readable
    <3> QED BY <3>1, <2>2 DEF InText
  <2>4. first \in Nat /\ last \in Nat /\ first < last
    BY <2>1, <2>2, TokensNotEmpty
  <2>5. last <= Len(code) /\ code \in Seq(Chars)
    BY <2>1, <2>2, OffsetInCode DEF SourceInv
  <2>6. /\ Len(text) = last - first
        /\ \A i \in 1 .. Len(text) : text[i] = code[first + i]
    BY <2>4, <2>5, SubSeqProperties DEF Text
  <2>7. text[1] = CharAt(token.begin)
    BY <2>1, <2>3, <2>4, <2>6, ReadablePosition
  <2>8. chars \subseteq Between(token.begin, token.end)
    <3> SUFFICES ASSUME NEW i \in 1 .. Len(text)
                 PROVE  text[i] \in Between(token.begin, token.end)
      OBVIOUS
    <3>1. first + i \in first + 1 .. last BY <2>4, <2>6
    <3> QED BY <3>1, <2>6 DEF Between
  <2> HIDE DEF text, token
  <2>9. token.type = "LITERAL" => /\ chars \subseteq Digits /\ CharAt(token.end) \notin Digits
                                  /\ text[1] \notin Letters
    BY <2>1, <2>7, <2>8, LexerAssumption DEF TokenInv
  <2>10. text[1] \in Letters =>
            /\ chars \subseteq Letters /\ CharAt(token.end) \notin Letters
            /\ token.type = WordType(text)
    BY <2>1, <2>7, <2>8 DEF TokenInv, text
  <2> HIDE DEF chars
  <2> QED BY <2>9, <2>10 DEF WordType, token, text, chars
<1> QED BY <1>1, Invariance, PTL

(* Once a call has found no token, no later call finds one. *)
THEOREM VerdictsStick == Spec => VerdictIsSticky
<1> DEFINE Sticks == (returned \in {Nullopt, "EOS"}) => (UNCHANGED <<returned, tokens>>)
<1>1. ASSUME Inv, Next, returned \in {Nullopt, "EOS"}
      PROVE  returned' = returned /\ tokens' = tokens
  <2>1. VerdictInv(input_iter, pc, begin_pos, returned) BY <1>1 DEF Inv, Good
  <2>2. CASE returned = "EOS"
    <3>1. input_iter = End /\ pc \in {"idle", "discard"}
      BY <2>1, <2>2 DEF VerdictInv
    <3>2. Current = NoChar
      BY <1>1, <3>1 DEF Current, CharAt, Readable, End, Inv, SourceInv
    <3>3. /\ Current \notin Singletons /\ Current # ":" /\ ~IsValidSymbol(Current)
          /\ Current \notin Digits
      BY <3>2, LexerAssumption, SourceCodeAssumption DEF Singletons, IsValidSymbol
    <3> QED BY <1>1, <2>2, <3>1, <3>3
         DEF Next, Running, Call, DiscardWhitespace, ReturnEos, RejectSymbol,
             ParseSingleton, StartAssignment, FinishAssignment, StartLiteral,
             StartWord, ReadOne, FinishRead, Goto
  <2>3. CASE returned = Nullopt
    <3>1. pc \notin {"literal", "word"} /\ Rejected(Unread(input_iter, pc, begin_pos))
      BY <2>1, <2>3 DEF VerdictInv, Nullopt
    <3>2. CASE pc = "assignment"
      <4>1. CharAt(begin_pos) = ":" /\ input_iter = Advance(begin_pos)
        BY <1>1, <3>2 DEF Inv, Good, Standing
      <4>2. Current # "="
        BY <3>1, <3>2, <4>1, LexerAssumption
           DEF Rejected, Unread, Reading, Current, IsValidSymbol
      <4> QED BY <1>1, <2>3, <3>2, <4>2
           DEF Next, Running, Call, DiscardWhitespace, ReturnEos, RejectSymbol,
               ParseSingleton, StartAssignment, FinishAssignment, StartLiteral,
               StartWord, ReadOne, Continues, FinishRead, Goto
    <3>3. CASE pc # "assignment"
      <4>1. Rejected(input_iter) BY <3>1, <3>3 DEF Unread, Reading
      <4>2. input_iter # End
        BY <4>1, <1>1 DEF Rejected, Readable, End, Inv, SourceInv
      <4>3. Current \notin Singletons
        BY <4>1 DEF Rejected, Current, Singletons, IsValidSymbol
      <4> QED BY <1>1, <2>3, <3>1, <3>3, <4>2, <4>3
           DEF Next, Running, Call, DiscardWhitespace, ReturnEos, RejectSymbol,
               ParseSingleton, StartAssignment, FinishAssignment, StartLiteral,
               StartWord, ReadOne, Continues, FinishRead, Goto
    <3> QED BY <3>2, <3>3
  <2> QED BY <1>1, <2>2, <2>3
<1>2. Inv /\ [Next]_vars => [Sticks]_vars BY <1>1
<1> QED BY <1>2, Invariance, PTL DEF Spec, VerdictIsSticky

(* The characters a call has still to look at, and the choice of the token *)
(* while it is open.                                                       *)
TurnsLeft == Len(code) - Offset(input_iter) + (IF pc = "discard" THEN 1 ELSE 0)

TurnsShrink ==
    /\ TurnsLeft \in Nat
    /\ pc' = "idle" \/ (TurnsLeft' \in Nat /\ TurnsLeft' < TurnsLeft)

(* Every turn of a loop in next() ends the call or leaves it fewer turns,  *)
(* although read_until never asks for the end of the text (lexer.hpp:26):  *)
(* no call runs for ever, on any text.                                     *)
THEOREM LexerTurnsShrink == Spec => [][Running => TurnsShrink]_vars
<1>1. ASSUME Inv, Running PROVE TurnsShrink
  <2> DEFINE o == Offset(input_iter)
  <2>0. SourceInv /\ InText(input_iter) BY <1>1 DEF Inv, Good, Standing
  <2>1. o \in 0 .. Len(code) /\ Len(code) \in Nat BY <2>0, OffsetInCode DEF SourceInv
  <2>2. TurnsLeft = Len(code) - o + (IF pc = "discard" THEN 1 ELSE 0) BY DEF TurnsLeft
  <2>3. TurnsLeft \in Nat BY <2>1, <2>2
  <2>4. code' = code /\ lines' = lines
    BY <1>1 DEF Running, DiscardWhitespace, ReturnEos, RejectSymbol, ParseSingleton,
                StartAssignment, FinishAssignment, StartLiteral, StartWord, ReadOne,
                FinishRead, source
  <2>5. Offset(input_iter)' = Offset(input_iter') BY <2>4 DEF Offset, LineOffset
  <2>6. Current \notin {NoChar} =>
           /\ Offset(Advance(input_iter)) = o + 1
           /\ Offset(Advance(input_iter)) \in 0 .. Len(code)
    BY <1>1, <2>0, AtCharacter, AdvanceSteps, OffsetInCode
  <2>7. NoChar \notin Whitespace /\ ~IsValidSymbol(NoChar) /\ ":" # NoChar
    BY LexerAssumption, SourceCodeAssumption DEF IsValidSymbol
  <2> HIDE DEF o
  <2>8. CASE DiscardWhitespace \/ ReadOne
    <3>1. input_iter' = Advance(input_iter) /\ pc' = pc /\ Current # NoChar
      BY <2>7, <2>8 DEF DiscardWhitespace, ReadOne
    <3>2. TurnsLeft' = Len(code) - (o + 1) + (IF pc = "discard" THEN 1 ELSE 0)
      BY <2>4, <2>5, <2>6, <3>1 DEF TurnsLeft
    <3> QED BY <2>1, <2>2, <2>3, <2>6, <3>1, <3>2 DEF TurnsShrink
  <2>9. CASE StartAssignment
    <3>1. input_iter' = Advance(input_iter) /\ pc = "discard" /\ pc' = "assignment"
          /\ Current # NoChar
      BY <2>7, <2>9 DEF StartAssignment, Goto
    <3>2. TurnsLeft' = Len(code) - (o + 1)
      BY <2>1, <2>4, <2>5, <2>6, <3>1 DEF TurnsLeft
    <3> QED BY <2>1, <2>2, <2>3, <2>6, <3>1, <3>2 DEF TurnsShrink
  <2>10. CASE StartLiteral \/ StartWord
    <3>1. input_iter' = input_iter /\ pc = "discard" /\ pc' \in {"literal", "word"}
      BY <2>10 DEF StartLiteral, StartWord, Goto
    <3>2. TurnsLeft' = Len(code) - o
      BY <2>1, <2>4, <2>5, <3>1 DEF TurnsLeft, o
    <3> QED BY <2>1, <2>2, <2>3, <3>1, <3>2 DEF TurnsShrink
  <2>11. CASE ReturnEos \/ RejectSymbol \/ ParseSingleton \/ FinishAssignment \/ FinishRead
    <3>1. pc' = "idle"
      BY <2>11 DEF ReturnEos, RejectSymbol, ParseSingleton, FinishAssignment, FinishRead, Goto
    <3> QED BY <2>3, <3>1 DEF TurnsShrink
  <2> QED BY <1>1, <2>8, <2>9, <2>10, <2>11 DEF Running
<1>2. Inv /\ [Next]_vars => [Running => TurnsShrink]_vars BY <1>1
<1> QED BY <1>2, Invariance, PTL DEF Spec

-----------------------------------------------------------------------------
(* The source fragments of nodes.  Extend compares positions with an       *)
(* operator that is no order across lines; what it does all the same is to *)
(* keep a fragment on the line of the last token, because the tokens come  *)
(* in order.                                                               *)

(* A fragment over tokens ends with the last; it begins with the first one *)
(* if that is on the same line.                                            *)
CoversLastLine(fragment, first, last) ==
    /\ fragment.end = last
    /\ fragment.begin.line = last.line
    /\ fragment.begin.cursor \in Nat /\ fragment.begin.cursor <= last.cursor
    /\ first.line \in Nat /\ first.line <= last.line
    /\ first.line = last.line => fragment.begin = first
    /\ fragment = [begin |-> fragment.begin, end |-> fragment.end]

ReferenceInv ==
    /\ Inv
    /\ tokens = <<>> => reference = EmptyFragment
    /\ Spanned => CoversLastLine(reference, FirstBegin, LastEnd)

(* One step of extend(). *)
LEMMA ExtendOne ==
    ASSUME NEW fragment, NEW first, NEW last \in Position, NEW latest \in Fragment,
           CoversLastLine(fragment, first, last), Before(last, latest.begin),
           latest.begin.line = latest.end.line,
           latest.begin.cursor < latest.end.cursor
    PROVE  CoversLastLine(Extend(fragment, latest), first, latest.end)
<1>1. /\ latest.begin.line \in Nat /\ latest.begin.cursor \in Nat
      /\ latest.end.line \in Nat /\ latest.end.cursor \in Nat
      /\ last.line \in Nat /\ last.cursor \in Nat
      /\ latest = [begin |-> latest.begin, end |-> latest.end]
  BY DEF Fragment, Position
<1>2. /\ fragment.end = last /\ fragment.begin.line = last.line
      /\ fragment.begin.cursor \in Nat /\ fragment.begin.cursor <= last.cursor
      /\ first.line \in Nat /\ first.line <= last.line
      /\ first.line = last.line => fragment.begin = first
  BY DEF CoversLastLine
<1>3. CASE last.line = latest.begin.line
  <2>1. last.cursor <= latest.begin.cursor BY <1>1, <1>3 DEF Before
  <2>2. ~Less(latest.begin, fragment.begin) BY <1>1, <1>2, <1>3, <2>1 DEF Less
  <2>3. Less(fragment.end, latest.end) BY <1>1, <1>2, <1>3, <2>1 DEF Less
  <2>4. Extend(fragment, latest) = [begin |-> fragment.begin, end |-> latest.end]
    BY <2>2, <2>3 DEF Extend
  <2> QED BY <1>1, <1>2, <1>3, <2>1, <2>4 DEF CoversLastLine
<1>4. CASE last.line # latest.begin.line
  <2>1. last.line < latest.begin.line BY <1>1, <1>4 DEF Before
  <2>2. Less(latest.begin, fragment.begin) /\ Less(fragment.end, latest.end)
    BY <1>1, <1>2, <2>1 DEF Less
  <2>3. Extend(fragment, latest) = [begin |-> latest.begin, end |-> latest.end]
    BY <2>2 DEF Extend
  <2> QED BY <1>1, <1>2, <2>1, <2>3 DEF CoversLastLine
<1> QED BY <1>3, <1>4

(* The tokens in their order: what extend() is given, one after the other. *)
InOrder(seen) ==
    /\ seen \in Seq(TokenRecords)
    /\ \A k \in 1 .. Len(seen) :
          /\ seen[k].begin.line = seen[k].end.line
          /\ seen[k].begin.cursor < seen[k].end.cursor
          /\ k # 1 => Before(seen[k - 1].end, seen[k].begin)

LEMMA TokensInOrder == Inv => InOrder(tokens)
<1> SUFFICES ASSUME Inv PROVE InOrder(tokens)
  OBVIOUS
<1>1. tokens \in Seq(TokenRecords) BY DEF Inv, Good, TokensInv
<1>2. ASSUME NEW k \in 1 .. Len(tokens)
      PROVE  /\ tokens[k].begin.line = tokens[k].end.line
             /\ tokens[k].begin.cursor < tokens[k].end.cursor
             /\ k # 1 => Before(tokens[k - 1].end, tokens[k].begin)
  <2>1. TokenInv(tokens[k])
        /\ OnlySpace(IF k = 1 THEN Begin ELSE tokens[k - 1].end, tokens[k].begin)
    BY DEF Inv, Good, TokensInv
  <2>2. tokens[k] \in TokenRecords BY <1>1
  <2>3. tokens[k].begin \in Position /\ tokens[k].end \in Position
    BY <2>2 DEF TokenRecords
  <2> QED BY <2>1, <2>3 DEF TokenInv, OnOneLine, OnlySpace, Position
<1> QED BY <1>1, <1>2 DEF InOrder

(* A call of next() adds at most one token. *)
LEMMA OneTokenAtMost ==
    ASSUME Inv, Next, tokens' # tokens
    PROVE  \E token : tokens' = Append(tokens, token)
<1>1. PICK type, begin : ReturnToken(type, begin)
  BY DEF Next, Running, Call, DiscardWhitespace, ReturnEos, RejectSymbol, ParseSingleton,
         StartAssignment, FinishAssignment, StartLiteral, StartWord, ReadOne, FinishRead
<1> QED BY <1>1 DEF ReturnToken

LEMMA ReferenceStep ==
    ReferenceInv /\ [ReferenceNext]_<<vars, reference>> => ReferenceInv'
<1> SUFFICES ASSUME ReferenceInv, [ReferenceNext]_<<vars, reference>>
             PROVE  ReferenceInv'
  OBVIOUS
<1>1. Inv /\ Inv' BY NextInv DEF ReferenceInv, ReferenceNext
<1>9. InOrder(tokens')
  <2>1. InOrder(tokens)' BY <1>1, TokensInOrder, PTL
  <2> QED BY <2>1 DEF InOrder, Before
<1>2. CASE tokens' = tokens
  <2>1. reference' = reference BY <1>2 DEF ReferenceNext, vars
  <2> QED BY <1>1, <1>2, <2>1
       DEF ReferenceInv, EmptyFragment, Begin, Spanned, FirstBegin, LastEnd,
           CoversLastLine
<1>3. CASE tokens' # tokens
  <2>1. ReferenceNext BY <1>3 DEF vars
  <2>2. PICK token : tokens' = Append(tokens, token)
    BY <1>1, <1>3, <2>1, OneTokenAtMost DEF ReferenceNext
  <2>3. /\ tokens \in Seq(TokenRecords) /\ tokens' \in Seq(TokenRecords)
        /\ Len(tokens') = Len(tokens) + 1 /\ Len(tokens) \in Nat
        /\ tokens'[Len(tokens')] = token
        /\ \A k \in 1 .. Len(tokens) : tokens'[k] = tokens[k]
    <3>1. InOrder(tokens) BY <1>1, TokensInOrder
    <3>2. InOrder(tokens') BY <1>9
    <3>3. tokens \in Seq(TokenRecords) /\ tokens' \in Seq(TokenRecords)
      BY <3>1, <3>2 DEF InOrder
    <3> QED BY <2>2, <3>3
  <2>4. token \in TokenRecords
    <3>1. Len(tokens') \in 1 .. Len(tokens') BY <2>3
    <3> QED BY <2>3, <3>1
  <2> DEFINE latest == ReferenceOf(token)
  <2>5. latest \in Fragment /\ latest.begin = token.begin /\ latest.end = token.end
    BY <2>4 DEF ReferenceOf, Fragment, TokenRecords
  <2>6. /\ latest.begin.line = latest.end.line
        /\ latest.begin.cursor < latest.end.cursor
        /\ tokens # <<>> => Before(LastEnd, latest.begin)
    <3>1. Len(tokens') \in 1 .. Len(tokens') BY <2>3
    <3>2. /\ token.begin.line = token.end.line
          /\ token.begin.cursor < token.end.cursor
          /\ Len(tokens') # 1 =>
                Before(tokens'[Len(tokens') - 1].end, tokens'[Len(tokens')].begin)
      BY <1>9, <2>3, <3>1 DEF InOrder
    <3>3. ASSUME tokens # <<>> PROVE Before(LastEnd, token.begin)
      <4>1. Len(tokens') # 1 /\ Len(tokens') - 1 = Len(tokens)
            /\ Len(tokens) \in 1 .. Len(tokens)
        BY <2>3, <3>3
      <4>2. tokens'[Len(tokens') - 1] = tokens[Len(tokens)] BY <2>3, <4>1
      <4> QED BY <2>3, <3>2, <4>1, <4>2 DEF LastEnd
    <3> QED BY <2>5, <3>2, <3>3
  <2>7. LastEnd' = latest.end BY <2>3, <2>5 DEF LastEnd
  <2>8. CoversLastLine(reference', FirstBegin', latest.end)
    <3>1. CASE tokens = <<>>
      <4>1. reference' = latest /\ FirstBegin' = latest.begin
        BY <1>3, <2>1, <2>3, <2>5, <3>1 DEF ReferenceNext, FirstBegin
      <4> QED BY <2>5, <2>6, <4>1 DEF CoversLastLine, Fragment, Position
    <3>2. CASE tokens # <<>>
      <4>1. 1 \in 1 .. Len(tokens) /\ Len(tokens) \in 1 .. Len(tokens)
        BY <2>3, <3>2
      <4>2. FirstBegin' = FirstBegin BY <2>3, <4>1 DEF FirstBegin
      <4>6. tokens[Len(tokens)] \in TokenRecords BY <2>3, <4>1
      <4>3. LastEnd \in Position BY <4>6 DEF LastEnd, TokenRecords
      <4>4. reference' = Extend(reference, latest)
        BY <1>3, <2>1, <2>3, <3>2 DEF ReferenceNext
      <4>5. CoversLastLine(reference, FirstBegin, LastEnd)
        BY <3>2 DEF ReferenceInv, Spanned
      <4> QED BY <2>5, <2>6, <3>2, <4>2, <4>3, <4>4, <4>5, ExtendOne
    <3> QED BY <3>1, <3>2
  <2>9. tokens' # <<>> BY <2>3
  <2>10. CoversLastLine(reference, FirstBegin, LastEnd)'
    BY <2>7, <2>8 DEF CoversLastLine
  <2> QED BY <1>1, <2>9, <2>10 DEF ReferenceInv, Spanned
<1> QED BY <1>2, <1>3

(* The fragment of the tokens read so far always covers the last line, for *)
(* every text.                                                             *)
THEOREM ReferenceInvariance == ReferenceSpec => []ReferenceInv
<1>1. ReferenceInit => ReferenceInv
  BY InitInv DEF ReferenceInit, ReferenceInv, Init, Spanned
<1> QED BY <1>1, ReferenceStep, PTL DEF ReferenceSpec

(* A node whose tokens are on one line has a fragment from the begin of    *)
(* the first to the end of the last, for every text.                       *)
THEOREM ReferencesCoverTheirLine == ReferenceSpec => []ReferenceCoversLine
<1>1. ReferenceInv => ReferenceCoversLine
  BY DEF ReferenceInv, CoversLastLine, ReferenceCoversLine
<1> QED BY <1>1, ReferenceInvariance, PTL
=============================================================================
