---------------------------- MODULE EditorProof ----------------------------
(* The editor's properties for any texts, characters, queries and bounds.    *)
EXTENDS Editor, TLAPS, SequenceTheorems, Recursion

\* A line, and a text in lines.
Line == Seq(DOMAIN Fold \ {Break})
Document == {lines \in Seq(Line) : lines # <<>>}

Position == [line : Nat \ {0}, column : Nat]

Groups == {None} \cup [kind : {"insert", "delete"}, coalescing : BOOLEAN]

\* What a buffer and what undo and redo put back have in common.
InPlace(s) == /\ InText(s.cursor, s.lines)
              /\ s.anchor # None => InText(s.anchor, s.lines)

Entry == {s \in [lines : Document, cursor : Position, anchor : Position \cup {None},
                 desired : Nat] : InPlace(s)}

Buffer == {b \in [lines : Document, cursor : Position, anchor : Position \cup {None},
                  desired : Nat, undo : Seq(Entry), redo : Seq(Entry),
                  group : Groups] : InPlace(b)}

-----------------------------------------------------------------------------
(* What the recursive functions return.                                      *)

LEMMA LineIsText == Line \subseteq Text
<1> DEFINE S == DOMAIN Fold \ {Break}
           T == DOMAIN Fold \cup {Break}
<1>1. S \subseteq T
  OBVIOUS
<1>2. ASSUME NEW s \in Seq(S) PROVE s \in Seq(T)
  <2> HIDE DEF S, T
  <2> QED BY <1>1, SeqMonotonic
<1> QED BY <1>2 DEF Line, Text

SplitStep(text, i, ls) ==
  IF text[i] = Break THEN Append(ls, <<>>)
  ELSE [ls EXCEPT ![Len(ls)] = Append(@, text[i])]

Splits(text, f) ==
  f = [i \in 0..Len(text) |-> IF i = 0 THEN << <<>> >> ELSE SplitStep(text, i, f[i - 1])]

\* A line more, or a longer line.
LEMMA SplitStepType ==
  ASSUME NEW text \in Text, NEW i \in 1..Len(text), NEW ls \in Document
  PROVE  /\ SplitStep(text, i, ls) \in Document
         /\ Len(SplitStep(text, i, ls)) = 1 =>
              Len(ls) = 1 /\ Len(SplitStep(text, i, ls)[1]) = Len(ls[1]) + 1
<1> DEFINE none == <<>>
           T == Line
<1>1. text[i] \in DOMAIN Fold \cup {Break}
  BY DEF Text, Line
<1>2. none \in T
  BY DEF Text, Line
<1>3. ls \in Seq(T) /\ Len(ls) \in Nat \ {0} /\ Len(ls) \in 1..Len(ls)
  BY DEF Document
<1>4. CASE text[i] = Break
  <2>1. Append(ls, none) \in Seq(T) /\ Len(Append(ls, none)) = Len(ls) + 1
    <3> HIDE DEF none, T
    <3> QED BY <1>2, <1>3
  <2>2. Append(ls, none) # <<>>
    BY <2>1, <1>3
  <2> QED BY <1>3, <1>4, <2>1, <2>2 DEF SplitStep, Document
<1>5. CASE text[i] # Break
  <2> DEFINE last == Append(ls[Len(ls)], text[i])
             new == [ls EXCEPT ![Len(ls)] = last]
  <2>1. last \in T /\ Len(last) = Len(ls[Len(ls)]) + 1
    <3> DEFINE C == DOMAIN Fold \ {Break}
               line == ls[Len(ls)]
               c == text[i]
    <3>1. line \in Seq(C) /\ c \in C
      BY <1>1, <1>3, <1>5 DEF Line
    <3> HIDE DEF C, line, c
    <3>2. Append(line, c) \in Seq(C) /\ Len(Append(line, c)) = Len(line) + 1
      BY <3>1
    <3> QED BY <3>2 DEF C, line, c, Line
  <2>2. new \in Seq(T) /\ Len(new) = Len(ls) /\ new[Len(ls)] = last
    <3> HIDE DEF last, T
    <3> QED BY <1>3, <2>1
  <2>3. new # <<>>
    BY <1>3, <2>2
  <2>4. SplitStep(text, i, ls) = new
    BY <1>5 DEF SplitStep
  <2> HIDE DEF new, last
  <2> QED BY <1>3, <2>1, <2>2, <2>3, <2>4 DEF Document
<1> QED BY <1>4, <1>5

LEMMA LinesSteps ==
  ASSUME NEW text \in Text
  PROVE  \E f \in [0..Len(text) -> Document] : Splits(text, f) /\ Lines(text) = f[Len(text)]
<1> DEFINE N == Len(text)
           one == << <<>> >>
           step == [i \in 1..N |-> [ls \in Document |-> SplitStep(text, i, ls)]]
           split == CHOOSE f : Splits(text, f)
<1>1. N \in Nat
  BY DEF Text
<1>2. one \in Document /\ Len(one) = 1 /\ Len(one[1]) = 0
  <2> DEFINE none == <<>>
             T == Line
  <2>1. none \in T /\ Len(none) = 0
    BY DEF Text, Line
  <2>2. <<none>> \in Seq(T) /\ Len(<<none>>) = 1 /\ <<none>>[1] = none
    <3> HIDE DEF none, T
    <3> QED BY <2>1
  <2> QED BY <2>1, <2>2 DEF Document
<1>3. \A i \in 1..N, ls \in Document : SplitStep(text, i, ls) \in Document
  BY SplitStepType
<1>4. step \in [1..N -> [Document -> Document]]
  BY <1>3
<1>5. PICK f \in [0..N -> Document] :
        f[0] = one /\ \A i \in 1..N : f[i] = step[i][f[i - 1]]
  <2> HIDE DEF step, N, one
  <2> QED BY <1>1, <1>2, <1>4, RecursiveFunction
<1>6. Splits(text, f)
  <2>1. ASSUME NEW i \in 1..N PROVE step[i][f[i - 1]] = SplitStep(text, i, f[i - 1])
    <3>1. f[i - 1] \in Document
      BY <1>1
    <3> QED BY <3>1
  <2> HIDE DEF step
  <2>2. f = [i \in 0..N |-> IF i = 0 THEN one ELSE SplitStep(text, i, f[i - 1])]
    <3> HIDE DEF one
    <3> QED BY <1>1, <1>5, <2>1
  <2> QED BY <2>2 DEF Splits
<1>7. Splits(text, split)
  BY <1>6
<1>8. Lines(text) = split[N]
  BY Zenon DEF Lines, Splits, SplitStep
<1> DEFINE P == {k \in 0..N : split[k] \in Document}
<1> HIDE DEF split, N, one
<1>9. 0 \in P
  <2>1. split[0] = one
    BY <1>1, <1>7 DEF Splits, N, one
  <2> QED BY <1>1, <1>2, <2>1
<1>10. ASSUME NEW k \in 1..N, k - 1 \in P PROVE k \in P
  <2>1. split[k] = SplitStep(text, k, split[k - 1])
    BY <1>1, <1>7 DEF Splits, N
  <2> QED BY <1>1, <1>10, <2>1, SplitStepType DEF N
<1>11. 0..N \subseteq P
  <2> HIDE DEF P
  <2> QED BY <1>1, <1>9, <1>10, UpTo
<1>12. split \in [0..N -> Document]
  BY <1>7, <1>11 DEF Splits, N
<1> QED BY <1>7, <1>8, <1>12 DEF N

LEMMA LinesEffect ==
  ASSUME NEW text \in Text
  PROVE  /\ Lines(text) \in Document
         /\ Len(Lines(text)) = 1 => Len(Lines(text)[1]) = Len(text)
<1> DEFINE N == Len(text)
<1>1. N \in Nat
  BY DEF Text
<1>2. PICK f \in [0..N -> Document] : Splits(text, f) /\ Lines(text) = f[N]
  BY LinesSteps
<1> DEFINE P == {k \in 0..N : Len(f[k]) = 1 => Len(f[k][1]) = k}
<1> HIDE DEF N
<1>3. 0 \in P
  <2>1. f[0] = << <<>> >>
    BY <1>1, <1>2 DEF Splits, N
  <2> QED BY <1>1, <2>1
<1>4. ASSUME NEW k \in 1..N, k - 1 \in P PROVE k \in P
  <2>1. f[k] = SplitStep(text, k, f[k - 1])
    BY <1>1, <1>2 DEF Splits, N
  <2>2. k - 1 \in 0..N /\ k \in 0..N
    BY <1>1
  <2>3. f[k - 1] \in Document
    BY <1>2, <2>2
  <2> QED BY <1>1, <1>4, <2>1, <2>2, <2>3, SplitStepType DEF N
<1>5. 0..N \subseteq P
  <2> HIDE DEF P
  <2> QED BY <1>1, <1>3, <1>4, UpTo
<1>6. N \in P /\ N \in 0..N
  BY <1>1, <1>5
<1> QED BY <1>2, <1>6 DEF N

Joins(lines, f) ==
  f = [n \in 1..Len(lines) |->
        IF n = 1 THEN lines[1] ELSE f[n - 1] \o <<Break>> \o lines[n]]

LEMMA TextOfSteps ==
  ASSUME NEW lines \in Document
  PROVE  \E f \in [1..Len(lines) -> Text] : Joins(lines, f) /\ TextOf(lines) = f[Len(lines)]
<1> DEFINE N == Len(lines)
           step == [n \in 2..N |-> [t \in Text |-> t \o <<Break>> \o lines[n]]]
           joined == CHOOSE f : Joins(lines, f)
<1>1. N \in Nat \ {0} /\ 1 \in 1..N /\ N \in 1..N /\ \A n \in 1..N : lines[n] \in Text
  BY LineIsText DEF Document
<1>2. ASSUME NEW n \in 2..N, NEW t \in Text PROVE t \o <<Break>> \o lines[n] \in Text
  <2>1. lines[n] \in Text
    BY <1>1
  <2> QED BY <2>1 DEF Text
<1>3. step \in [2..N -> [Text -> Text]]
  BY <1>2
<1>4. PICK f \in [1..N -> Text] :
        f[1] = lines[1] /\ \A n \in 2..N : f[n] = step[n][f[n - 1]]
  <2> DEFINE first == lines[1]
  <2>1. N \in Nat /\ N > 0 /\ first \in Text /\ step \in [2..N -> [Text -> Text]]
    BY <1>1, <1>3
  <2>2. \E f \in [1..N -> Text] :
          f[1] = first /\ \A n \in 2..N : f[n] = step[n][f[n - 1]]
    <3> HIDE DEF step, N, first
    <3> QED BY <2>1, RecursiveFromOne
  <2> QED BY <2>2
<1>5. Joins(lines, f)
  <2>1. ASSUME NEW n \in 2..N PROVE step[n][f[n - 1]] = f[n - 1] \o <<Break>> \o lines[n]
    <3>1. f[n - 1] \in Text
      BY <1>1
    <3> QED BY <3>1
  <2> HIDE DEF step
  <2>2. f = [n \in 1..N |-> IF n = 1 THEN lines[1] ELSE f[n - 1] \o <<Break>> \o lines[n]]
    <3>1. ASSUME NEW n \in 1..N
          PROVE  f[n] = IF n = 1 THEN lines[1] ELSE f[n - 1] \o <<Break>> \o lines[n]
      <4>1. n = 1 \/ n \in 2..N
        BY <1>1
      <4> QED BY <1>4, <2>1, <4>1
    <3> QED BY <3>1
  <2> QED BY <2>2 DEF Joins
<1>6. Joins(lines, joined)
  BY <1>5
<1>7. TextOf(lines) = joined[N]
  BY Zenon DEF TextOf, Joins
<1> DEFINE P == {k \in 0..N : k = 0 \/ joined[k] \in Text}
<1> HIDE DEF joined, N
<1>8. ASSUME NEW k \in 1..N, k - 1 \in P PROVE k \in P
  <2>1. joined[k] = IF k = 1 THEN lines[1] ELSE joined[k - 1] \o <<Break>> \o lines[k]
    BY <1>6 DEF Joins, N
  <2>2. CASE k = 1
    BY <1>1, <2>1, <2>2
  <2>3. CASE k # 1
    <3>1. k \in 2..N /\ joined[k - 1] \in Text
      BY <1>1, <1>8, <2>3
    <3>2. joined[k - 1] \o <<Break>> \o lines[k] \in Text
      BY <1>2, <3>1
    <3>3. joined[k] \in Text
      BY <2>1, <2>3, <3>2
    <3>4. k \in 0..N
      BY <1>1
    <3> QED BY <3>3, <3>4
  <2> QED BY <2>2, <2>3
<1>9. 0..N \subseteq P
  <2>1. 0 \in P /\ N \in Nat
    BY <1>1
  <2> HIDE DEF P
  <2> QED BY <1>8, <2>1, UpTo
<1>10. \A n \in 1..N : joined[n] \in Text
  BY <1>1, <1>9
<1>11. joined \in [1..N -> Text]
  BY <1>6, <1>10 DEF Joins, N
<1> QED BY <1>6, <1>7, <1>11 DEF N

LEMMA TextOfType ==
  ASSUME NEW lines \in Document
  PROVE  TextOf(lines) \in Text
<1>1. Len(lines) \in 1..Len(lines)
  BY DEF Document
<1> QED BY <1>1, TextOfSteps

\* Positions are brought into the text.
LEMMA ClampType ==
  ASSUME NEW b \in Buffer, NEW p \in Position
  PROVE  Clamp(b, p) \in Position /\ InText(Clamp(b, p), b.lines)
<1> DEFINE line == Smaller(p.line, Len(b.lines))
<1>1. b.lines \in Seq(Line) /\ Len(b.lines) \in Nat \ {0}
  BY DEF Buffer, Document
<1>2. p.line \in Nat \ {0} /\ p.column \in Nat
  BY DEF Position
<1>3. line \in Nat \ {0} /\ line \in 1..Len(b.lines)
  BY <1>1, <1>2 DEF Smaller
<1>4. b.lines[line] \in Line /\ Len(b.lines[line]) \in Nat
  BY <1>1, <1>3 DEF Line
<1>5. Clamp(b, p) = [line |-> line, column |-> Smaller(p.column, Len(b.lines[line]))]
  BY DEF Clamp, At
<1> HIDE DEF line
<1> QED BY <1>2, <1>3, <1>4, <1>5 DEF Position, InText, Smaller

Starts(lines, n, f) ==
  f = [i \in 1..n |-> IF i = 1 THEN 0 ELSE f[i - 1] + Len(lines[i - 1]) + 1]

\* A position counts as a number.
LEMMA OffsetOfSteps ==
  ASSUME NEW b \in Buffer, NEW p \in Position
  PROVE  LET q == Clamp(b, p)
         IN \E f \in [1..q.line -> Nat] : /\ Starts(b.lines, q.line, f)
                                          /\ OffsetOf(b, p) = f[q.line] + q.column
<1> DEFINE q == Clamp(b, p)
           N == q.line
           length == [i \in 2..N |-> Len(b.lines[i - 1]) + 1]
           step == [i \in 2..N |-> [t \in Nat |-> t + length[i]]]
           start == CHOOSE f : Starts(b.lines, N, f)
<1>1. /\ q.line \in Nat /\ q.line > 0 /\ q.line <= Len(b.lines) /\ q.column \in Nat
      /\ b.lines \in Seq(Line)
  BY ClampType DEF Position, InText, Buffer, Document
<1>2. ASSUME NEW i \in 2..N PROVE length[i] \in Nat
  <2>1. i - 1 \in DOMAIN b.lines
    BY <1>1
  <2>2. b.lines[i - 1] \in Line
    BY <1>1, <2>1
  <2> QED BY <2>2 DEF Line
<1>3. PICK f \in [1..N -> Nat] : f[1] = 0 /\ \A i \in 2..N : f[i] = step[i][f[i - 1]]
  <2> DEFINE S == Nat
             zero == 0
  <2>1. N \in Nat /\ N > 0 /\ zero \in S /\ step \in [2..N -> [S -> S]]
    BY <1>1, <1>2
  <2>2. \E f \in [1..N -> S] : f[1] = zero /\ \A i \in 2..N : f[i] = step[i][f[i - 1]]
    <3> HIDE DEF step, N, S, zero
    <3> QED BY <2>1, RecursiveFromOne
  <2> QED BY <2>2
<1>4. Starts(b.lines, N, f)
  <2>1. ASSUME NEW i \in 1..N
        PROVE  f[i] = IF i = 1 THEN 0 ELSE f[i - 1] + Len(b.lines[i - 1]) + 1
    <3>1. CASE i = 1
      BY <1>3, <3>1
    <3>2. CASE i # 1
      <4>1. i \in 2..N /\ f[i - 1] \in Nat
        BY <1>1, <3>2
      <4>2. f[i] = f[i - 1] + length[i]
        BY <1>3, <4>1
      <4>3. length[i] = Len(b.lines[i - 1]) + 1 /\ length[i] \in Nat
        BY <1>2, <4>1
      <4>4. f[i - 1] + Len(b.lines[i - 1]) + 1 = f[i - 1] + length[i]
        <5>1. i - 1 \in DOMAIN b.lines
          BY <1>1, <4>1
        <5>2. Len(b.lines[i - 1]) \in Nat
          BY <1>1, <5>1 DEF Line
        <5> QED BY <4>1, <4>3, <5>2
      <4> QED BY <3>2, <4>2, <4>4
    <3> QED BY <3>1, <3>2
  <2> HIDE DEF q
  <2> QED BY <2>1 DEF Starts
<1>5. Starts(b.lines, N, start)
  BY <1>4
<1>6. OffsetOf(b, p) = start[q.line] + q.column
  BY Zenon DEF OffsetOf, Starts
<1> DEFINE P == {k \in 0..N : k = 0 \/ start[k] \in Nat}
<1> HIDE DEF start, q
<1>7. ASSUME NEW k \in 1..N, k - 1 \in P PROVE k \in P
  <2>1. start[k] = IF k = 1 THEN 0 ELSE start[k - 1] + Len(b.lines[k - 1]) + 1
    BY <1>5 DEF Starts
  <2>2. CASE k = 1
    BY <1>1, <2>1, <2>2
  <2>3. CASE k # 1
    <3>1. k - 1 \in DOMAIN b.lines /\ start[k - 1] \in Nat /\ k \in 0..N
      BY <1>1, <1>7, <2>3
    <3>2. Len(b.lines[k - 1]) \in Nat
      BY <1>1, <3>1 DEF Line
    <3>3. start[k] \in Nat
      BY <2>1, <2>3, <3>1, <3>2
    <3> QED BY <3>1, <3>3
  <2> QED BY <2>2, <2>3
<1>8. 0..N \subseteq P
  <2>1. 0 \in P /\ N \in Nat
    BY <1>1
  <2> HIDE DEF P, N
  <2> QED BY <1>7, <2>1, UpTo
<1>9. start \in [1..N -> Nat]
  <2>1. \A i \in 1..N : start[i] \in Nat
    <3>1. \A i \in 1..N : i \in 0..N /\ i # 0
      BY <1>1
    <3> HIDE DEF N
    <3> QED BY <1>8, <3>1
  <2> HIDE DEF N
  <2> QED BY <1>5, <2>1 DEF Starts
<1> QED BY <1>5, <1>6, <1>9 DEF q

LEMMA OffsetOfType ==
  ASSUME NEW b \in Buffer, NEW p \in Position
  PROVE  OffsetOf(b, p) \in Nat
<1>1. Clamp(b, p).line \in 1..Clamp(b, p).line /\ Clamp(b, p).column \in Nat
  BY ClampType DEF Position
<1> QED BY <1>1, OffsetOfSteps

LEMMA PositionAtType ==
  ASSUME NEW b \in Buffer, NEW offset \in Nat
  PROVE  PositionAt(b, offset) \in Position
<1> DEFINE text == TextOf(b.lines)
           n == Smaller(offset, Len(text))
           before == Lines(SubSeq(text, 1, n))
<1>1. text \in Text
  BY TextOfType DEF Buffer
<1>2. n \in 0..Len(text)
  BY <1>1 DEF Text, Smaller
<1>3. SubSeq(text, 1, n) \in Text
  <2> HIDE DEF text, n
  <2> QED BY <1>1, <1>2 DEF Text
<1>4. before \in Document
  BY <1>3, LinesEffect
<1>5. PositionAt(b, offset) = [line |-> Len(before), column |-> Len(Last(before))]
  BY DEF PositionAt, At
<1> HIDE DEF before
<1>6. Len(before) \in Nat \ {0} /\ before[Len(before)] \in Line
  BY <1>4 DEF Document
<1> QED BY <1>5, <1>6 DEF Position, Line, Last

-----------------------------------------------------------------------------
(* What the methods of the buffer return.                                    *)

\* A position in the text of a buffer.
Here(b) == {p \in Position : InText(p, b.lines)}

LEMMA LinesOf ==
  ASSUME NEW b \in Buffer
  PROVE  /\ b.lines \in Seq(Line) /\ Len(b.lines) \in Nat \ {0}
         /\ \A n \in 1..Len(b.lines) : b.lines[n] \in Line /\ Len(b.lines[n]) \in Nat
BY DEF Buffer, Document, Line

LEMMA Ends ==
  ASSUME NEW b \in Buffer
  PROVE  /\ b.cursor \in Here(b) /\ Anchor(b) \in Here(b)
         /\ SelectionStart(b) \in Here(b) /\ SelectionEnd(b) \in Here(b)
BY DEF Buffer, InPlace, Here, Anchor, SelectionStart, SelectionEnd

LEMMA Neighbours ==
  ASSUME NEW b \in Buffer, NEW p \in Here(b)
  PROVE  /\ LeftOf(b, p) \in Here(b) /\ RightOf(b, p) \in Here(b)
         /\ Above(b, p) \in Position /\ Below(b, p) \in Position
         /\ At(p.line, 0) \in Here(b) /\ LineEnd(b, p.line) \in Here(b)
         /\ At(1, 0) \in Here(b) /\ DocumentEnd(b) \in Here(b)
<1>1. p \in Position /\ p.line \in 1..Len(b.lines) /\ p.column \in 0..Len(b.lines[p.line])
  BY DEF Here, InText
<1>2. ASSUME NEW n \in 1..Len(b.lines), NEW c \in 0..Len(b.lines[n])
      PROVE  At(n, c) \in Here(b)
  <2>1. Len(b.lines[n]) \in Nat /\ Len(b.lines) \in Nat
    BY LinesOf
  <2> QED BY <2>1 DEF At, Here, Position, InText
<1>3. ASSUME NEW n \in 1..Len(b.lines) PROVE LineEnd(b, n) \in Here(b) /\ At(n, 0) \in Here(b)
  <2>1. Len(b.lines[n]) \in Nat
    BY LinesOf
  <2> QED BY <1>2, <2>1 DEF LineEnd
<1>4. Len(b.lines) \in Nat /\ 1 \in 1..Len(b.lines) /\ Len(b.lines) \in 1..Len(b.lines)
      /\ Len(b.lines[p.line]) \in Nat
  BY <1>1, LinesOf
<1>5. LeftOf(b, p) \in Here(b)
  <2>1. p.column > 0 => p.column - 1 \in 0..Len(b.lines[p.line])
    BY <1>1, <1>4
  <2>2. p.line > 1 => p.line - 1 \in 1..Len(b.lines)
    BY <1>1, <1>4
  <2> QED BY <1>1, <1>2, <1>3, <2>1, <2>2 DEF LeftOf
<1>6. RightOf(b, p) \in Here(b)
  <2>1. p.column < Len(b.lines[p.line]) => p.column + 1 \in 0..Len(b.lines[p.line])
    BY <1>1, <1>4
  <2>2. p.line < Len(b.lines) => p.line + 1 \in 1..Len(b.lines)
    BY <1>1, <1>4
  <2> QED BY <1>1, <1>2, <1>3, <2>1, <2>2 DEF RightOf
<1>7. b.desired \in Nat
  BY DEF Buffer
<1>8. Above(b, p) \in Position
  <2>1. CASE p.line = 1
    BY <1>1, <2>1 DEF Above
  <2>2. CASE p.line # 1
    <3>1. p.line - 1 \in 1..Len(b.lines) /\ p.line - 1 \in Nat \ {0}
      BY <1>1, <1>4, <2>2
    <3>2. Len(b.lines[p.line - 1]) \in Nat
      BY <3>1, LinesOf
    <3> QED BY <1>7, <2>2, <3>1, <3>2 DEF Above, At, Position, Smaller
  <2> QED BY <2>1, <2>2
<1>9. Below(b, p) \in Position
  <2>1. CASE p.line = Len(b.lines)
    BY <1>1, <2>1 DEF Below
  <2>2. CASE p.line # Len(b.lines)
    <3>1. p.line + 1 \in 1..Len(b.lines) /\ p.line + 1 \in Nat \ {0}
      BY <1>1, <1>4, <2>2
    <3>2. Len(b.lines[p.line + 1]) \in Nat
      BY <3>1, LinesOf
    <3> QED BY <1>7, <2>2, <3>1, <3>2 DEF Below, At, Position, Smaller
  <2> QED BY <2>1, <2>2
<1> QED BY <1>1, <1>3, <1>4, <1>5, <1>6, <1>8, <1>9 DEF DocumentEnd

LEMMA MovedType ==
  ASSUME NEW b \in Buffer, NEW p \in Position, NEW extend \in BOOLEAN
  PROVE  MovedTo(b, p, extend) \in Buffer /\ MovedSteadily(b, p, extend) \in Buffer
<1> DEFINE c == MovedSteadily(b, p, extend)
           at == Clamp(b, p)
<1>1. at \in Position /\ InText(at, b.lines) /\ at.column \in Nat
  BY ClampType DEF Position
<1>2. Anchor(b) \in Position /\ InText(Anchor(b), b.lines)
  BY Ends DEF Here
<1>3. c \in Buffer /\ c.lines = b.lines /\ c.cursor = at
  <2> HIDE DEF at
  <2>1. c = [b EXCEPT !.group = None, !.anchor = IF extend THEN Anchor(b) ELSE None,
                      !.cursor = at]
    BY DEF MovedSteadily, at
  <2> HIDE DEF c
  <2> QED BY <1>1, <1>2, <2>1 DEF Buffer, InPlace, Groups
<1>4. MovedTo(b, p, extend) = [c EXCEPT !.desired = c.cursor.column]
  BY DEF MovedTo
<1> HIDE DEF c, at
<1>5. MovedTo(b, p, extend) \in Buffer
  BY <1>1, <1>3, <1>4 DEF Buffer, InPlace
<1> QED BY <1>3, <1>5 DEF c
LEMMA MovementsType ==
  ASSUME NEW b \in Buffer, NEW extend \in BOOLEAN
  PROVE  Movements(b, extend) \subseteq Buffer
<1>1. b.cursor \in Here(b)
  BY Ends
<1>2. /\ {LeftOf(b, b.cursor), RightOf(b, b.cursor), At(b.cursor.line, 0),
          LineEnd(b, b.cursor.line), At(1, 0), DocumentEnd(b)} \subseteq Position
      /\ {Above(b, b.cursor), Below(b, b.cursor)} \subseteq Position
  BY <1>1, Neighbours DEF Here
<1> QED BY <1>2, MovedType DEF Movements

LEMMA SelectionSetType ==
  ASSUME NEW b \in Buffer, NEW p \in Position, NEW q \in Position
  PROVE  SelectionSet(b, p, q) \in Buffer
<1> DEFINE g == IF Anchor(b) = Clamp(b, p) /\ b.cursor = Clamp(b, q) THEN b.group ELSE None
           from == Clamp(b, p)
           to == Clamp(b, q)
<1>1. /\ from \in Position /\ InText(from, b.lines)
      /\ to \in Position /\ InText(to, b.lines) /\ to.column \in Nat
  BY ClampType DEF Position
<1>2. g \in Groups
  BY DEF Groups, Buffer
<1>3. SelectionSet(b, p, q) =
        [b EXCEPT !.group = g, !.anchor = from, !.cursor = to, !.desired = to.column]
  BY DEF SelectionSet
<1> HIDE DEF g, from, to
<1> QED BY <1>1, <1>2, <1>3 DEF Buffer, InPlace

LEMMA SelectedType ==
  ASSUME NEW b \in Buffer, NEW p \in Here(b), NEW q \in Here(b)
  PROVE  Selected(b, p, q) \in Buffer
<1>1. q.column \in Nat
  BY DEF Here, Position
<1> QED BY <1>1 DEF Selected, Buffer, InPlace, Here, Groups

\* A word begins and ends somewhere, and the caret is in it.
LEMMA WordSelectedType ==
  ASSUME NEW b \in Buffer, NEW p \in Position
  PROVE  WordSelected(b, p) \in Buffer
<1> DEFINE at == Clamp(b, p)
           line == b.lines[at.line]
           SameRun(i, j) == \A k \in i..j : ClassOf[line[k]] = ClassOf[line[at.column + 1]]
           IsFirst(i) == /\ SameRun(i + 1, at.column + 1)
                         /\ i = 0 \/ ~ SameRun(i, i)
           IsLast(j) == /\ SameRun(at.column + 1, j)
                        /\ j = Len(line) \/ ~ SameRun(j + 1, j + 1)
           first == CHOOSE i \in 0..at.column : IsFirst(i)
           last == CHOOSE j \in at.column + 1..Len(line) : IsLast(j)
<1>1. at \in Position /\ at.line \in 1..Len(b.lines) /\ at.column \in 0..Len(line)
      /\ at.column \in Nat /\ Len(line) \in Nat
  <2>1. at \in Position /\ at.line \in 1..Len(b.lines) /\ at.column \in 0..Len(line)
    BY ClampType DEF InText
  <2> QED BY <2>1, LinesOf DEF Position
<1>2. CASE at.column = Len(line)
  BY <1>1, <1>2, MovedType DEF WordSelected, CursorSet
<1>3. CASE at.column # Len(line)
  <2> DEFINE c == at.column
             n == Len(line)
             firsts == {i \in 0..c : SameRun(i + 1, c + 1)}
             lasts == {j \in c + 1..n : SameRun(c + 1, j)}
  <2>1. c \in Nat /\ n \in Nat /\ c < n
    BY <1>1, <1>3
  <2>2. \E i \in 0..c : IsFirst(i)
    <3>1. c \in firsts
      BY <2>1
    <3>2. PICK i \in firsts : \A k \in firsts : i <= k
      <4>1. firsts \subseteq Nat /\ firsts # {}
        BY <3>1
      <4> HIDE DEF firsts
      <4> QED BY <4>1, LeastNumber
    <3>3. CASE i = 0
      BY <3>2, <3>3
    <3>4. CASE i # 0
      <4>1. i - 1 \in 0..c /\ i - 1 \notin firsts /\ i \in 0..c
        <5>1. i \in 0..c
          BY <3>2
        <5> HIDE DEF firsts, c
        <5> QED BY <2>1, <3>2, <3>4, <5>1
      <4>2. PICK k \in i..c + 1 : ClassOf[line[k]] # ClassOf[line[c + 1]]
        <5>1. (i - 1) + 1 = i
          BY <4>1
        <5> QED BY <4>1, <5>1
      <4>3. k = i
        <5>1. k \notin i + 1..c + 1
          BY <3>2, <4>2
        <5>2. i \in Nat /\ c \in Nat /\ k \in i..c + 1
          BY <2>1, <4>1, <4>2
        <5> HIDE DEF c
        <5> QED BY ONLY <5>1, <5>2
      <4>4. ~ SameRun(i, i)
        <5>1. i \in i..i
          BY <4>1
        <5>2. ClassOf[line[i]] # ClassOf[line[c + 1]]
          <6> HIDE DEF line, c
          <6> QED BY <4>2, <4>3
        <5> QED BY ONLY <5>1, <5>2
      <4> QED BY <3>2, <4>1, <4>4
    <3> QED BY <3>3, <3>4
  <2>3. \E j \in c + 1..n : IsLast(j)
    <3>1. c + 1 \in lasts
      BY <2>1
    <3>2. PICK j \in lasts : \A k \in lasts : k <= j
      <4>1. lasts \subseteq 0..n /\ lasts # {} /\ n \in Nat
        BY <2>1, <3>1
      <4> HIDE DEF lasts, n
      <4> QED BY <4>1, GreatestNumber
    <3>3. CASE j = n
      BY <3>2, <3>3
    <3>4. CASE j # n
      <4>1. j + 1 \in c + 1..n /\ j + 1 \notin lasts /\ j \in c + 1..n
        BY <2>1, <3>2, <3>4
      <4>2. PICK k \in c + 1..j + 1 : ClassOf[line[k]] # ClassOf[line[c + 1]]
        BY <4>1
      <4>3. k = j + 1
        <5>1. k \notin c + 1..j
          BY <3>2, <4>2
        <5>2. j \in Nat /\ c \in Nat /\ k \in c + 1..j + 1
          BY <2>1, <4>1, <4>2
        <5> HIDE DEF c
        <5> QED BY ONLY <5>1, <5>2
      <4>4. ~ SameRun(j + 1, j + 1)
        <5>1. j + 1 \in j + 1..j + 1
          BY <4>1
        <5>2. ClassOf[line[j + 1]] # ClassOf[line[c + 1]]
          <6> HIDE DEF line, c
          <6> QED BY <4>2, <4>3
        <5> QED BY ONLY <5>1, <5>2
      <4> QED BY <3>2, <4>1, <4>4
    <3> QED BY <3>3, <3>4
  <2>4. first \in 0..n /\ last \in 0..n
    <3>1. first \in 0..c
      BY <2>2
    <3>2. last \in c + 1..n
      BY <2>3
    <3> HIDE DEF first, last
    <3> QED BY <2>1, <3>1, <3>2
  <2>5. WordSelected(b, p) = Selected(b, At(at.line, first), At(at.line, last))
    BY <1>3 DEF WordSelected
  <2> HIDE DEF first, last, at
  <2>6. At(at.line, first) \in Here(b) /\ At(at.line, last) \in Here(b)
    BY <1>1, <2>4 DEF At, Here, Position, InText
  <2> QED BY <2>5, <2>6, SelectedType
<1> QED BY <1>2, <1>3
LEMMA SnapshotType ==
  ASSUME NEW b \in Buffer
  PROVE  SnapshotOf(b) \in Entry
BY DEF SnapshotOf, Entry, Buffer, InPlace

\* What is pushed on a stack of Entries, or taken off it, leaves such a stack.
LEMMA Stacks ==
  ASSUME NEW s \in Seq(Entry), NEW e \in Entry
  PROVE  /\ Append(s, e) \in Seq(Entry)
         /\ s # <<>> => Append(Tail(s), e) \in Seq(Entry)
         /\ s # <<>> => Front(s) \in Seq(Entry) /\ Last(s) \in Entry
<1> DEFINE T == Entry
<1> HIDE DEF T
<1>1. s \in Seq(T) /\ e \in T
  BY DEF T
<1>2. Append(s, e) \in Seq(T)
  BY <1>1
<1>3. ASSUME s # <<>>
      PROVE  Append(Tail(s), e) \in Seq(T) /\ Front(s) \in Seq(T) /\ Last(s) \in T
  <2>1. Len(s) \in Nat \ {0}
    BY <1>1, <1>3
  <2>2. Tail(s) \in Seq(T)
    BY <1>1, <1>3
  <2>3. Append(Tail(s), e) \in Seq(T)
    BY <1>1, <2>2
  <2>4. SubSeq(s, 1, Len(s) - 1) \in Seq(T)
    BY <1>1, <2>1
  <2>5. s[Len(s)] \in T
    BY <1>1, <2>1
  <2> QED BY <2>3, <2>4, <2>5 DEF Front, Last
<1> QED BY <1>2, <1>3 DEF T

LEMMA UndoPushedType ==
  ASSUME NEW b \in Buffer, NEW e \in Entry
  PROVE  /\ UndoPushed(b, e) \in Buffer
         /\ \A f \in {"lines", "cursor", "anchor", "desired", "redo", "group"} :
              UndoPushed(b, e)[f] = b[f]
<1> DEFINE new == IF Len(b.undo) = HistoryCap THEN Append(Tail(b.undo), e)
                  ELSE Append(b.undo, e)
<1>1. b.undo \in Seq(Entry)
  BY DEF Buffer
<1>2. new \in Seq(Entry)
  <2>1. Len(b.undo) = HistoryCap => b.undo # <<>>
    BY <1>1, EditorAssumption
  <2> QED BY <1>1, <2>1, Stacks
<1>3. UndoPushed(b, e) = [b EXCEPT !.undo = new]
  BY DEF UndoPushed
<1> HIDE DEF new
<1> QED BY <1>2, <1>3 DEF Buffer, InPlace

LEMMA EditBegunType ==
  ASSUME NEW b \in Buffer, NEW kind \in {"insert", "delete"}, NEW coalesces \in BOOLEAN
  PROVE  /\ EditBegun(b, kind, coalesces) \in Buffer
         /\ EditBegun(b, kind, coalesces).lines = b.lines
         /\ EditBegun(b, kind, coalesces).cursor = b.cursor
         /\ EditBegun(b, kind, coalesces).anchor = b.anchor
<1> DEFINE cleared == [b EXCEPT !.redo = <<>>]
           pushed == UndoPushed(cleared, SnapshotOf(b))
           g == [kind |-> kind, coalescing |-> coalesces]
           begun == [pushed EXCEPT !.group = g]
<1>1. /\ cleared \in Buffer
      /\ \A f \in {"lines", "cursor", "anchor"} : cleared[f] = b[f]
  <2> DEFINE none == <<>>
             E == Entry
  <2>1. none \in Seq(E)
    OBVIOUS
  <2>2. cleared = [b EXCEPT !.redo = none]
    OBVIOUS
  <2> HIDE DEF none, cleared
  <2> QED BY <2>1, <2>2 DEF Buffer, InPlace
<1>2. pushed \in Buffer /\ \A f \in {"lines", "cursor", "anchor"} : pushed[f] = cleared[f]
  <2> HIDE DEF cleared
  <2> QED BY <1>1, SnapshotType, UndoPushedType
<1>3. begun \in Buffer /\ \A f \in {"lines", "cursor", "anchor"} : begun[f] = pushed[f]
  <2>1. g \in Groups
    BY DEF Groups
  <2> HIDE DEF pushed, g
  <2> QED BY <1>2, <2>1 DEF Buffer, InPlace
<1>4. EditBegun(b, kind, coalesces) \in {cleared, begun}
  BY DEF EditBegun
<1> HIDE DEF cleared, begun, pushed
<1> QED BY <1>1, <1>2, <1>3, <1>4

\* A line in the place of some.
LEMMA Joined ==
  ASSUME NEW lines \in Document, NEW from \in 1..Len(lines), NEW to \in 1..Len(lines),
         NEW new \in Document
  PROVE  LET r == SubSeq(lines, 1, from - 1) \o new \o SubSeq(lines, to + 1, Len(lines))
         IN /\ r \in Document
            /\ from + Len(new) - 1 \in 1..Len(r)
            /\ r[from + Len(new) - 1] = new[Len(new)]
<1> DEFINE T == Line
           head == SubSeq(lines, 1, from - 1)
           tail == SubSeq(lines, to + 1, Len(lines))
           r == head \o new \o tail
<1>1. lines \in Seq(T) /\ Len(lines) \in Nat \ {0} /\ new \in Seq(T) /\ Len(new) \in Nat \ {0}
  BY DEF Document
<1>2. head \in Seq(T) /\ Len(head) = from - 1
  <2> HIDE DEF T
  <2> QED BY <1>1
<1>3. tail \in Seq(T) /\ Len(tail) \in Nat
  <2> HIDE DEF T
  <2> QED BY <1>1
<1> HIDE DEF head, tail
<1>4. /\ r \in Seq(T) /\ Len(r) = (from - 1) + Len(new) + Len(tail)
      /\ \A i \in 1..Len(new) : r[(from - 1) + i] = new[i]
  <2> DEFINE both == head \o new
  <2> HIDE DEF T
  <2>1. /\ both \in Seq(T) /\ Len(both) = (from - 1) + Len(new)
        /\ \A i \in 1..Len(new) : both[(from - 1) + i] = new[i]
    <3> DEFINE m == from - 1
    <3>1. m \in Nat /\ Len(head) = m /\ head \in Seq(T) /\ new \in Seq(T) /\ Len(new) \in Nat
      BY <1>1, <1>2
    <3> HIDE DEF head, m
    <3>2. /\ both \in Seq(T) /\ Len(both) = m + Len(new)
          /\ \A i \in 1..m + Len(new) : both[i] = IF i <= m THEN head[i] ELSE new[i - m]
      BY ONLY <3>1, ConcatProperties
    <3>3. ASSUME NEW i \in 1..Len(new) PROVE both[m + i] = new[i]
      <4> HIDE DEF both
      <4>1. m + i \in 1..m + Len(new) /\ ~ (m + i <= m) /\ (m + i) - m = i
        BY <3>1
      <4> QED BY <3>2, <4>1
    <3> QED BY <3>2, <3>3 DEF m
  <2> HIDE DEF both
  <2>2. r = both \o tail
    BY DEF both
  <2> HIDE DEF r
  <2>3. /\ r \in Seq(T) /\ Len(r) = Len(both) + Len(tail)
        /\ \A i \in 1..Len(both) : r[i] = both[i]
    <3>1. both \in Seq(T) /\ tail \in Seq(T) /\ Len(both) \in Nat /\ Len(tail) \in Nat
      BY <1>1, <1>3, <2>1
    <3>2. /\ both \o tail \in Seq(T)
          /\ Len(both \o tail) = Len(both) + Len(tail)
          /\ \A i \in 1..Len(both) + Len(tail) :
               (both \o tail)[i] = IF i <= Len(both) THEN both[i] ELSE tail[i - Len(both)]
      BY <3>1, ConcatProperties, Zenon
    <3> QED BY <2>2, <3>1, <3>2
  <2>4. ASSUME NEW i \in 1..Len(new) PROVE r[(from - 1) + i] = new[i]
    <3>1. (from - 1) + i \in 1..Len(both)
      BY <1>1, <2>1
    <3> QED BY <2>1, <2>3, <3>1
  <2> QED BY <2>1, <2>3, <2>4
<1>5. from + Len(new) - 1 = (from - 1) + Len(new) /\ from + Len(new) - 1 \in 1..Len(r)
  BY <1>1, <1>3, <1>4
<1>6. r[from + Len(new) - 1] = new[Len(new)]
  BY <1>1, <1>4, <1>5
<1>7. r # <<>>
  BY <1>5
<1> HIDE DEF r
<1>8. r \in Document
  BY <1>4, <1>7 DEF Document
<1> QED BY <1>5, <1>6, <1>8 DEF r, head, tail
\* The text changes, and the caret comes to lie at p.
LEMMA CaretAtType ==
  ASSUME NEW b \in Buffer, NEW lines \in Document, NEW p \in Position, InText(p, lines)
  PROVE  /\ CaretAt([b EXCEPT !.lines = lines], p) \in Buffer
         /\ CaretAt([b EXCEPT !.lines = lines], p).lines = lines
         /\ CaretAt([b EXCEPT !.lines = lines], p).cursor = p
<1>1. p.column \in Nat
  BY DEF Position
<1> QED BY <1>1 DEF CaretAt, Buffer, InPlace

\* The parts of a line before and after a position.
LEMMA Cuts ==
  ASSUME NEW b \in Buffer, NEW p \in Here(b)
  PROVE  LET before == SubSeq(b.lines[p.line], 1, p.column)
             after == SubSeq(b.lines[p.line], p.column + 1, Len(b.lines[p.line]))
         IN before \in Line /\ after \in Line /\ Len(before) = p.column
<1>1. /\ p.line \in 1..Len(b.lines) /\ p.column \in 0..Len(b.lines[p.line])
      /\ p.column \in Nat
  BY DEF Here, InText, Position
<1>2. b.lines[p.line] \in Line /\ Len(b.lines[p.line]) \in Nat
  BY <1>1, LinesOf
<1> DEFINE line == b.lines[p.line]
           c == p.column
<1>3. line \in Line /\ c \in 0..Len(line) /\ Len(line) \in Nat /\ c \in Nat
  BY <1>1, <1>2
<1> HIDE DEF line, c
<1>4. /\ SubSeq(line, 1, c) \in Line /\ Len(SubSeq(line, 1, c)) = c
      /\ SubSeq(line, c + 1, Len(line)) \in Line
  BY <1>3 DEF Line
<1> QED BY <1>4 DEF line, c

LEMMA TextsJoined ==
  ASSUME NEW s \in Line, NEW t \in Line
  PROVE  s \o t \in Line /\ Len(s \o t) = Len(s) + Len(t) /\ Len(s) \in Nat /\ Len(t) \in Nat
BY DEF Line

LEMMA OneLine ==
  ASSUME NEW t \in Line
  PROVE  <<t>> \in Document /\ Len(<<t>>) = 1 /\ <<t>>[1] = t
<1> DEFINE T == Line
<1>1. <<t>> \in Seq(T) /\ Len(<<t>>) = 1 /\ <<t>>[1] = t
  <2> HIDE DEF T
  <2>1. t \in T
    BY DEF T
  <2> QED BY <2>1
<1> QED BY <1>1 DEF Document

LEMMA DeletedType ==
  ASSUME NEW b \in Buffer, NEW p \in Here(b), NEW q \in Here(b)
  PROVE  Deleted(b, p, q) \in Buffer
<1> DEFINE before == SubSeq(b.lines[p.line], 1, p.column)
           after == SubSeq(b.lines[q.line], q.column + 1, Len(b.lines[q.line]))
           new == <<before \o after>>
           r == SubSeq(b.lines, 1, p.line - 1) \o new
                \o SubSeq(b.lines, q.line + 1, Len(b.lines))
<1>1. before \in Line /\ after \in Line /\ Len(before) = p.column
  BY Cuts
<1>2. /\ before \o after \in Line /\ Len(before \o after) = p.column + Len(after)
      /\ Len(after) \in Nat
  <2> HIDE DEF before, after
  <2> QED BY <1>1, TextsJoined
<1>3. new \in Document /\ Len(new) = 1 /\ new[1] = before \o after
  <2> DEFINE t == before \o after
  <2>1. t \in Line
    BY <1>2
  <2> HIDE DEF t
  <2>2. <<t>> \in Document /\ Len(<<t>>) = 1 /\ <<t>>[1] = t
    BY <2>1, OneLine
  <2> QED BY <2>2 DEF t
<1>4. p \in Position /\ p.line \in 1..Len(b.lines) /\ q.line \in 1..Len(b.lines)
      /\ p.column \in Nat /\ p.line \in Nat
  BY DEF Here, InText, Position
<1>5. b.lines \in Document
  BY DEF Buffer
<1>6. /\ r \in Document /\ p.line + Len(new) - 1 \in 1..Len(r)
      /\ r[p.line + Len(new) - 1] = new[Len(new)]
  <2> HIDE DEF new
  <2> QED BY <1>3, <1>4, <1>5, Joined
<1>7. Deleted(b, p, q) = CaretAt([b EXCEPT !.lines = r], p)
  BY DEF Deleted
<1> HIDE DEF r, new, before, after
<1>8. InText(p, r)
  <2>1. p.line + Len(new) - 1 = p.line
    BY <1>3, <1>4
  <2>2. p.line \in 1..Len(r) /\ r[p.line] = before \o after
    BY <1>3, <1>6, <2>1
  <2>3. p.column \in 0..Len(r[p.line])
    BY <1>2, <1>4, <2>2
  <2> QED BY <2>2, <2>3 DEF InText
<1> QED BY <1>4, <1>6, <1>7, <1>8, CaretAtType

LEMMA SelectionDeletedType ==
  ASSUME NEW b \in Buffer
  PROVE  SelectionDeleted(b) \in Buffer
<1>1. SelectionStart(b) \in Here(b) /\ SelectionEnd(b) \in Here(b)
  BY Ends
<1> QED BY <1>1, DeletedType DEF SelectionDeleted

\* The last of several lines.
LEMMA InsertedImplType ==
  ASSUME NEW b \in Buffer, NEW text \in Text, NEW coalesces \in BOOLEAN
  PROVE  InsertedImpl(b, text, coalesces) \in Buffer
<1> DEFINE c == SelectionDeleted(EditBegun(b, "insert", coalesces))
           at == c.cursor
           before == SubSeq(c.lines[at.line], 1, at.column)
           after == SubSeq(c.lines[at.line], at.column + 1, Len(c.lines[at.line]))
           pieces == Lines(text)
           n == Len(pieces)
           new == IF n = 1 THEN <<before \o pieces[1] \o after>>
                  ELSE <<before \o pieces[1]>> \o SubSeq(pieces, 2, n - 1)
                       \o <<pieces[n] \o after>>
           r == SubSeq(c.lines, 1, at.line - 1) \o new
                \o SubSeq(c.lines, at.line + 1, Len(c.lines))
           p == At(at.line + n - 1, IF n = 1 THEN at.column + Len(text) ELSE Len(pieces[n]))
<1>1. CASE text = <<>> /\ ~ HasSelection(b)
  BY <1>1 DEF InsertedImpl
<1>2. CASE ~ (text = <<>> /\ ~ HasSelection(b))
  <2>1. c \in Buffer
    <3>1. EditBegun(b, "insert", coalesces) \in Buffer
      BY EditBegunType
    <3> QED BY <3>1, SelectionDeletedType
  <2>2. InsertedImpl(b, text, coalesces) = CaretAt([c EXCEPT !.lines = r], p)
    BY <1>2, Zenon DEF InsertedImpl
  <2> HIDE DEF c
  <2>3. at \in Here(c) /\ c.lines \in Document
    BY <2>1, Ends DEF Buffer
  <2>4. before \in Line /\ after \in Line /\ Len(before) = at.column
    BY <2>1, <2>3, Cuts
  <2>5. /\ at.line \in 1..Len(c.lines) /\ at.line \in Nat \ {0} /\ at.column \in Nat
    BY <2>3 DEF Here, InText, Position
  <2>6. pieces \in Document /\ (n = 1 => Len(pieces[1]) = Len(text)) /\ Len(text) \in Nat
    BY LinesEffect DEF Text, Line
  <2> HIDE DEF before, after, at, pieces
  <2>7. /\ n \in Nat \ {0} /\ pieces[1] \in Line /\ pieces[n] \in Line
        /\ Len(pieces[1]) \in Nat /\ Len(pieces[n]) \in Nat
    BY <2>6 DEF Document, Text, Line
  <2>8. /\ new \in Document /\ Len(new) = n
        /\ Len(new[n]) = IF n = 1 THEN at.column + Len(text) + Len(after)
                         ELSE Len(pieces[n]) + Len(after)
    <3>1. CASE n = 1
      <4> DEFINE t == before \o pieces[1] \o after
      <4>1. t \in Line /\ Len(t) = at.column + Len(text) + Len(after)
        <5>1. before \o pieces[1] \in Line /\ Len(before \o pieces[1]) = at.column + Len(text)
          BY <2>4, <2>6, <2>7, <3>1, TextsJoined
        <5> QED BY <2>4, <5>1, TextsJoined
      <4>2. new = <<t>>
        BY <3>1
      <4> HIDE DEF t, new
      <4> QED BY <3>1, <4>1, <4>2, OneLine
    <3>2. CASE n # 1
      <4> DEFINE T == Line
                 s == before \o pieces[1]
                 t == pieces[n] \o after
                 mid == SubSeq(pieces, 2, n - 1)
      <4>1. s \in Line /\ t \in Line /\ Len(t) = Len(pieces[n]) + Len(after)
        BY <2>4, <2>7, TextsJoined
      <4>2. mid \in Seq(T) /\ Len(mid) = n - 2
        <5>1. pieces \in Seq(T)
          BY <2>6 DEF Document
        <5>2. /\ n \in Nat /\ n >= 2 /\ 2 \in Int /\ n - 1 \in Int
              /\ \A i \in 2..n - 1 : i \in 1..n
          <6>1. n \in Nat /\ n # 0 /\ n # 1
            BY <2>7, <3>2
          <6> HIDE DEF n
          <6> QED BY <6>1
        <5>3. \A i \in 2..n - 1 : pieces[i] \in T
          <6> HIDE DEF T
          <6> QED BY <5>1, <5>2
        <5> DEFINE last == n - 1
        <5> HIDE DEF T
        <5>4. /\ SubSeq(pieces, 2, last) \in Seq(T)
              /\ Len(SubSeq(pieces, 2, last)) = IF 2 <= last THEN last - 2 + 1 ELSE 0
          <6> HIDE DEF last
          <6>1. last \in Int /\ 2 \in Int /\ \A i \in 2..last : pieces[i] \in T
            BY <5>2, <5>3 DEF last
          <6> QED BY <6>1, SubSeqProperties
        <5>5. Len(SubSeq(pieces, 2, last)) = n - 2
          <6>1. last = n - 1 /\ n \in Nat /\ n >= 2
            BY <5>2 DEF last
          <6> HIDE DEF n
          <6> QED BY <5>4, <6>1
        <5> QED BY <5>4, <5>5 DEF last
      <4>3. new = <<s>> \o mid \o <<t>>
        BY <3>2
      <4> HIDE DEF s, t, mid, new
      <4>4. <<s>> \in Seq(T) /\ <<t>> \in Seq(T) /\ Len(<<s>>) = 1 /\ Len(<<t>>) = 1
            /\ <<t>>[1] = t
        BY <4>1, OneLine DEF Document
      <4>5. <<s>> \o mid \in Seq(T) /\ Len(<<s>> \o mid) = n - 1
        BY <2>7, <4>2, <4>4, ConcatProperties
      <4> DEFINE u == <<s>> \o mid
      <4>6. u \in Seq(T) /\ Len(u) = n - 1 /\ new = u \o <<t>>
        BY <4>3, <4>5
      <4> HIDE DEF u, T
      <4>7. new \in Seq(T) /\ Len(new) = n /\ new[n] = t
        <5>1. new = Append(u, t)
          BY <4>4, <4>6, <4>1, AppendIsConcat DEF T
        <5>2. t \in T
          BY <4>1 DEF T
        <5> QED BY <2>7, <4>6, <5>1, <5>2, AppendProperties
      <4>8. new # <<>>
        BY <2>7, <4>7
      <4> QED BY <3>2, <4>1, <4>7, <4>8 DEF Document, T
    <3> QED BY <3>1, <3>2
  <2> HIDE DEF new
  <2>9. /\ r \in Document /\ at.line + Len(new) - 1 \in 1..Len(r)
        /\ r[at.line + Len(new) - 1] = new[Len(new)]
    BY <2>3, <2>5, <2>8, Joined
  <2> HIDE DEF r
  <2>10. p \in Position /\ InText(p, r)
    <3>1. p.line = at.line + n - 1 /\ p.line \in Nat \ {0}
      BY <2>5, <2>7 DEF At
    <3>2. p.line \in 1..Len(r) /\ r[p.line] = new[n]
      BY <2>8, <2>9, <3>1
    <3>3. /\ p.column = IF n = 1 THEN at.column + Len(text) ELSE Len(pieces[n])
          /\ p.column \in Nat
      BY <2>5, <2>6, <2>7 DEF At
    <3>4. Len(after) \in Nat
      BY <2>4 DEF Line
    <3>5. p.column \in 0..Len(new[n])
      <4>1. CASE n = 1
        <5>1. p.column = at.column + Len(text) /\ Len(new[n]) = p.column + Len(after)
          BY <2>8, <3>3, <4>1
        <5> QED BY <3>3, <3>4, <5>1
      <4>2. CASE n # 1
        <5>1. p.column = Len(pieces[n]) /\ Len(new[n]) = p.column + Len(after)
          BY <2>8, <3>3, <4>2
        <5> QED BY <3>3, <3>4, <5>1
      <4> QED BY <4>1, <4>2
    <3>6. p \in Position
      BY <3>1, <3>3 DEF At, Position
    <3> QED BY <3>2, <3>5, <3>6 DEF InText
  <2> HIDE DEF p
  <2> QED BY <2>1, <2>2, <2>9, <2>10, CaretAtType
<1> QED BY <1>1, <1>2
LEMMA InsertedType ==
  ASSUME NEW b \in Buffer, NEW text \in Text
  PROVE  Inserted(b, text) \in Buffer
<1> DEFINE coalesces == ~ HasSelection(b) /\ text # <<Break>> /\ Len(text) = 1
<1>1. coalesces \in BOOLEAN
  OBVIOUS
<1>2. Inserted(b, text) = InsertedImpl(b, text, coalesces)
  BY DEF Inserted
<1> HIDE DEF coalesces
<1> QED BY <1>1, <1>2, InsertedImplType

LEMMA ErasedType ==
  ASSUME NEW b \in Buffer, NEW p \in Here(b), NEW q \in Here(b)
  PROVE  Erased(b, p, q) \in Buffer
<1>1. ASSUME NEW coalesces \in BOOLEAN
      PROVE  LET c == EditBegun(b, "delete", coalesces)
             IN c \in Buffer /\ p \in Here(c) /\ q \in Here(c)
  BY EditBegunType DEF Here
<1>2. SelectionDeleted(EditBegun(b, "delete", FALSE)) \in Buffer
  BY <1>1, SelectionDeletedType
<1>3. Deleted(EditBegun(b, "delete", TRUE), p, q) \in Buffer
  BY <1>1, DeletedType
<1> QED BY <1>2, <1>3 DEF Erased

\* What is put back is in place.
LEMMA RestoredType ==
  ASSUME NEW b \in Buffer, NEW e \in Entry
  PROVE  /\ RestoredTo(b, e) \in Buffer
         /\ \A f \in {"undo", "redo", "group"} : RestoredTo(b, e)[f] = b[f]
BY DEF RestoredTo, Buffer, Entry, InPlace

LEMMA UndoneType ==
  ASSUME NEW b \in Buffer, b.undo # <<>>
  PROVE  Undone(b) \in Buffer
<1> DEFINE c == RestoredTo(b, Last(b.undo))
           undo == Front(c.undo)
           redo == Append(c.redo, SnapshotOf(b))
<1>1. b.undo \in Seq(Entry) /\ b.redo \in Seq(Entry) /\ SnapshotOf(b) \in Entry
  BY SnapshotType DEF Buffer
<1>2. c \in Buffer /\ c.undo = b.undo /\ c.redo = b.redo
  BY <1>1, Stacks, RestoredType
<1>3. undo \in Seq(Entry) /\ redo \in Seq(Entry)
  <2> HIDE DEF c
  <2> QED BY <1>1, <1>2, Stacks
<1>4. Undone(b) = [c EXCEPT !.undo = undo, !.redo = redo, !.group = None]
  BY DEF Undone
<1> HIDE DEF c, undo, redo
<1> QED BY <1>2, <1>3, <1>4 DEF Buffer, InPlace, Groups

LEMMA RedoneType ==
  ASSUME NEW b \in Buffer, b.redo # <<>>
  PROVE  Redone(b) \in Buffer
<1> DEFINE d == UndoPushed(b, SnapshotOf(b))
           c == RestoredTo(d, Last(b.redo))
           redo == Front(c.redo)
<1>1. b.redo \in Seq(Entry) /\ SnapshotOf(b) \in Entry
  BY SnapshotType DEF Buffer
<1>2. d \in Buffer /\ d.redo = b.redo
  BY <1>1, UndoPushedType
<1>3. c \in Buffer /\ c.redo = b.redo
  <2> HIDE DEF d
  <2> QED BY <1>1, <1>2, Stacks, RestoredType
<1>4. redo \in Seq(Entry)
  <2> HIDE DEF c
  <2> QED BY <1>1, <1>3, Stacks
<1>5. Redone(b) = [c EXCEPT !.redo = redo, !.group = None]
  BY DEF Redone
<1> HIDE DEF c, d, redo
<1> QED BY <1>3, <1>4, <1>5 DEF Buffer, InPlace, Groups

LEMMA NewBufferType ==
  ASSUME NEW text \in Text
  PROVE  NewBuffer(text) \in Buffer
<1> DEFINE none == <<>>
           E == Entry
           lines == Lines(text)
<1>1. none \in Seq(E)
  OBVIOUS
<1>2. lines \in Document /\ Len(lines) \in Nat \ {0} /\ lines[1] \in Line
  BY LinesEffect DEF Document
<1>3. NewBuffer(text) =
        [lines |-> lines, cursor |-> [line |-> 1, column |-> 0], anchor |-> None,
         desired |-> 0, undo |-> none, redo |-> none, group |-> None]
  BY DEF NewBuffer, At
<1> HIDE DEF none, lines
<1>4. Len(lines[1]) \in Nat
  BY <1>2 DEF Line
<1> QED BY <1>1, <1>2, <1>3, <1>4 DEF Buffer, InPlace, InText, Position, Groups

\* A range of numbers, for the text in it to be replaced.
Ranging == [from : Nat, to : Nat]

LEMMA ReplacedType ==
  ASSUME NEW b \in Buffer, NEW range \in Ranging, NEW text \in Text
  PROVE  Replaced(b, range, text) \in Buffer
<1>1. PositionAt(b, range.from) \in Position /\ PositionAt(b, range.to) \in Position
  BY PositionAtType DEF Ranging
<1>2. SelectionSet(b, PositionAt(b, range.from), PositionAt(b, range.to)) \in Buffer
  BY <1>1, SelectionSetType
<1> QED BY <1>2, InsertedType DEF Replaced

LEMMA SelectionType ==
  ASSUME NEW b \in Buffer
  PROVE  Selection(b) \in Ranging
<1>1. SelectionStart(b) \in Position /\ SelectionEnd(b) \in Position
  BY Ends DEF Here
<1> QED BY <1>1, OffsetOfType DEF Selection, Span, Ranging
-----------------------------------------------------------------------------
(* What the find bar finds.                                                  *)

ScanStep(line, query, exact, i, starts) ==
  IF /\ Occurs(line, i - 1, query, exact)
     /\ starts # <<>> => Last(starts) + Len(query) < i
  THEN Append(starts, i - 1) ELSE starts

Scans(line, query, exact, f) ==
  f = [i \in 0..Len(line) |->
        IF i = 0 THEN <<>> ELSE ScanStep(line, query, exact, i, f[i - 1])]

\* Of the occurrences before i: some that do not overlap, and all others overlap
\* one of them.
Scanned(line, query, exact, i, starts) ==
  /\ starts \in Seq(Nat)
  /\ \A k \in 1..Len(starts) : starts[k] < i /\ Occurs(line, starts[k], query, exact)
  /\ \A j, k \in 1..Len(starts) : j < k => starts[j] + Len(query) <= starts[k]
  /\ \A c \in 0..i - 1 : Occurs(line, c, query, exact) =>
       \E k \in 1..Len(starts) : starts[k] <= c /\ c < starts[k] + Len(query)

LEMMA ScanStepEffect ==
  ASSUME NEW line \in Text, NEW query \in Text, query # <<>>, NEW exact \in BOOLEAN,
         NEW i \in 1..Len(line), NEW starts, Scanned(line, query, exact, i - 1, starts)
  PROVE  Scanned(line, query, exact, i, ScanStep(line, query, exact, i, starts))
<1> DEFINE m == Len(query)
           Found(c) == Occurs(line, c, query, exact)
           n == Len(starts)
<1>1. m \in Nat /\ m > 0 /\ i \in Nat /\ i - 1 \in Nat
  BY DEF Text
<1>2. /\ starts \in Seq(Nat) /\ n \in Nat
      /\ \A k \in 1..n : starts[k] \in Nat /\ starts[k] < i - 1 /\ Found(starts[k])
      /\ \A j, k \in 1..n : j < k => starts[j] + m <= starts[k]
      /\ \A c \in 0..i - 2 : Found(c) =>
           \E k \in 1..n : starts[k] <= c /\ c < starts[k] + m
  <2>1. (i - 1) - 1 = i - 2
    BY <1>1
  <2> QED BY <2>1 DEF Scanned
<1>3. CASE Found(i - 1) /\ (starts # <<>> => Last(starts) + m < i)
  <2> DEFINE new == Append(starts, i - 1)
  <2>1. /\ new \in Seq(Nat) /\ Len(new) = n + 1 /\ new[n + 1] = i - 1
        /\ \A k \in 1..n : new[k] = starts[k]
    BY <1>1, <1>2
  <2>2. ScanStep(line, query, exact, i, starts) = new
    BY <1>3 DEF ScanStep
  <2> HIDE DEF new, Found, m, n
  <2>3. ASSUME NEW k \in 1..n PROVE starts[k] + m <= i - 1
    <3>1. starts # <<>> /\ Last(starts) = starts[n] /\ n \in 1..n
      BY <1>2 DEF Last, n
    <3>2. starts[n] + m <= i - 1
      <4>1. starts[n] \in Nat
        BY <1>2, <3>1
      <4> QED BY <1>1, <1>3, <3>1, <4>1
    <3>3. k = n \/ starts[k] + m <= starts[n]
      BY <1>2, <3>1
    <3>4. starts[k] \in Nat /\ starts[n] \in Nat
      BY <1>2, <3>1
    <3> QED BY <1>1, <3>2, <3>3, <3>4
  <2>4. ASSUME NEW k \in 1..n + 1 PROVE new[k] < i /\ Found(new[k])
    <3>1. CASE k = n + 1
      BY <1>1, <1>3, <2>1, <3>1
    <3>2. CASE k # n + 1
      <4>1. k \in 1..n /\ new[k] = starts[k]
        BY <1>2, <2>1, <3>2
      <4> QED BY <1>1, <1>2, <4>1
    <3> QED BY <3>1, <3>2
  <2>5. ASSUME NEW j \in 1..n + 1, NEW k \in 1..n + 1, j < k PROVE new[j] + m <= new[k]
    <3>1. j \in 1..n
      BY <1>2, <2>5
    <3>2. CASE k = n + 1
      BY <2>1, <2>3, <3>1, <3>2
    <3>3. CASE k # n + 1
      <4>1. k \in 1..n
        BY <1>2, <3>3
      <4> QED BY <1>2, <2>1, <2>5, <3>1, <4>1
    <3> QED BY <3>2, <3>3
  <2>6. ASSUME NEW c \in 0..i - 1, Found(c)
        PROVE  \E k \in 1..n + 1 : new[k] <= c /\ c < new[k] + m
    <3>1. CASE c = i - 1
      <4>1. n + 1 \in 1..n + 1
        BY <1>2
      <4> QED BY <1>1, <2>1, <3>1, <4>1
    <3>2. CASE c # i - 1
      <4>1. c \in 0..i - 2
        BY <1>1, <3>2
      <4>2. PICK k \in 1..n : starts[k] <= c /\ c < starts[k] + m
        BY <1>2, <2>6, <4>1
      <4>3. k \in 1..n + 1 /\ new[k] = starts[k]
        BY <1>2, <2>1
      <4> QED BY <4>2, <4>3
    <3> QED BY <3>1, <3>2
  <2> QED BY <2>1, <2>2, <2>4, <2>5, <2>6 DEF Scanned, Found, m
<1>4. CASE ~ (Found(i - 1) /\ (starts # <<>> => Last(starts) + m < i))
  <2>1. ScanStep(line, query, exact, i, starts) = starts
    BY <1>4 DEF ScanStep
  <2> HIDE DEF Found, m, n
  <2>2. ASSUME NEW c \in 0..i - 1, Found(c)
        PROVE  \E k \in 1..n : starts[k] <= c /\ c < starts[k] + m
    <3>1. CASE c = i - 1
      <4>1. starts # <<>> /\ ~ (Last(starts) + m < i)
        BY <1>4, <2>2, <3>1
      <4>2. n \in 1..n /\ Last(starts) = starts[n] /\ starts[n] \in Nat
        <5>1. n \in 1..n /\ Last(starts) = starts[n]
          BY <1>2, <4>1 DEF Last, n
        <5> QED BY <1>2, <5>1
      <4>3. starts[n] <= c /\ c < starts[n] + m
        <5>1. starts[n] < i - 1
          BY <1>2, <4>2
        <5> QED BY <1>1, <3>1, <4>1, <4>2, <5>1
      <4> QED BY <4>2, <4>3
    <3>2. CASE c # i - 1
      <4>1. c \in 0..i - 2
        BY <1>1, <3>2
      <4> QED BY <1>2, <2>2, <4>1
    <3> QED BY <3>1, <3>2
  <2>3. \A k \in 1..n : starts[k] < i
    BY <1>1, <1>2
  <2> QED BY <1>2, <2>1, <2>2, <2>3 DEF Scanned, Found, m, n
<1> QED BY <1>3, <1>4
\* The occurrences of a query in a line, from left to right.
LEMMA MatchesInLineEffect ==
  ASSUME NEW line \in Text, NEW query \in Text, query # <<>>, NEW exact \in BOOLEAN
  PROVE  Scanned(line, query, exact, Len(line), MatchesInLine(line, query, exact))
<1> DEFINE N == Len(line)
           S == Seq(Nat)
           none == <<>>
           step == [i \in 1..N |-> [s \in S |-> ScanStep(line, query, exact, i, s)]]
           scan == CHOOSE f : Scans(line, query, exact, f)
<1>1. N \in Nat /\ none \in S
  BY DEF Text
<1>2. ASSUME NEW i \in 1..N, NEW s \in S PROVE ScanStep(line, query, exact, i, s) \in S
  <2>1. i - 1 \in Nat
    BY <1>1
  <2> QED BY <2>1 DEF ScanStep
<1>3. step \in [1..N -> [S -> S]]
  BY <1>2
<1>4. PICK f \in [0..N -> S] : f[0] = none /\ \A i \in 1..N : f[i] = step[i][f[i - 1]]
  <2> HIDE DEF step, N, S, none
  <2> QED BY <1>1, <1>3, RecursiveFunction
<1>5. Scans(line, query, exact, f)
  <2>1. ASSUME NEW i \in 1..N
        PROVE  step[i][f[i - 1]] = ScanStep(line, query, exact, i, f[i - 1])
    <3>1. f[i - 1] \in S
      BY <1>1
    <3> QED BY <3>1
  <2> HIDE DEF step
  <2>2. f = [i \in 0..N |-> IF i = 0 THEN none ELSE ScanStep(line, query, exact, i, f[i - 1])]
    <3> HIDE DEF none
    <3> QED BY <1>1, <1>4, <2>1
  <2> QED BY <2>2 DEF Scans
<1>6. Scans(line, query, exact, scan)
  BY <1>5
<1>7. MatchesInLine(line, query, exact) = scan[N]
  BY Zenon DEF MatchesInLine, Scans, ScanStep
<1> DEFINE P == {k \in 0..N : Scanned(line, query, exact, k, scan[k])}
<1> HIDE DEF scan, N
<1>8. 0 \in P
  <2>1. scan[0] = none
    BY <1>1, <1>6 DEF Scans, N
  <2>2. none \in Seq(Nat) /\ Len(none) = 0
    BY <1>1
  <2> HIDE DEF none
  <2>3. Scanned(line, query, exact, 0, none)
    BY <2>2 DEF Scanned
  <2> QED BY <1>1, <2>1, <2>3
<1>9. ASSUME NEW k \in 1..N, k - 1 \in P PROVE k \in P
  <2>1. scan[k] = ScanStep(line, query, exact, k, scan[k - 1])
    BY <1>1, <1>6 DEF Scans, N
  <2>2. Scanned(line, query, exact, k - 1, scan[k - 1]) /\ k \in 0..N
    BY <1>1, <1>9
  <2>3. Scanned(line, query, exact, k, scan[k])
    BY <2>1, <2>2, ScanStepEffect DEF N
  <2> QED BY <2>2, <2>3
<1>10. N \in P
  <2>1. 0..N \subseteq P
    <3> HIDE DEF P
    <3> QED BY <1>1, <1>8, <1>9, UpTo
  <2> QED BY <1>1, <2>1
<1> QED BY <1>7, <1>10 DEF N

Flattens(seqs, f) ==
  f = [i \in 1..Len(seqs) |-> IF i = 1 THEN seqs[i] ELSE f[i - 1] \o seqs[i]]

\* Several sequences in one, step by step.
LEMMA FlattenSeqEffect ==
  ASSUME NEW T, NEW seqs, seqs \in Seq(Seq(T)), seqs # <<>>
  PROVE  \E f \in [0..Len(seqs) -> Seq(T)] :
           /\ f[0] = <<>>
           /\ \A i \in 1..Len(seqs) : f[i] = f[i - 1] \o seqs[i]
           /\ FlattenSeq(seqs) = f[Len(seqs)]
<1> DEFINE S == Seq(T)
           N == Len(seqs)
           none == <<>>
           step == [i \in 1..N |-> [s \in S |-> s \o seqs[i]]]
           flat == CHOOSE f : Flattens(seqs, f)
<1>1. N \in Nat /\ N > 0 /\ \A i \in 1..N : seqs[i] \in S
  <2> HIDE DEF S
  <2>1. seqs \in Seq(S)
    BY DEF S
  <2> QED BY <2>1
<1>2. ASSUME NEW i \in 1..N, NEW s \in S PROVE s \o seqs[i] \in S
  <2>1. seqs[i] \in S
    BY <1>1
  <2> QED BY <2>1, ConcatProperties
<1>3. none \in S /\ step \in [1..N -> [S -> S]]
  BY <1>1, <1>2
<1>4. PICK g \in [0..N -> S] : g[0] = none /\ \A i \in 1..N : g[i] = step[i][g[i - 1]]
  <2>1. N \in Nat /\ none \in S /\ step \in [1..N -> [S -> S]]
    BY <1>1, <1>3
  <2>2. \E g \in [0..N -> S] : g[0] = none /\ \A i \in 1..N : g[i] = step[i][g[i - 1]]
    <3> HIDE DEF step, N, S, none
    <3> QED BY ONLY <2>1, RecursiveFunction
  <2> QED BY <2>2
<1>5. \A i \in 1..N : g[i] = g[i - 1] \o seqs[i]
  <2>1. ASSUME NEW i \in 1..N PROVE step[i][g[i - 1]] = g[i - 1] \o seqs[i]
    <3>1. g[i - 1] \in S
      <4>1. i - 1 \in 0..N
        BY <1>1
      <4> HIDE DEF S
      <4> QED BY <4>1
    <3> QED BY <3>1
  <2> HIDE DEF step
  <2> QED BY <1>4, <2>1
<1> DEFINE f == [i \in 1..N |-> g[i]]
<1>6. Flattens(seqs, f)
  <2>1. ASSUME NEW i \in 1..N
        PROVE  f[i] = IF i = 1 THEN seqs[i] ELSE f[i - 1] \o seqs[i]
    <3>1. CASE i = 1
      <4>1. g[1] = none \o seqs[1] /\ seqs[1] \in S
        <5>1. 1 \in 1..N /\ 1 - 1 = 0 /\ g[0] = none
          BY <1>1, <1>4
        <5>2. g[1] = g[1 - 1] \o seqs[1]
          BY <1>5, <5>1
        <5> QED BY <1>1, <5>1, <5>2
      <4>2. none \o seqs[1] = seqs[1]
        BY <4>1, ConcatEmptySeq
      <4> QED BY <3>1, <4>1, <4>2
    <3>2. CASE i # 1
      <4>1. i - 1 \in 1..N
        BY <1>1, <3>2
      <4> QED BY <1>5, <3>2, <4>1
    <3> QED BY <3>1, <3>2
  <2> QED BY <2>1 DEF Flattens
<1>7. ASSUME NEW h, Flattens(seqs, h) PROVE h = f
  <2> DEFINE P == {k \in 0..N : k = 0 \/ h[k] = f[k]}
  <2>1. ASSUME NEW k \in 1..N, k - 1 \in P PROVE k \in P
    <3>1. h[k] = IF k = 1 THEN seqs[k] ELSE h[k - 1] \o seqs[k]
      BY <1>7 DEF Flattens
    <3>2. f[k] = IF k = 1 THEN seqs[k] ELSE f[k - 1] \o seqs[k]
      BY <1>6 DEF Flattens
    <3>3. k = 1 \/ h[k - 1] = f[k - 1]
      BY <1>1, <2>1
    <3>4. k \in 0..N
      BY <1>1
    <3> QED BY <3>1, <3>2, <3>3, <3>4
  <2>2. 0..N \subseteq P
    <3>1. 0 \in P /\ N \in Nat
      BY <1>1
    <3> HIDE DEF P, N
    <3> QED BY <2>1, <3>1, UpTo
  <2>3. ASSUME NEW k \in 1..N PROVE h[k] = f[k]
    <3>1. k \in 0..N /\ k # 0
      BY <1>1
    <3>2. k \in P
      BY <2>2, <3>1
    <3> QED BY <3>1, <3>2
  <2>4. h = [k \in 1..N |-> h[k]] /\ f = [k \in 1..N |-> f[k]]
    <3>1. f = [k \in 1..N |-> f[k]]
      BY Zenon
    <3>2. h = [k \in 1..N |-> h[k]]
      BY <1>7 DEF Flattens
    <3> QED BY <3>1, <3>2
  <2> QED BY <2>3, <2>4
<1>8. flat = f
  BY <1>6, <1>7
<1>9. FlattenSeq(seqs) = flat[N]
  <2>1. Len(seqs) # 0
    BY <1>1
  <2> QED BY <2>1, Zenon DEF FlattenSeq, Flattens
<1>10. FlattenSeq(seqs) = g[N]
  <2>1. N \in 1..N
    BY <1>1
  <2> QED BY <1>8, <1>9, <2>1
<1> QED BY <1>4, <1>5, <1>10
\* The first match ends before the second begins.
Clear(p, q, query) ==
  \/ p.line < q.line
  \/ p.line = q.line /\ p.column + Len(query) <= q.column

\* Of the occurrences in the first n lines: matches in their order, none overlapping
\* another, and all other occurrences overlap one of them.
Collected(lines, query, exact, n, found) ==
  /\ found \in Seq(Position)
  /\ \A i \in 1..Len(found) : /\ found[i].line \in 1..n
                              /\ Occurs(lines[found[i].line], found[i].column, query, exact)
  /\ \A i, j \in 1..Len(found) : i < j => Clear(found[i], found[j], query)
  /\ \A l \in 1..n, c \in Nat : Occurs(lines[l], c, query, exact) =>
       \E i \in 1..Len(found) : /\ found[i].line = l /\ found[i].column <= c
                                /\ c < found[i].column + Len(query)

Placed(line, starts) == [i \in 1..Len(starts) |-> At(line, starts[i])]

LEMMA PlacedEffect ==
  ASSUME NEW line \in Nat \ {0}, NEW starts \in Seq(Nat)
  PROVE  /\ Placed(line, starts) \in Seq(Position)
         /\ Len(Placed(line, starts)) = Len(starts) /\ Len(starts) \in Nat
         /\ \A i \in 1..Len(starts) : /\ Placed(line, starts)[i].line = line
                                      /\ Placed(line, starts)[i].column = starts[i]
<1> DEFINE p == Placed(line, starts)
           n == Len(starts)
           P == Position
<1>1. n \in Nat /\ \A i \in 1..n : starts[i] \in Nat
  OBVIOUS
<1>2. ASSUME NEW i \in 1..n
      PROVE  At(line, starts[i]) \in P /\ At(line, starts[i]).line = line
             /\ At(line, starts[i]).column = starts[i]
  BY <1>1 DEF At, Position
<1>3. p \in [1..n -> P]
  BY <1>2 DEF Placed
<1>4. p \in Seq(P) /\ Len(p) = n
  <2> HIDE DEF p, n, P
  <2> QED BY <1>1, <1>3
<1>5. \A i \in 1..n : p[i] = At(line, starts[i])
  BY DEF Placed
<1> QED BY <1>1, <1>2, <1>4, <1>5

\* The matches of one line more.
LEMMA CollectedWith ==
  ASSUME NEW lines \in Document, NEW query \in Text, query # <<>>, NEW exact \in BOOLEAN,
         NEW n \in 1..Len(lines), NEW found, Collected(lines, query, exact, n - 1, found)
  PROVE  Collected(lines, query, exact, n,
                   found \o Placed(n, MatchesInLine(lines[n], query, exact)))
<1> DEFINE starts == MatchesInLine(lines[n], query, exact)
           more == Placed(n, starts)
           both == found \o more
           m == Len(query)
           k == Len(found)
           o == Len(starts)
           Good(l, c) == Occurs(lines[l], c, query, exact)
<1>1. lines[n] \in Text /\ n \in Nat \ {0} /\ Len(lines[n]) \in Nat /\ m \in Nat /\ m > 0
  BY LineIsText DEF Document, Text
<1>2. Scanned(lines[n], query, exact, Len(lines[n]), starts)
  BY <1>1, MatchesInLineEffect
<1> HIDE DEF starts
<1>3. /\ starts \in Seq(Nat) /\ o \in Nat
      /\ \A i \in 1..o : starts[i] \in Nat /\ Good(n, starts[i])
      /\ \A i, j \in 1..o : i < j => starts[i] + m <= starts[j]
      /\ \A c \in 0..Len(lines[n]) - 1 : Good(n, c) =>
           \E i \in 1..o : starts[i] <= c /\ c < starts[i] + m
  BY <1>2 DEF Scanned
<1>4. /\ more \in Seq(Position) /\ Len(more) = o
      /\ \A i \in 1..o : more[i].line = n /\ more[i].column = starts[i]
  BY <1>1, <1>3, PlacedEffect
<1>5. /\ found \in Seq(Position) /\ k \in Nat
      /\ \A i \in 1..k : /\ found[i] \in Position /\ found[i].line \in 1..n - 1
                         /\ Good(found[i].line, found[i].column)
      /\ \A i, j \in 1..k : i < j => Clear(found[i], found[j], query)
      /\ \A l \in 1..n - 1, c \in Nat : Good(l, c) =>
           \E i \in 1..k : /\ found[i].line = l /\ found[i].column <= c
                           /\ c < found[i].column + m
  BY DEF Collected
<1> HIDE DEF more, Good, m
<1>6. /\ both \in Seq(Position) /\ Len(both) = k + o
      /\ \A i \in 1..k : both[i] = found[i]
      /\ \A i \in 1..o : both[k + i] = more[i]
  <2> DEFINE P == Position
  <2> HIDE DEF P
  <2>1. found \in Seq(P) /\ more \in Seq(P) /\ Len(more) = o
    BY <1>4, <1>5 DEF P
  <2>2. /\ both \in Seq(P) /\ Len(both) = k + o
        /\ \A i \in 1..k + o : both[i] = IF i <= k THEN found[i] ELSE more[i - k]
    <3>1. /\ found \o more \in Seq(P) /\ Len(found \o more) = Len(found) + Len(more)
          /\ \A i \in 1..Len(found) + Len(more) :
               (found \o more)[i] = IF i <= Len(found) THEN found[i] ELSE more[i - Len(found)]
      BY <2>1, ConcatProperties, Zenon
    <3> QED BY <2>1, <3>1
  <2> HIDE DEF both, k, o
  <2>3. ASSUME NEW i \in 1..k PROVE both[i] = found[i]
    <3>1. i \in 1..k + o /\ i <= k
      BY <1>3, <1>5
    <3> QED BY <2>2, <3>1
  <2>4. ASSUME NEW i \in 1..o PROVE both[k + i] = more[i]
    <3>1. k + i \in 1..k + o /\ ~ (k + i <= k) /\ (k + i) - k = i
      BY <1>3, <1>5
    <3> QED BY <2>2, <3>1
  <2> QED BY <2>2, <2>3, <2>4 DEF P
<1> HIDE DEF both, k, o
<1>7. ASSUME NEW i \in 1..k + o PROVE i \in 1..k \/ \E j \in 1..o : i = k + j
  <2>1. CASE i \in 1..k
    BY <2>1
  <2>2. CASE i \notin 1..k
    <3>1. i - k \in 1..o /\ i = k + (i - k)
      BY <1>3, <1>5, <2>2
    <3> QED BY <3>1
  <2> QED BY <2>1, <2>2
<1>8. ASSUME NEW i \in 1..k + o
      PROVE  both[i].line \in 1..n /\ Good(both[i].line, both[i].column)
  <2>1. CASE i \in 1..k
    <3>1. 1..n - 1 \subseteq 1..n
      BY <1>1
    <3> QED BY <1>5, <1>6, <2>1, <3>1
  <2>2. ASSUME NEW j \in 1..o, i = k + j
        PROVE  both[i].line \in 1..n /\ Good(both[i].line, both[i].column)
    <3>1. both[i] = more[j] /\ more[j].line = n /\ more[j].column = starts[j]
      BY <1>4, <1>6, <2>2
    <3>2. n \in 1..n
      BY <1>1
    <3> QED BY <1>3, <3>1, <3>2
  <2> QED BY <1>7, <2>1, <2>2
<1>9. ASSUME NEW i \in 1..k + o, NEW j \in 1..k + o, i < j
      PROVE  Clear(both[i], both[j], query)
  <2>1. CASE j \in 1..k
    <3>1. i \in 1..k
      BY <1>5, <1>9, <2>1
    <3> QED BY <1>5, <1>6, <1>9, <2>1, <3>1
  <2>2. CASE i \in 1..k /\ j \notin 1..k
    <3>1. PICK b \in 1..o : j = k + b
      BY <1>7, <2>2
    <3>2. both[j].line = n /\ both[i].line \in 1..n - 1
      BY <1>4, <1>5, <1>6, <2>2, <3>1
    <3> QED BY <1>1, <3>2 DEF Clear
  <2>3. CASE i \notin 1..k
    <3>1. PICK a \in 1..o : i = k + a
      BY <1>7, <2>3
    <3>2. j \notin 1..k
      BY <1>3, <1>5, <1>9, <2>3
    <3>3. PICK b \in 1..o : j = k + b
      BY <1>7, <3>2
    <3>4. a < b
      BY <1>5, <1>9, <3>1, <3>3
    <3>5. starts[a] + m <= starts[b]
      BY <1>3, <3>4
    <3>6. /\ both[i].line = n /\ both[i].column = starts[a]
          /\ both[j].line = n /\ both[j].column = starts[b]
      BY <1>4, <1>6, <3>1, <3>3
    <3> QED BY <3>5, <3>6 DEF Clear, m
  <2> QED BY <2>1, <2>2, <2>3
<1>10. ASSUME NEW l \in 1..n, NEW c \in Nat, Good(l, c)
       PROVE  \E i \in 1..k + o : /\ both[i].line = l /\ both[i].column <= c
                                  /\ c < both[i].column + m
  <2>1. CASE l # n
    <3>1. l \in 1..n - 1
      BY <1>1, <2>1
    <3>2. PICK i \in 1..k : found[i].line = l /\ found[i].column <= c /\ c < found[i].column + m
      BY <1>5, <1>10, <3>1
    <3>3. i \in 1..k + o /\ both[i] = found[i]
      BY <1>3, <1>5, <1>6
    <3> QED BY <3>2, <3>3
  <2>2. CASE l = n
    <3>1. c + m <= Len(lines[n])
      BY <1>10, <2>2 DEF Good, Occurs, m
    <3>2. c \in 0..Len(lines[n]) - 1
      BY <1>1, <3>1
    <3>3. PICK i \in 1..o : starts[i] <= c /\ c < starts[i] + m
      BY <1>3, <1>10, <2>2, <3>2
    <3>4. both[k + i].line = n /\ both[k + i].column = starts[i]
      BY <1>4, <1>6
    <3>5. k + i \in 1..k + o
      BY <1>3, <1>5
    <3> QED BY <2>2, <3>3, <3>4, <3>5
  <2> QED BY <2>1, <2>2
<1> QED BY <1>6, <1>8, <1>9, <1>10 DEF Collected, Good, m, both, more, starts
LEMMA MatchesEffect ==
  ASSUME NEW lines \in Document, NEW query \in Text, query # <<>>, NEW exact \in BOOLEAN
  PROVE  Collected(lines, query, exact, Len(lines), Matches(lines, query, exact))
<1> DEFINE N == Len(lines)
           piece == [n \in 1..N |-> Placed(n, MatchesInLine(lines[n], query, exact))]
           none == <<>>
           T == Seq(Position)
<1>1. N \in Nat \ {0} /\ \A n \in 1..N : lines[n] \in Text
  BY LineIsText DEF Document
<1>2. ASSUME NEW n \in 1..N PROVE piece[n] \in T
  <2>1. MatchesInLine(lines[n], query, exact) \in Seq(Nat)
    BY <1>1, MatchesInLineEffect DEF Scanned
  <2>2. n \in Nat \ {0}
    BY <1>1
  <2>3. Placed(n, MatchesInLine(lines[n], query, exact)) \in T
    BY <2>1, <2>2, PlacedEffect
  <2> QED BY <2>3
<1>3. piece \in Seq(T) /\ Len(piece) = N /\ piece # <<>>
  <2>1. piece \in [1..N -> T]
    BY <1>2
  <2>2. piece \in Seq(T) /\ Len(piece) = N
    <3> HIDE DEF piece, T, N
    <3> QED BY <1>1, <2>1
  <2> QED BY <1>1, <2>2
<1>4. Matches(lines, query, exact) = FlattenSeq(piece)
  <2>1. query # <<>>
    OBVIOUS
  <2> QED BY <2>1, Zenon DEF Matches, Placed
<1>5. PICK f \in [0..N -> T] :
        /\ f[0] = none /\ \A n \in 1..N : f[n] = f[n - 1] \o piece[n]
        /\ FlattenSeq(piece) = f[N]
  <2> DEFINE Q == Position
  <2>1. piece \in Seq(Seq(Q)) /\ piece # <<>> /\ Len(piece) = N
    BY <1>3
  <2> HIDE DEF piece, N, Q
  <2> QED BY <2>1, FlattenSeqEffect DEF Q
<1> DEFINE P == {n \in 0..N : Collected(lines, query, exact, n, f[n])}
<1>6. 0 \in P
  <2>1. f[0] = none /\ none \in Seq(Position) /\ Len(none) = 0
    BY <1>5
  <2> HIDE DEF none
  <2>2. Collected(lines, query, exact, 0, f[0])
    BY <2>1 DEF Collected
  <2> QED BY <1>1, <2>2
<1>7. ASSUME NEW n \in 1..N, n - 1 \in P PROVE n \in P
  <2>1. f[n] = f[n - 1] \o Placed(n, MatchesInLine(lines[n], query, exact))
    BY <1>5
  <2>2. Collected(lines, query, exact, n - 1, f[n - 1])
    BY <1>7
  <2>3. Collected(lines, query, exact, n, f[n])
    BY <2>1, <2>2, CollectedWith
  <2> QED BY <1>1, <2>3
<1>8. 0..N \subseteq P
  <2> HIDE DEF P, N
  <2>1. N \in Nat
    BY <1>1
  <2> QED BY <1>6, <1>7, <2>1, UpTo
<1>9. N \in P
  BY <1>1, <1>8
<1> QED BY <1>4, <1>5, <1>9

Search == [query : Text, matches : Seq(Position), current : Nat, exact : BOOLEAN]

\* What the find bar shows is right for the lines.
Searched(f, lines) ==
  /\ f \in Search
  /\ IF f.query = <<>> THEN f.matches = <<>>
     ELSE Collected(lines, f.query, f.exact, Len(lines), f.matches)
  /\ f.current \in IF f.matches = <<>> THEN {0} ELSE 1..Len(f.matches)

LEMMA RecomputedEffect ==
  ASSUME NEW lines \in Document, NEW f \in Search, NEW keep
  PROVE  Searched(Recomputed(f, lines, keep), lines)
<1> DEFINE found == Matches(lines, f.query, f.exact)
           kept == {i \in 1..Len(found) : found[i] = keep}
           current == IF found = <<>> THEN 0
                      ELSE IF kept = {} THEN 1 ELSE CHOOSE i \in kept : TRUE
           none == <<>>
<1>1. f.query \in Text /\ f.exact \in BOOLEAN
  BY DEF Search
<1>2. /\ found \in Seq(Position)
      /\ IF f.query = <<>> THEN found = none
         ELSE Collected(lines, f.query, f.exact, Len(lines), found)
  <2>1. CASE f.query = <<>>
    <3>1. found = none
      BY <2>1 DEF Matches
    <3> DEFINE P == Position
    <3>2. none \in Seq(P)
      <4> HIDE DEF P
      <4> QED OBVIOUS
    <3> HIDE DEF found, none
    <3> QED BY <2>1, <3>1, <3>2
  <2>2. CASE f.query # <<>>
    <3>1. Collected(lines, f.query, f.exact, Len(lines), found)
      BY <1>1, <2>2, MatchesEffect
    <3> QED BY <2>2, <3>1 DEF Collected
  <2> QED BY <2>1, <2>2
<1> HIDE DEF found
<1>3. /\ current \in Nat
      /\ current \in IF found = none THEN {0} ELSE 1..Len(found)
  <2>1. CASE found = none
    BY <2>1
  <2>2. CASE found # none
    <3>1. Len(found) \in Nat \ {0}
      BY <1>2, <2>2
    <3>2. kept # {} => (CHOOSE i \in kept : TRUE) \in kept
      OBVIOUS
    <3>3. current \in 1..Len(found)
      BY <2>2, <3>1, <3>2
    <3> HIDE DEF current
    <3> QED BY <2>2, <3>1, <3>3
  <2> QED BY <2>1, <2>2
<1>4. Recomputed(f, lines, keep) = [f EXCEPT !.matches = found, !.current = current]
  BY Zenon DEF Recomputed, found
<1> HIDE DEF current
<1>5. /\ Recomputed(f, lines, keep) \in Search
      /\ Recomputed(f, lines, keep).query = f.query
      /\ Recomputed(f, lines, keep).exact = f.exact
      /\ Recomputed(f, lines, keep).matches = found
      /\ Recomputed(f, lines, keep).current = current
  BY <1>2, <1>3, <1>4 DEF Search
<1> QED BY <1>2, <1>3, <1>5 DEF Searched
\* That is what Follows asks for, in its own words.
LEMMA SearchedFollows ==
  ASSUME NEW lines \in Document, NEW f, Searched(f, lines)
  PROVE  Follows(f, lines)
<1> DEFINE size == Len(f.query)
           found == ToSet(f.matches)
           Equals(a, b) == a = b \/ (~ f.exact /\ Fold[a] = Fold[b])
           all == UNION {{At(n, c) : c \in 0..Len(lines[n])} : n \in 1..Len(lines)}
           there == {p \in all :
                  /\ size > 0 /\ p.column + size <= Len(lines[p.line])
                  /\ \A i \in 1..size : Equals(lines[p.line][p.column + i], f.query[i])}
           Overlap(p, q) == /\ p.line = q.line
                            /\ p.column < q.column + size /\ q.column < p.column + size
           k == Len(f.matches)
<1>1. /\ f.query \in Text /\ f.matches \in Seq(Position) /\ f.exact \in BOOLEAN
      /\ size \in Nat /\ k \in Nat
      /\ IF f.query = <<>> THEN f.matches = <<>>
         ELSE Collected(lines, f.query, f.exact, Len(lines), f.matches)
  BY DEF Searched, Search, Text
<1>2. Len(lines) \in Nat /\ \A n \in 1..Len(lines) : lines[n] \in Text /\ Len(lines[n]) \in Nat
  BY LineIsText DEF Document, Text
<1>3. found = {f.matches[i] : i \in 1..k}
  BY <1>1 DEF ToSet
<1>4. ASSUME NEW n \in 1..Len(lines), NEW c \in Nat, size > 0
      PROVE  Occurs(lines[n], c, f.query, f.exact) <=> At(n, c) \in there
  <2>1. At(n, c).line = n /\ At(n, c).column = c
    BY DEF At
  <2>2. Occurs(lines[n], c, f.query, f.exact) <=>
          /\ c + size <= Len(lines[n])
          /\ \A i \in 1..size : Equals(lines[n][c + i], f.query[i])
    BY DEF Occurs, SameChar
  <2>3. c + size <= Len(lines[n]) => At(n, c) \in all
    <3>1. c + size <= Len(lines[n]) => c \in 0..Len(lines[n])
      BY <1>1, <1>2
    <3> QED BY <3>1
  <2> HIDE DEF Equals, all
  <2> QED BY <1>4, <2>1, <2>2, <2>3
<1>5. ASSUME NEW p \in there
      PROVE  /\ size > 0 /\ p.line \in 1..Len(lines) /\ p.column \in Nat
             /\ p = At(p.line, p.column)
  <2>1. p \in all /\ size > 0
    OBVIOUS
  <2>2. PICK n \in 1..Len(lines) : \E c \in 0..Len(lines[n]) : p = At(n, c)
    BY <2>1
  <2>3. PICK c \in 0..Len(lines[n]) : p = At(n, c)
    BY <2>2
  <2> QED BY <1>2, <2>1, <2>3 DEF At
<1> HIDE DEF there, found
<1>6. ASSUME NEW i \in 1..k
      PROVE  /\ size > 0 /\ f.matches[i].line \in 1..Len(lines) /\ f.matches[i].line \in Nat
             /\ f.matches[i].column \in Nat /\ f.matches[i] \in there
  <2>1. f.query # <<>> /\ size > 0
    <3>1. f.query # <<>>
      BY <1>1
    <3> QED BY <1>1, <3>1 DEF Text
  <2>2. /\ f.matches[i] \in Position /\ f.matches[i].line \in 1..Len(lines)
        /\ Occurs(lines[f.matches[i].line], f.matches[i].column, f.query, f.exact)
    BY <1>1, <2>1 DEF Collected
  <2>3. /\ f.matches[i].column \in Nat /\ f.matches[i].line \in Nat
        /\ f.matches[i] = At(f.matches[i].line, f.matches[i].column)
    BY <2>2 DEF Position, At
  <2> QED BY <1>4, <2>1, <2>2, <2>3
<1>7. found \subseteq there
  BY <1>3, <1>6
<1>8. ASSUME NEW i \in 1..k, NEW j \in 1..k, i < j
      PROVE  /\ Before(f.matches[i], f.matches[j])
             /\ ~ Overlap(f.matches[i], f.matches[j])
  <2> DEFINE p == f.matches[i]
             q == f.matches[j]
  <2>1. Clear(p, q, f.query)
    <3>1. f.query # <<>>
      BY <1>6, <1>1
    <3> QED BY <1>1, <1>8, <3>1 DEF Collected
  <2>2. /\ p.line \in Nat /\ q.line \in Nat /\ p.column \in Nat /\ q.column \in Nat
        /\ size \in Nat /\ size > 0
    BY <1>1, <1>6
  <2>3. p.line < q.line \/ (p.line = q.line /\ p.column + size <= q.column)
    BY <2>1 DEF Clear
  <2> HIDE DEF p, q, size
  <2>4. Before(p, q) /\ ~ Overlap(p, q)
    BY <2>2, <2>3 DEF Before
  <2> QED BY <2>4 DEF p, q
<1>9. ASSUME NEW p \in there PROVE \E q \in found : Overlap(p, q)
  <2>1. /\ size > 0 /\ p.line \in 1..Len(lines) /\ p.column \in Nat
        /\ p = At(p.line, p.column)
    BY <1>5
  <2>2. Occurs(lines[p.line], p.column, f.query, f.exact) /\ f.query # <<>>
    BY <1>4, <2>1
  <2>3. PICK i \in 1..k : /\ f.matches[i].line = p.line /\ f.matches[i].column <= p.column
                          /\ p.column < f.matches[i].column + size
    BY <1>1, <2>1, <2>2 DEF Collected
  <2>4. f.matches[i].column \in Nat
    BY <1>6
  <2>5. Overlap(p, f.matches[i])
    BY <1>1, <2>1, <2>3, <2>4
  <2> QED BY <1>3, <2>5
<1>10. f.current \in IF found = {} THEN {0} ELSE 1..Len(f.matches)
  <2>1. found = {} <=> f.matches = <<>>
    <3>1. f.matches = <<>> <=> k = 0
      BY <1>1
    <3>2. CASE k = 0
      <4>1. 1..k = {}
        BY <3>2
      <4>2. found = {}
        BY <1>3, <4>1
      <4> QED BY <3>1, <3>2, <4>2
    <3>3. CASE k # 0
      <4>1. 1 \in 1..k
        BY <1>1, <3>3
      <4>2. f.matches[1] \in found
        BY <1>3, <4>1
      <4> QED BY <3>1, <3>3, <4>2
    <3> QED BY <3>2, <3>3
  <2> QED BY <2>1 DEF Searched
<1> QED BY <1>7, <1>8, <1>9, <1>10, Zenon DEF Follows, found, there
-----------------------------------------------------------------------------
(* The invariant. What a composition marks are numbers that may lie beyond   *)
(* the text; what the find bar shows is right for the text shown.            *)

EditorInv ==
  /\ buffer \in Buffer
  /\ marked \in {None} \cup Ranging
  /\ find # None => Searched(find, buffer.lines)

\* No movement or selection changes the text.
LEMMA SameLines ==
  ASSUME NEW b \in Buffer
  PROVE  /\ \A p : \A extend \in BOOLEAN :
              /\ MovedTo(b, p, extend).lines = b.lines
              /\ MovedSteadily(b, p, extend).lines = b.lines
         /\ \A p, q : /\ SelectionSet(b, p, q).lines = b.lines
                      /\ Selected(b, p, q).lines = b.lines
         /\ \A p : WordSelected(b, p).lines = b.lines
         /\ \A extend \in BOOLEAN : \A c \in Movements(b, extend) : c.lines = b.lines
<1>1. ASSUME NEW p, NEW extend \in BOOLEAN
      PROVE  /\ MovedTo(b, p, extend).lines = b.lines
             /\ MovedSteadily(b, p, extend).lines = b.lines
  <2>1. /\ MovedSteadily(b, p, extend).lines = b.lines
        /\ DOMAIN MovedSteadily(b, p, extend) = DOMAIN b
        /\ "lines" \in DOMAIN b
    BY DEF MovedSteadily, Buffer
  <2>2. MovedTo(b, p, extend).lines = MovedSteadily(b, p, extend).lines
    BY <2>1 DEF MovedTo
  <2> QED BY <2>1, <2>2
<1>2. ASSUME NEW p, NEW q
      PROVE  SelectionSet(b, p, q).lines = b.lines /\ Selected(b, p, q).lines = b.lines
  BY DEF SelectionSet, Selected, Buffer
<1>3. ASSUME NEW p PROVE WordSelected(b, p).lines = b.lines
  BY <1>1, <1>2 DEF WordSelected, CursorSet
<1>4. ASSUME NEW extend \in BOOLEAN, NEW c \in Movements(b, extend) PROVE c.lines = b.lines
  BY <1>1, <1>4 DEF Movements
<1> QED BY <1>1, <1>2, <1>3, <1>4

\* A change of the caret or the selection alone.
LEMMA ShowsKeeps ==
  ASSUME EditorInv, NEW b \in Buffer, b.lines = buffer.lines,
         buffer' = b, marked' = marked, find' = find
  PROVE  EditorInv'
BY DEF EditorInv

LEMMA SyncedEffect ==
  ASSUME NEW lines \in Document, NEW f, f # None => f \in Search
  PROVE  Synced(f, lines) # None => Searched(Synced(f, lines), lines)
BY RecomputedEffect DEF Synced

LEMMA EditedKeeps ==
  ASSUME EditorInv, NEW b \in Buffer, NEW range, NEW text, Edited(b, range, text),
         marked' \in {None} \cup Ranging
  PROVE  EditorInv'
<1>1. buffer' = b /\ find' = Synced(find, b.lines)
  BY DEF Edited
<1>2. b.lines \in Document /\ (find # None => find \in Search)
  BY DEF Buffer, EditorInv, Searched
<1> QED BY <1>1, <1>2, SyncedEffect DEF EditorInv

\* A match is landed on, if there is one.
LEMMA LandsKeeps ==
  ASSUME EditorInv, NEW f, Searched(f, buffer.lines), Lands(f)
  PROVE  EditorInv'
<1>1. find' = f /\ marked' = marked
  BY DEF Lands
<1>2. CASE f.current = 0
  BY <1>1, <1>2 DEF Lands, EditorInv
<1>3. CASE f.current # 0
  <2>1. f.matches \in Seq(Position) /\ f.current \in 1..Len(f.matches)
    BY <1>3 DEF Searched, Search
  <2>2. CurrentMatch(f) \in Position
    BY <1>3, <2>1 DEF CurrentMatch
  <2>3. buffer' = MovedTo(buffer, CurrentMatch(f), FALSE)
    BY <1>3 DEF Lands, CursorSet
  <2>4. buffer' \in Buffer /\ buffer'.lines = buffer.lines
    <3> DEFINE b == MovedTo(buffer, CurrentMatch(f), FALSE)
    <3>1. buffer \in Buffer
      BY DEF EditorInv
    <3>2. b \in Buffer
      BY <2>2, <3>1, MovedType
    <3>3. b.lines = buffer.lines
      BY <3>1, SameLines
    <3> HIDE DEF b
    <3> QED BY <2>3, <3>2, <3>3 DEF b
  <2> QED BY <1>1, <2>4 DEF EditorInv
<1> QED BY <1>2, <1>3

LEMMA SteppedEffect ==
  ASSUME NEW lines, NEW f, Searched(f, lines), NEW forward \in BOOLEAN
  PROVE  Searched(Stepped(f, forward), lines)
<1> DEFINE n == Len(f.matches)
           c == IF forward THEN (f.current % n) + 1
                ELSE IF f.current <= 1 THEN n ELSE f.current - 1
<1>1. f \in Search /\ n \in Nat /\ f.current \in Nat
  BY DEF Searched, Search
<1>2. CASE n = 0
  BY <1>2 DEF Stepped
<1>3. CASE n # 0
  <2>1. f.current \in 1..n
    <3>1. f.matches # <<>>
      BY <1>3
    <3> QED BY <3>1 DEF Searched
  <2>2. c \in 1..n
    <3> DEFINE i == f.current
    <3>1. i \in 1..n /\ n \in Nat /\ n > 0
      BY <1>1, <1>3, <2>1
    <3> HIDE DEF i, n
    <3>2. i % n \in 0..n - 1
      BY <3>1
    <3>3. (i % n) + 1 \in 1..n
      BY <3>1, <3>2
    <3>4. (IF i <= 1 THEN n ELSE i - 1) \in 1..n
      BY <3>1
    <3> QED BY <3>3, <3>4 DEF i
  <2>3. Stepped(f, forward) = [f EXCEPT !.current = c]
    BY <1>3 DEF Stepped
  <2> HIDE DEF c
  <2>4. c \in Nat /\ f.matches # <<>>
    BY <1>1, <1>3, <2>2
  <2> QED BY <1>1, <2>2, <2>3, <2>4 DEF Searched, Search
<1> QED BY <1>2, <1>3

LEMMA EditorInvInit == EditorInit => EditorInv
<1> SUFFICES ASSUME EditorInit PROVE EditorInv
  OBVIOUS
<1>1. PICK text \in Documents : buffer = NewBuffer(text)
  BY DEF EditorInit
<1>2. text \in Text
  BY EditorAssumption
<1> QED BY <1>1, <1>2, NewBufferType DEF EditorInit, EditorInv
LEMMA TargetType ==
  ASSUME EditorInv, NEW given \in Given
  PROVE  Target(given) \in Ranging
<1> DEFINE n == Len(TextOf(buffer.lines))
<1>1. buffer \in Buffer
  BY DEF EditorInv
<1>2. n \in Nat
  <2>1. TextOf(buffer.lines) \in Text
    BY <1>1, TextOfType DEF Buffer
  <2> QED BY <2>1 DEF Text
<1>3. CASE given # None
  <2>1. given \in Ranges(n)
    BY <1>3 DEF Given
  <2> HIDE DEF n
  <2>2. given \in Ranging
    BY <1>2, <2>1 DEF Ranges, Ranging
  <2> QED BY <1>3, <2>2 DEF Target
<1>4. CASE given = None /\ marked # None
  <2>1. marked \in Ranging
    BY <1>4 DEF EditorInv
  <2>2. Target(given) = Span(Smaller(marked.from, n), Smaller(marked.to, n))
    BY <1>4 DEF Target
  <2> HIDE DEF n
  <2> QED BY <1>2, <2>1, <2>2 DEF Span, Smaller, Ranging
<1>5. CASE given = None /\ marked = None
  BY <1>1, <1>5, SelectionType DEF Target
<1> QED BY <1>3, <1>4, <1>5

LEMMA ComposedKeeps ==
  ASSUME EditorInv, ReplaceAndMarkTextInRange
  PROVE  EditorInv'
<1>1. PICK given \in Given, text \in Inputs \cup {<<>>} :
        \E chosen \in {None} \cup Ranges(Len(text)) :
          LET range == Target(given)
              b == Replaced(buffer, range, text)
              length == OffsetOf(b, b.cursor) - range.from
              Within(offset) == PositionAt(b, range.from + offset)
          IN /\ Edited(IF chosen = None THEN b
                       ELSE SelectionSet(b, Within(chosen.from), Within(chosen.to)),
                       range, text)
             /\ marked' = IF length = 0 THEN None ELSE Span(range.from, range.from + length)
  BY DEF ReplaceAndMarkTextInRange
<1> DEFINE range == Target(given)
           b == Replaced(buffer, range, text)
           length == OffsetOf(b, b.cursor) - range.from
           Within(offset) == PositionAt(b, range.from + offset)
           New(chosen) == IF chosen = None THEN b
                          ELSE SelectionSet(b, Within(chosen.from), Within(chosen.to))
<1>2. PICK chosen \in {None} \cup Ranges(Len(text)) :
        /\ Edited(New(chosen), range, text)
        /\ marked' = IF length = 0 THEN None ELSE Span(range.from, range.from + length)
  BY <1>1
<1>3. text \in Text
  <2> DEFINE none == <<>>
             C == DOMAIN Fold \cup {Break}
  <2>1. none \in Seq(C)
    <3> HIDE DEF C
    <3> QED OBVIOUS
  <2>2. text = none \/ text \in Text
    BY EditorAssumption
  <2> QED BY <2>1, <2>2 DEF Text
<1>4. range \in Ranging /\ buffer \in Buffer
  BY TargetType DEF EditorInv
<1>5. b \in Buffer
  BY <1>3, <1>4, ReplacedType
<1>6. b.cursor \in Position
  BY <1>5, Ends DEF Here
<1>7. OffsetOf(b, b.cursor) \in Nat
  BY <1>5, <1>6, OffsetOfType
<1>8. New(chosen) \in Buffer
  <2>1. CASE chosen = None
    BY <1>5, <2>1
  <2>2. CASE chosen # None
    <3>1. chosen \in Ranges(Len(text)) /\ Len(text) \in Nat
      BY <1>3, <2>2 DEF Text
    <3>2. chosen.from \in Nat /\ chosen.to \in Nat /\ range.from \in Nat
      <4> HIDE DEF range
      <4> QED BY <1>4, <3>1 DEF Ranges, Ranging
    <3>3. range.from + chosen.from \in Nat /\ range.from + chosen.to \in Nat
      <4> HIDE DEF range
      <4> QED BY <3>2
    <3>4. Within(chosen.from) \in Position /\ Within(chosen.to) \in Position
      <4> HIDE DEF b, range
      <4> QED BY <1>5, <3>3, PositionAtType
    <3> HIDE DEF b, Within
    <3> QED BY <1>5, <2>2, <3>4, SelectionSetType
  <2> QED BY <2>1, <2>2
<1>9. marked' \in {None} \cup Ranging
  <2> DEFINE o == OffsetOf(b, b.cursor)
  <2>1. range.from \in Nat /\ o \in Nat
    BY <1>4, <1>7 DEF Ranging
  <2>2. marked' = IF o - range.from = 0 THEN None
                  ELSE Span(range.from, range.from + (o - range.from))
    BY <1>2
  <2> HIDE DEF o, range
  <2>3. range.from + (o - range.from) = o
    BY <2>1
  <2> QED BY <2>1, <2>2, <2>3 DEF Span, Ranging
<1> HIDE DEF New, range
<1> QED BY <1>2, <1>8, <1>9, EditedKeeps
\* The step of each action, but for the ones with a lemma of their own.
LEMMA EditorInvNext == EditorInv /\ [EditorNext]_editorVars => EditorInv'
<1> SUFFICES ASSUME EditorInv, [EditorNext]_editorVars PROVE EditorInv'
  OBVIOUS
<1>1. /\ buffer \in Buffer /\ buffer.lines \in Document
      /\ marked \in {None} \cup Ranging
      /\ \A p \in Here(buffer) : p \in Position
  BY DEF EditorInv, Buffer, Here
<1>2. CASE UNCHANGED editorVars
  BY <1>2 DEF editorVars, EditorInv
<1>3. CASE Move
  <2>1. PICK extend \in BOOLEAN : \E b \in Movements(buffer, extend) : Shows(b)
    <3>1. {FALSE, "extend" \in EditorOps} \subseteq BOOLEAN
      OBVIOUS
    <3>2. \E extend \in {FALSE, "extend" \in EditorOps} : \E b \in Movements(buffer, extend) : Shows(b)
      BY <1>3 DEF Move
    <3> QED BY <3>1, <3>2, Zenon
  <2>2. PICK b \in Movements(buffer, extend) : Shows(b)
    BY <2>1
  <2>3. b \in Buffer /\ b.lines = buffer.lines
    BY <1>1, MovementsType, SameLines
  <2> QED BY <2>2, <2>3, ShowsKeeps DEF Shows
<1>4. CASE SelectAll
  <2> DEFINE b == Selected(buffer, At(1, 0), DocumentEnd(buffer))
  <2>1. At(1, 0) \in Here(buffer) /\ DocumentEnd(buffer) \in Here(buffer)
    BY <1>1, Ends, Neighbours
  <2>2. b \in Buffer /\ b.lines = buffer.lines
    BY <1>1, <2>1, SelectedType, SameLines
  <2>3. Shows(b)
    BY <1>4 DEF SelectAll
  <2> HIDE DEF b
  <2> QED BY <2>2, <2>3, ShowsKeeps DEF Shows
<1>5. ASSUME NEW line \in 1..Len(buffer.lines), NEW column \in 0..Len(buffer.lines[line])
      PROVE  /\ At(line, column) \in Here(buffer)
             /\ At(line, 0) \in Here(buffer) /\ LineEnd(buffer, line) \in Here(buffer)
  <2>1. Len(buffer.lines) \in Nat /\ Len(buffer.lines[line]) \in Nat
    BY <1>1, LinesOf
  <2>2. At(line, column) \in Here(buffer)
    BY <2>1 DEF At, Here, Position, InText
  <2>3. At(line, column).line = line
    BY DEF At
  <2> QED BY <1>1, <2>2, <2>3, Neighbours
<1>6. CASE MouseDown
  <2>1. PICK line \in 1..Len(buffer.lines) : \E column \in 0..Len(buffer.lines[line]) :
          LET p == At(line, column)
          IN \/ Shows(CursorSet(buffer, p))
             \/ Shows(WordSelected(buffer, p))
             \/ Shows(Selected(buffer, At(line, 0), LineEnd(buffer, line)))
    BY <1>6 DEF MouseDown
  <2>2. PICK column \in 0..Len(buffer.lines[line]) :
             \/ Shows(CursorSet(buffer, At(line, column)))
             \/ Shows(WordSelected(buffer, At(line, column)))
             \/ Shows(Selected(buffer, At(line, 0), LineEnd(buffer, line)))
    BY <2>1
  <2> DEFINE p == At(line, column)
             b1 == CursorSet(buffer, p)
             b2 == WordSelected(buffer, p)
             b3 == Selected(buffer, At(line, 0), LineEnd(buffer, line))
  <2>3. p \in Position
    BY <1>1, <1>5
  <2>4. b1 \in Buffer /\ b1.lines = buffer.lines
    BY <1>1, <2>3, MovedType, SameLines DEF CursorSet
  <2>5. b2 \in Buffer /\ b2.lines = buffer.lines
    BY <1>1, <2>3, WordSelectedType, SameLines
  <2>6. b3 \in Buffer /\ b3.lines = buffer.lines
    BY <1>1, <1>5, SelectedType, SameLines
  <2>7. \E b \in {b1, b2, b3} : Shows(b)
    BY <2>2
  <2> HIDE DEF b1, b2, b3
  <2> QED BY <2>4, <2>5, <2>6, <2>7, ShowsKeeps DEF Shows
<1>7. CASE Drag
  <2>1. PICK line \in 1..Len(buffer.lines) : \E column \in 0..Len(buffer.lines[line]) :
          /\ buffer' = SelectionSet(buffer, Anchor(buffer), At(line, column))
          /\ marked' = marked /\ find' = find
    BY <1>7 DEF Drag
  <2>2. PICK column \in 0..Len(buffer.lines[line]) :
          /\ buffer' = SelectionSet(buffer, Anchor(buffer), At(line, column))
          /\ marked' = marked /\ find' = find
    BY <2>1
  <2> DEFINE b == SelectionSet(buffer, Anchor(buffer), At(line, column))
  <2>3. Anchor(buffer) \in Position /\ At(line, column) \in Position
    BY <1>1, <1>5, Ends
  <2>4. b \in Buffer /\ b.lines = buffer.lines
    BY <1>1, <2>3, SelectionSetType, SameLines
  <2> HIDE DEF b
  <2> QED BY <2>2, <2>4, ShowsKeeps DEF b
<1>8. /\ buffer.cursor \in Here(buffer)
      /\ LeftOf(buffer, buffer.cursor) \in Here(buffer)
      /\ RightOf(buffer, buffer.cursor) \in Here(buffer)
  BY <1>1, Ends, Neighbours
<1>9. CASE Backspace
  <2> DEFINE b == Erased(buffer, LeftOf(buffer, buffer.cursor), buffer.cursor)
  <2>1. b \in Buffer
    BY <1>1, <1>8, ErasedType
  <2>2. \E range : Edited(b, range, <<>>)
    BY <1>9 DEF Backspace
  <2> HIDE DEF b
  <2> QED BY <1>1, <1>9, <2>1, <2>2, EditedKeeps DEF Backspace
<1>10. CASE DeleteForward
  <2> DEFINE b == Erased(buffer, buffer.cursor, RightOf(buffer, buffer.cursor))
  <2>1. b \in Buffer
    BY <1>1, <1>8, ErasedType
  <2>2. \E range : Edited(b, range, <<>>)
    BY <1>10 DEF DeleteForward
  <2> HIDE DEF b
  <2> QED BY <1>1, <1>10, <2>1, <2>2, EditedKeeps DEF DeleteForward
<1>11. CASE Newline
  <2> DEFINE break == <<Break>>
             b == Inserted(buffer, break)
             C == DOMAIN Fold \cup {Break}
  <2>1. break \in Text
    <3>1. Break \in C
      OBVIOUS
    <3>2. break \in Seq(C)
      <4> HIDE DEF C
      <4> QED BY <3>1
    <3> QED BY <3>2 DEF Text
  <2>2. b \in Buffer
    <3> HIDE DEF break
    <3> QED BY <1>1, <2>1, InsertedType
  <2>3. Edited(b, Selection(buffer), break)
    BY <1>11 DEF Newline
  <2> HIDE DEF b, break
  <2> QED BY <1>1, <1>11, <2>2, <2>3, EditedKeeps DEF Newline
<1>12. CASE Cut
  <2> DEFINE b == Erased(buffer, buffer.cursor, buffer.cursor)
  <2>1. b \in Buffer
    BY <1>1, <1>8, ErasedType
  <2>2. Edited(b, Selection(buffer), <<>>)
    BY <1>12 DEF Cut
  <2> HIDE DEF b
  <2> QED BY <1>1, <1>12, <2>1, <2>2, EditedKeeps DEF Cut
<1>13. CASE Paste
  <2>1. PICK text \in Inputs :
          Edited(InsertedImpl(buffer, text, FALSE), Selection(buffer), text)
    BY <1>13 DEF Paste
  <2> DEFINE b == InsertedImpl(buffer, text, FALSE)
  <2>2. text \in Text
    BY EditorAssumption
  <2>3. b \in Buffer
    BY <1>1, <2>2, InsertedImplType
  <2> HIDE DEF b
  <2> QED BY <1>1, <1>13, <2>1, <2>3, EditedKeeps DEF Paste, b
<1>14. \A b \in Buffer : b.lines \in Document /\ (find # None => find \in Search)
  BY DEF Buffer, EditorInv, Searched
<1>15. CASE Undo
  <2>1. buffer' \in Buffer
    BY <1>1, <1>15, UndoneType DEF Undo
  <2> QED BY <1>1, <1>14, <1>15, <2>1, SyncedEffect DEF Undo, EditorInv
<1>16. CASE Redo
  <2>1. buffer' \in Buffer
    BY <1>1, <1>16, RedoneType DEF Redo
  <2> QED BY <1>1, <1>14, <1>16, <2>1, SyncedEffect DEF Redo, EditorInv
<1>17. CASE SetText
  <2>1. buffer' \in Buffer
    BY <1>17, EditorAssumption, NewBufferType DEF SetText
  <2> QED BY <1>1, <1>14, <1>17, <2>1, SyncedEffect DEF SetText, EditorInv
<1>18. CASE ReplaceTextInRange
  <2>1. PICK given \in Given, text \in Inputs :
          /\ Edited(Replaced(buffer, Target(given), text), Target(given), text)
          /\ marked' = None
    BY <1>18 DEF ReplaceTextInRange
  <2> DEFINE b == Replaced(buffer, Target(given), text)
  <2>2. Target(given) \in Ranging /\ text \in Text
    BY TargetType, EditorAssumption
  <2>3. b \in Buffer
    BY <1>1, <2>2, ReplacedType
  <2> HIDE DEF b
  <2> QED BY <2>1, <2>3, EditedKeeps DEF b
<1>19. CASE UnmarkText
  BY <1>19 DEF UnmarkText, EditorInv
<1>20. CASE OpenFind
  <2> DEFINE none == <<>>
             C == DOMAIN Fold \cup {Break}
             P == Position
  <2>1. none \in Seq(C) /\ none \in Seq(P)
    <3> HIDE DEF C, P
    <3> QED OBVIOUS
  <2>2. find' = [query |-> none, matches |-> none, current |-> 0, exact |-> FALSE]
    BY <1>20 DEF OpenFind
  <2>3. find' \in Search /\ find'.query = none /\ find'.matches = none /\ find'.current = 0
    <3>1. none \in Text /\ none \in Seq(Position)
      BY <2>1 DEF Text
    <3> HIDE DEF none
    <3> QED BY <2>2, <3>1 DEF Search
  <2>4. Searched(find', buffer.lines)
    BY <2>3 DEF Searched
  <2> QED BY <1>1, <1>20, <2>4 DEF OpenFind, EditorInv
<1>21. CASE CloseFind
  BY <1>21 DEF CloseFind, EditorInv
<1>22. CASE SetFindQuery
  <2>1. PICK query \in Queries :
          Lands(Recomputed([find EXCEPT !.query = query], buffer.lines, None))
    BY <1>22 DEF SetFindQuery
  <2> DEFINE f == [find EXCEPT !.query = query]
  <2>2. find \in Search /\ query \in Text
    BY <1>14, <1>1, <1>22, EditorAssumption DEF SetFindQuery
  <2>3. f \in Search
    BY <2>2 DEF Search
  <2> HIDE DEF f
  <2>4. Searched(Recomputed(f, buffer.lines, None), buffer.lines)
    BY <1>1, <2>3, RecomputedEffect
  <2> QED BY <2>1, <2>4, LandsKeeps DEF f
<1>23. CASE FindStep
  <2>1. Searched(find, buffer.lines)
    BY <1>23 DEF FindStep, EditorInv
  <2>2. PICK forward \in BOOLEAN : Lands(Stepped(find, forward))
    BY <1>23 DEF FindStep
  <2> QED BY <2>1, <2>2, SteppedEffect, LandsKeeps
<1>24. CASE ToggleFindCase
  <2> DEFINE f == [find EXCEPT !.exact = ~ @]
             g == Recomputed(f, buffer.lines, CurrentMatch(find))
  <2>1. find \in Search
    BY <1>14, <1>1, <1>24 DEF ToggleFindCase
  <2>2. f \in Search
    BY <2>1 DEF Search
  <2>3. Lands(g)
    BY <1>24 DEF ToggleFindCase
  <2>4. Searched(g, buffer.lines)
    <3> HIDE DEF f
    <3> QED BY <1>1, <2>2, RecomputedEffect
  <2> HIDE DEF g
  <2> QED BY <2>3, <2>4, LandsKeeps
<1> QED BY <1>2, <1>3, <1>4, <1>6, <1>7, <1>9, <1>10, <1>11, <1>12, <1>13, <1>15, <1>16,
           <1>17, <1>18, <1>19, <1>20, <1>21, <1>22, <1>23, <1>24, ComposedKeeps DEF EditorNext

(* The buffer and all that undo and redo keep are well-formed, and the find  *)
(* bar's matches are those of the lines: the editor's inductive invariant.   *)
THEOREM EditorInvariant == EditorSpec => []EditorInv
  BY EditorInvInit, EditorInvNext, PTL DEF EditorSpec

(* Caret, anchor and every state undo and redo can put back are within their *)
(* text, for any texts, edits, selections, compositions and searches.        *)
THEOREM CaretAlways == EditorSpec => []CaretInText
<1>1. EditorInv => CaretInText
  <2> SUFFICES ASSUME EditorInv,
                      NEW state \in {buffer} \cup ToSet(buffer.undo) \cup ToSet(buffer.redo)
               PROVE  InPlace(state)
    BY DEF CaretInText, InPlace
  <2>1. buffer.undo \in Seq(Entry) /\ buffer.redo \in Seq(Entry) /\ InPlace(buffer)
    BY DEF EditorInv, Buffer
  <2>2. CASE state \in ToSet(buffer.undo) \cup ToSet(buffer.redo)
    <3>1. state \in Entry
      BY <2>1, <2>2 DEF ToSet
    <3> QED BY <3>1 DEF Entry
  <2> QED BY <2>1, <2>2
<1> QED BY <1>1, EditorInvariant, PTL

(* The find bar shows the matches in the text shown, for any texts, queries, *)
(* edits and searches.                                                       *)
THEOREM FindAlways == EditorSpec => []FindFollowsText
<1>1. EditorInv => FindFollowsText
  <2> SUFFICES ASSUME EditorInv, find # None PROVE Follows(find, buffer.lines)
    BY DEF FindFollowsText
  <2>1. buffer.lines \in Document /\ Searched(find, buffer.lines)
    BY DEF EditorInv, Buffer
  <2> QED BY <2>1, SearchedFollows
<1> QED BY <1>1, EditorInvariant, PTL

-----------------------------------------------------------------------------
(* The lines as one text.                                                    *)

LEMMA Parts ==
  ASSUME NEW S, NEW x \in Seq(S), NEW y \in Seq(S)
  PROVE  /\ SubSeq(x \o y, 1, Len(x)) = x
         /\ SubSeq(x \o y, Len(x) + 1, Len(x) + Len(y)) = y
<1> DEFINE s == x \o y
           a == SubSeq(s, 1, Len(x))
           b == SubSeq(s, Len(x) + 1, Len(x) + Len(y))
<1>1. /\ s \in Seq(S) /\ Len(s) = Len(x) + Len(y) /\ Len(x) \in Nat /\ Len(y) \in Nat
      /\ \A i \in 1..Len(x) + Len(y) : s[i] = IF i <= Len(x) THEN x[i] ELSE y[i - Len(x)]
  BY ConcatProperties, LenProperties
<1> HIDE DEF s
<1>2. a = x
  <2>1. \A i \in 1..Len(x) : s[i] \in S
    BY <1>1
  <2>2. a \in Seq(S) /\ Len(a) = Len(x) /\ \A i \in 1..Len(x) : a[i] = x[i]
    BY <1>1, <2>1, SubSeqProperties
  <2> HIDE DEF a
  <2> QED BY <2>2, SeqEqual
<1>3. b = y
  <2>1. \A i \in Len(x) + 1..Len(x) + Len(y) : s[i] \in S
    BY <1>1
  <2> DEFINE from == Len(x) + 1
             to == Len(x) + Len(y)
  <2>2. from \in Int /\ to \in Int /\ from = Len(x) + 1 /\ to = Len(x) + Len(y)
    BY <1>1
  <2>3. b = SubSeq(s, from, to) /\ \A i \in from..to : s[i] \in S
    BY <2>1
  <2> HIDE DEF from, to, b
  <2>4. /\ b \in Seq(S) /\ Len(b) = IF from <= to THEN to - from + 1 ELSE 0
        /\ \A i \in 1..to - from + 1 : b[i] = s[from + i - 1]
    BY <2>2, <2>3, SubSeqProperties
  <2>5. Len(b) = Len(y)
    BY <1>1, <2>2, <2>4
  <2>6. ASSUME NEW i \in 1..Len(y) PROVE b[i] = y[i]
    <3>1. i \in 1..to - from + 1 /\ from + i - 1 \in 1..Len(x) + Len(y)
          /\ ~ (from + i - 1 <= Len(x)) /\ (from + i - 1) - Len(x) = i
      BY <1>1, <2>2
    <3> QED BY <1>1, <2>4, <3>1
  <2> QED BY <2>4, <2>5, <2>6, SeqEqual
<1> QED BY <1>1, <1>2, <1>3 DEF s

LEMMA Halves ==
  ASSUME NEW S, NEW s \in Seq(S), NEW n \in 0..Len(s)
  PROVE  /\ SubSeq(s, 1, n) \in Seq(S) /\ Len(SubSeq(s, 1, n)) = n
         /\ SubSeq(s, n + 1, Len(s)) \in Seq(S) /\ Len(SubSeq(s, n + 1, Len(s))) = Len(s) - n
         /\ s = SubSeq(s, 1, n) \o SubSeq(s, n + 1, Len(s))
<1>1. Len(s) \in Nat /\ n \in Nat
  BY LenProperties
<1>2. SubSeq(s, 1, n) \in Seq(S) /\ Len(SubSeq(s, 1, n)) = n
  BY <1>1
<1>3. SubSeq(s, n + 1, Len(s)) \in Seq(S) /\ Len(SubSeq(s, n + 1, Len(s))) = Len(s) - n
  BY <1>1
<1>4. SubSeq(s, 1, n) \o SubSeq(s, n + 1, Len(s)) = SubSeq(s, 1, Len(s))
  <2>1. 1 \in 1..Len(s) + 1 /\ n \in 1 - 1..Len(s) /\ Len(s) \in n..Len(s)
    BY <1>1
  <2> QED BY <2>1, ConcatAdjacentSubSeq
<1> QED BY <1>2, <1>3, <1>4, SubSeqFull

\* A text of two pieces is cut between them in one way.
LEMMA CutsOnce ==
  ASSUME NEW S, NEW x \in Seq(S), NEW y \in Seq(S), NEW u \in Seq(S), NEW v \in Seq(S),
         x \o y = u \o v, Len(x) = Len(u)
  PROVE  x = u /\ y = v
<1>1. Len(x \o y) = Len(x) + Len(y) /\ Len(u \o v) = Len(u) + Len(v)
  BY ConcatProperties
<1>2. Len(y) = Len(v)
  BY <1>1, LenProperties
<1>3. SubSeq(x \o y, 1, Len(x)) = x /\ SubSeq(x \o y, Len(x) + 1, Len(x) + Len(y)) = y
  BY Parts
<1>4. SubSeq(u \o v, 1, Len(u)) = u /\ SubSeq(u \o v, Len(u) + 1, Len(u) + Len(v)) = v
  BY Parts
<1> QED BY <1>2, <1>3, <1>4

LEMMA BreakIsText == <<Break>> \in Text /\ Len(<<Break>>) = 1 /\ <<>> \in Line /\ <<>> \in Text
<1> DEFINE C == DOMAIN Fold \cup {Break}
           D == DOMAIN Fold \ {Break}
           none == <<>>
<1>1. Break \in C
  OBVIOUS
<1>2. <<Break>> \in Seq(C) /\ none \in Seq(C) /\ none \in Seq(D)
  <2> HIDE DEF C, D
  <2> QED BY <1>1
<1> QED BY <1>2 DEF Text, Line

LEMMA TextsConcat ==
  ASSUME NEW s \in Text, NEW t \in Text, NEW u \in Text
  PROVE  /\ s \o t \in Text /\ Len(s \o t) = Len(s) + Len(t)
         /\ Len(s) \in Nat /\ Len(t) \in Nat
         /\ (s \o t) \o u = s \o (t \o u)
BY ConcatProperties, ConcatAssociative, LenProperties DEF Text

LEMMA TextOfOne ==
  ASSUME NEW t \in Line
  PROVE  TextOf(<<t>>) = t
<1>1. <<t>> \in Document /\ Len(<<t>>) = 1 /\ <<t>>[1] = t
  BY OneLine
<1>2. PICK f \in [1..Len(<<t>>) -> Text] :
        Joins(<<t>>, f) /\ TextOf(<<t>>) = f[Len(<<t>>)]
  BY <1>1, TextOfSteps
<1> DEFINE ls == <<t>>
<1> HIDE DEF ls
<1>3. 1 \in 1..Len(ls) /\ Len(ls) = 1 /\ ls[1] = t
  BY <1>1 DEF ls
<1>4. f[1] = ls[1]
  <2>1. Joins(ls, f)
    BY <1>2 DEF ls
  <2> QED BY <1>3, <2>1 DEF Joins
<1> QED BY <1>2, <1>3, <1>4 DEF ls

LEMMA DocumentAppend ==
  ASSUME NEW lines \in Seq(Line), NEW t \in Line
  PROVE  /\ Append(lines, t) \in Document /\ Len(Append(lines, t)) = Len(lines) + 1
         /\ Append(lines, t) = lines \o <<t>>
         /\ \A i \in 1..Len(lines) : Append(lines, t)[i] = lines[i]
         /\ Append(lines, t)[Len(lines) + 1] = t
<1> DEFINE T == Line
<1> HIDE DEF T
<1>1. lines \in Seq(T) /\ t \in T
  BY DEF T
<1>2. /\ Append(lines, t) \in Seq(T) /\ Len(Append(lines, t)) = Len(lines) + 1
      /\ Append(lines, t) # <<>>
      /\ \A i \in 1..Len(lines) : Append(lines, t)[i] = lines[i]
      /\ Append(lines, t)[Len(lines) + 1] = t
  BY <1>1, AppendProperties
<1>3. Append(lines, t) = lines \o <<t>>
  BY <1>1, AppendIsConcat
<1> QED BY <1>2, <1>3 DEF T, Document

LEMMA TextOfAppend ==
  ASSUME NEW lines \in Document, NEW t \in Line
  PROVE  TextOf(Append(lines, t)) = TextOf(lines) \o <<Break>> \o t
<1> DEFINE more == Append(lines, t)
           n == Len(lines)
           m == Len(more)
<1>1. /\ more \in Document /\ m = n + 1 /\ more[n + 1] = t /\ n \in Nat \ {0}
      /\ \A i \in 1..n : more[i] = lines[i]
  BY DocumentAppend DEF Document
<1>2. PICK f \in [1..n -> Text] : Joins(lines, f) /\ TextOf(lines) = f[n]
  BY TextOfSteps
<1>3. PICK g \in [1..m -> Text] : Joins(more, g) /\ TextOf(more) = g[m]
  <2> HIDE DEF more
  <2> QED BY <1>1, TextOfSteps
<1> HIDE DEF more, n, m
<1>4. \A i \in 1..n : f[i] = IF i = 1 THEN lines[1] ELSE f[i - 1] \o <<Break>> \o lines[i]
  BY <1>2 DEF Joins, n
<1>5. \A i \in 1..m : g[i] = IF i = 1 THEN more[1] ELSE g[i - 1] \o <<Break>> \o more[i]
  BY <1>3 DEF Joins, m
<1> DEFINE P == {k \in 0..n : k = 0 \/ f[k] = g[k]}
<1>6. ASSUME NEW k \in 1..n, k - 1 \in P PROVE k \in P
  <2>1. k \in 1..m /\ k \in 0..n /\ 1 \in 1..n
    BY <1>1
  <2>2. f[k] = IF k = 1 THEN lines[1] ELSE f[k - 1] \o <<Break>> \o lines[k]
    BY <1>4
  <2>3. g[k] = IF k = 1 THEN lines[1] ELSE g[k - 1] \o <<Break>> \o lines[k]
    BY <1>1, <1>5, <2>1
  <2>4. k = 1 \/ f[k - 1] = g[k - 1]
    BY <1>6, <1>1
  <2> QED BY <2>1, <2>2, <2>3, <2>4
<1>7. 0..n \subseteq P
  <2>1. n \in Nat /\ 0 \in P
    BY <1>1
  <2> HIDE DEF P
  <2> QED BY <1>6, <2>1, UpTo
<1>8. n \in P /\ n # 0 /\ m \in 1..m /\ m # 1 /\ m - 1 = n
  BY <1>1, <1>7
<1>9. f[n] = g[n]
  BY <1>8
<1>10. g[m] = g[n] \o <<Break>> \o more[m]
  BY <1>5, <1>8
<1>11. more[m] = t
  BY <1>1
<1> QED BY <1>2, <1>3, <1>9, <1>10, <1>11 DEF more

\* The lines of a document so far, one more at a time.
LEMMA LinesSoFar ==
  ASSUME NEW lines \in Seq(Line), NEW k \in 1..Len(lines)
  PROVE  /\ SubSeq(lines, 1, k - 1) \in Seq(Line) /\ lines[k] \in Line
         /\ Len(SubSeq(lines, 1, k - 1)) = k - 1
         /\ SubSeq(lines, 1, k) = Append(SubSeq(lines, 1, k - 1), lines[k])
         /\ SubSeq(lines, 1, k) \in Document
<1> DEFINE T == Line
<1> HIDE DEF T
<1>1. lines \in Seq(T) /\ Len(lines) \in Nat /\ k \in Nat \ {0} /\ k <= Len(lines)
  BY LenProperties DEF T
<1>2. SubSeq(lines, 1, k - 1) \in Seq(T) /\ lines[k] \in T /\ Len(SubSeq(lines, 1, k - 1)) = k - 1
  <2>1. k - 1 \in 0..Len(lines)
    BY <1>1
  <2> QED BY <1>1, <2>1, Halves, ElementOfSeq
<1>3. SubSeq(lines, 1, k) = SubSeq(lines, 1, k - 1) \o <<lines[k]>>
  <2>1. 1 \in 1..Len(lines) /\ k \in 1..Len(lines)
    BY <1>1
  <2> QED BY <1>1, <2>1, SubSeqRecursiveSecond
<1>4. Append(SubSeq(lines, 1, k - 1), lines[k]) = SubSeq(lines, 1, k - 1) \o <<lines[k]>>
  BY <1>2, AppendIsConcat
<1>5. Append(SubSeq(lines, 1, k - 1), lines[k]) \in Document
  BY <1>2, DocumentAppend DEF T
<1> QED BY <1>2, <1>3, <1>4, <1>5 DEF T

LEMMA TextOfConcat ==
  ASSUME NEW A \in Document, NEW B \in Document
  PROVE  /\ A \o B \in Document
         /\ TextOf(A \o B) = (TextOf(A) \o <<Break>>) \o TextOf(B)
<1> DEFINE T == Line
           n == Len(B)
           R(k) == SubSeq(B, 1, k)
           text == TextOf(A) \o <<Break>>
           P == {k \in 0..n : k = 0 \/ /\ A \o R(k) \in Document
                                       /\ TextOf(A \o R(k)) = text \o TextOf(R(k))}
<1>1. A \in Seq(T) /\ B \in Seq(T) /\ n \in Nat \ {0} /\ A # <<>>
  BY DEF Document
<1>2. text \in Text
  <2>1. TextOf(A) \in Text
    BY TextOfType
  <2> QED BY <2>1, BreakIsText, TextsConcat
<1>3. ASSUME NEW k \in 1..n, k - 1 \in P PROVE k \in P
  <2> DEFINE t == B[k]
  <2>1. /\ R(k - 1) \in Seq(T) /\ t \in T /\ R(k) = Append(R(k - 1), t)
        /\ k \in 0..n /\ R(k) = R(k - 1) \o <<t>> /\ Len(R(k - 1)) = k - 1
        /\ k \in Nat
    BY <1>1, LinesSoFar, DocumentAppend
  <2> HIDE DEF t, n, text
  <2>2. A \o R(k) = Append(A \o R(k - 1), t) /\ A \o R(k - 1) \in Seq(T)
    <3> DEFINE r == R(k - 1)
    <3> HIDE DEF r, T
    <3>1. r \in Seq(T) /\ t \in T /\ A \in Seq(T) /\ <<t>> \in Seq(T)
      BY <1>1, <2>1 DEF r
    <3>2. A \o r \in Seq(T)
      BY <3>1, ConcatProperties
    <3>3. Append(A \o r, t) = (A \o r) \o <<t>>
      BY <3>1, <3>2, AppendIsConcat
    <3>4. (A \o r) \o <<t>> = A \o (r \o <<t>>)
      BY <3>1, ConcatAssociative
    <3> QED BY <2>1, <3>2, <3>3, <3>4 DEF r
  <2>3. A \o R(k) \in Document
    BY <2>1, <2>2, DocumentAppend
  <2>4. CASE k = 1
    <3>1. R(k - 1) = <<>>
      BY <2>1, <2>4, EmptySeq
    <3>2. A \o R(k - 1) = A /\ R(k) = <<t>>
      <4> DEFINE s == <<t>>
      <4>1. s \in Seq(T)
        BY <2>1
      <4>2. A \o <<>> = A /\ <<>> \o s = s
        BY <1>1, <4>1, ConcatEmptySeq
      <4> QED BY <2>1, <3>1, <4>2
    <3>3. TextOf(A \o R(k)) = text \o t
      <4>1. TextOf(Append(A, t)) = TextOf(A) \o <<Break>> \o t
        BY <2>1, TextOfAppend
      <4> QED BY <2>2, <3>2, <4>1 DEF text
    <3>4. TextOf(R(k)) = t
      BY <2>1, <3>2, TextOfOne
    <3> QED BY <2>1, <2>3, <3>3, <3>4
  <2>5. CASE k # 1
    <3>1. k - 1 \in 1..n /\ k - 1 # 0
      BY <1>1, <2>1, <2>5 DEF n
    <3>2. R(k - 1) \in Document
      BY <1>1, <3>1, LinesSoFar DEF n
    <3>3. A \o R(k - 1) \in Document /\ TextOf(A \o R(k - 1)) = text \o TextOf(R(k - 1))
      BY <1>3, <3>1
    <3> DEFINE u == TextOf(R(k - 1))
               v == u \o <<Break>>
    <3>4. u \in Text /\ t \in Text /\ v \in Text
      BY <2>1, <3>2, TextOfType, LineIsText, BreakIsText, TextsConcat
    <3>5. TextOf(A \o R(k)) = (text \o u) \o <<Break>> \o t
      <4>1. TextOf(Append(A \o R(k - 1), t)) = TextOf(A \o R(k - 1)) \o <<Break>> \o t
        BY <2>1, <3>3, TextOfAppend
      <4> QED BY <2>2, <3>3, <4>1
    <3>6. TextOf(R(k)) = v \o t
      BY <2>1, <3>2, TextOfAppend
    <3>7. (text \o u) \o <<Break>> \o t = text \o (v \o t)
      <4> HIDE DEF u
      <4>1. (text \o u) \o <<Break>> = text \o v
        BY <1>2, <3>4, BreakIsText, TextsConcat
      <4> HIDE DEF v
      <4>2. (text \o v) \o t = text \o (v \o t)
        BY <1>2, <3>4, TextsConcat
      <4> QED BY <4>1, <4>2
    <3> QED BY <2>1, <2>3, <3>5, <3>6, <3>7
  <2> QED BY <2>4, <2>5
<1>4. 0..n \subseteq P
  <2>1. 0 \in P /\ n \in Nat
    BY <1>1
  <2> HIDE DEF P, n
  <2> QED BY <1>3, <2>1, UpTo
<1>5. n \in P /\ n # 0
  BY <1>1, <1>4
<1>6. R(n) = B
  BY <1>1, SubSeqFull
<1> QED BY <1>5, <1>6

LEMMA LinesConcat ==
  ASSUME NEW A \in Seq(Line), NEW B \in Seq(Line)
  PROVE  /\ A \o B \in Seq(Line) /\ Len(A \o B) = Len(A) + Len(B)
         /\ Len(A) \in Nat /\ Len(B) \in Nat
         /\ \A i \in 1..Len(A) + Len(B) : (A \o B)[i] = IF i <= Len(A) THEN A[i] ELSE B[i - Len(A)]
         /\ A \in Document \/ B \in Document => A \o B \in Document
         /\ \A C \in Seq(Line) : (A \o B) \o C = A \o (B \o C)
         /\ A = <<>> \/ A \in Document
         /\ A \o <<>> = A /\ <<>> \o A = A
<1> DEFINE T == Line
           ab == A \o B
<1> HIDE DEF T
<1>1. A \in Seq(T) /\ B \in Seq(T)
  BY DEF T
<1>2. /\ ab \in Seq(T) /\ Len(ab) = Len(A) + Len(B)
      /\ Len(A) \in Nat /\ Len(B) \in Nat
      /\ \A i \in 1..Len(A) + Len(B) : ab[i] = IF i <= Len(A) THEN A[i] ELSE B[i - Len(A)]
  BY <1>1, ConcatProperties, LenProperties
<1>3. \A C \in Seq(T) : ab \o C = A \o (B \o C)
  BY <1>1, ConcatAssociative
<1>4. ab = <<>> => A = <<>> /\ B = <<>>
  BY <1>1, ConcatEqualIffEmpty
<1>5. A \o <<>> = A /\ <<>> \o A = A
  BY <1>1, ConcatEmptySeq
<1> HIDE DEF ab
<1>6. A \in Document \/ B \in Document => ab \in Document
  BY <1>2, <1>4 DEF Document, T
<1>7. A = <<>> \/ A \in Document
  BY <1>1 DEF Document, T
<1> QED BY <1>2, <1>3, <1>5, <1>6, <1>7 DEF T, ab

\* Two halves of a line are next to each other in the text.
LEMMA HeadFused ==
  ASSUME NEW x \in Line, NEW y \in Line, NEW R \in Seq(Line)
  PROVE  TextOf(<<x \o y>> \o R) = x \o TextOf(<<y>> \o R)
<1> DEFINE t == x \o y
<1>1. t \in Line
  BY TextsJoined
<1> HIDE DEF t
<1>2. <<t>> \in Document /\ <<y>> \in Document /\ <<t>> \in Seq(Line) /\ <<y>> \in Seq(Line)
  BY <1>1, OneLine DEF Document
<1>3. TextOf(<<t>>) = t /\ TextOf(<<y>>) = y
  BY <1>1, TextOfOne
<1>4. x \in Text /\ y \in Text /\ t \in Text
  BY <1>1, LineIsText
<1>5. CASE R = <<>>
  <2>1. <<t>> \o R = <<t>> /\ <<y>> \o R = <<y>>
    BY <1>2, <1>5, LinesConcat
  <2> QED BY <1>3, <2>1 DEF t
<1>6. CASE R # <<>>
  <2>1. R \in Document
    BY <1>6 DEF Document
  <2> DEFINE u == TextOf(R)
  <2>2. u \in Text
    BY <2>1, TextOfType
  <2>3. TextOf(<<t>> \o R) = (t \o <<Break>>) \o u /\ TextOf(<<y>> \o R) = (y \o <<Break>>) \o u
    BY <1>2, <1>3, <2>1, TextOfConcat
  <2> HIDE DEF u
  <2>4. (t \o <<Break>>) \o u = x \o ((y \o <<Break>>) \o u)
    <3> DEFINE br == <<Break>>
               v == y \o br
    <3>1. br \in Text
      BY BreakIsText
    <3> HIDE DEF br
    <3>2. (x \o y) \o br = x \o v /\ v \in Text
      <4>1. x \in Text /\ y \in Text /\ br \in Text
        BY <1>4, <3>1
      <4> QED BY ONLY <4>1, TextsConcat DEF v
    <3> HIDE DEF v
    <3>3. (x \o v) \o u = x \o (v \o u)
      <4>1. x \in Text /\ v \in Text /\ u \in Text
        BY <1>4, <2>2, <3>2
      <4> QED BY ONLY <4>1, TextsConcat
    <3> QED BY <3>2, <3>3 DEF t, v, br
  <2> QED BY <2>3, <2>4 DEF t
<1> QED BY <1>5, <1>6

LEMMA TextOfFused ==
  ASSUME NEW H \in Seq(Line), NEW x \in Line, NEW y \in Line, NEW R \in Seq(Line)
  PROVE  /\ (H \o <<x \o y>>) \o R \in Document
         /\ H \o <<x>> \in Document /\ <<y>> \o R \in Document
         /\ TextOf((H \o <<x \o y>>) \o R) = TextOf(H \o <<x>>) \o TextOf(<<y>> \o R)
<1> DEFINE t == x \o y
           below == <<y>> \o R
           rest == <<t>> \o R
<1>1. t \in Line
  BY TextsJoined
<1>2. TextOf(rest) = x \o TextOf(below)
  BY HeadFused
<1> HIDE DEF t
<1>3. /\ <<t>> \in Document /\ <<y>> \in Document /\ <<x>> \in Document
      /\ <<t>> \in Seq(Line) /\ <<y>> \in Seq(Line) /\ <<x>> \in Seq(Line)
  BY <1>1, OneLine DEF Document
<1>4. rest \in Document /\ below \in Document /\ rest \in Seq(Line)
  BY <1>3, LinesConcat
<1>5. (H \o <<t>>) \o R = H \o rest
  BY <1>3, LinesConcat
<1>6. H \o <<x>> \in Document /\ H \o rest \in Document
  BY <1>3, <1>4, LinesConcat
<1>7. x \in Text /\ TextOf(below) \in Text
  BY <1>4, LineIsText, TextOfType
<1> HIDE DEF rest, below
<1>8. CASE H = <<>>
  <2>1. H \o rest = rest /\ H \o <<x>> = <<x>>
    BY <1>3, <1>4, <1>8, LinesConcat
  <2> QED BY <1>2, <1>4, <1>5, <1>6, <2>1, TextOfOne DEF t, below
<1>9. CASE H # <<>>
  <2>1. H \in Document
    BY <1>9 DEF Document
  <2> DEFINE h == TextOf(H) \o <<Break>>
             u == TextOf(below)
  <2>2. h \in Text
    BY <2>1, TextOfType, BreakIsText, TextsConcat
  <2>3. TextOf(H \o rest) = h \o TextOf(rest)
    BY <1>4, <2>1, TextOfConcat
  <2>4. TextOf(H \o <<x>>) = h \o x
    <3>1. <<x>> \in Document /\ x \in Line
      BY <1>3
    <3>2. TextOf(H \o <<x>>) = (TextOf(H) \o <<Break>>) \o TextOf(<<x>>)
      BY ONLY <2>1, <3>1, TextOfConcat
    <3>3. TextOf(<<x>>) = x
      BY ONLY <3>1, TextOfOne
    <3> QED BY <3>2, <3>3
  <2> HIDE DEF h, u
  <2>5. h \o (x \o u) = (h \o x) \o u
    BY <1>7, <2>2, TextsConcat DEF u
  <2> QED BY <1>2, <1>4, <1>5, <1>6, <2>3, <2>4, <2>5 DEF t, below, u
<1> QED BY <1>8, <1>9

-----------------------------------------------------------------------------
(* Positions in the text.                                                    *)

\* The text up to a position, and what is behind it.
Until(lines, p) ==
  TextOf(SubSeq(lines, 1, p.line - 1) \o <<SubSeq(lines[p.line], 1, p.column)>>)
Beyond(lines, p) ==
  TextOf(<<SubSeq(lines[p.line], p.column + 1, Len(lines[p.line]))>>
         \o SubSeq(lines, p.line + 1, Len(lines)))

\* A document sewn together, and where.
Sewn(H, x, y, R) == (H \o <<x \o y>>) \o R
SeamAt(H, x) == At(Len(H) + 1, Len(x))

LEMMA Seam ==
  ASSUME NEW H \in Seq(Line), NEW x \in Line, NEW y \in Line, NEW R \in Seq(Line)
  PROVE  LET lines == Sewn(H, x, y, R)
             p == SeamAt(H, x)
         IN
         /\ lines \in Document /\ p \in Position /\ InText(p, lines)
         /\ Until(lines, p) = TextOf(H \o <<x>>)
         /\ Beyond(lines, p) = TextOf(<<y>> \o R)
         /\ H \o <<x>> \in Document /\ <<y>> \o R \in Document
         /\ TextOf(lines) = TextOf(H \o <<x>>) \o TextOf(<<y>> \o R)
<1> DEFINE t == x \o y
           h == H \o <<t>>
           r == <<t>> \o R
           T == Line
           lines == Sewn(H, x, y, R)
           p == SeamAt(H, x)
<1>1. t \in T /\ Len(t) = Len(x) + Len(y) /\ Len(x) \in Nat /\ Len(y) \in Nat
  BY TextsJoined
<1>2. SubSeq(t, 1, Len(x)) = x /\ SubSeq(t, Len(x) + 1, Len(t)) = y
  <2>1. x \in Seq(DOMAIN Fold \ {Break}) /\ y \in Seq(DOMAIN Fold \ {Break})
    BY DEF Line
  <2> QED BY <1>1, <2>1, Parts
<1>3. /\ lines \in Document /\ H \o <<x>> \in Document /\ <<y>> \o R \in Document
      /\ TextOf(lines) = TextOf(H \o <<x>>) \o TextOf(<<y>> \o R)
  BY TextOfFused DEF Sewn
<1> HIDE DEF t
<1>4. <<t>> \in Seq(T) /\ Len(<<t>>) = 1 /\ <<t>>[1] = t
  BY <1>1
<1>5. /\ h \in Seq(T) /\ Len(h) = Len(H) + 1 /\ Len(H) \in Nat /\ Len(R) \in Nat
      /\ r \in Seq(T) /\ Len(r) = 1 + Len(R) /\ h \o R = H \o r
      /\ r[1] = t
  <2>1. 1 \in 1..1 + Len(R) /\ 1 <= 1
    BY LenProperties
  <2> QED BY <1>4, <2>1, LinesConcat
<1> HIDE DEF h, r
<1>6. lines = h \o R /\ lines = H \o r
  BY <1>5 DEF h, t, Sewn
<1> HIDE DEF lines
<1>7. SubSeq(lines, 1, Len(H)) = H
  BY <1>5, <1>6, Parts
<1>8. SubSeq(lines, Len(H) + 2, Len(lines)) = R
  <2>1. Len(lines) = Len(h) + Len(R) /\ Len(h) + 1 = Len(H) + 2
    BY <1>5, <1>6, LinesConcat
  <2> QED BY <1>5, <1>6, <2>1, Parts
<1>9. lines[Len(H) + 1] = t /\ Len(H) + 1 \in 1..Len(lines)
  <2>1. Len(lines) = Len(H) + Len(r) /\ Len(H) + 1 \in 1..Len(H) + Len(r)
    <3>1. Len(H \o r) = Len(H) + Len(r)
      BY <1>5, LinesConcat
    <3> QED BY <1>5, <1>6, <3>1
  <2>2. lines[Len(H) + 1] = r[(Len(H) + 1) - Len(H)]
    <3>1. ~ (Len(H) + 1 <= Len(H))
      BY <1>5
    <3>2. \A i \in 1..Len(H) + Len(r) :
            (H \o r)[i] = IF i <= Len(H) THEN H[i] ELSE r[i - Len(H)]
      BY <1>5, LinesConcat
    <3> QED BY <1>6, <2>1, <3>1, <3>2
  <2>3. (Len(H) + 1) - Len(H) = 1
    BY <1>5
  <2> QED BY <1>5, <2>1, <2>2, <2>3
<1>10. p.line = Len(H) + 1 /\ p.column = Len(x)
  BY DEF At, SeamAt
<1>11. p \in Position /\ InText(p, lines)
  <2>1. p.column \in 0..Len(t)
    BY <1>1, <1>10
  <2> QED BY <1>1, <1>5, <1>9, <1>10, <2>1 DEF Position, InText, At, SeamAt
<1>12. Until(lines, p) = TextOf(H \o <<x>>)
  <2>1. p.line - 1 = Len(H)
    BY <1>5, <1>10
  <2> QED BY <1>2, <1>7, <1>9, <1>10, <2>1 DEF Until
<1>13. Beyond(lines, p) = TextOf(<<y>> \o R)
  <2>1. p.line + 1 = Len(H) + 2
    BY <1>5, <1>10
  <2> QED BY <1>2, <1>8, <1>9, <1>10, <2>1 DEF Beyond
<1> QED BY <1>3, <1>11, <1>12, <1>13 DEF lines

\* Every position is such a seam.
LEMMA Seams ==
  ASSUME NEW lines \in Document, NEW p \in Position, InText(p, lines)
  PROVE  LET H == SubSeq(lines, 1, p.line - 1)
             x == SubSeq(lines[p.line], 1, p.column)
             y == SubSeq(lines[p.line], p.column + 1, Len(lines[p.line]))
             R == SubSeq(lines, p.line + 1, Len(lines))
         IN /\ H \in Seq(Line) /\ x \in Line /\ y \in Line /\ R \in Seq(Line)
            /\ lines = Sewn(H, x, y, R) /\ p = SeamAt(H, x)
<1> DEFINE n == p.line
           t == lines[n]
           H == SubSeq(lines, 1, n - 1)
           x == SubSeq(t, 1, p.column)
           y == SubSeq(t, p.column + 1, Len(t))
           R == SubSeq(lines, n + 1, Len(lines))
           T == Line
<1>1. lines \in Seq(T) /\ n \in 1..Len(lines) /\ n \in Nat \ {0} /\ p.column \in 0..Len(t)
      /\ p = [line |-> n, column |-> p.column] /\ Len(lines) \in Nat
  BY DEF Document, InText, Position
<1>2. H \in Seq(T) /\ t \in T /\ Len(H) = n - 1 /\ SubSeq(lines, 1, n) = H \o <<t>>
  <2>1. H \in Seq(T) /\ t \in T /\ Len(H) = n - 1 /\ SubSeq(lines, 1, n) = Append(H, t)
    BY <1>1, LinesSoFar
  <2> HIDE DEF H, t
  <2>2. Append(H, t) = H \o <<t>>
    BY <2>1, DocumentAppend
  <2> QED BY <2>1, <2>2
<1>3. R \in Seq(T) /\ lines = SubSeq(lines, 1, n) \o R
  <2>1. n \in 0..Len(lines)
    BY <1>1
  <2> QED BY <1>1, <2>1, Halves
<1>4. x \in T /\ y \in T /\ Len(x) = p.column /\ t = x \o y
  <2> DEFINE D == DOMAIN Fold \ {Break}
  <2>1. t \in Seq(D)
    BY <1>2 DEF Line
  <2> HIDE DEF D, t
  <2> DEFINE k == p.column
  <2>3. k \in 0..Len(t) /\ x = SubSeq(t, 1, k) /\ y = SubSeq(t, k + 1, Len(t))
    BY <1>1 DEF t
  <2> HIDE DEF k, x, y
  <2>2. x \in Seq(D) /\ y \in Seq(D) /\ Len(x) = k /\ t = x \o y
    BY ONLY <2>1, <2>3, Halves
  <2> QED BY <2>2 DEF D, Line, k
<1>5. Len(H) + 1 = n
  BY <1>1, <1>2
<1> HIDE DEF t, H, x, y, R
<1>6. p = SeamAt(H, x) /\ lines = Sewn(H, x, y, R)
  BY <1>1, <1>2, <1>3, <1>4, <1>5 DEF At, SeamAt, Sewn
<1> QED BY <1>2, <1>3, <1>4, <1>6 DEF t, H, x, y, R

\* A position halves the text.
LEMMA Halved ==
  ASSUME NEW lines \in Document, NEW p \in Position, InText(p, lines)
  PROVE  /\ Until(lines, p) \in Text /\ Beyond(lines, p) \in Text
         /\ TextOf(lines) = Until(lines, p) \o Beyond(lines, p)
<1> DEFINE H == SubSeq(lines, 1, p.line - 1)
           x == SubSeq(lines[p.line], 1, p.column)
           y == SubSeq(lines[p.line], p.column + 1, Len(lines[p.line]))
           R == SubSeq(lines, p.line + 1, Len(lines))
<1>1. /\ H \in Seq(Line) /\ x \in Line /\ y \in Line /\ R \in Seq(Line)
      /\ lines = Sewn(H, x, y, R) /\ p = SeamAt(H, x)
  BY Seams
<1> HIDE DEF H, x, y, R
<1>2. /\ Until(lines, p) = TextOf(H \o <<x>>) /\ Beyond(lines, p) = TextOf(<<y>> \o R)
      /\ H \o <<x>> \in Document /\ <<y>> \o R \in Document
      /\ TextOf(lines) = TextOf(H \o <<x>>) \o TextOf(<<y>> \o R)
  BY ONLY <1>1, Seam
<1> QED BY <1>2, TextOfType

LEMMA SameStart ==
  ASSUME NEW S, NEW s \in Seq(S), NEW t \in Seq(S), NEW n \in 0..Len(s), n <= Len(t),
         \A i \in 1..n : s[i] = t[i]
  PROVE  SubSeq(s, 1, n) = SubSeq(t, 1, n)
<1>1. n \in Nat /\ Len(s) \in Nat /\ Len(t) \in Nat /\ n \in 0..Len(t)
  BY LenProperties
<1>2. \A i \in 1..n : s[i] \in S /\ t[i] \in S
  BY <1>1, ElementOfSeq
<1>3. /\ SubSeq(s, 1, n) \in Seq(S) /\ Len(SubSeq(s, 1, n)) = n
      /\ \A i \in 1..n : SubSeq(s, 1, n)[i] = s[i]
  BY <1>1, <1>2, SubSeqProperties
<1>4. /\ SubSeq(t, 1, n) \in Seq(S) /\ Len(SubSeq(t, 1, n)) = n
      /\ \A i \in 1..n : SubSeq(t, 1, n)[i] = t[i]
  BY <1>1, <1>2, SubSeqProperties
<1> QED BY <1>3, <1>4, SeqEqual

\* What is up to a position is up to a later one.
LEMMA UntilLater ==
  ASSUME NEW lines \in Document, NEW p \in Position, InText(p, lines),
         NEW q \in Position, InText(q, lines), p = q \/ Before(p, q)
  PROVE  Len(Until(lines, p)) <= Len(Until(lines, q))
<1> DEFINE H == SubSeq(lines, 1, q.line - 1)
           x == SubSeq(lines[q.line], 1, q.column)
           y == SubSeq(lines[q.line], q.column + 1, Len(lines[q.line]))
           R == SubSeq(lines, q.line + 1, Len(lines))
           D == H \o <<x>>
           T == Line
           C == DOMAIN Fold \ {Break}
<1>1. /\ H \in Seq(T) /\ x \in T /\ y \in T /\ R \in Seq(T)
      /\ lines = Sewn(H, x, y, R) /\ q = SeamAt(H, x)
  BY Seams
<1>2. /\ q.line \in 1..Len(lines) /\ q.column \in 0..Len(lines[q.line])
      /\ p.line \in 1..Len(lines) /\ p.column \in 0..Len(lines[p.line])
      /\ q.line \in Nat \ {0} /\ p.line \in Nat \ {0} /\ p.column \in Nat /\ q.column \in Nat
      /\ Len(lines) \in Nat /\ lines \in Seq(T) /\ p.line <= q.line
      /\ p.line = q.line => p.column <= q.column
      /\ lines[q.line] \in T /\ lines[p.line] \in T
  BY DEF InText, Position, Before, Document
<1>3. /\ Len(H) = q.line - 1 /\ \A i \in 1..q.line - 1 : H[i] = lines[i]
  <2>1. \A i \in 1..q.line - 1 : lines[i] \in T
    BY <1>2
  <2> QED BY <1>2, <2>1, SubSeqProperties
<1>4. Len(x) = q.column /\ \A i \in 1..q.column : x[i] = lines[q.line][i]
  <2>1. lines[q.line] \in Seq(C)
    BY <1>2 DEF Line
  <2>2. \A i \in 1..q.column : lines[q.line][i] \in C
    BY <1>2, <2>1
  <2> QED BY <1>2, <2>1, <2>2, SubSeqProperties
<1>5. D \in Document /\ Until(lines, q) = TextOf(D)
  <2> HIDE DEF H, x, y, R
  <2> QED BY <1>1, Seam
<1> HIDE DEF H, x
<1>6. /\ Len(D) = q.line /\ D[q.line] = x
      /\ \A i \in 1..q.line - 1 : D[i] = lines[i]
  <2>1. D = Append(H, x)
    BY <1>1, DocumentAppend
  <2>2. /\ Len(Append(H, x)) = Len(H) + 1 /\ Append(H, x)[Len(H) + 1] = x
        /\ \A i \in 1..Len(H) : Append(H, x)[i] = H[i]
    BY <1>1, DocumentAppend
  <2>3. Len(H) + 1 = q.line /\ Len(H) = q.line - 1
    BY <1>2, <1>3
  <2> QED BY <1>3, <2>1, <2>2, <2>3
<1> HIDE DEF D
<1>7. SubSeq(D, 1, p.line - 1) = SubSeq(lines, 1, p.line - 1)
  <2>1. /\ p.line - 1 \in 0..Len(D) /\ p.line - 1 <= Len(lines)
        /\ \A i \in 1..p.line - 1 : i \in 1..q.line - 1
    BY <1>2, <1>6
  <2>2. D \in Seq(T)
    BY <1>5 DEF Document
  <2> QED BY <1>2, <1>6, <2>1, <2>2, SameStart
<1>8. /\ p.column \in 0..Len(D[p.line])
      /\ SubSeq(D[p.line], 1, p.column) = SubSeq(lines[p.line], 1, p.column)
  <2>1. CASE p.line = q.line
    <3>1. x \in Seq(C) /\ lines[q.line] \in Seq(C)
      BY <1>1, <1>2 DEF Line
    <3>2. p.column \in 0..Len(x) /\ p.column <= Len(lines[q.line])
          /\ \A i \in 1..p.column : i \in 1..q.column
      BY <1>2, <1>4, <2>1
    <3>3. SubSeq(x, 1, p.column) = SubSeq(lines[q.line], 1, p.column)
      BY <1>4, <3>1, <3>2, SameStart
    <3> QED BY <1>6, <2>1, <3>2, <3>3
  <2>2. CASE p.line # q.line
    <3>1. p.line \in 1..q.line - 1
      BY <1>2, <2>2
    <3> QED BY <1>2, <1>6, <3>1
  <2> QED BY <2>1, <2>2
<1>9. InText(p, D) /\ Until(D, p) = Until(lines, p)
  <2>1. p.line \in 1..Len(D)
    BY <1>2, <1>6
  <2> QED BY <1>7, <1>8, <2>1 DEF InText, Until
<1>10. /\ TextOf(D) = Until(D, p) \o Beyond(D, p)
       /\ Until(D, p) \in Text /\ Beyond(D, p) \in Text
  BY <1>5, <1>9, Halved
<1>11. Len(TextOf(D)) = Len(Until(D, p)) + Len(Beyond(D, p))
       /\ Len(Until(D, p)) \in Nat /\ Len(Beyond(D, p)) \in Nat
  BY <1>10, TextsConcat
<1> QED BY <1>5, <1>9, <1>11

\* A position's offset is the length of what is up to it.
LEMMA OffsetIsLength ==
  ASSUME NEW b \in Buffer, NEW p \in Here(b)
  PROVE  OffsetOf(b, p) = Len(Until(b.lines, p))
<1> DEFINE lines == b.lines
           N == p.line
           So(k) == SubSeq(lines, 1, k)
<1>1. /\ p \in Position /\ lines \in Document /\ lines \in Seq(Line) /\ Len(lines) \in Nat
      /\ N \in 1..Len(lines) /\ N \in Nat \ {0} /\ p.column \in 0..Len(lines[N])
      /\ p = [line |-> N, column |-> p.column]
  BY DEF Here, InText, Position, Buffer, Document
<1>2. Clamp(b, p) = p
  <2>1. Smaller(N, Len(lines)) = N
    BY <1>1 DEF Smaller
  <2>2. Len(lines[N]) \in Nat /\ p.column \in Nat
    BY <1>1 DEF Position, Line
  <2>3. Smaller(p.column, Len(lines[N])) = p.column
    BY <1>1, <2>2 DEF Smaller
  <2> QED BY <1>1, <2>1, <2>3 DEF Clamp, At
<1>3. PICK f \in [1..N -> Nat] : Starts(lines, N, f) /\ OffsetOf(b, p) = f[N] + p.column
  BY <1>1, <1>2, OffsetOfSteps
<1> DEFINE P == {k \in 0..N : k = 0 \/ \A t \in Line :
                   Len(TextOf(So(k - 1) \o <<t>>)) = f[k] + Len(t)}
<1> HIDE DEF lines, N
<1>4. ASSUME NEW k \in 1..N, k - 1 \in P PROVE k \in P
  <2>1. f[k] = IF k = 1 THEN 0 ELSE f[k - 1] + Len(lines[k - 1]) + 1
    BY <1>3 DEF Starts
  <2>2. k \in 0..N /\ k \in Nat \ {0}
    BY <1>1
  <2> SUFFICES ASSUME NEW t \in Line
               PROVE  Len(TextOf(So(k - 1) \o <<t>>)) = f[k] + Len(t)
    BY <2>2
  <2>3. Len(t) \in Nat
    BY DEF Line
  <2>4. CASE k = 1
    <3>1. So(k - 1) \o <<t>> = <<t>>
      <4>1. So(0) = <<>>
        BY <1>1, SubSeqEmpty
      <4>2. <<t>> \in Seq(Line)
        OBVIOUS
      <4>3. <<>> \o <<t>> = <<t>>
        BY <4>2, ConcatEmptySeq
      <4>4. k - 1 = 0
        BY <2>4
      <4>5. So(k - 1) = So(0)
        BY <4>4
      <4> HIDE DEF So
      <4> QED BY <4>1, <4>3, <4>5
    <3>2. TextOf(<<t>>) = t
      BY TextOfOne
    <3>3. f[k] = 0
      BY <2>1, <2>4
    <3>4. Len(TextOf(So(k - 1) \o <<t>>)) = Len(t)
      BY <3>1, <3>2
    <3> QED BY <2>3, <3>3, <3>4
  <2>5. CASE k # 1
    <3> DEFINE j == k - 1
    <3>1. j \in 1..N /\ j \in 1..Len(lines) /\ j # 0 /\ j \in P /\ j \in Nat
      BY <1>1, <1>4, <2>2, <2>5
    <3>2. /\ So(j - 1) \in Seq(Line) /\ lines[j] \in Line /\ So(j) \in Document
          /\ So(j) = Append(So(j - 1), lines[j])
      <4> HIDE DEF j
      <4> QED BY <1>1, <3>1, LinesSoFar
    <3>3. So(j) = So(j - 1) \o <<lines[j]>>
      <4> DEFINE s == So(j - 1)
                 l == lines[j]
      <4>1. s \in Seq(Line) /\ l \in Line /\ So(j) = Append(s, l)
        BY <3>2
      <4> HIDE DEF s, l, j
      <4>2. Append(s, l) = s \o <<l>>
        BY <4>1, DocumentAppend
      <4> QED BY <4>1, <4>2 DEF s, l
    <3>4. Len(TextOf(So(j))) = f[j] + Len(lines[j])
      BY <3>1, <3>2, <3>3
    <3> DEFINE u == TextOf(So(j))
               s == So(j)
    <3>5. u \in Text /\ t \in Text
      BY <3>2, TextOfType, LineIsText
    <3>6. s \o <<t>> = Append(s, t) /\ TextOf(Append(s, t)) = u \o <<Break>> \o t
      <4>1. s \in Document /\ s \in Seq(Line) /\ u = TextOf(s)
        BY <3>2 DEF Document
      <4> HIDE DEF s, u
      <4> QED BY <4>1, DocumentAppend, TextOfAppend
    <3>7. Len(u \o <<Break>> \o t) = Len(u) + 1 + Len(t)
      <4> DEFINE br == <<Break>>
                 v == u \o br
      <4>1. br \in Text /\ Len(br) = 1
        BY BreakIsText
      <4> HIDE DEF u, br
      <4>2. v \in Text /\ Len(v) = Len(u) + Len(br)
        BY <3>5, <4>1, TextsConcat
      <4> HIDE DEF v
      <4>3. Len(v \o t) = Len(v) + Len(t)
        BY <3>5, <4>2, TextsConcat
      <4> QED BY <4>1, <4>2, <4>3 DEF v, br
    <3>8. f[k] = f[j] + Len(lines[j]) + 1 /\ f[j] \in Nat /\ Len(lines[j]) \in Nat
      <4>1. lines[j] \in Line
        BY <3>2
      <4>2. Len(lines[j]) \in Nat
        BY <4>1 DEF Line
      <4> QED BY <1>3, <2>1, <2>5, <3>1, <4>2
    <3> QED BY <2>3, <3>4, <3>6, <3>7, <3>8
  <2> QED BY <2>4, <2>5
<1>5. 0..N \subseteq P
  <2>1. N \in Nat /\ 0 \in P
    BY <1>1
  <2> HIDE DEF P
  <2> QED BY <1>4, <2>1, UpTo
<1> DEFINE x == SubSeq(lines[N], 1, p.column)
<1>6. x \in Line /\ Len(x) = p.column
  BY Cuts DEF lines, N
<1>7. N \in P /\ N # 0
  BY <1>1, <1>5
<1>8. Len(TextOf(So(N - 1) \o <<x>>)) = f[N] + Len(x)
  <2> HIDE DEF x
  <2> QED BY <1>6, <1>7
<1> QED BY <1>3, <1>6, <1>8 DEF Until, lines, N

-----------------------------------------------------------------------------
(* A text and its lines are each other's.                                    *)

SplitWith(c, ls) ==
  IF c = Break THEN Append(ls, <<>>) ELSE [ls EXCEPT ![Len(ls)] = Append(@, c)]

LEMMA LastLine ==
  ASSUME NEW ls \in Document
  PROVE  LET H == SubSeq(ls, 1, Len(ls) - 1)
         IN /\ H \in Seq(Line) /\ Len(H) + 1 = Len(ls) /\ ls[Len(ls)] \in Line
            /\ ls = H \o <<ls[Len(ls)]>>
<1> DEFINE n == Len(ls)
           H == SubSeq(ls, 1, n - 1)
           l == ls[n]
<1>1. ls \in Seq(Line) /\ n \in 1..Len(ls) /\ n \in Nat \ {0}
  BY DEF Document
<1>2. H \in Seq(Line) /\ l \in Line /\ Len(H) = n - 1 /\ SubSeq(ls, 1, n) = Append(H, l)
  BY <1>1, LinesSoFar
<1>3. SubSeq(ls, 1, n) = ls
  BY <1>1, SubSeqFull
<1>4. Append(H, l) = H \o <<l>>
  <2> HIDE DEF H, l
  <2> QED BY <1>2, DocumentAppend
<1>5. Len(H) + 1 = n /\ ls = H \o <<l>>
  <2> HIDE DEF H, l, n
  <2> QED BY <1>1, <1>2, <1>3, <1>4
<1> QED BY <1>2, <1>5

\* The last line replaced.
WithLast(ls, t) == [ls EXCEPT ![Len(ls)] = t]

LEMMA LastChanged ==
  ASSUME NEW H \in Seq(Line), NEW z \in Line, NEW t \in Line
  PROVE  LET ls == H \o <<z>>
         IN /\ ls \in Document /\ Len(ls) = Len(H) + 1 /\ ls[Len(ls)] = z
            /\ WithLast(ls, t) = H \o <<t>>
            /\ SubSeq(ls, 1, Len(H)) = H
<1> DEFINE ls == H \o <<z>>
           new == H \o <<t>>
           T == Line
<1>1. /\ ls \in Document /\ ls \in Seq(T) /\ Len(ls) = Len(H) + 1 /\ ls[Len(H) + 1] = z
      /\ \A i \in 1..Len(H) : ls[i] = H[i]
  BY DocumentAppend DEF Document
<1>2. /\ new \in Seq(T) /\ Len(new) = Len(H) + 1 /\ new[Len(H) + 1] = t
      /\ \A i \in 1..Len(H) : new[i] = H[i]
  BY DocumentAppend DEF Document
<1>3. Len(H) \in Nat
  BY LenProperties
<1>4. SubSeq(ls, 1, Len(H)) = H
  <2>1. <<z>> \in Seq(T)
    OBVIOUS
  <2> QED BY <2>1, Parts
<1> HIDE DEF ls, new
<1>5. [ls EXCEPT ![Len(ls)] = t] = new
  <2> DEFINE e == [ls EXCEPT ![Len(ls)] = t]
  <2>1. e \in Seq(T) /\ Len(e) = Len(ls) /\ e[Len(ls)] = t
        /\ \A i \in 1..Len(ls) : i # Len(ls) => e[i] = ls[i]
    <3> HIDE DEF T
    <3>1. t \in T /\ Len(ls) \in 1..Len(ls)
      BY <1>1, <1>3 DEF T
    <3> QED BY <1>1, <3>1
  <2>2. ASSUME NEW i \in 1..Len(ls) PROVE e[i] = new[i]
    <3>1. i = Len(ls) \/ i \in 1..Len(H)
      BY <1>1, <1>3
    <3>2. CASE i = Len(ls)
      BY <1>1, <1>2, <2>1, <3>2
    <3>3. CASE i \in 1..Len(H)
      <4>1. i # Len(ls)
        BY <1>1, <1>3, <3>3
      <4> QED BY <1>1, <1>2, <2>1, <3>3, <4>1
    <3> QED BY <3>1, <3>2, <3>3
  <2> HIDE DEF e
  <2>3. Len(e) = Len(new)
    BY <1>1, <1>2, <2>1
  <2> HIDE DEF T
  <2>4. e = new
    BY <1>1, <1>2, <2>1, <2>2, <2>3, SeqEqual
  <2> QED BY <2>4 DEF e
<1> QED BY <1>1, <1>4, <1>5 DEF ls, new, WithLast

\* One character more is one character of the text more.
LEMMA SplitWithText ==
  ASSUME NEW ls \in Document, NEW c \in DOMAIN Fold \cup {Break}
  PROVE  SplitWith(c, ls) \in Document /\ TextOf(SplitWith(c, ls)) = TextOf(ls) \o <<c>>
<1> DEFINE none == <<>>
<1>1. none \in Line /\ none \in Text /\ <<Break>> \in Text
  BY BreakIsText
<1>2. CASE c = Break
  <2>1. SplitWith(c, ls) = Append(ls, none)
    BY <1>2 DEF SplitWith
  <2>2. TextOf(Append(ls, none)) = TextOf(ls) \o <<Break>> \o none
    BY <1>1, TextOfAppend
  <2>3. TextOf(ls) \o <<Break>> \in Text
    <3>1. TextOf(ls) \in Text
      BY TextOfType
    <3> QED BY <1>1, <3>1, TextsConcat
  <2>4. (TextOf(ls) \o <<Break>>) \o none = TextOf(ls) \o <<Break>>
    BY <2>3, ConcatEmptySeq DEF Text
  <2>5. Append(ls, none) \in Document
    <3>1. ls \in Seq(Line)
      BY DEF Document
    <3> HIDE DEF none
    <3> QED BY <1>1, <3>1, DocumentAppend
  <2> QED BY <1>2, <2>1, <2>2, <2>4, <2>5
<1>3. CASE c # Break
  <2> DEFINE H == SubSeq(ls, 1, Len(ls) - 1)
             z == ls[Len(ls)]
             l == <<c>>
             t == z \o l
             C == DOMAIN Fold \ {Break}
  <2>1. H \in Seq(Line) /\ Len(H) + 1 = Len(ls) /\ z \in Line /\ ls = H \o <<z>>
    BY LastLine
  <2>2. l \in Line
    <3>1. c \in C
      BY <1>3
    <3>2. <<c>> \in Seq(C)
      <4> HIDE DEF C
      <4> QED BY <3>1
    <3> QED BY <3>2 DEF Line
  <2>3. Append(z, c) = t
    <3>1. z \in Seq(C) /\ c \in C
      BY <1>3, <2>1 DEF Line
    <3> HIDE DEF C, z
    <3> QED BY <3>1, AppendIsConcat
  <2> HIDE DEF H, l, t
  <2>4. t \in Line
    BY <2>1, <2>2, TextsJoined DEF t
  <2>5. SplitWith(c, ls) = WithLast(ls, t)
    BY <1>3, <2>3 DEF SplitWith, WithLast
  <2> HIDE DEF z
  <2>6. SplitWith(c, ls) = H \o <<t>>
    <3>1. WithLast(H \o <<z>>, t) = H \o <<t>>
      BY <2>1, <2>4, LastChanged
    <3> QED BY <2>1, <2>5, <3>1
  <2>7. H \o <<t>> \in Document
    BY <2>1, <2>4, LastChanged
  <2>8. TextOf(Sewn(H, z, l, none)) = TextOf(H \o <<z>>) \o TextOf(<<l>> \o none)
    <3>1. none \in Seq(Line)
      OBVIOUS
    <3> HIDE DEF none
    <3> QED BY <2>1, <2>2, <3>1, Seam
  <2>9. Sewn(H, z, l, none) = H \o <<t>>
    <3>1. H \o <<t>> \in Seq(Line)
      BY <2>7 DEF Document
    <3> QED BY <3>1, ConcatEmptySeq DEF Sewn, t
  <2>10. TextOf(<<l>> \o none) = l
    <3>1. <<l>> \in Seq(Line)
      BY <2>2
    <3>2. <<l>> \o none = <<l>>
      BY <3>1, ConcatEmptySeq
    <3> QED BY <2>2, <3>2, TextOfOne
  <2> QED BY <2>1, <2>6, <2>7, <2>8, <2>9, <2>10 DEF l
<1> QED BY <1>2, <1>3

LEMMA TextOfLines ==
  ASSUME NEW text \in Text
  PROVE  Lines(text) \in Document /\ TextOf(Lines(text)) = text
<1> DEFINE N == Len(text)
           C == DOMAIN Fold \cup {Break}
<1>1. N \in Nat /\ text \in Seq(C) /\ \A k \in 1..N : text[k] \in C
  BY DEF Text
<1>2. PICK f \in [0..N -> Document] : Splits(text, f) /\ Lines(text) = f[N]
  BY LinesSteps
<1> DEFINE P == {k \in 0..N : TextOf(f[k]) = SubSeq(text, 1, k)}
<1> HIDE DEF N, C
<1>3. 0 \in P
  <2> DEFINE none == <<>>
  <2>1. f[0] = <<none>>
    BY <1>1, <1>2 DEF Splits, N
  <2>2. TextOf(<<none>>) = none
    BY BreakIsText, TextOfOne
  <2>3. SubSeq(text, 1, 0) = none
    BY <1>1, SubSeqEmpty
  <2> HIDE DEF none
  <2> QED BY <1>1, <2>1, <2>2, <2>3
<1>4. ASSUME NEW k \in 1..N, k - 1 \in P PROVE k \in P
  <2>1. f[k] = SplitWith(text[k], f[k - 1])
    <3>1. f[k] = SplitStep(text, k, f[k - 1])
      BY <1>1, <1>2 DEF Splits, N
    <3> QED BY <3>1 DEF SplitStep, SplitWith
  <2>2. k - 1 \in 0..N /\ k \in 0..N /\ f[k - 1] \in Document /\ text[k] \in C
    BY <1>1, <1>2
  <2>3. TextOf(f[k]) = TextOf(f[k - 1]) \o <<text[k]>>
    BY <2>1, <2>2, SplitWithText DEF C
  <2>4. SubSeq(text, 1, k) = SubSeq(text, 1, k - 1) \o <<text[k]>>
    <3>1. 1 \in 1..Len(text) /\ k \in 1..Len(text)
      BY <1>1 DEF N
    <3> QED BY <1>1, <3>1, SubSeqRecursiveSecond
  <2> QED BY <1>4, <2>2, <2>3, <2>4
<1>5. 0..N \subseteq P
  <2> HIDE DEF P
  <2> QED BY <1>1, <1>3, <1>4, UpTo
<1>6. N \in P
  BY <1>1, <1>5
<1>7. SubSeq(text, 1, N) = text
  BY <1>1, SubSeqFull DEF N
<1>8. N \in 0..N
  BY <1>1
<1> QED BY <1>2, <1>6, <1>7, <1>8 DEF N

LEMMA LinesOnward ==
  ASSUME NEW text \in Text, NEW c \in DOMAIN Fold \cup {Break}
  PROVE  Lines(text \o <<c>>) = SplitWith(c, Lines(text))
<1> DEFINE more == text \o <<c>>
           N == Len(text)
           M == Len(more)
           C == DOMAIN Fold \cup {Break}
           d == <<c>>
<1>1. /\ more \in Text /\ M = N + 1 /\ N \in Nat
      /\ \A i \in 1..N : more[i] = text[i]
      /\ more[M] = c
  <2>1. text \in Seq(C) /\ d \in Seq(C) /\ Len(d) = 1 /\ d[1] = c
    BY DEF Text
  <2> HIDE DEF C, d
  <2>2. /\ text \o d \in Seq(C) /\ Len(text \o d) = N + 1 /\ N \in Nat
        /\ \A i \in 1..N + 1 : (text \o d)[i] = IF i <= N THEN text[i] ELSE d[i - N]
    <3>1. /\ text \o d \in Seq(C) /\ Len(text \o d) = Len(text) + Len(d)
          /\ \A i \in 1..Len(text) + Len(d) :
               (text \o d)[i] = IF i <= Len(text) THEN text[i] ELSE d[i - Len(text)]
      BY <2>1, ConcatProperties
    <3>2. Len(text) \in Nat
      BY <2>1, LenProperties
    <3> HIDE DEF more
    <3> QED BY <2>1, <3>1, <3>2
  <2>3. N + 1 \in 1..N + 1 /\ ~ (N + 1 <= N) /\ (N + 1) - N = 1
        /\ \A i \in 1..N : i \in 1..N + 1 /\ i <= N
    BY <2>2
  <2> HIDE DEF N
  <2> QED BY <2>1, <2>2, <2>3 DEF C, d, Text
<1> HIDE DEF more, N, M
<1>2. PICK f \in [0..N -> Document] : Splits(text, f) /\ Lines(text) = f[N]
  BY LinesSteps DEF N
<1>3. PICK g \in [0..M -> Document] : Splits(more, g) /\ Lines(more) = g[M]
  BY <1>1, LinesSteps DEF M
<1>4. \A k \in 0..N : f[k] = IF k = 0 THEN << <<>> >> ELSE SplitStep(text, k, f[k - 1])
  BY <1>2 DEF Splits, N
<1>5. \A k \in 0..M : g[k] = IF k = 0 THEN << <<>> >> ELSE SplitStep(more, k, g[k - 1])
  BY <1>3 DEF Splits, M
<1> DEFINE P == {k \in 0..N : f[k] = g[k]}
<1>6. 0 \in P
  BY <1>1, <1>4, <1>5
<1>7. ASSUME NEW k \in 1..N, k - 1 \in P PROVE k \in P
  <2>1. k \in 0..N /\ k \in 0..M /\ k # 0
    BY <1>1
  <2>2. f[k] = SplitStep(text, k, f[k - 1]) /\ g[k] = SplitStep(more, k, g[k - 1])
    BY <1>4, <1>5, <2>1
  <2>3. f[k - 1] = g[k - 1] /\ text[k] = more[k]
    BY <1>1, <1>7
  <2> QED BY <2>1, <2>2, <2>3 DEF SplitStep
<1>8. 0..N \subseteq P
  <2> HIDE DEF P
  <2> QED BY <1>1, <1>6, <1>7, UpTo
<1>9. f[N] = g[N] /\ M - 1 = N /\ M # 0 /\ M \in 0..M
  BY <1>1, <1>8
<1>10. g[M] = SplitStep(more, M, g[N])
  BY <1>5, <1>9
<1> QED BY <1>1, <1>2, <1>3, <1>9, <1>10 DEF SplitStep, SplitWith, more

\* Without a line break the last line goes on.
LEMMA LinesLonger ==
  ASSUME NEW text \in Text, NEW H \in Seq(Line), NEW z \in Line, NEW l \in Line,
         Lines(text) = H \o <<z>>
  PROVE  Lines(text \o l) = H \o <<z \o l>>
<1> DEFINE N == Len(l)
           C == DOMAIN Fold \ {Break}
           D == DOMAIN Fold \cup {Break}
           to(k) == SubSeq(l, 1, k)
           P == {k \in 0..N : Lines(text \o to(k)) = H \o <<z \o to(k)>>}
<1>1. N \in Nat /\ l \in Seq(C) /\ z \in Seq(C) /\ text \in Seq(D)
  BY LenProperties DEF Line, Text
<1> HIDE DEF N
<1>2. 0 \in P
  <2> DEFINE none == <<>>
  <2>1. to(0) = none
    BY <1>1, SubSeqEmpty
  <2>2. text \o none = text /\ z \o none = z
    BY <1>1, ConcatEmptySeq
  <2>3. 0 \in 0..N
    BY <1>1
  <2> QED BY <2>1, <2>2, <2>3
<1>3. ASSUME NEW k \in 1..N, k - 1 \in P PROVE k \in P
  <2> DEFINE u == to(k - 1)
             c == l[k]
             w == z \o u
             d == <<c>>
  <2>1. u \in Seq(C) /\ c \in C
    <3>1. k \in 1..Len(l) /\ k - 1 \in 0..Len(l)
      BY <1>1 DEF N
    <3> HIDE DEF C
    <3> QED BY <1>1, <3>1, Halves, ElementOfSeq
  <2>2. to(k) = u \o d
    <3>1. 1 \in 1..Len(l) /\ k \in 1..Len(l)
      BY <1>1 DEF N
    <3> QED BY <1>1, <3>1, SubSeqRecursiveSecond
  <2> HIDE DEF u, c
  <2>3. c \in D /\ c # Break /\ d \in Seq(C)
    BY <2>1
  <2>4. Lines(text \o u) = H \o <<w>>
    BY <1>3 DEF u
  <2>5. u \in Line /\ d \in Line /\ w \in Line
    BY <2>1, <2>3, TextsJoined DEF Line
  <2>6. u \in Text /\ d \in Text /\ z \in Text
    BY <2>5, LineIsText
  <2>7. text \o to(k) = (text \o u) \o d /\ text \o u \in Text /\ z \o to(k) = w \o d
    <3> HIDE DEF d
    <3>1. text \o u \in Text /\ (text \o u) \o d = text \o (u \o d)
      BY ONLY text \in Text, <2>6, TextsConcat
    <3>2. (z \o u) \o d = z \o (u \o d)
      BY ONLY <2>6, TextsConcat
    <3> QED BY <2>2, <3>1, <3>2
  <2>8. Lines((text \o u) \o d) = SplitWith(c, Lines(text \o u))
    BY <2>3, <2>7, LinesOnward
  <2>9. Append(w, c) = w \o d
    <3>1. w \in Seq(C)
      BY <2>5 DEF Line
    <3> QED BY <2>1, <3>1, AppendIsConcat
  <2> HIDE DEF w, d
  <2> DEFINE t == w \o d
  <2>10. t \in Line
    BY <2>5, TextsJoined
  <2>11. /\ WithLast(H \o <<w>>, t) = H \o <<t>>
         /\ (H \o <<w>>)[Len(H \o <<w>>)] = w
    <3> HIDE DEF t
    <3> QED BY <2>5, <2>10, LastChanged
  <2>12. SplitWith(c, H \o <<w>>) = WithLast(H \o <<w>>, t)
    BY <2>3, <2>9, <2>11 DEF SplitWith, WithLast
  <2>13. k \in 0..N
    BY <1>1
  <2> QED BY <2>4, <2>7, <2>8, <2>11, <2>12, <2>13
<1>4. 0..N \subseteq P
  <2> HIDE DEF P
  <2> QED BY <1>1, <1>2, <1>3, UpTo
<1>5. N \in P
  <2>1. N \in 0..N
    BY <1>1
  <2> HIDE DEF P
  <2> QED BY <1>4, <2>1
<1>6. to(N) = l
  BY <1>1, SubSeqFull DEF N
<1> QED BY <1>5, <1>6

LEMMA LinesOfText ==
  ASSUME NEW lines \in Document
  PROVE  Lines(TextOf(lines)) = lines
<1> DEFINE n == Len(lines)
           so(k) == SubSeq(lines, 1, k)
           none == <<>>
           P == {k \in 0..n : k = 0 \/ Lines(TextOf(so(k))) = so(k)}
<1>1. lines \in Seq(Line) /\ n \in Nat \ {0}
  BY DEF Document
<1>2. none \in Line /\ none \in Text
  BY BreakIsText
<1>3. Lines(none) = <<none>>
  <2>1. PICK f \in [0..Len(none) -> Document] : Splits(none, f) /\ Lines(none) = f[Len(none)]
    BY <1>2, LinesSteps
  <2> QED BY <2>1 DEF Splits
<1> HIDE DEF n, none
<1>4. ASSUME NEW k \in 1..n, k - 1 \in P PROVE k \in P
  <2> DEFINE H == so(k - 1)
             l == lines[k]
  <2>1. H \in Seq(Line) /\ l \in Line /\ Len(H) = k - 1 /\ so(k) = Append(H, l)
        /\ k \in Nat \ {0} /\ k \in 0..n
    BY <1>1, LinesSoFar DEF n
  <2>2. none \o l = l
    BY <2>1, ConcatEmptySeq DEF Line, none
  <2>3. CASE k = 1
    <3>1. H = <<>>
      BY <2>1, <2>3, EmptySeq
    <3> DEFINE E == <<none>>
               F == <<l>>
    <3>2. none \in Seq(Line)
      BY DEF none
    <3>3. none \o E = E /\ none \o F = F /\ so(k) = F
      <4>1. E \in Seq(Line) /\ F \in Seq(Line)
        BY <1>2, <2>1
      <4> HIDE DEF E, F
      <4>2. none \o E = E /\ none \o F = F
        BY <4>1, ConcatEmptySeq DEF none
      <4>3. so(k) = H \o F
        <5> HIDE DEF H, l
        <5> QED BY <2>1, DocumentAppend DEF F
      <4> QED BY <3>1, <4>2, <4>3 DEF none
    <3>4. Lines(none \o l) = none \o <<none \o l>>
      <4>1. Lines(none) = none \o <<none>>
        BY <1>3, <3>3
      <4> QED BY <1>2, <2>1, <3>2, <4>1, LinesLonger
    <3>5. Lines(l) = F
      BY <2>2, <3>3, <3>4
    <3>6. TextOf(F) = l
      BY <2>1, TextOfOne
    <3> QED BY <2>1, <3>3, <3>5, <3>6
  <2>4. CASE k # 1
    <3>1. k - 1 \in 1..n /\ k - 1 # 0
      BY <1>1, <2>1, <2>4
    <3>2. H \in Document /\ Lines(TextOf(H)) = H
      <4>1. so(k - 1) \in Document
        BY <1>1, <3>1, LinesSoFar DEF n
      <4> QED BY <1>4, <3>1, <4>1
    <3> HIDE DEF H, l
    <3> DEFINE u == TextOf(H)
               br == <<Break>>
    <3>3. u \in Text /\ br \in Text
      BY <3>2, BreakIsText, TextOfType
    <3>4. u \o br \in Text
      <4> HIDE DEF u, br
      <4> QED BY <3>3, TextsConcat
    <3>5. Lines(u \o br) = H \o <<none>>
      <4>1. Lines(u \o br) = Append(H, none)
        BY <3>2, <3>3, LinesOnward DEF SplitWith, none
      <4>2. Append(H, none) = H \o <<none>>
        BY <1>2, <2>1, DocumentAppend
      <4> QED BY <4>1, <4>2
    <3>6. Lines((u \o br) \o l) = H \o <<none \o l>>
      <4> HIDE DEF u, br
      <4> QED BY <1>2, <2>1, <3>4, <3>5, LinesLonger
    <3>7. TextOf(Append(H, l)) = (u \o br) \o l
      BY <2>1, <3>2, TextOfAppend
    <3>8. Append(H, l) = H \o <<l>>
      BY <2>1, DocumentAppend
    <3> QED BY <2>1, <2>2, <3>6, <3>7, <3>8
  <2> QED BY <2>3, <2>4
<1>5. 0..n \subseteq P
  <2>1. n \in Nat /\ 0 \in P
    BY <1>1
  <2> HIDE DEF P
  <2> QED BY <1>4, <2>1, UpTo
<1>6. n \in P /\ n # 0
  BY <1>1, <1>5
<1>7. so(n) = lines
  BY <1>1, SubSeqFull DEF n
<1> QED BY <1>6, <1>7

-----------------------------------------------------------------------------
(* Positions and offsets are each other's.                                   *)

LEMMA UntilSeam ==
  ASSUME NEW H \in Seq(Line), NEW x \in Line, H \o <<x>> \in Document
  PROVE  LET before == Lines(TextOf(H \o <<x>>))
         IN SeamAt(H, x) = At(Len(before), Len(Last(before)))
<1> DEFINE before == H \o <<x>>
<1>1. Lines(TextOf(before)) = before
  BY LinesOfText
<1>2. Len(before) = Len(H) + 1 /\ before[Len(before)] = x
  BY LastChanged
<1> QED BY <1>1, <1>2 DEF SeamAt, Last

LEMMA PositionThere ==
  ASSUME NEW b \in Buffer, NEW o \in 0..Len(TextOf(b.lines))
  PROVE  LET p == PositionAt(b, o)
             text == TextOf(b.lines)
         IN /\ p \in Here(b) /\ OffsetOf(b, p) = o
            /\ Until(b.lines, p) = SubSeq(text, 1, o)
            /\ Beyond(b.lines, p) = SubSeq(text, o + 1, Len(text))
<1> DEFINE text == TextOf(b.lines)
           t == SubSeq(text, 1, o)
           u == SubSeq(text, o + 1, Len(text))
           D == Lines(t)
           E == Lines(u)
           H == SubSeq(D, 1, Len(D) - 1)
           x == D[Len(D)]
           y == E[1]
           R == SubSeq(E, 2, Len(E))
           p == PositionAt(b, o)
<1>1. b.lines \in Document /\ text \in Text
  BY TextOfType DEF Buffer
<1>2. t \in Text /\ u \in Text /\ Len(t) = o /\ text = t \o u /\ o \in Nat /\ o <= Len(text)
      /\ Len(text) \in Nat
  <2> DEFINE C == DOMAIN Fold \cup {Break}
  <2>1. text \in Seq(C) /\ o \in 0..Len(text)
    BY <1>1 DEF Text
  <2> HIDE DEF text, C
  <2>2. Len(text) \in Nat
    BY <2>1, LenProperties
  <2>3. t \in Seq(C) /\ u \in Seq(C) /\ Len(t) = o /\ text = t \o u
    <3>1. t = SubSeq(text, 1, o) /\ u = SubSeq(text, o + 1, Len(text))
      OBVIOUS
    <3> HIDE DEF t, u
    <3> QED BY ONLY <2>1, <3>1, Halves
  <2> HIDE DEF t, u
  <2> QED BY <2>1, <2>2, <2>3 DEF C, Text
<1>3. D \in Document /\ TextOf(D) = t /\ E \in Document /\ TextOf(E) = u
  <2> HIDE DEF t, u
  <2> QED BY <1>2, TextOfLines
<1> HIDE DEF D, E
<1>4. H \in Seq(Line) /\ x \in Line /\ D = H \o <<x>>
  BY <1>3, LastLine
<1>5. y \in Line /\ R \in Seq(Line) /\ E = <<y>> \o R
  <2>1. E \in Seq(Line) /\ 1 \in 1..Len(E) /\ Len(E) \in Nat
    BY <1>3 DEF Document
  <2>2. /\ SubSeq(E, 1, 1 - 1) \in Seq(Line) /\ y \in Line
        /\ SubSeq(E, 1, 1) = Append(SubSeq(E, 1, 1 - 1), y)
    BY <2>1, LinesSoFar
  <2>3. R \in Seq(Line) /\ E = SubSeq(E, 1, 1) \o R
    <3>1. 1 \in 0..Len(E) /\ 1 + 1 = 2
      BY <2>1
    <3> QED BY <2>1, <3>1, Halves
  <2>4. SubSeq(E, 1, 1) = <<y>>
    <3> HIDE DEF y
    <3>1. SubSeq(E, 1, 1 - 1) = <<>>
      BY <2>1, SubSeqEmpty
    <3>2. Append(<<>>, y) = <<y>>
      OBVIOUS
    <3> QED BY <2>2, <3>1, <3>2
  <2> QED BY <2>2, <2>3, <2>4
<1> HIDE DEF H, x, y, R
<1>6. /\ Sewn(H, x, y, R) \in Document
      /\ TextOf(Sewn(H, x, y, R)) = TextOf(D) \o TextOf(E)
      /\ InText(SeamAt(H, x), Sewn(H, x, y, R)) /\ SeamAt(H, x) \in Position
      /\ Until(Sewn(H, x, y, R), SeamAt(H, x)) = TextOf(D)
      /\ Beyond(Sewn(H, x, y, R), SeamAt(H, x)) = TextOf(E)
  BY <1>4, <1>5, Seam
<1>7. b.lines = Sewn(H, x, y, R)
  <2>1. TextOf(Sewn(H, x, y, R)) = TextOf(b.lines)
    <3> HIDE DEF t, u
    <3> QED BY <1>2, <1>3, <1>6
  <2> QED BY <1>1, <1>6, <2>1, LinesOfText
<1>8. p = SeamAt(H, x)
  <2>1. Smaller(o, Len(text)) = o
    BY <1>2 DEF Smaller
  <2>2. p = At(Len(D), Len(Last(D)))
    BY <2>1 DEF PositionAt, D
  <2>3. Lines(TextOf(D)) = D
    BY <1>3, LinesOfText
  <2> QED BY <1>3, <1>4, <2>2, <2>3, UntilSeam
<1> HIDE DEF p, text, t, u
<1>9. p \in Here(b) /\ Until(b.lines, p) = t /\ Beyond(b.lines, p) = u
  BY <1>3, <1>6, <1>7, <1>8 DEF Here
<1>10. OffsetOf(b, p) = o
  BY <1>2, <1>9, OffsetIsLength
<1> QED BY <1>9, <1>10 DEF p, text, t, u

LEMMA PositionBack ==
  ASSUME NEW b \in Buffer, NEW p \in Here(b)
  PROVE  LET text == TextOf(b.lines)
             o == OffsetOf(b, p)
         IN /\ o \in 0..Len(text) /\ PositionAt(b, o) = p
            /\ Until(b.lines, p) = SubSeq(text, 1, o)
            /\ Beyond(b.lines, p) = SubSeq(text, o + 1, Len(text))
<1> DEFINE lines == b.lines
           text == TextOf(lines)
           o == OffsetOf(b, p)
           H == SubSeq(lines, 1, p.line - 1)
           x == SubSeq(lines[p.line], 1, p.column)
           y == SubSeq(lines[p.line], p.column + 1, Len(lines[p.line]))
           R == SubSeq(lines, p.line + 1, Len(lines))
           t == Until(lines, p)
           u == Beyond(lines, p)
<1>1. lines \in Document /\ p \in Position /\ InText(p, lines)
  BY DEF Here, Buffer
<1>2. o = Len(t)
  BY OffsetIsLength
<1>3. t \in Text /\ u \in Text /\ text = t \o u
  BY <1>1, Halved
<1>4. /\ H \in Seq(Line) /\ x \in Line /\ y \in Line /\ R \in Seq(Line)
      /\ lines = Sewn(H, x, y, R) /\ p = SeamAt(H, x)
  BY <1>1, Seams
<1> HIDE DEF H, x, y, R
<1>5. t = TextOf(H \o <<x>>) /\ H \o <<x>> \in Document
  <2> HIDE DEF lines
  <2> QED BY <1>4, Seam
<1> HIDE DEF t, u, o, text
<1>6. Len(t) \in Nat /\ Len(u) \in Nat /\ Len(text) = Len(t) + Len(u)
  BY <1>3, TextsConcat
<1>7. SubSeq(text, 1, o) = t /\ SubSeq(text, o + 1, Len(text)) = u
  BY <1>2, <1>3, <1>6, Parts DEF Text
<1>8. o \in 0..Len(text)
  BY <1>2, <1>6
<1>9. PositionAt(b, o) = p
  <2>1. Smaller(o, Len(text)) = o
    BY <1>2, <1>6 DEF Smaller
  <2>2. PositionAt(b, o) = At(Len(Lines(t)), Len(Last(Lines(t))))
    BY <1>7, <2>1 DEF PositionAt, text
  <2> QED BY <1>4, <1>5, <2>2, UntilSeam
<1> QED BY <1>7, <1>8, <1>9 DEF t, u, o, text

\* The ends of the selection, as offsets.
LEMMA SelectionOffsets ==
  ASSUME NEW b \in Buffer
  PROVE  LET from == OffsetOf(b, SelectionStart(b))
             to == OffsetOf(b, SelectionEnd(b))
         IN /\ from \in Nat /\ to \in Nat /\ from <= to /\ to <= Len(TextOf(b.lines))
            /\ HasSelection(b) => from # to
            /\ ~ HasSelection(b) => SelectionStart(b) = b.cursor /\ SelectionEnd(b) = b.cursor
<1> DEFINE p == SelectionStart(b)
           q == SelectionEnd(b)
<1>1. b.cursor \in Here(b) /\ Anchor(b) \in Here(b) /\ b.lines \in Document
  BY Ends DEF Buffer
<1>2. p \in Here(b) /\ q \in Here(b)
  BY <1>1 DEF SelectionStart, SelectionEnd
<1>3. p = q \/ Before(p, q)
  <2>1. ASSUME NEW r \in Position, NEW s \in Position
        PROVE  r = s \/ Before(r, s) \/ Before(s, r)
    BY DEF Position, Before
  <2> QED BY <1>1, <2>1 DEF SelectionStart, SelectionEnd, Here
<1>4. HasSelection(b) => p # q
  <2>1. Before(Anchor(b), b.cursor) => Anchor(b) # b.cursor
    BY <1>1 DEF Before, Here, Position
  <2> QED BY <2>1 DEF HasSelection, SelectionStart, SelectionEnd
<1>5. ~ HasSelection(b) => p = b.cursor /\ q = b.cursor
  BY DEF HasSelection, SelectionStart, SelectionEnd
<1> HIDE DEF p, q
<1>6. /\ OffsetOf(b, p) \in 0..Len(TextOf(b.lines)) /\ PositionAt(b, OffsetOf(b, p)) = p
      /\ OffsetOf(b, q) \in 0..Len(TextOf(b.lines)) /\ PositionAt(b, OffsetOf(b, q)) = q
  BY <1>2, PositionBack
<1>7. OffsetOf(b, p) <= OffsetOf(b, q)
  <2>1. Len(Until(b.lines, p)) <= Len(Until(b.lines, q))
    BY <1>1, <1>2, <1>3, UntilLater DEF Here
  <2> QED BY <1>2, <2>1, OffsetIsLength
<1>8. HasSelection(b) => OffsetOf(b, p) # OffsetOf(b, q)
  BY <1>4, <1>6
<1>9. Len(TextOf(b.lines)) \in Nat
  BY <1>1, TextOfType DEF Text
<1> QED BY <1>5, <1>6, <1>7, <1>8, <1>9 DEF p, q

-----------------------------------------------------------------------------
(* What edits do to the text.                                                *)

\* insert_text_impl once the selection is gone.
Pasted(c, text) ==
  LET at == c.cursor
      before == SubSeq(c.lines[at.line], 1, at.column)
      after == SubSeq(c.lines[at.line], at.column + 1, Len(c.lines[at.line]))
      pieces == Lines(text)
      n == Len(pieces)
      new == IF n = 1 THEN <<before \o pieces[1] \o after>>
             ELSE <<before \o pieces[1]>> \o SubSeq(pieces, 2, n - 1)
                  \o <<pieces[n] \o after>>
  IN CaretAt([c EXCEPT !.lines = SubSeq(@, 1, at.line - 1) \o new
                                 \o SubSeq(@, at.line + 1, Len(@))],
             At(at.line + n - 1, IF n = 1 THEN at.column + Len(text) ELSE Len(pieces[n])))

SameStacks(c, d) == c.undo = d.undo /\ c.redo = d.redo /\ c.group = d.group

LEMMA CaretAtEffect ==
  ASSUME NEW b \in Buffer, NEW lines \in Document, NEW p \in Position, InText(p, lines)
  PROVE  LET d == CaretAt([b EXCEPT !.lines = lines], p)
         IN d.lines = lines /\ d.cursor = p /\ d.anchor = None /\ SameStacks(b, d)
BY DEF CaretAt, SameStacks, Buffer

LEMMA DeletedEffect ==
  ASSUME NEW b \in Buffer, NEW p \in Here(b), NEW q \in Here(b)
  PROVE  LET d == Deleted(b, p, q)
         IN /\ d.cursor = p /\ d.anchor = None /\ SameStacks(b, d)
            /\ Until(d.lines, p) = Until(b.lines, p)
            /\ Beyond(d.lines, p) = Beyond(b.lines, q)
<1> DEFINE H == SubSeq(b.lines, 1, p.line - 1)
           x == SubSeq(b.lines[p.line], 1, p.column)
           z == SubSeq(b.lines[p.line], p.column + 1, Len(b.lines[p.line]))
           Q == SubSeq(b.lines, p.line + 1, Len(b.lines))
           G == SubSeq(b.lines, 1, q.line - 1)
           w == SubSeq(b.lines[q.line], 1, q.column)
           y == SubSeq(b.lines[q.line], q.column + 1, Len(b.lines[q.line]))
           R == SubSeq(b.lines, q.line + 1, Len(b.lines))
           lines == (H \o <<x \o y>>) \o R
<1>1. b.lines \in Document /\ p \in Position /\ q \in Position /\ InText(p, b.lines)
      /\ InText(q, b.lines)
  BY DEF Buffer, Here
<1>2. /\ H \in Seq(Line) /\ x \in Line /\ z \in Line /\ Q \in Seq(Line)
      /\ b.lines = Sewn(H, x, z, Q) /\ p = SeamAt(H, x)
  BY <1>1, Seams
<1>3. /\ G \in Seq(Line) /\ w \in Line /\ y \in Line /\ R \in Seq(Line)
      /\ b.lines = Sewn(G, w, y, R) /\ q = SeamAt(G, w)
  BY <1>1, Seams
<1>4. Deleted(b, p, q) = CaretAt([b EXCEPT !.lines = lines], p)
  BY DEF Deleted
<1> HIDE DEF H, x, y, z, w, G, Q, R
<1>5. Until(b.lines, p) = TextOf(H \o <<x>>)
  <2>1. Until(Sewn(H, x, z, Q), SeamAt(H, x)) = TextOf(H \o <<x>>)
    BY <1>2, Seam
  <2> QED BY <1>2, <2>1
<1>6. Beyond(b.lines, q) = TextOf(<<y>> \o R)
  <2>1. Beyond(Sewn(G, w, y, R), SeamAt(G, w)) = TextOf(<<y>> \o R)
    BY <1>3, Seam
  <2> QED BY <1>3, <2>1
<1>7. /\ lines \in Document /\ InText(p, lines)
      /\ Until(lines, p) = TextOf(H \o <<x>>) /\ Beyond(lines, p) = TextOf(<<y>> \o R)
  <2>1. lines = Sewn(H, x, y, R)
    BY DEF Sewn
  <2> HIDE DEF lines
  <2>2. /\ Sewn(H, x, y, R) \in Document /\ InText(SeamAt(H, x), Sewn(H, x, y, R))
        /\ Until(Sewn(H, x, y, R), SeamAt(H, x)) = TextOf(H \o <<x>>)
        /\ Beyond(Sewn(H, x, y, R), SeamAt(H, x)) = TextOf(<<y>> \o R)
    <3>1. H \in Seq(Line) /\ x \in Line /\ y \in Line /\ R \in Seq(Line)
      BY <1>2, <1>3
    <3> QED BY ONLY <3>1, Seam
  <2> QED BY <1>2, <2>1, <2>2
<1> HIDE DEF lines
<1> QED BY <1>1, <1>4, <1>5, <1>6, <1>7, CaretAtEffect

LEMMA Pieces ==
  ASSUME NEW pieces \in Document, Len(pieces) # 1
  PROVE  LET n == Len(pieces)
             M == SubSeq(pieces, 2, n - 1)
         IN /\ n \in Nat /\ n > 1 /\ M \in Seq(Line) /\ Len(M) = n - 2
            /\ pieces[1] \in Line /\ pieces[n] \in Line
            /\ pieces = <<pieces[1]>> \o (M \o <<pieces[n]>>)
<1> DEFINE n == Len(pieces)
           M == SubSeq(pieces, 2, n - 1)
           T == Line
           first == pieces[1]
           last == pieces[n]
           H == SubSeq(pieces, 1, n - 1)
<1>1. pieces \in Seq(T) /\ n \in Nat /\ n > 1
  <2>1. pieces \in Seq(T) /\ n \in Nat \ {0}
    BY DEF Document
  <2> QED BY <2>1
<1>2. H \in Seq(T) /\ last \in T /\ pieces = H \o <<last>>
  BY LastLine
<1>3. first \in T
  BY <1>1
<1>4. M \in Seq(T) /\ Len(M) = n - 2
  <2>1. \A i \in 2..n - 1 : pieces[i] \in T
    BY <1>1
  <2>2. 2 \in Int /\ n - 1 \in Int
    BY <1>1
  <2> HIDE DEF T
  <2>3. M \in Seq(T) /\ Len(M) = IF 2 <= n - 1 THEN (n - 1) - 2 + 1 ELSE 0
    BY <2>1, <2>2, SubSeqProperties
  <2> HIDE DEF M, n
  <2> QED BY <1>1, <2>3
<1>5. H = <<first>> \o M
  <2>1. SubSeq(pieces, 1, 1) \o SubSeq(pieces, 2, n - 1) = H
    <3>1. 1 \in 1..Len(pieces) + 1 /\ 1 \in 1 - 1..Len(pieces) /\ n - 1 \in 1..Len(pieces)
          /\ 1 + 1 = 2
      BY <1>1
    <3> QED BY <1>1, <3>1, ConcatAdjacentSubSeq
  <2>2. SubSeq(pieces, 1, 1) = <<first>>
    <3>1. 1 \in 1..Len(pieces)
      BY <1>1
    <3>2. SubSeq(pieces, 1, 1) = Append(SubSeq(pieces, 1, 1 - 1), first)
      BY <1>1, <3>1, LinesSoFar
    <3>3. SubSeq(pieces, 1, 1 - 1) = <<>>
      BY <1>1, SubSeqEmpty
    <3> HIDE DEF first
    <3>4. Append(<<>>, first) = <<first>>
      OBVIOUS
    <3> QED BY <3>2, <3>3, <3>4
  <2> QED BY <2>1, <2>2
<1> HIDE DEF H, first, last, M
<1>6. (<<first>> \o M) \o <<last>> = <<first>> \o (M \o <<last>>)
  <2>1. <<first>> \in Seq(T) /\ <<last>> \in Seq(T)
    BY <1>2, <1>3
  <2> QED BY <1>4, <2>1, LinesConcat
<1> QED BY <1>1, <1>2, <1>3, <1>4, <1>5, <1>6 DEF first, last, M

LEMMA PastedEffect ==
  ASSUME NEW c \in Buffer, NEW text \in Text
  PROVE  LET d == Pasted(c, text)
         IN /\ d.lines \in Document /\ d.cursor \in Position /\ InText(d.cursor, d.lines)
            /\ d.anchor = None /\ SameStacks(c, d)
            /\ Until(d.lines, d.cursor) = Until(c.lines, c.cursor) \o text
            /\ Beyond(d.lines, d.cursor) = Beyond(c.lines, c.cursor)
<1> DEFINE at == c.cursor
           H == SubSeq(c.lines, 1, at.line - 1)
           before == SubSeq(c.lines[at.line], 1, at.column)
           after == SubSeq(c.lines[at.line], at.column + 1, Len(c.lines[at.line]))
           R == SubSeq(c.lines, at.line + 1, Len(c.lines))
           pieces == Lines(text)
           n == Len(pieces)
           first == pieces[1]
           last == pieces[n]
           M == SubSeq(pieces, 2, n - 1)
           none == <<>>
           new == IF n = 1 THEN <<before \o first \o after>>
                  ELSE <<before \o first>> \o M \o <<last \o after>>
           lines == H \o new \o R
           p == At(at.line + n - 1, IF n = 1 THEN at.column + Len(text) ELSE Len(last))
<1>1. c.lines \in Document /\ at \in Position /\ InText(at, c.lines)
      /\ at.line \in Nat \ {0} /\ at.column \in Nat
  BY DEF Buffer, InPlace, Position
<1>2. /\ H \in Seq(Line) /\ before \in Line /\ after \in Line /\ R \in Seq(Line)
      /\ c.lines = Sewn(H, before, after, R) /\ at = SeamAt(H, before)
  BY <1>1, Seams
<1>3. pieces \in Document /\ TextOf(pieces) = text
  BY TextOfLines
<1>4. Pasted(c, text) = CaretAt([c EXCEPT !.lines = lines], p)
  BY DEF Pasted
<1>5. none \in Seq(Line) /\ Len(H) \in Nat
  BY <1>2, LenProperties
<1> HIDE DEF H, before, after, R, pieces, M, none
<1>6. /\ Until(c.lines, at) = TextOf(H \o <<before>>)
      /\ Beyond(c.lines, at) = TextOf(<<after>> \o R)
      /\ at.line = Len(H) + 1 /\ at.column = Len(before)
  <2>1. /\ Until(Sewn(H, before, after, R), SeamAt(H, before)) = TextOf(H \o <<before>>)
        /\ Beyond(Sewn(H, before, after, R), SeamAt(H, before)) = TextOf(<<after>> \o R)
    <3>1. H \in Seq(Line) /\ before \in Line /\ after \in Line /\ R \in Seq(Line)
      BY <1>2
    <3> QED BY ONLY <3>1, Seam
  <2> QED BY <1>2, <2>1 DEF SeamAt, At
\* Where the last piece ends: what is before it, and what of its line.
<1>7. \E G \in Seq(Line), z \in Line :
        /\ lines = Sewn(G, z, after, R) /\ p = SeamAt(G, z)
        /\ TextOf(G \o <<z>>) = Until(c.lines, at) \o text
  <2>1. CASE n = 1
    <3> DEFINE t == text
               z == before \o t
    <3>1. pieces = <<first>> /\ first \in Line
      <4>1. pieces \in Seq(Line)
        BY <1>3 DEF Document
      <4> QED BY <2>1, <4>1
    <3>2. first = t /\ t \in Line
      BY <1>3, <3>1, TextOfOne
    <3> HIDE DEF t
    <3>3. z \in Line /\ Len(z) = Len(before) + Len(t)
      BY <1>2, <3>2, TextsJoined
    <3>4. lines = Sewn(H, z, after, R)
      BY <2>1, <3>2 DEF Sewn
    <3>5. p = SeamAt(H, z)
      <4>1. (Len(H) + 1) + 1 - 1 = Len(H) + 1
        BY <1>5
      <4>2. p = At((Len(H) + 1) + 1 - 1, Len(before) + Len(t))
        BY <1>6, <2>1 DEF t
      <4> QED BY <3>3, <4>1, <4>2 DEF SeamAt
    <3>6. TextOf(Sewn(H, before, t, none)) = TextOf(H \o <<before>>) \o TextOf(<<t>> \o none)
      <4>1. H \in Seq(Line) /\ before \in Line /\ t \in Line /\ none \in Seq(Line)
        BY <1>2, <1>5, <3>2
      <4> QED BY ONLY <4>1, Seam
    <3>7. Sewn(H, before, t, none) = H \o <<z>>
      <4>1. H \o <<z>> \in Seq(Line)
        BY <1>2, <3>3, DocumentAppend DEF Document
      <4> QED BY <4>1, ConcatEmptySeq DEF Sewn, none
    <3>8. TextOf(<<t>> \o none) = t
      <4>1. <<t>> \in Seq(Line)
        BY <3>2
      <4>2. <<t>> \o none = <<t>>
        BY <4>1, ConcatEmptySeq DEF none
      <4> QED BY <3>2, <4>2, TextOfOne
    <3> HIDE DEF z, lines, p
    <3> QED BY <1>2, <1>6, <3>3, <3>4, <3>5, <3>6, <3>7, <3>8 DEF t
  <2>2. CASE n # 1
    <3> DEFINE x == before \o first
               y == last \o after
               F == H \o <<x>>
               G == F \o M
               rest == M \o <<last>>
    <3>1. /\ n \in Nat /\ n > 1 /\ M \in Seq(Line) /\ Len(M) = n - 2
          /\ first \in Line /\ last \in Line /\ pieces = <<first>> \o rest
      BY <1>3, <2>2, Pieces DEF M
    <3> HIDE DEF first, last, n
    <3>2. x \in Line /\ y \in Line
      BY <1>2, <3>1, TextsJoined
    <3>3. <<x>> \in Seq(Line) /\ <<y>> \in Seq(Line) /\ <<last>> \in Seq(Line)
      BY <3>1, <3>2
    <3> HIDE DEF x, y
    <3>4. F \in Seq(Line) /\ Len(F) = Len(H) + 1
      <4>1. F = Append(H, x)
        BY <1>2, <3>2, DocumentAppend
      <4> QED BY <1>2, <3>2, <4>1, DocumentAppend DEF Document
    <3>5. G \in Seq(Line) /\ Len(G) = Len(H) + 1 + Len(M) /\ rest \in Seq(Line)
      <4> HIDE DEF F
      <4>1. G \in Seq(Line) /\ Len(G) = Len(F) + Len(M)
        BY <3>1, <3>4, LinesConcat
      <4>2. rest \in Seq(Line)
        BY <3>1, <3>3, LinesConcat
      <4> QED BY <3>4, <4>1, <4>2
    <3>6. lines = Sewn(G, last, after, R)
      <4> DEFINE a == <<x>>
                 e == <<y>>
      <4>1. a \in Seq(Line) /\ e \in Seq(Line) /\ H \in Seq(Line) /\ M \in Seq(Line)
        BY <1>2, <3>1, <3>3
      <4>2. lines = (H \o ((a \o M) \o e)) \o R
        BY <2>2 DEF x, y
      <4>3. Sewn(G, last, after, R) = (((H \o a) \o M) \o e) \o R
        BY DEF Sewn, y
      <4> HIDE DEF a, e, G, lines
      <4>4. (H \o a) \o M = H \o (a \o M) /\ a \o M \in Seq(Line)
        BY ONLY <4>1, LinesConcat
      <4> DEFINE s == a \o M
      <4>5. (H \o s) \o e = H \o (s \o e)
        <5>1. s \in Seq(Line) /\ H \in Seq(Line) /\ e \in Seq(Line)
          BY <4>1, <4>4
        <5> HIDE DEF s, H
        <5>2. H \o s \in Seq(Line)
          BY ONLY <5>1, ConcatProperties
        <5> QED BY ONLY <5>1, ConcatAssociative
      <4> QED BY <4>2, <4>3, <4>4, <4>5
    <3>7. p = SeamAt(G, last)
      <4>1. Len(H) + 1 + n - 1 = Len(G) + 1
        BY <1>5, <3>1, <3>5
      <4>2. p = At(Len(H) + 1 + n - 1, Len(last))
        BY <1>6, <2>2
      <4> QED BY <4>1, <4>2 DEF SeamAt
    <3>8. TextOf(Sewn(H, before, first, rest))
            = TextOf(H \o <<before>>) \o TextOf(<<first>> \o rest)
      <4>1. H \in Seq(Line) /\ before \in Line /\ first \in Line /\ rest \in Seq(Line)
        BY <1>2, <3>1, <3>5
      <4> HIDE DEF rest
      <4> QED BY ONLY <4>1, Seam
    <3>9. Sewn(H, before, first, rest) = G \o <<last>>
      <4> DEFINE e == <<last>>
      <4>1. Sewn(H, before, first, rest) = F \o (M \o e)
        BY DEF Sewn, x
      <4>2. F \in Seq(Line) /\ e \in Seq(Line) /\ M \in Seq(Line)
        BY <3>1, <3>3, <3>4
      <4> HIDE DEF F, e
      <4>3. (F \o M) \o e = F \o (M \o e)
        BY ONLY <4>2, LinesConcat
      <4> QED BY <4>1, <4>3 DEF e
    <3> HIDE DEF G, rest, lines, p
    <3> QED BY <1>3, <1>6, <3>1, <3>5, <3>6, <3>7, <3>8, <3>9
  <2> QED BY <2>1, <2>2
<1>8. PICK G \in Seq(Line), z \in Line :
        /\ lines = Sewn(G, z, after, R) /\ p = SeamAt(G, z)
        /\ TextOf(G \o <<z>>) = Until(c.lines, at) \o text
  BY <1>7
<1> HIDE DEF lines, p, at
<1>9. /\ lines \in Document /\ p \in Position /\ InText(p, lines)
      /\ Until(lines, p) = TextOf(G \o <<z>>) /\ Beyond(lines, p) = TextOf(<<after>> \o R)
  <2>1. after \in Line /\ R \in Seq(Line)
    BY <1>2
  <2>2. /\ Sewn(G, z, after, R) \in Document /\ SeamAt(G, z) \in Position
        /\ InText(SeamAt(G, z), Sewn(G, z, after, R))
        /\ Until(Sewn(G, z, after, R), SeamAt(G, z)) = TextOf(G \o <<z>>)
        /\ Beyond(Sewn(G, z, after, R), SeamAt(G, z)) = TextOf(<<after>> \o R)
    BY ONLY <2>1, G \in Seq(Line), z \in Line, Seam
  <2> QED BY <1>8, <2>2
<1>10. LET d == Pasted(c, text)
       IN d.lines = lines /\ d.cursor = p /\ d.anchor = None /\ SameStacks(c, d)
  BY <1>4, <1>9, CaretAtEffect
<1> QED BY <1>6, <1>8, <1>9, <1>10 DEF at

\* d is b with the text from one offset to another replaced, the caret behind
\* what is there now.
Rewrites(b, d, from, to, text) ==
  LET was == TextOf(b.lines)
  IN /\ d \in Buffer /\ d.anchor = None
     /\ Until(d.lines, d.cursor) = SubSeq(was, 1, from) \o text
     /\ Beyond(d.lines, d.cursor) = SubSeq(was, to + 1, Len(was))

LEMMA RewritesEffect ==
  ASSUME NEW b \in Buffer, NEW d, NEW text \in Text,
         NEW from \in 0..Len(TextOf(b.lines)), NEW to \in 0..Len(TextOf(b.lines)),
         Rewrites(b, d, from, to, text)
  PROVE  LET was == TextOf(b.lines)
         IN /\ TextOf(d.lines) = SubSeq(was, 1, from) \o text \o SubSeq(was, to + 1, Len(was))
            /\ Len(TextOf(d.lines)) = from + Len(text) + (Len(was) - to)
            /\ OffsetOf(d, d.cursor) = from + Len(text)
            /\ ~ HasSelection(d)
<1> DEFINE was == TextOf(b.lines)
           u == SubSeq(was, 1, from)
           v == SubSeq(was, to + 1, Len(was))
           C == DOMAIN Fold \cup {Break}
<1>1. was \in Seq(C) /\ text \in Seq(C) /\ from \in 0..Len(was) /\ to \in 0..Len(was)
  BY TextOfType DEF Buffer, Text
<1>2. d \in Buffer /\ d.cursor \in Here(d) /\ d.anchor = None /\ d.lines \in Document
      /\ Until(d.lines, d.cursor) = u \o text /\ Beyond(d.lines, d.cursor) = v
  BY DEF Rewrites, Buffer, InPlace, Here
<1> HIDE DEF was, C
<1>3. u \in Seq(C) /\ v \in Seq(C) /\ Len(u) = from /\ Len(v) = Len(was) - to
  BY <1>1, Halves
<1> HIDE DEF u, v
<1>4. TextOf(d.lines) = (u \o text) \o v
  BY <1>2, Halved DEF Here
<1>5. /\ u \o text \in Seq(C) /\ Len(u \o text) = from + Len(text)
      /\ Len((u \o text) \o v) = Len(u \o text) + Len(v)
  <2>1. u \o text \in Seq(C) /\ Len(u \o text) = Len(u) + Len(text)
    BY <1>1, <1>3, ConcatProperties
  <2> DEFINE s == u \o text
  <2> HIDE DEF s
  <2>2. Len(s \o v) = Len(s) + Len(v)
    BY <1>3, <2>1, ConcatProperties DEF s
  <2> QED BY <1>3, <2>1, <2>2 DEF s
<1>6. OffsetOf(d, d.cursor) = from + Len(text)
  BY <1>2, <1>5, OffsetIsLength
<1>7. ~ HasSelection(d)
  BY <1>2 DEF HasSelection, Anchor
<1> QED BY <1>3, <1>4, <1>5, <1>6, <1>7 DEF was, u, v

LEMMA RewritesCaret ==
  ASSUME NEW b \in Buffer, NEW d, NEW text \in Text,
         NEW from \in 0..Len(TextOf(b.lines)), NEW to \in 0..Len(TextOf(b.lines)),
         Rewrites(b, d, from, to, text)
  PROVE  OffsetOf(d, d.cursor) = from + Len(text)
BY RewritesEffect

LEMMA BegunSelection ==
  ASSUME NEW b \in Buffer, NEW kind \in {"insert", "delete"}, NEW coalesces \in BOOLEAN
  PROVE  LET c == EditBegun(b, kind, coalesces)
         IN /\ c \in Buffer /\ c.lines = b.lines /\ c.cursor = b.cursor
            /\ HasSelection(c) = HasSelection(b)
            /\ SelectionStart(c) = SelectionStart(b) /\ SelectionEnd(c) = SelectionEnd(b)
BY EditBegunType DEF HasSelection, SelectionStart, SelectionEnd, Anchor

LEMMA SelectionDeletedEffect ==
  ASSUME NEW b \in Buffer
  PROVE  LET d == SelectionDeleted(b)
         IN /\ d \in Buffer /\ SameStacks(b, d)
            /\ Until(d.lines, d.cursor) = Until(b.lines, SelectionStart(b))
            /\ Beyond(d.lines, d.cursor) = Beyond(b.lines, SelectionEnd(b))
            /\ HasSelection(b) => d.anchor = None
<1>1. SelectionDeleted(b) \in Buffer
  BY SelectionDeletedType
<1>2. CASE HasSelection(b)
  <2>1. SelectionStart(b) \in Here(b) /\ SelectionEnd(b) \in Here(b)
    BY Ends
  <2>2. SelectionDeleted(b) = Deleted(b, SelectionStart(b), SelectionEnd(b))
    BY <1>2 DEF SelectionDeleted
  <2> QED BY <1>1, <2>1, <2>2, DeletedEffect
<1>3. CASE ~ HasSelection(b)
  <2>1. SelectionDeleted(b) = b
    BY <1>3 DEF SelectionDeleted
  <2>2. SelectionStart(b) = b.cursor /\ SelectionEnd(b) = b.cursor
    BY <1>3, SelectionOffsets
  <2> QED BY <1>3, <2>1, <2>2 DEF SameStacks
<1> QED BY <1>2, <1>3

LEMMA ErasedEffect ==
  ASSUME NEW b \in Buffer, NEW p \in Here(b), NEW q \in Here(b), HasSelection(b) \/ p # q
  PROVE  LET start == IF HasSelection(b) THEN SelectionStart(b) ELSE p
             end == IF HasSelection(b) THEN SelectionEnd(b) ELSE q
             d == Erased(b, p, q)
         IN /\ Rewrites(b, d, OffsetOf(b, start), OffsetOf(b, end), <<>>)
            /\ SameStacks(EditBegun(b, "delete", ~ HasSelection(b)), d)
<1> DEFINE start == IF HasSelection(b) THEN SelectionStart(b) ELSE p
           end == IF HasSelection(b) THEN SelectionEnd(b) ELSE q
           d == Erased(b, p, q)
           co == ~ HasSelection(b)
           c == EditBegun(b, "delete", co)
           was == TextOf(b.lines)
           none == <<>>
<1>1. start \in Here(b) /\ end \in Here(b) /\ d \in Buffer /\ co \in BOOLEAN
  BY Ends, ErasedType
<1>2. c \in Buffer /\ c.lines = b.lines /\ HasSelection(c) = HasSelection(b)
      /\ SelectionStart(c) = SelectionStart(b) /\ SelectionEnd(c) = SelectionEnd(b)
  BY <1>1, BegunSelection
<1>3. d = Deleted(c, start, end)
  <2>1. CASE HasSelection(b)
    <3>1. d = SelectionDeleted(EditBegun(b, "delete", FALSE)) /\ co = FALSE
      BY <2>1 DEF Erased
    <3>2. d = SelectionDeleted(c)
      BY <3>1
    <3> HIDE DEF c, d
    <3> QED BY <1>2, <2>1, <3>2 DEF SelectionDeleted
  <2>2. CASE ~ HasSelection(b)
    <3>1. co = TRUE
      BY <2>2
    <3>2. d = Deleted(EditBegun(b, "delete", TRUE), p, q)
      BY <2>2 DEF Erased
    <3> QED BY <2>2, <3>1, <3>2
  <2> QED BY <2>1, <2>2
<1> HIDE DEF start, end, c, d
<1>4. start \in Here(c) /\ end \in Here(c)
  BY <1>1, <1>2 DEF Here
<1>5. /\ d.cursor = start /\ d.anchor = None /\ SameStacks(c, d)
      /\ Until(d.lines, d.cursor) = Until(b.lines, start)
      /\ Beyond(d.lines, d.cursor) = Beyond(b.lines, end)
  BY <1>2, <1>3, <1>4, DeletedEffect
<1>6. /\ Until(b.lines, start) = SubSeq(was, 1, OffsetOf(b, start))
      /\ Beyond(b.lines, end) = SubSeq(was, OffsetOf(b, end) + 1, Len(was))
  BY <1>1, PositionBack
<1>7. Until(b.lines, start) \o none = Until(b.lines, start)
  <2>1. Until(b.lines, start) \in Text
    BY <1>1, Halved DEF Here, Buffer
  <2> QED BY <2>1, ConcatEmptySeq DEF Text
<1>8. Rewrites(b, d, OffsetOf(b, start), OffsetOf(b, end), <<>>)
  BY <1>1, <1>5, <1>6, <1>7 DEF Rewrites
<1> QED BY <1>5, <1>8 DEF start, end, d, c

LEMMA InsertedImplEffect ==
  ASSUME NEW b \in Buffer, NEW text \in Text, NEW coalesces \in BOOLEAN,
         text # <<>> \/ HasSelection(b)
  PROVE  LET d == InsertedImpl(b, text, coalesces)
         IN /\ Rewrites(b, d, OffsetOf(b, SelectionStart(b)), OffsetOf(b, SelectionEnd(b)), text)
            /\ SameStacks(EditBegun(b, "insert", coalesces), d)
<1> DEFINE d == InsertedImpl(b, text, coalesces)
           c == EditBegun(b, "insert", coalesces)
           e == SelectionDeleted(c)
           start == SelectionStart(b)
           end == SelectionEnd(b)
           was == TextOf(b.lines)
<1>1. start \in Here(b) /\ end \in Here(b) /\ d \in Buffer
  BY Ends, InsertedImplType
<1>2. c \in Buffer /\ c.lines = b.lines /\ SelectionStart(c) = start /\ SelectionEnd(c) = end
  BY BegunSelection
<1>3. d = Pasted(e, text)
  <2>1. ~ (text = <<>> /\ ~ HasSelection(b))
    OBVIOUS
  <2> QED BY <2>1, Zenon DEF InsertedImpl, Pasted
<1> HIDE DEF c, d, start, end
<1>4. /\ e \in Buffer /\ SameStacks(c, e)
      /\ Until(e.lines, e.cursor) = Until(b.lines, start)
      /\ Beyond(e.lines, e.cursor) = Beyond(b.lines, end)
  BY <1>2, SelectionDeletedEffect
<1> HIDE DEF e
<1>5. /\ d.anchor = None /\ SameStacks(e, d)
      /\ Until(d.lines, d.cursor) = Until(e.lines, e.cursor) \o text
      /\ Beyond(d.lines, d.cursor) = Beyond(e.lines, e.cursor)
  BY <1>3, <1>4, PastedEffect
<1>6. /\ Until(b.lines, start) = SubSeq(was, 1, OffsetOf(b, start))
      /\ Beyond(b.lines, end) = SubSeq(was, OffsetOf(b, end) + 1, Len(was))
  BY <1>1, PositionBack
<1>7. SameStacks(c, d)
  BY <1>4, <1>5 DEF SameStacks
<1>8. Rewrites(b, d, OffsetOf(b, start), OffsetOf(b, end), text)
  BY <1>1, <1>4, <1>5, <1>6 DEF Rewrites
<1> QED BY <1>7, <1>8 DEF c, d, start, end

-----------------------------------------------------------------------------
(* What becomes of the stacks.                                               *)

LEMMA TextsType ==
  ASSUME NEW s \in Seq(Entry)
  PROVE  /\ Texts(s) \in Seq(Text) /\ Len(Texts(s)) = Len(s) /\ Len(s) \in Nat
         /\ \A i \in 1..Len(s) : Texts(s)[i] = TextOf(s[i].lines) /\ s[i] \in Entry
<1> DEFINE T == Entry
           U == Text
           n == Len(s)
<1>1. n \in Nat /\ \A i \in 1..n : s[i] \in T
  BY LenProperties, ElementOfSeq
<1>2. \A i \in 1..n : TextOf(s[i].lines) \in U
  BY <1>1, TextOfType DEF Entry
<1>3. Texts(s) \in [1..n -> U] /\ \A i \in 1..n : Texts(s)[i] = TextOf(s[i].lines)
  BY <1>2 DEF Texts
<1>4. Texts(s) \in Seq(U) /\ Len(Texts(s)) = n
  <2> HIDE DEF U, n
  <2> QED BY <1>1, <1>3
<1> QED BY <1>1, <1>3, <1>4

LEMMA TextsMore ==
  ASSUME NEW s \in Seq(Entry), NEW e \in Entry
  PROVE  Texts(Append(s, e)) = Append(Texts(s), TextOf(e.lines))
<1> DEFINE more == Append(s, e)
           a == Texts(more)
           t == TextOf(e.lines)
           b == Append(Texts(s), t)
           n == Len(s)
<1>1. /\ more \in Seq(Entry) /\ Len(more) = n + 1 /\ more[n + 1] = e
      /\ \A i \in 1..n : more[i] = s[i]
  <2> DEFINE T == Entry
  <2> HIDE DEF T
  <2>1. s \in Seq(T) /\ e \in T
    BY DEF T
  <2>2. /\ more \in Seq(T) /\ Len(more) = n + 1 /\ more[n + 1] = e
        /\ \A i \in 1..n : more[i] = s[i]
    BY <2>1, AppendProperties
  <2> QED BY <2>2 DEF T
<1>2. /\ Texts(s) \in Seq(Text) /\ Len(Texts(s)) = n /\ n \in Nat
      /\ \A i \in 1..n : Texts(s)[i] = TextOf(s[i].lines)
  BY TextsType
<1> HIDE DEF more
<1>3. a \in Seq(Text) /\ Len(a) = n + 1 /\ \A i \in 1..n + 1 : a[i] = TextOf(more[i].lines)
  BY <1>1, TextsType
<1>4. t \in Text
  BY TextOfType DEF Entry
<1> HIDE DEF a, t
<1>5. /\ b \in Seq(Text) /\ Len(b) = n + 1 /\ b[n + 1] = t
      /\ \A i \in 1..n : b[i] = Texts(s)[i]
  <2> DEFINE U == Text
             r == Texts(s)
  <2>1. r \in Seq(U) /\ t \in U /\ Len(r) = n
    BY <1>2, <1>4
  <2> HIDE DEF U, r, n
  <2> QED BY <2>1, AppendProperties DEF U, r
<1> HIDE DEF b, n
<1>6. ASSUME NEW i \in 1..n + 1 PROVE a[i] = b[i]
  <2>1. i = n + 1 \/ i \in 1..n
    BY <1>2
  <2>2. CASE i = n + 1
    BY <1>1, <1>3, <1>5, <2>2 DEF t
  <2>3. CASE i \in 1..n
    BY <1>1, <1>2, <1>3, <1>5, <2>3
  <2> QED BY <2>1, <2>2, <2>3
<1>7. a = b
  <2> DEFINE U == Text
  <2>1. a \in Seq(U) /\ b \in Seq(U) /\ Len(a) = Len(b) /\ \A i \in 1..Len(a) : a[i] = b[i]
    BY <1>3, <1>5, <1>6
  <2> HIDE DEF U
  <2> QED BY <2>1, SeqEqual
<1> QED BY <1>7 DEF a, b, more, t

\* A stack without its oldest, and without its latest.
LEMMA TextsLess ==
  ASSUME NEW s \in Seq(Entry), s # <<>>
  PROVE  /\ Tail(s) \in Seq(Entry) /\ Len(Tail(s)) = Len(s) - 1
         /\ Texts(Tail(s)) = Tail(Texts(s))
         /\ Front(s) \in Seq(Entry) /\ Len(Front(s)) = Len(s) - 1 /\ Last(s) \in Entry
         /\ Texts(s) = Append(Texts(Front(s)), TextOf(Last(s).lines))
         /\ Texts(s)[Len(Texts(s))] = TextOf(Last(s).lines)
<1> DEFINE n == Len(s)
           T == Entry
           U == Text
           rest == Tail(s)
           f == Front(s)
           l == Last(s)
<1>1. s \in Seq(T) /\ n \in Nat \ {0}
  BY EmptySeq, LenProperties
<1>2. rest \in Seq(T) /\ Len(rest) = n - 1 /\ \A i \in 1..n - 1 : rest[i] = s[i + 1]
  <2> HIDE DEF T
  <2> QED BY <1>1, HeadTailProperties
<1>3. f \in Seq(T) /\ Len(f) = n - 1 /\ l \in T /\ s = Append(f, l)
  <2> DEFINE g == SubSeq(s, 1, n - 1)
  <2> HIDE DEF T
  <2>1. g \in Seq(T) /\ Len(g) = n - 1
    <3>1. n - 1 \in 0..Len(s)
      BY <1>1
    <3> HIDE DEF n
    <3> QED BY ONLY <1>1, <3>1, Halves
  <2>2. s[n] \in T
    BY <1>1, ElementOfSeq
  <2>3. f = g /\ l = s[n]
    BY DEF Front, Last
  <2>4. SubSeq(s, 1, n) = g \o <<s[n]>> /\ SubSeq(s, 1, n) = s
    <3>1. 1 \in 1..Len(s) /\ n \in 1..Len(s)
      BY <1>1
    <3> QED BY <1>1, <3>1, SubSeqRecursiveSecond, SubSeqFull
  <2>5. Append(g, s[n]) = g \o <<s[n]>>
    BY <2>1, <2>2, AppendIsConcat
  <2> QED BY <2>1, <2>2, <2>3, <2>4, <2>5
<1> HIDE DEF rest, f, l
<1>4. Texts(s) = Append(Texts(f), TextOf(l.lines))
  BY <1>3, TextsMore
<1>5. /\ Texts(s) \in Seq(U) /\ Len(Texts(s)) = n
      /\ \A i \in 1..n : Texts(s)[i] = TextOf(s[i].lines)
  BY TextsType
<1>6. /\ Texts(rest) \in Seq(U) /\ Len(Texts(rest)) = n - 1
      /\ \A i \in 1..n - 1 : Texts(rest)[i] = TextOf(rest[i].lines)
  BY <1>2, TextsType
<1>7. Texts(rest) = Tail(Texts(s))
  <2> DEFINE r == Texts(rest)
             q == Texts(s)
  <2> HIDE DEF r, q, U
  <2>1. q \in Seq(U) /\ Len(q) = n /\ r \in Seq(U) /\ Len(r) = n - 1
    BY <1>5, <1>6 DEF r, q
  <2>2. q # <<>>
    BY <1>1, <2>1
  <2>3. Tail(q) \in Seq(U) /\ Len(Tail(q)) = n - 1 /\ \A i \in 1..n - 1 : Tail(q)[i] = q[i + 1]
    BY <2>1, <2>2, HeadTailProperties
  <2>4. ASSUME NEW i \in 1..n - 1 PROVE r[i] = Tail(q)[i]
    <3>1. i + 1 \in 1..n
      BY <1>1
    <3>2. r[i] = TextOf(s[i + 1].lines)
      BY <1>2, <1>6 DEF r
    <3>3. q[i + 1] = TextOf(s[i + 1].lines)
      BY <1>5, <3>1 DEF q
    <3> QED BY <2>3, <3>2, <3>3
  <2>5. \A i \in 1..Len(r) : r[i] = Tail(q)[i]
    BY <2>1, <2>4
  <2>6. Len(r) = Len(Tail(q))
    BY <2>1, <2>3
  <2>7. r = Tail(q)
    BY <2>1, <2>3, <2>5, <2>6, SeqEqual
  <2> QED BY <2>7 DEF r, q
<1>8. Texts(s)[Len(Texts(s))] = TextOf(l.lines)
  <2>1. n \in 1..n /\ l = s[n]
    BY <1>1 DEF l, Last
  <2> QED BY <1>5, <2>1
<1> QED BY <1>2, <1>3, <1>4, <1>7, <1>8 DEF rest, f, l

Open(b, kind) == b.group = [kind |-> kind, coalescing |-> TRUE]

LEMMA UndoPushedTexts ==
  ASSUME NEW b \in Buffer, NEW e \in Entry, Len(b.undo) <= HistoryCap
  PROVE  LET d == UndoPushed(b, e)
         IN /\ Texts(d.undo) = IF Len(b.undo) < HistoryCap
                               THEN Append(Texts(b.undo), TextOf(e.lines))
                               ELSE Append(Tail(Texts(b.undo)), TextOf(e.lines))
            /\ Len(d.undo) <= HistoryCap
            /\ Len(b.undo) < HistoryCap => Len(d.undo) = Len(b.undo) + 1
            /\ \A f \in {"lines", "cursor", "anchor", "desired", "redo", "group"} : d[f] = b[f]
<1> DEFINE s == b.undo
           n == Len(s)
           new == IF n = HistoryCap THEN Append(Tail(s), e) ELSE Append(s, e)
           T == Entry
<1>1. s \in Seq(T) /\ n \in Nat /\ HistoryCap \in Nat \ {0} /\ n <= HistoryCap
  BY EditorAssumption, LenProperties DEF Buffer
<1>2. UndoPushed(b, e).undo = new
      /\ \A f \in {"lines", "cursor", "anchor", "desired", "redo", "group"} :
           UndoPushed(b, e)[f] = b[f]
  BY UndoPushedType DEF UndoPushed, Buffer
<1> HIDE DEF s, new, n
<1>3. CASE n = HistoryCap
  <2>1. s # <<>>
    BY <1>1, <1>3 DEF n
  <2>2. Tail(s) \in Seq(T) /\ Len(Tail(s)) = n - 1 /\ Texts(Tail(s)) = Tail(Texts(s))
    BY <1>1, <2>1, TextsLess DEF n
  <2>3. new = Append(Tail(s), e)
    BY <1>3 DEF new
  <2>4. Texts(new) = Append(Tail(Texts(s)), TextOf(e.lines))
    BY <2>2, <2>3, TextsMore
  <2>5. Len(new) = n
    <3> DEFINE r == Tail(s)
    <3> HIDE DEF r, T
    <3>1. r \in Seq(T) /\ Len(r) = n - 1 /\ new = Append(r, e) /\ e \in T
      BY <2>2, <2>3 DEF r, T
    <3>2. Len(Append(r, e)) = Len(r) + 1
      BY <3>1, AppendProperties
    <3> QED BY <1>1, <3>1, <3>2
  <2> QED BY <1>1, <1>2, <1>3, <2>4, <2>5 DEF n, s
<1>4. CASE n # HistoryCap
  <2>1. new = Append(s, e) /\ n < HistoryCap
    BY <1>1, <1>4 DEF new
  <2>2. Texts(new) = Append(Texts(s), TextOf(e.lines))
    BY <1>1, <2>1, TextsMore
  <2>3. Len(new) = n + 1
    <3> HIDE DEF T
    <3>1. e \in T
      BY DEF T
    <3> QED BY <1>1, <2>1, <3>1, AppendProperties DEF n
  <2> QED BY <1>1, <1>2, <2>1, <2>2, <2>3 DEF n, s
<1> QED BY <1>3, <1>4

LEMMA BegunStacks ==
  ASSUME NEW b \in Buffer, NEW kind \in {"insert", "delete"}, NEW coalesces \in BOOLEAN,
         NEW d, SameStacks(EditBegun(b, kind, coalesces), d), Len(b.undo) <= HistoryCap
  PROVE  /\ d.redo = <<>> /\ d.group = [kind |-> kind, coalescing |-> coalesces]
         /\ Len(d.undo) <= HistoryCap
         /\ Texts(d.undo) = IF coalesces /\ Open(b, kind) THEN Texts(b.undo)
                            ELSE IF Len(b.undo) < HistoryCap
                                 THEN Append(Texts(b.undo), TextOf(b.lines))
                                 ELSE Append(Tail(Texts(b.undo)), TextOf(b.lines))
<1> DEFINE none == <<>>
           E == Entry
           cleared == [b EXCEPT !.redo = none]
           pushed == UndoPushed(cleared, SnapshotOf(b))
           g == [kind |-> kind, coalescing |-> coalesces]
           c == EditBegun(b, kind, coalesces)
<1>1. /\ cleared \in Buffer /\ cleared.redo = none /\ cleared.undo = b.undo
      /\ cleared.group = b.group
  <2>1. none \in Seq(E)
    OBVIOUS
  <2> HIDE DEF none
  <2> QED BY <2>1 DEF Buffer, InPlace
<1>2. SnapshotOf(b) \in Entry /\ SnapshotOf(b).lines = b.lines
  BY SnapshotType DEF SnapshotOf
<1>3. d.undo = c.undo /\ d.redo = c.redo /\ d.group = c.group
  BY DEF SameStacks
<1>4. c = IF coalesces /\ Open(b, kind) THEN cleared ELSE [pushed EXCEPT !.group = g]
  BY DEF EditBegun, Open
<1> HIDE DEF cleared, c, none, g
<1>5. /\ pushed \in Buffer /\ pushed.redo = none /\ Len(pushed.undo) <= HistoryCap
      /\ Texts(pushed.undo) = IF Len(b.undo) < HistoryCap
                              THEN Append(Texts(b.undo), TextOf(b.lines))
                              ELSE Append(Tail(Texts(b.undo)), TextOf(b.lines))
  BY <1>1, <1>2, UndoPushedTexts, UndoPushedType
<1> HIDE DEF pushed
<1>6. CASE coalesces /\ Open(b, kind)
  <2>1. c = cleared
    BY <1>4, <1>6
  <2> QED BY <1>1, <1>3, <1>6, <2>1 DEF Open, none
<1>7. CASE ~ (coalesces /\ Open(b, kind))
  <2>1. c = [pushed EXCEPT !.group = g]
    BY <1>4, <1>7
  <2>2. c.undo = pushed.undo /\ c.redo = pushed.redo /\ c.group = g
    BY <1>5, <2>1 DEF Buffer
  <2> QED BY <1>3, <1>5, <1>7, <2>2 DEF g, none
<1> QED BY <1>6, <1>7

LEMMA ClampHere ==
  ASSUME NEW b \in Buffer, NEW p \in Here(b)
  PROVE  Clamp(b, p) = p
<1>1. /\ p \in Position /\ p.line \in 1..Len(b.lines) /\ p.column \in 0..Len(b.lines[p.line])
      /\ b.lines \in Seq(Line) /\ Len(b.lines) \in Nat /\ p.line \in Nat /\ p.column \in Nat
      /\ p = [line |-> p.line, column |-> p.column]
  BY DEF Here, InText, Position, Buffer, Document
<1>2. Len(b.lines[p.line]) \in Nat
  BY <1>1 DEF Line
<1>3. Smaller(p.line, Len(b.lines)) = p.line
      /\ Smaller(p.column, Len(b.lines[p.line])) = p.column
  BY <1>1, <1>2 DEF Smaller
<1> QED BY <1>1, <1>3 DEF Clamp, At

LEMMA SelectionSetEffect ==
  ASSUME NEW b \in Buffer, NEW p \in Here(b), NEW q \in Here(b)
  PROVE  LET d == SelectionSet(b, p, q)
         IN /\ d \in Buffer /\ d.lines = b.lines /\ d.undo = b.undo /\ d.redo = b.redo
            /\ d.cursor = q /\ Anchor(d) = p
            /\ d.group = IF Anchor(b) = p /\ b.cursor = q THEN b.group ELSE None
<1>1. SelectionSet(b, p, q) \in Buffer
  BY SelectionSetType DEF Here
<1>2. Clamp(b, p) = p /\ Clamp(b, q) = q
  BY ClampHere
<1>3. p # None
  BY NoneAssumption DEF Here, Position
<1>4. LET d == SelectionSet(b, p, q)
      IN /\ d.lines = b.lines /\ d.undo = b.undo /\ d.redo = b.redo
         /\ d.cursor = q /\ d.anchor = p
         /\ d.group = IF Anchor(b) = p /\ b.cursor = q THEN b.group ELSE None
  BY <1>2 DEF SelectionSet, Buffer
<1> QED BY <1>1, <1>3, <1>4 DEF Anchor

LEMMA SameOffsets ==
  ASSUME NEW b \in Buffer, NEW c \in Buffer, c.lines = b.lines
  PROVE  /\ Here(c) = Here(b)
         /\ \A p \in Here(b) : OffsetOf(c, p) = OffsetOf(b, p)
         /\ \A o : PositionAt(c, o) = PositionAt(b, o)
<1>1. Here(c) = Here(b)
  BY DEF Here
<1>2. \A p \in Here(b) : OffsetOf(c, p) = OffsetOf(b, p)
  BY <1>1, OffsetIsLength
<1> QED BY <1>1, <1>2 DEF PositionAt

\* A range selected is replaced by what is typed.
LEMMA ReplacedEffect ==
  ASSUME NEW b \in Buffer, NEW text \in Text,
         NEW from \in 0..Len(TextOf(b.lines)), NEW to \in 0..Len(TextOf(b.lines)),
         from <= to, from # to \/ text # <<>>
  PROVE  LET s == SelectionSet(b, PositionAt(b, from), PositionAt(b, to))
             coalesces == from = to /\ text # <<Break>> /\ Len(text) = 1
             d == Replaced(b, Span(from, to), text)
         IN /\ Rewrites(b, d, from, to, text)
            /\ SameStacks(EditBegun(s, "insert", coalesces), d)
            /\ s \in Buffer /\ s.lines = b.lines /\ s.undo = b.undo /\ s.redo = b.redo
            /\ s.group = None \/ /\ s.group = b.group /\ Anchor(b) = PositionAt(b, from)
                                 /\ b.cursor = PositionAt(b, to)
<1> DEFINE p == PositionAt(b, from)
           q == PositionAt(b, to)
           s == SelectionSet(b, p, q)
           d == Replaced(b, Span(from, to), text)
           coalesces == from = to /\ text # <<Break>> /\ Len(text) = 1
           start == SelectionStart(s)
           end == SelectionEnd(s)
<1>1. /\ p \in Here(b) /\ OffsetOf(b, p) = from /\ q \in Here(b) /\ OffsetOf(b, q) = to
      /\ from \in Nat /\ to \in Nat
  BY PositionThere
<1>2. /\ s \in Buffer /\ s.lines = b.lines /\ s.undo = b.undo /\ s.redo = b.redo
      /\ s.cursor = q /\ Anchor(s) = p
      /\ s.group = IF Anchor(b) = p /\ b.cursor = q THEN b.group ELSE None
  <2> HIDE DEF p, q
  <2> QED BY <1>1, SelectionSetEffect
<1>3. d = Inserted(s, text)
  BY DEF Replaced, Span
<1> HIDE DEF p, q, s, d
<1>4. HasSelection(s) <=> from # to
  BY <1>1, <1>2 DEF HasSelection, p, q
<1>5. p \in Here(s) /\ q \in Here(s) /\ OffsetOf(s, p) = from /\ OffsetOf(s, q) = to
  BY <1>1, <1>2, SameOffsets
<1>6. OffsetOf(s, start) = from /\ OffsetOf(s, end) = to
  <2>1. OffsetOf(s, start) <= OffsetOf(s, end)
    BY <1>2, SelectionOffsets
  <2>2. (start = p /\ end = q) \/ (start = q /\ end = p)
    BY <1>2 DEF SelectionStart, SelectionEnd
  <2>3. CASE start = p /\ end = q
    BY <1>5, <2>3
  <2>4. CASE start = q /\ end = p
    <3>1. to <= from
      BY <1>5, <2>1, <2>4
    <3> QED BY <1>1, <1>5, <2>4, <3>1
  <2> QED BY <2>2, <2>3, <2>4
<1>7. d = InsertedImpl(s, text, coalesces)
  BY <1>3, <1>4 DEF Inserted
<1>8. /\ Rewrites(s, d, from, to, text)
      /\ SameStacks(EditBegun(s, "insert", coalesces), d)
  <2>1. coalesces \in BOOLEAN /\ (text # <<>> \/ HasSelection(s))
    BY <1>4
  <2> HIDE DEF coalesces, start, end
  <2>2. /\ Rewrites(s, d, OffsetOf(s, start), OffsetOf(s, end), text)
        /\ SameStacks(EditBegun(s, "insert", coalesces), d)
    BY <1>2, <1>7, <2>1, InsertedImplEffect DEF start, end
  <2> QED BY <1>6, <2>2
<1>9. Rewrites(b, d, from, to, text)
  BY <1>2, <1>8 DEF Rewrites
<1> QED BY <1>2, <1>8, <1>9 DEF p, q, s, d

-----------------------------------------------------------------------------
(* The buffer as one text with a history.                                    *)

Requests == [from : Nat, to : Nat, text : Text]

\* While a group of edits may go on, the last one's end is where the caret is.
HistoryInv ==
  /\ EditorInv
  /\ request \in Requests \cup {None}
  /\ marked # None => marked.from <= marked.to
  /\ Len(buffer.undo) + Len(buffer.redo) <= HistoryCap
  /\ \A kind \in {"insert", "delete"} : Open(buffer, kind) =>
       /\ request # None /\ ~ HasSelection(buffer)
       /\ OffsetOf(buffer, buffer.cursor) = request.from + Len(request.text)
       /\ request.text = <<>> <=> kind = "delete"

\* What HistoryInv says of the stacks and the group.
Grouped ==
  /\ request \in Requests \cup {None}
  /\ Len(buffer.undo) + Len(buffer.redo) <= HistoryCap
  /\ \A kind \in {"insert", "delete"} : Open(buffer, kind) =>
       /\ request # None /\ ~ HasSelection(buffer)
       /\ OffsetOf(buffer, buffer.cursor) = request.from + Len(request.text)
       /\ request.text = <<>> <=> kind = "delete"

\* An edit of s, which is the buffer up to what is selected, and d, which is the
\* edited one up to what is selected, are an edit of the history.
LEMMA EditIsEdit ==
  ASSUME HistoryInv,
         NEW s \in Buffer, s.lines = buffer.lines, s.undo = buffer.undo, s.redo = buffer.redo,
         NEW kind \in {"insert", "delete"}, NEW coalesces \in BOOLEAN, NEW text \in Text,
         NEW from \in 0..Len(TextOf(buffer.lines)), NEW to \in 0..Len(TextOf(buffer.lines)),
         from <= to, from # to \/ text # <<>>,
         NEW c, Rewrites(buffer, c, from, to, text), SameStacks(EditBegun(s, kind, coalesces), c),
         coalesces => (text = <<>> <=> kind = "delete"),
         coalesces /\ Open(s, kind) =>
           /\ Open(buffer, kind)
           /\ from <= OffsetOf(buffer, buffer.cursor) /\ OffsetOf(buffer, buffer.cursor) <= to,
         NEW d \in Buffer, d.lines = c.lines, d.undo = c.undo, d.redo = c.redo,
         d.group = None \/ (d.group = c.group /\ ~ HasSelection(d) /\ d.cursor = c.cursor),
         from <= OffsetOf(d, SelectionStart(d)),
         OffsetOf(d, SelectionEnd(d)) <= from + Len(text),
         buffer' = d, request' = [from |-> from, to |-> to, text |-> text]
  PROVE  History!Edit /\ Grouped'
<1> DEFINE was == TextOf(buffer.lines)
           past == Texts(buffer.undo)
<1>1. /\ buffer \in Buffer /\ was \in Text /\ Len(was) \in Nat
      /\ from \in Nat /\ to \in Nat /\ to <= Len(was)
  BY TextOfType DEF HistoryInv, EditorInv, Buffer, Text
<1>2. Len(s.undo) <= HistoryCap
  <2>1. buffer.undo \in Seq(Entry) /\ buffer.redo \in Seq(Entry)
    BY <1>1 DEF Buffer
  <2>2. Len(buffer.undo) \in Nat /\ Len(buffer.redo) \in Nat
    BY <2>1, LenProperties
  <2>3. Len(buffer.undo) + Len(buffer.redo) <= HistoryCap /\ HistoryCap \in Nat
    BY EditorAssumption DEF HistoryInv
  <2> DEFINE m == Len(buffer.undo)
             n == Len(buffer.redo)
  <2>4. m \in Nat /\ n \in Nat /\ m + n <= HistoryCap /\ HistoryCap \in Nat
    BY <2>2, <2>3
  <2> HIDE DEF m, n
  <2>5. m <= HistoryCap
    BY <2>4
  <2> QED BY <2>5 DEF m
<1>3. /\ c.redo = <<>> /\ c.group = [kind |-> kind, coalescing |-> coalesces]
      /\ Len(c.undo) <= HistoryCap
      /\ Texts(c.undo) = IF coalesces /\ Open(s, kind) THEN past
                         ELSE IF Len(buffer.undo) < HistoryCap
                              THEN Append(past, was) ELSE Append(Tail(past), was)
  BY <1>2, BegunStacks
<1>4. /\ TextOf(c.lines) = SubSeq(was, 1, from) \o text \o SubSeq(was, to + 1, Len(was))
      /\ OffsetOf(c, c.cursor) = from + Len(text) /\ ~ HasSelection(c) /\ c \in Buffer
      /\ c.cursor \in Here(c)
  <2>1. c \in Buffer
    BY DEF Rewrites
  <2>2. c.cursor \in Here(c)
    BY <2>1, Ends
  <2> DEFINE b == buffer
  <2>3. b \in Buffer /\ from \in 0..Len(TextOf(b.lines)) /\ to \in 0..Len(TextOf(b.lines))
        /\ Rewrites(b, c, from, to, text) /\ was = TextOf(b.lines)
    BY <1>1
  <2> HIDE DEF b, was
  <2>4. TextOf(c.lines) = SubSeq(was, 1, from) \o text \o SubSeq(was, to + 1, Len(was))
    BY ONLY text \in Text, <2>3, RewritesEffect
  <2>5. OffsetOf(c, c.cursor) = from + Len(text)
    BY ONLY text \in Text, <2>3, RewritesCaret
  <2>6. ~ HasSelection(c)
    BY ONLY text \in Text, <2>3, RewritesEffect
  <2> QED BY <2>1, <2>2, <2>4, <2>5, <2>6
<1>5. request' \in Requests /\ request' # None
  <2>1. request' \in Requests
    BY <1>1 DEF Requests
  <2> QED BY <2>1, NoneAssumption DEF Requests
<1>6. Len(past) = Len(buffer.undo)
  BY <1>1, TextsType DEF Buffer
<1>7. /\ OffsetOf(d, SelectionStart(d)) \in Nat /\ OffsetOf(d, SelectionEnd(d)) \in Nat
      /\ OffsetOf(d, SelectionStart(d)) <= OffsetOf(d, SelectionEnd(d))
  BY SelectionOffsets
<1>8. coalesces /\ Open(s, kind) => History!Continues
  <2> SUFFICES ASSUME coalesces, Open(s, kind) PROVE History!Continues
    OBVIOUS
  <2>1. Open(buffer, kind)
    OBVIOUS
  <2>2. /\ request # None /\ OffsetOf(buffer, buffer.cursor) = request.from + Len(request.text)
        /\ request.text = <<>> <=> kind = "delete"
    BY <2>1 DEF HistoryInv
  <2>3. /\ from <= request.from + Len(request.text)
        /\ request.from + Len(request.text) <= to
    BY <2>2
  <2>4. request.text = <<>> <=> text = <<>>
    BY <2>2
  <2>5. request'.from = from /\ request'.to = to /\ request'.text = text
    OBVIOUS
  <2> QED BY <2>2, <2>3, <2>4, <2>5 DEF History!Continues
<1>9. History!Edit
  <2>1. request'.from = from /\ request'.to = to /\ request'.text = text
    OBVIOUS
  <2>2. TextOf(buffer'.lines) = SubSeq(was, 1, from) \o text \o SubSeq(was, to + 1, Len(was))
    BY <1>4
  <2>3. Texts(buffer'.redo) = <<>>
    BY <1>3 DEF Texts
  <2>4. \/ Texts(buffer'.undo) = IF Len(past) < HistoryCap THEN Append(past, was)
                                 ELSE Append(Tail(past), was)
        \/ History!Continues /\ Texts(buffer'.undo) = past
    BY <1>3, <1>6, <1>8
  <2>5. /\ from <= OffsetOf(buffer', SelectionStart(buffer'))
        /\ OffsetOf(buffer', SelectionStart(buffer')) <= OffsetOf(buffer', SelectionEnd(buffer'))
        /\ OffsetOf(buffer', SelectionEnd(buffer')) <= from + Len(text)
    BY <1>7
  <2> QED BY <1>1, <1>5, <2>1, <2>2, <2>3, <2>4, <2>5 DEF History!Edit, History!Spliced
<1>10. Len(buffer'.undo) + Len(buffer'.redo) <= HistoryCap
  <2>1. c.undo \in Seq(Entry) /\ Len(c.redo) = 0
    BY <1>3, <1>4 DEF Buffer
  <2>2. Len(c.undo) \in Nat
    BY <2>1, LenProperties
  <2>3. Len(buffer'.undo) = Len(c.undo) /\ Len(buffer'.redo) = 0
    BY <2>1
  <2>4. Len(c.undo) + 0 <= HistoryCap
    <3>1. Len(c.undo) + 0 = Len(c.undo)
      BY ONLY <2>2
    <3> QED BY <1>3, <3>1
  <2> QED BY ONLY <2>3, <2>4
<1>11. ASSUME NEW k \in {"insert", "delete"}, Open(buffer', k)
       PROVE  /\ request' # None /\ ~ HasSelection(buffer')
              /\ OffsetOf(buffer', buffer'.cursor) = request'.from + Len(request'.text)
              /\ request'.text = <<>> <=> k = "delete"
  <2>1. d.group # None
    <3>1. d.group = [kind |-> k, coalescing |-> TRUE]
      BY <1>11 DEF Open
    <3>2. d.group \in [kind : {"insert", "delete"}, coalescing : BOOLEAN]
      BY <3>1
    <3> QED BY <3>2, NoneAssumption
  <2>2. d.group = c.group /\ ~ HasSelection(d) /\ d.cursor = c.cursor
    BY <2>1
  <2>3. kind = k /\ coalesces = TRUE
    <3>1. [kind |-> k, coalescing |-> TRUE] = [kind |-> kind, coalescing |-> coalesces]
      BY <1>3, <1>11, <2>2 DEF Open
    <3>2. /\ [kind |-> k, coalescing |-> TRUE].kind = k
          /\ [kind |-> k, coalescing |-> TRUE].coalescing = TRUE
          /\ [kind |-> kind, coalescing |-> coalesces].kind = kind
          /\ [kind |-> kind, coalescing |-> coalesces].coalescing = coalesces
      OBVIOUS
    <3> QED BY <3>1, <3>2
  <2>4. OffsetOf(d, d.cursor) = from + Len(text)
    BY <1>4, <2>2, SameOffsets
  <2>5. text = <<>> <=> k = "delete"
    BY <2>3
  <2> QED BY <1>5, <2>2, <2>4, <2>5
<1> QED BY <1>5, <1>9, <1>10, <1>11 DEF Grouped, Open

\* A group that is closed is not open.
LEMMA NoneClosed ==
  \A b, kind : b.group = None => ~ (kind \in {"insert", "delete"} /\ Open(b, kind))
<1> SUFFICES ASSUME NEW b, NEW kind \in {"insert", "delete"}, b.group = None, Open(b, kind)
             PROVE  FALSE
  OBVIOUS
<1>1. b.group \in [kind : {"insert", "delete"}, coalescing : BOOLEAN]
  BY DEF Open
<1> QED BY <1>1, NoneAssumption

\* The selection is in the text.
Placement(d) ==
  /\ OffsetOf(d, SelectionStart(d)) <= OffsetOf(d, SelectionEnd(d))
  /\ OffsetOf(d, SelectionEnd(d)) <= Len(TextOf(d.lines))

LEMMA SelectIsSelect ==
  ASSUME HistoryInv, NEW d \in Buffer, d.lines = buffer.lines, d.undo = buffer.undo,
         d.redo = buffer.redo, d.group = None, buffer' = d, request' = None
  PROVE  History!Select /\ Grouped'
<1>1. Placement(d)
  BY SelectionOffsets DEF Placement
<1>2. History!Select
  BY <1>1 DEF History!Select, History!Placed, Placement
<1>3. Len(buffer'.undo) + Len(buffer'.redo) <= HistoryCap
  BY DEF HistoryInv
<1>4. \A kind \in {"insert", "delete"} : ~ Open(buffer', kind)
  BY NoneClosed
<1> QED BY <1>2, <1>3, <1>4 DEF Grouped, Open

\* A caret or a selection set where it may have been already.
LEMMA SetIsSelect ==
  ASSUME HistoryInv, NEW d \in Buffer, d.lines = buffer.lines, d.undo = buffer.undo,
         d.redo = buffer.redo,
         d.group = IF Unmoved(d) THEN buffer.group ELSE None,
         buffer' = d, request' = IF Unmoved(d) THEN request ELSE None
  PROVE  (History!Select \/ UNCHANGED History!vars) /\ Grouped'
<1>1. CASE ~ Unmoved(d)
  BY <1>1, SelectIsSelect
<1>2. CASE Unmoved(d)
  <2>1. buffer \in Buffer
    BY DEF HistoryInv, EditorInv
  <2>2. Anchor(d) = Anchor(buffer) /\ d.cursor = buffer.cursor /\ d.group = buffer.group
        /\ request' = request
    BY <1>2 DEF Unmoved
  <2>3. /\ SelectionStart(d) = SelectionStart(buffer) /\ SelectionEnd(d) = SelectionEnd(buffer)
        /\ HasSelection(d) = HasSelection(buffer)
    BY <2>2 DEF SelectionStart, SelectionEnd, HasSelection
  <2>4. /\ OffsetOf(d, SelectionStart(d)) = OffsetOf(buffer, SelectionStart(buffer))
        /\ OffsetOf(d, SelectionEnd(d)) = OffsetOf(buffer, SelectionEnd(buffer))
        /\ OffsetOf(d, d.cursor) = OffsetOf(buffer, buffer.cursor)
    BY <2>1, <2>2, <2>3, SameOffsets, Ends
  <2>5. UNCHANGED History!vars
    BY <2>2, <2>4 DEF History!vars
  <2>6. Grouped'
    BY <2>2, <2>3, <2>4 DEF Grouped, HistoryInv, Open
  <2> QED BY <2>5, <2>6
<1> QED BY <1>1, <1>2

\* The caret, and the selection's anchor, moved.
LEMMA MovedStacks ==
  ASSUME NEW b \in Buffer
  PROVE  /\ \A p, extend : /\ MovedTo(b, p, extend).undo = b.undo
                           /\ MovedTo(b, p, extend).redo = b.redo
                           /\ MovedTo(b, p, extend).group = None
                           /\ MovedSteadily(b, p, extend).undo = b.undo
                           /\ MovedSteadily(b, p, extend).redo = b.redo
                           /\ MovedSteadily(b, p, extend).group = None
         /\ \A p, q : /\ Selected(b, p, q).undo = b.undo
                      /\ Selected(b, p, q).redo = b.redo
                      /\ Selected(b, p, q).group = None
         /\ \A p : /\ WordSelected(b, p).undo = b.undo
                   /\ WordSelected(b, p).redo = b.redo
                   /\ WordSelected(b, p).group = None
         /\ \A extend : \A c \in Movements(b, extend) :
              c.undo = b.undo /\ c.redo = b.redo /\ c.group = None
<1>1. ASSUME NEW p, NEW extend
      PROVE  /\ MovedTo(b, p, extend).undo = b.undo
             /\ MovedTo(b, p, extend).redo = b.redo
             /\ MovedTo(b, p, extend).group = None
             /\ MovedSteadily(b, p, extend).undo = b.undo
             /\ MovedSteadily(b, p, extend).redo = b.redo
             /\ MovedSteadily(b, p, extend).group = None
  <2>1. LET c == MovedSteadily(b, p, extend)
        IN /\ c.undo = b.undo /\ c.redo = b.redo /\ c.group = None
           /\ DOMAIN c = DOMAIN b
    BY DEF MovedSteadily, Buffer
  <2> QED BY <2>1 DEF MovedTo, Buffer
<1>2. ASSUME NEW p, NEW q
      PROVE  /\ Selected(b, p, q).undo = b.undo /\ Selected(b, p, q).redo = b.redo
             /\ Selected(b, p, q).group = None
  BY DEF Selected, Buffer
<1>3. ASSUME NEW p
      PROVE  /\ WordSelected(b, p).undo = b.undo /\ WordSelected(b, p).redo = b.redo
             /\ WordSelected(b, p).group = None
  BY <1>1, <1>2, Zenon DEF WordSelected, CursorSet
<1>4. ASSUME NEW extend, NEW c \in Movements(b, extend)
      PROVE  c.undo = b.undo /\ c.redo = b.redo /\ c.group = None
  <2>1. \/ \E p : c = MovedTo(b, p, extend)
        \/ \E p : c = MovedSteadily(b, p, extend)
    BY DEF Movements
  <2> QED BY <1>1, <2>1
<1> QED BY <1>1, <1>2, <1>3, <1>4

LEMMA UndoIsUndo ==
  ASSUME HistoryInv, buffer.undo # <<>>, buffer' = Undone(buffer), request' = None
  PROVE  History!Undo /\ Grouped'
<1> DEFINE b == buffer
           d == Undone(b)
           f == Front(b.undo)
           l == Last(b.undo)
<1>1. b \in Buffer /\ d \in Buffer
  BY UndoneType DEF HistoryInv, EditorInv
<1>2. b.undo \in Seq(Entry) /\ b.redo \in Seq(Entry) /\ SnapshotOf(b) \in Entry
      /\ SnapshotOf(b).lines = b.lines
  BY <1>1, SnapshotType DEF Buffer, SnapshotOf
<1>3. /\ f \in Seq(Entry) /\ Len(f) = Len(b.undo) - 1 /\ l \in Entry
      /\ Texts(b.undo) = Append(Texts(f), TextOf(l.lines))
      /\ Texts(b.undo)[Len(Texts(b.undo))] = TextOf(l.lines)
  BY <1>2, TextsLess
<1>4. d.undo = f /\ d.redo = Append(b.redo, SnapshotOf(b)) /\ d.lines = l.lines /\ d.group = None
  <2> DEFINE c == RestoredTo(b, l)
             r == Append(b.redo, SnapshotOf(b))
  <2>1. c \in Buffer /\ c.undo = b.undo /\ c.redo = b.redo
    BY <1>1, <1>3, RestoredType
  <2>2. c.lines = l.lines
    BY <1>1 DEF RestoredTo, Buffer
  <2>3. d = [c EXCEPT !.undo = f, !.redo = r, !.group = None]
    <3> HIDE DEF c
    <3>1. d = [c EXCEPT !.undo = Front(@), !.redo = Append(@, SnapshotOf(b)), !.group = None]
      BY DEF Undone, c
    <3> QED BY <2>1, <3>1
  <2> HIDE DEF c, f, r, d
  <2> QED BY <2>1, <2>2, <2>3 DEF Buffer, r
<1> HIDE DEF d, f, l
<1>5. Texts(d.redo) = Append(Texts(b.redo), TextOf(b.lines))
  BY <1>2, <1>4, TextsMore
<1>6. Placement(d)
  BY <1>1, SelectionOffsets DEF Placement
<1>7. Len(Texts(b.undo)) = Len(b.undo) /\ Len(b.undo) \in Nat /\ b.undo # <<>>
      /\ Len(b.redo) \in Nat
  BY <1>2, TextsType
<1>8. Texts(b.undo) # <<>>
  <2>1. Len(b.undo) # 0
    BY <1>2, <1>7, EmptySeq
  <2> QED BY <1>7, <2>1
<1>9. buffer' = d
  BY DEF d
<1>10. History!Undo
  BY <1>3, <1>4, <1>5, <1>6, <1>8, <1>9 DEF History!Undo, History!Placed, Placement
<1>11. Len(d.redo) = Len(b.redo) + 1
  <2> DEFINE T == Entry
             s == b.redo
             e == SnapshotOf(b)
  <2>1. s \in Seq(T) /\ e \in T
    BY <1>2
  <2> HIDE DEF T, s, e
  <2>2. Len(Append(s, e)) = Len(s) + 1
    BY <2>1, AppendProperties
  <2> QED BY <1>4, <2>2 DEF s, e
<1>12. Len(buffer'.undo) + Len(buffer'.redo) <= HistoryCap
  <2> DEFINE m == Len(b.undo)
             n == Len(b.redo)
  <2>1. m \in Nat /\ n \in Nat /\ m + n <= HistoryCap /\ HistoryCap \in Nat
    BY <1>7, EditorAssumption DEF HistoryInv
  <2>2. Len(buffer'.undo) = m - 1 /\ Len(buffer'.redo) = n + 1
    BY <1>3, <1>4, <1>9, <1>11
  <2> HIDE DEF m, n
  <2>3. (m - 1) + (n + 1) <= HistoryCap
    BY <2>1
  <2> QED BY <2>2, <2>3
<1>13. \A kind \in {"insert", "delete"} : ~ Open(buffer', kind)
  BY <1>4, <1>9, NoneClosed
<1> QED BY <1>10, <1>12, <1>13 DEF Grouped, Open

LEMMA RedoIsRedo ==
  ASSUME HistoryInv, buffer.redo # <<>>, buffer' = Redone(buffer), request' = None
  PROVE  History!Redo /\ Grouped'
<1> DEFINE b == buffer
           d == Redone(b)
           f == Front(b.redo)
           l == Last(b.redo)
           e == UndoPushed(b, SnapshotOf(b))
           m == Len(b.undo)
           n == Len(b.redo)
<1>1. b \in Buffer /\ d \in Buffer
  BY RedoneType DEF HistoryInv, EditorInv
<1>2. b.undo \in Seq(Entry) /\ b.redo \in Seq(Entry) /\ SnapshotOf(b) \in Entry
      /\ SnapshotOf(b).lines = b.lines
  BY <1>1, SnapshotType DEF Buffer, SnapshotOf
<1>3. /\ f \in Seq(Entry) /\ Len(f) = n - 1 /\ l \in Entry
      /\ Texts(b.redo) = Append(Texts(f), TextOf(l.lines))
      /\ Texts(b.redo)[Len(Texts(b.redo))] = TextOf(l.lines)
  BY <1>2, TextsLess
<1>4. m \in Nat /\ n \in Nat /\ Len(Texts(b.redo)) = n
  BY <1>2, TextsType
<1>5. n # 0
  BY <1>2, EmptySeq
<1>6. m < HistoryCap /\ m + n <= HistoryCap /\ HistoryCap \in Nat
  <2>1. m + n <= HistoryCap /\ HistoryCap \in Nat
    BY EditorAssumption DEF HistoryInv
  <2> HIDE DEF m, n
  <2> QED BY <1>4, <1>5, <2>1
<1>7. /\ e \in Buffer /\ Texts(e.undo) = Append(Texts(b.undo), TextOf(b.lines))
      /\ Len(e.undo) = m + 1 /\ e.redo = b.redo
  <2>1. Len(b.undo) <= HistoryCap
    <3> HIDE DEF m
    <3>1. m <= HistoryCap
      BY <1>4, <1>6
    <3> QED BY <3>1 DEF m
  <2> DEFINE g == SnapshotOf(b)
  <2>2. b \in Buffer /\ g \in Entry /\ g.lines = b.lines /\ m < HistoryCap
        /\ e = UndoPushed(b, g)
    BY <1>1, <1>2, <1>6
  <2> HIDE DEF b, g, e
  <2>3. e \in Buffer /\ e["redo"] = b["redo"]
    BY ONLY <2>2, UndoPushedType
  <2>4. Texts(e.undo) = Append(Texts(b.undo), TextOf(g.lines)) /\ Len(e.undo) = m + 1
    BY ONLY <2>1, <2>2, UndoPushedTexts
  <2> QED BY <2>2, <2>3, <2>4
<1>8. d.undo = e.undo /\ d.redo = f /\ d.lines = l.lines /\ d.group = None
  <2> DEFINE c == RestoredTo(e, l)
  <2> HIDE DEF e
  <2>1. c \in Buffer /\ c.undo = e.undo /\ c.redo = e.redo
    BY <1>3, <1>7, RestoredType
  <2>2. c.lines = l.lines
    BY <1>7 DEF RestoredTo, Buffer
  <2>3. d = [c EXCEPT !.redo = f, !.group = None]
    <3>1. d = [c EXCEPT !.redo = Front(@), !.group = None]
      BY DEF Redone, c, e
    <3> HIDE DEF c, d
    <3> QED BY <1>7, <2>1, <3>1
  <2> HIDE DEF c, f, d
  <2> QED BY <2>1, <2>2, <2>3 DEF Buffer
<1> HIDE DEF d, f, l, e, m, n
<1>9. Placement(d)
  BY <1>1, SelectionOffsets DEF Placement
<1>10. Texts(b.redo) # <<>>
  BY <1>4, <1>5
<1>11. buffer' = d
  BY DEF d
<1>12. History!Redo
  BY <1>3, <1>7, <1>8, <1>9, <1>10, <1>11 DEF History!Redo, History!Placed, Placement
<1>13. Len(buffer'.undo) + Len(buffer'.redo) <= HistoryCap
  <2>1. Len(buffer'.undo) = m + 1 /\ Len(buffer'.redo) = n - 1
    BY <1>3, <1>7, <1>8, <1>11
  <2>2. (m + 1) + (n - 1) <= HistoryCap
    BY <1>4, <1>6
  <2> QED BY <2>1, <2>2
<1>14. \A kind \in {"insert", "delete"} : ~ Open(buffer', kind)
  BY <1>8, <1>11, NoneClosed
<1> QED BY <1>12, <1>13, <1>14 DEF Grouped, Open

LEMMA NewIsNew ==
  ASSUME NEW text \in Text
  PROVE  LET d == NewBuffer(text)
         IN /\ d \in Buffer /\ Texts(d.undo) = <<>> /\ Texts(d.redo) = <<>>
            /\ Len(d.undo) = 0 /\ Len(d.redo) = 0 /\ d.group = None
            /\ OffsetOf(d, SelectionStart(d)) = 0 /\ OffsetOf(d, SelectionEnd(d)) = 0
<1> DEFINE d == NewBuffer(text)
           p == At(1, 0)
           none == <<>>
<1>1. d \in Buffer /\ d.cursor = p /\ d.anchor = None /\ d.undo = none /\ d.redo = none
      /\ d.group = None
  BY NewBufferType DEF NewBuffer
<1>2. SelectionStart(d) = p /\ SelectionEnd(d) = p /\ p \in Here(d)
  <2>1. Anchor(d) = p
    BY <1>1 DEF Anchor
  <2> QED BY <1>1, <2>1, Ends DEF SelectionStart, SelectionEnd
<1> HIDE DEF d
<1>3. Until(d.lines, p) = none
  <2>1. d.lines \in Seq(Line) /\ 1 \in 1..Len(d.lines)
    BY <1>1 DEF Buffer, Document
  <2>2. d.lines[1] \in Line
    BY <2>1
  <2>3. SubSeq(d.lines, 1, 0) = none /\ SubSeq(d.lines[1], 1, 0) = none
    BY <2>1, <2>2, SubSeqEmpty DEF Line
  <2>4. none \o <<none>> = <<none>>
    <3>1. none \in Line
      BY BreakIsText
    <3> HIDE DEF none
    <3>2. <<none>> \in Seq(Line)
      BY <3>1
    <3>3. <<>> \o <<none>> = <<none>>
      BY <3>2, ConcatEmptySeq
    <3> QED BY <3>3 DEF none
  <2>5. TextOf(<<none>>) = none
    BY BreakIsText, TextOfOne
  <2>6. p.line = 1 /\ p.column = 0 /\ 1 - 1 = 0
    BY DEF At
  <2> HIDE DEF none, p
  <2> QED BY <2>3, <2>4, <2>5, <2>6 DEF Until
<1>4. OffsetOf(d, p) = 0
  <2>1. OffsetOf(d, p) = Len(Until(d.lines, p))
    BY <1>1, <1>2, OffsetIsLength
  <2> QED BY <1>3, <2>1
<1>5. Texts(none) = none /\ Len(none) = 0
  BY DEF Texts
<1> QED BY <1>1, <1>2, <1>4, <1>5 DEF d

-----------------------------------------------------------------------------
(* Every action is a step of the history, or none.                           *)

Mirrored == (History!Next \/ UNCHANGED History!vars) /\ Grouped'

\* What moving the caret leaves as it was.
LEMMA CaretMoved ==
  ASSUME NEW b \in Buffer, NEW p \in Position
  PROVE  LET d == MovedTo(b, p, FALSE)
         IN /\ d \in Buffer /\ d.lines = b.lines /\ d.undo = b.undo /\ d.redo = b.redo
            /\ d.group = None
<1>1. FALSE \in BOOLEAN
  OBVIOUS
<1>2. MovedTo(b, p, FALSE) \in Buffer
  BY <1>1, MovedType, Zenon
<1>3. MovedTo(b, p, FALSE).lines = b.lines
  BY <1>1, SameLines, Zenon
<1>4. MovedTo(b, p, FALSE).undo = b.undo /\ MovedTo(b, p, FALSE).redo = b.redo
      /\ MovedTo(b, p, FALSE).group = None
  <2>1. LET c == MovedSteadily(b, p, FALSE)
        IN /\ c.undo = b.undo /\ c.redo = b.redo /\ c.group = None
           /\ DOMAIN c = DOMAIN b
    BY DEF MovedSteadily, Buffer
  <2> QED BY <2>1 DEF MovedTo, Buffer
<1> QED BY <1>2, <1>3, <1>4, Zenon

LEMMA ShownMirrored ==
  ASSUME HistoryInv, NEW d \in Buffer, d.lines = buffer.lines, d.undo = buffer.undo,
         d.redo = buffer.redo, d.group = None, Shows(d)
  PROVE  Mirrored
BY SelectIsSelect DEF Shows, Mirrored, History!Next

LEMMA MovesMirrored ==
  ASSUME HistoryInv, Move \/ SelectAll \/ MouseDown
  PROVE  Mirrored
<1> DEFINE b == buffer
<1>1. b \in Buffer
  BY DEF HistoryInv, EditorInv
<1>2. CASE Move
  <2>1. PICK extend \in BOOLEAN : \E d \in Movements(b, extend) : Shows(d)
    <3>1. {FALSE, "extend" \in EditorOps} \subseteq BOOLEAN
      OBVIOUS
    <3>2. \E extend \in {FALSE, "extend" \in EditorOps} : \E d \in Movements(b, extend) : Shows(d)
      BY <1>2 DEF Move
    <3> QED BY <3>1, <3>2, Zenon
  <2>2. PICK d \in Movements(b, extend) : Shows(d)
    BY <2>1
  <2>3. d \in Buffer /\ d.lines = b.lines /\ d.undo = b.undo /\ d.redo = b.redo
        /\ d.group = None
    BY <1>1, MovementsType, SameLines, MovedStacks
  <2> QED BY <2>2, <2>3, ShownMirrored
<1>3. CASE SelectAll
  <2> DEFINE d == Selected(b, At(1, 0), DocumentEnd(b))
  <2>1. At(1, 0) \in Here(b) /\ DocumentEnd(b) \in Here(b)
    BY <1>1, Ends, Neighbours
  <2>2. d \in Buffer /\ d.lines = b.lines /\ d.undo = b.undo /\ d.redo = b.redo
        /\ d.group = None
    BY <1>1, <2>1, SelectedType, SameLines, MovedStacks
  <2>3. Shows(d)
    BY <1>3 DEF SelectAll
  <2> QED BY <2>2, <2>3, ShownMirrored
<1>4. CASE MouseDown
  <2>1. PICK line \in 1..Len(b.lines) : \E column \in 0..Len(b.lines[line]) :
             LET p == At(line, column)
             IN \/ Shows(CursorSet(b, p))
                \/ Shows(WordSelected(b, p))
                \/ Shows(Selected(b, At(line, 0), LineEnd(b, line)))
    BY <1>4 DEF MouseDown
  <2>2. PICK column \in 0..Len(b.lines[line]) :
             LET p == At(line, column)
             IN \/ Shows(CursorSet(b, p))
                \/ Shows(WordSelected(b, p))
                \/ Shows(Selected(b, At(line, 0), LineEnd(b, line)))
    BY <2>1
  <2> DEFINE p == At(line, column)
  <2>3. p \in Here(b) /\ p \in Position /\ p.line = line
    BY <1>1, LinesOf DEF At, Here, Position, InText
  <2>4. At(line, 0) \in Here(b) /\ LineEnd(b, line) \in Here(b)
    BY <1>1, <2>3, Neighbours
  <2>5. \A d \in {CursorSet(b, p), WordSelected(b, p), Selected(b, At(line, 0), LineEnd(b, line))} :
           /\ d \in Buffer /\ d.lines = b.lines /\ d.undo = b.undo /\ d.redo = b.redo
           /\ d.group = None
    <3> HIDE DEF p
    <3>1. MovedTo(b, p, FALSE) \in Buffer /\ MovedTo(b, p, FALSE).lines = b.lines
          /\ MovedTo(b, p, FALSE).undo = b.undo /\ MovedTo(b, p, FALSE).redo = b.redo
          /\ MovedTo(b, p, FALSE).group = None
      BY <1>1, <2>3, CaretMoved
    <3>2. LET d == WordSelected(b, p)
          IN d \in Buffer /\ d.lines = b.lines /\ d.undo = b.undo /\ d.redo = b.redo
             /\ d.group = None
      BY <1>1, <2>3, WordSelectedType, SameLines, MovedStacks
    <3>3. LET d == Selected(b, At(line, 0), LineEnd(b, line))
          IN d \in Buffer /\ d.lines = b.lines /\ d.undo = b.undo /\ d.redo = b.redo
             /\ d.group = None
      BY <1>1, <2>4, SelectedType, SameLines, MovedStacks
    <3> QED BY <3>1, <3>2, <3>3 DEF CursorSet
  <2>6. PICK d \in {CursorSet(b, p), WordSelected(b, p), Selected(b, At(line, 0), LineEnd(b, line))} :
             Shows(d)
    BY <2>2
  <2> QED BY <2>5, <2>6, ShownMirrored
<1> QED BY <1>2, <1>3, <1>4

LEMMA DragMirrored ==
  ASSUME HistoryInv, Drag
  PROVE  Mirrored
<1> DEFINE b == buffer
<1>1. b \in Buffer
  BY DEF HistoryInv, EditorInv
<1>2. PICK line \in 1..Len(b.lines) : \E column \in 0..Len(b.lines[line]) :
           LET d == SelectionSet(b, Anchor(b), At(line, column))
           IN /\ buffer' = d
              /\ request' = IF Unmoved(d) THEN request ELSE None
  BY DEF Drag
<1>3. PICK column \in 0..Len(b.lines[line]) :
           LET d == SelectionSet(b, Anchor(b), At(line, column))
           IN /\ buffer' = d
              /\ request' = IF Unmoved(d) THEN request ELSE None
  BY <1>2
<1> DEFINE p == Anchor(b)
           q == At(line, column)
           d == SelectionSet(b, p, q)
<1>4. p \in Here(b) /\ q \in Here(b)
  BY <1>1, LinesOf, Ends DEF At, Here, Position, InText
<1> HIDE DEF p, q
<1>5. d \in Buffer /\ d.lines = b.lines /\ d.undo = b.undo /\ d.redo = b.redo
      /\ d.cursor = q /\ Anchor(d) = p
      /\ d.group = IF Anchor(b) = p /\ b.cursor = q THEN b.group ELSE None
  BY <1>1, <1>4, SelectionSetEffect
<1>6. d.group = IF Unmoved(d) THEN b.group ELSE None
  BY <1>5 DEF Unmoved
<1>7. buffer' = d /\ request' = IF Unmoved(d) THEN request ELSE None
  BY <1>3 DEF p, q
<1> HIDE DEF d
<1> QED BY <1>5, <1>6, <1>7, SetIsSelect DEF Mirrored, History!Next

LEMMA UndoMirrored ==
  ASSUME HistoryInv, Undo \/ Redo
  PROVE  Mirrored
BY UndoIsUndo, RedoIsRedo DEF Undo, Redo, Mirrored, History!Next

LEMMA SetTextMirrored ==
  ASSUME HistoryInv, SetText
  PROVE  Mirrored
<1>1. PICK text \in Documents : buffer' = NewBuffer(text)
  BY DEF SetText
<1>2. text \in Text
  BY EditorAssumption
<1> DEFINE d == NewBuffer(text)
<1>3. /\ d \in Buffer /\ Texts(d.undo) = <<>> /\ Texts(d.redo) = <<>>
      /\ Len(d.undo) = 0 /\ Len(d.redo) = 0 /\ d.group = None
      /\ OffsetOf(d, SelectionStart(d)) = 0 /\ OffsetOf(d, SelectionEnd(d)) = 0
  BY <1>2, NewIsNew
<1>4. buffer' = d /\ request' = None
  BY <1>1 DEF SetText
<1> HIDE DEF d
<1>5. History!Replace
  BY <1>3, <1>4 DEF History!Replace
<1>6. \A kind \in {"insert", "delete"} : ~ Open(buffer', kind)
  BY <1>3, <1>4, NoneClosed
<1>7. Len(buffer'.undo) + Len(buffer'.redo) <= HistoryCap
  <2>1. Len(buffer'.undo) = 0 /\ Len(buffer'.redo) = 0
    BY <1>3, <1>4
  <2>2. 0 + 0 <= HistoryCap
    BY EditorAssumption
  <2> QED BY <2>1, <2>2
<1> QED BY <1>4, <1>5, <1>6, <1>7 DEF Mirrored, History!Next, Grouped, Open

LEMMA LandsMirrored ==
  ASSUME HistoryInv, NEW f, Searched(f, buffer.lines), Lands(f)
  PROVE  Mirrored
<1> DEFINE b == buffer
<1>1. b \in Buffer
  BY DEF HistoryInv, EditorInv
<1>2. CASE f.current = 0
  <2>1. UNCHANGED <<buffer, request>>
    BY <1>2 DEF Lands
  <2>2. Grouped'
    BY <2>1 DEF Grouped, HistoryInv
  <2>3. UNCHANGED History!vars
    BY <2>1 DEF History!vars
  <2> QED BY <2>2, <2>3 DEF Mirrored
<1>3. CASE f.current # 0
  <2> DEFINE p == CurrentMatch(f)
             d == MovedTo(b, p, FALSE)
  <2>1. buffer' = d /\ request' = None
    BY <1>3 DEF Lands, CursorSet
  <2>2. p \in Position
    <3>1. f.matches \in Seq(Position) /\ f.current \in 1..Len(f.matches)
      BY <1>3 DEF Searched, Search
    <3> QED BY <1>3, <3>1 DEF CurrentMatch
  <2> HIDE DEF p
  <2>3. d \in Buffer /\ d.lines = b.lines /\ d.undo = b.undo /\ d.redo = b.redo /\ d.group = None
    BY <1>1, <2>2, CaretMoved
  <2> HIDE DEF d
  <2> QED BY <2>1, <2>3, SelectIsSelect DEF Mirrored, History!Next
<1> QED BY <1>2, <1>3

LEMMA FindMirrored ==
  ASSUME HistoryInv, SetFindQuery \/ FindStep \/ ToggleFindCase
  PROVE  Mirrored
<1>1. buffer.lines \in Document /\ find # None /\ find \in Search /\ Searched(find, buffer.lines)
  BY DEF HistoryInv, EditorInv, Buffer, Searched, SetFindQuery, FindStep, ToggleFindCase
<1>2. CASE SetFindQuery
  <2>1. PICK query \in Queries :
             Lands(Recomputed([find EXCEPT !.query = query], buffer.lines, None))
    BY <1>2 DEF SetFindQuery
  <2>2. [find EXCEPT !.query = query] \in Search
    BY <1>1, EditorAssumption DEF Search
  <2> QED BY <1>1, <2>1, <2>2, RecomputedEffect, LandsMirrored
<1>3. CASE FindStep
  <2>1. PICK forward \in BOOLEAN : Lands(Stepped(find, forward))
    BY <1>3 DEF FindStep
  <2> QED BY <1>1, <2>1, SteppedEffect, LandsMirrored
<1>4. CASE ToggleFindCase
  <2>1. Lands(Recomputed([find EXCEPT !.exact = ~ @], buffer.lines, CurrentMatch(find)))
    BY <1>4 DEF ToggleFindCase
  <2>2. [find EXCEPT !.exact = ~ @] \in Search
    BY <1>1 DEF Search
  <2> QED BY <1>1, <2>1, <2>2, RecomputedEffect, LandsMirrored
<1> QED BY <1>2, <1>3, <1>4

LEMMA InOrder ==
  ASSUME NEW b \in Buffer, NEW p \in Here(b), NEW q \in Here(b), p = q \/ Before(p, q)
  PROVE  /\ OffsetOf(b, p) \in 0..Len(TextOf(b.lines)) /\ OffsetOf(b, q) \in 0..Len(TextOf(b.lines))
         /\ OffsetOf(b, p) <= OffsetOf(b, q)
         /\ p # q => OffsetOf(b, p) # OffsetOf(b, q)
<1>1. b.lines \in Document /\ p \in Position /\ InText(p, b.lines) /\ q \in Position
      /\ InText(q, b.lines)
  BY DEF Buffer, Here
<1>2. Len(Until(b.lines, p)) <= Len(Until(b.lines, q))
  BY <1>1, UntilLater
<1>3. OffsetOf(b, p) = Len(Until(b.lines, p)) /\ OffsetOf(b, q) = Len(Until(b.lines, q))
  BY OffsetIsLength
<1>4. PositionAt(b, OffsetOf(b, p)) = p /\ OffsetOf(b, p) \in 0..Len(TextOf(b.lines))
  BY PositionBack
<1>5. PositionAt(b, OffsetOf(b, q)) = q /\ OffsetOf(b, q) \in 0..Len(TextOf(b.lines))
  BY PositionBack
<1> QED BY <1>2, <1>3, <1>4, <1>5

LEMMA SelectedSpan ==
  ASSUME NEW b \in Buffer
  PROVE  LET from == OffsetOf(b, SelectionStart(b))
             to == OffsetOf(b, SelectionEnd(b))
         IN /\ from \in 0..Len(TextOf(b.lines)) /\ to \in 0..Len(TextOf(b.lines))
            /\ from <= to /\ (HasSelection(b) => from # to)
            /\ Selection(b) = Span(from, to) /\ Span(from, to).from = from
            /\ Span(from, to).to = to
            /\ ~ HasSelection(b) => /\ from = OffsetOf(b, b.cursor)
                                    /\ to = OffsetOf(b, b.cursor)
<1>1. TextOf(b.lines) \in Text
  BY TextOfType DEF Buffer
<1>2. Len(TextOf(b.lines)) \in Nat
  BY <1>1 DEF Text
<1>3. Selection(b) = Span(OffsetOf(b, SelectionStart(b)), OffsetOf(b, SelectionEnd(b)))
  BY DEF Selection
<1> QED BY <1>2, <1>3, SelectionOffsets DEF Span

LEMMA AfterRewrite ==
  ASSUME NEW b \in Buffer, NEW d, NEW text \in Text,
         NEW from \in 0..Len(TextOf(b.lines)), NEW to \in 0..Len(TextOf(b.lines)),
         Rewrites(b, d, from, to, text)
  PROVE  /\ d \in Buffer /\ ~ HasSelection(d) /\ Len(text) \in Nat
         /\ OffsetOf(d, SelectionStart(d)) = from + Len(text)
         /\ OffsetOf(d, SelectionEnd(d)) = from + Len(text)
<1>1. d \in Buffer /\ ~ HasSelection(d) /\ OffsetOf(d, d.cursor) = from + Len(text)
  BY RewritesEffect DEF Rewrites
<1>2. SelectionStart(d) = d.cursor /\ SelectionEnd(d) = d.cursor
  BY <1>1, SelectionOffsets
<1>3. Len(text) \in Nat
  BY DEF Text
<1> QED BY <1>1, <1>2, <1>3

\* There was nothing to change.
LEMMA NothingMirrored ==
  ASSUME HistoryInv, NEW d \in Buffer, d.lines = buffer.lines, d.undo = buffer.undo,
         d.redo = buffer.redo,
         d.group = IF Unmoved(d) THEN buffer.group ELSE None,
         NEW range, range.from = range.to, Edited(d, range, <<>>)
  PROVE  Mirrored
BY SetIsSelect DEF Edited, Mirrored, History!Next

LEMMA EraseMirrored ==
  ASSUME HistoryInv, NEW p \in Here(buffer), NEW q \in Here(buffer), p = q \/ Before(p, q),
         buffer.cursor \in {p, q},
         Edited(Erased(buffer, p, q),
                IF HasSelection(buffer) THEN Selection(buffer)
                ELSE Span(OffsetOf(buffer, p), OffsetOf(buffer, q)),
                <<>>)
  PROVE  Mirrored
<1> DEFINE b == buffer
           start == IF HasSelection(b) THEN SelectionStart(b) ELSE p
           end == IF HasSelection(b) THEN SelectionEnd(b) ELSE q
           from == OffsetOf(b, start)
           to == OffsetOf(b, end)
           c == Erased(b, p, q)
           none == <<>>
<1>1. b \in Buffer
  BY DEF HistoryInv, EditorInv
<1>2. CASE ~ HasSelection(b) /\ p = q
  <2>1. c = b
    BY <1>2 DEF Erased
  <2> DEFINE range == Span(OffsetOf(b, p), OffsetOf(b, q))
  <2>2. Edited(b, range, <<>>)
    BY <1>2, <2>1
  <2>3. range.from = range.to
    BY <1>2 DEF Span
  <2>4. b.group = IF Unmoved(b) THEN buffer.group ELSE None
    BY DEF Unmoved
  <2> HIDE DEF range
  <2> QED BY <1>1, <2>2, <2>3, <2>4, NothingMirrored
<1>3. CASE HasSelection(b) \/ p # q
  <2>1. /\ from \in 0..Len(TextOf(b.lines)) /\ to \in 0..Len(TextOf(b.lines))
        /\ from <= to /\ from # to
    <3>1. CASE HasSelection(b)
      BY <1>1, <3>1, SelectedSpan
    <3>2. CASE ~ HasSelection(b)
      BY <1>1, <1>3, <3>2, InOrder
    <3> QED BY <3>1, <3>2
  <2>2. (IF HasSelection(b) THEN Selection(b) ELSE Span(OffsetOf(b, p), OffsetOf(b, q)))
        = Span(from, to)
    BY DEF Selection
  <2>3. Rewrites(b, c, from, to, none) /\ SameStacks(EditBegun(b, "delete", ~ HasSelection(b)), c)
    BY <1>1, <1>3, ErasedEffect
  <2>4. Edited(c, Span(from, to), none)
    BY <2>2
  <2>5. none \in Text /\ Len(none) = 0
    BY BreakIsText
  <2>6. ~ HasSelection(b) => from <= OffsetOf(b, b.cursor) /\ OffsetOf(b, b.cursor) <= to
    <3>1. ~ HasSelection(b) => OffsetOf(b, b.cursor) \in {from, to}
      OBVIOUS
    <3> HIDE DEF from, to, b
    <3> QED BY <2>1, <3>1
  <2> HIDE DEF c, start, end, from, to, none
  <2>7. buffer' = c /\ request' = [from |-> from, to |-> to, text |-> none]
    BY <2>1, <2>4 DEF Edited, Span
  <2>8. c \in Buffer /\ ~ HasSelection(c) /\ OffsetOf(c, SelectionStart(c)) = from + Len(none)
        /\ OffsetOf(c, SelectionEnd(c)) = from + Len(none)
    BY ONLY <1>1, <2>1, <2>3, <2>5, AfterRewrite
  <2>9. from <= OffsetOf(c, SelectionStart(c)) /\ OffsetOf(c, SelectionEnd(c)) <= from + Len(none)
    BY <2>1, <2>5, <2>8
  <2> DEFINE kind == "delete"
             coalesces == ~ HasSelection(b)
  <2>10. kind \in {"insert", "delete"} /\ coalesces \in BOOLEAN
         /\ (coalesces => (none = <<>> <=> kind = "delete"))
         /\ SameStacks(EditBegun(b, kind, coalesces), c)
         /\ b.lines = buffer.lines /\ b.undo = buffer.undo /\ b.redo = buffer.redo
         /\ (from # to \/ none # <<>>)
    BY <2>1, <2>3 DEF none
  <2>11. coalesces /\ Open(b, kind) =>
           /\ Open(buffer, kind)
           /\ from <= OffsetOf(buffer, buffer.cursor) /\ OffsetOf(buffer, buffer.cursor) <= to
    BY <2>6
  <2> HIDE DEF kind, coalesces
  <2>12. c.lines = c.lines /\ c.undo = c.undo /\ c.redo = c.redo
         /\ (c.group = None \/ (c.group = c.group /\ ~ HasSelection(c) /\ c.cursor = c.cursor))
    BY <2>8
  <2>13. History!Edit /\ Grouped'
    BY ONLY HistoryInv, <1>1, <2>1, <2>3, <2>5, <2>7, <2>8, <2>9, <2>10, <2>11, <2>12, EditIsEdit
  <2> QED BY <2>13 DEF Mirrored, History!Next
<1> QED BY <1>2, <1>3

LEMMA NeighboursInOrder ==
  ASSUME NEW b \in Buffer, NEW p \in Here(b)
  PROVE  /\ LeftOf(b, p) = p \/ Before(LeftOf(b, p), p)
         /\ p = RightOf(b, p) \/ Before(p, RightOf(b, p))
<1>1. p.line \in Nat \ {0} /\ p.column \in Nat
  BY DEF Here, Position
<1>2. LeftOf(b, p) = p \/ Before(LeftOf(b, p), p)
  BY <1>1 DEF LeftOf, LineEnd, Before, At
<1>3. p = RightOf(b, p) \/ Before(p, RightOf(b, p))
  BY <1>1 DEF RightOf, Before, At
<1> QED BY <1>2, <1>3

LEMMA ErasuresMirrored ==
  ASSUME HistoryInv, Backspace \/ DeleteForward \/ Cut
  PROVE  Mirrored
<1> DEFINE b == buffer
           left == LeftOf(b, b.cursor)
           right == RightOf(b, b.cursor)
<1>1. b \in Buffer
  BY DEF HistoryInv, EditorInv
<1>2. b.cursor \in Here(b)
  BY <1>1, Ends
<1>3. left \in Here(b) /\ right \in Here(b)
  BY <1>1, <1>2, Neighbours
<1>4. (left = b.cursor \/ Before(left, b.cursor)) /\ (b.cursor = right \/ Before(b.cursor, right))
  BY <1>1, <1>2, NeighboursInOrder
<1>5. CASE Backspace
  <2>1. Edited(Erased(b, left, b.cursor),
               IF HasSelection(b) THEN Selection(b)
               ELSE Span(OffsetOf(b, left), OffsetOf(b, b.cursor)), <<>>)
    BY <1>5 DEF Backspace
  <2> HIDE DEF left, right
  <2>2. b.cursor \in {left, b.cursor}
    OBVIOUS
  <2> QED BY <1>2, <1>3, <1>4, <2>1, <2>2, EraseMirrored
<1>6. CASE DeleteForward
  <2>1. Edited(Erased(b, b.cursor, right),
               IF HasSelection(b) THEN Selection(b)
               ELSE Span(OffsetOf(b, b.cursor), OffsetOf(b, right)), <<>>)
    BY <1>6 DEF DeleteForward
  <2> HIDE DEF left, right
  <2>2. b.cursor \in {b.cursor, right}
    OBVIOUS
  <2> QED BY <1>2, <1>3, <1>4, <2>1, <2>2, EraseMirrored
<1>7. CASE Cut
  <2>1. Edited(Erased(b, b.cursor, b.cursor),
               IF HasSelection(b) THEN Selection(b)
               ELSE Span(OffsetOf(b, b.cursor), OffsetOf(b, b.cursor)), <<>>)
    BY <1>7 DEF Cut
  <2>2. b.cursor \in {b.cursor, b.cursor}
    OBVIOUS
  <2> QED BY <1>2, <2>1, <2>2, EraseMirrored
<1> QED BY <1>5, <1>6, <1>7

LEMMA InsertMirrored ==
  ASSUME HistoryInv, NEW text \in Text, NEW coalesces \in BOOLEAN,
         coalesces => ~ HasSelection(buffer) /\ text # <<>>,
         Edited(InsertedImpl(buffer, text, coalesces), Selection(buffer), text)
  PROVE  Mirrored
<1> DEFINE b == buffer
           from == OffsetOf(b, SelectionStart(b))
           to == OffsetOf(b, SelectionEnd(b))
           c == InsertedImpl(b, text, coalesces)
           kind == "insert"
<1>1. b \in Buffer
  BY DEF HistoryInv, EditorInv
<1>2. /\ from \in 0..Len(TextOf(b.lines)) /\ to \in 0..Len(TextOf(b.lines))
      /\ from <= to /\ (HasSelection(b) => from # to)
      /\ Selection(b) = Span(from, to) /\ Span(from, to).from = from /\ Span(from, to).to = to
      /\ ~ HasSelection(b) => from = OffsetOf(b, b.cursor) /\ to = OffsetOf(b, b.cursor)
  BY <1>1, SelectedSpan
<1>3. CASE text = <<>> /\ ~ HasSelection(b)
  <2>1. c = b
    BY <1>3 DEF InsertedImpl
  <2> DEFINE range == Selection(b)
  <2>2. Edited(b, range, <<>>) /\ range.from = range.to
    BY <1>2, <1>3, <2>1
  <2>3. b.group = IF Unmoved(b) THEN buffer.group ELSE None
    BY DEF Unmoved
  <2> HIDE DEF range
  <2> QED BY <1>1, <2>2, <2>3, NothingMirrored
<1>4. CASE text # <<>> \/ HasSelection(b)
  <2>1. Rewrites(b, c, from, to, text) /\ SameStacks(EditBegun(b, kind, coalesces), c)
    BY <1>1, <1>4, InsertedImplEffect
  <2>2. Edited(c, Span(from, to), text)
    BY <1>2
  <2>3. ~ HasSelection(b) => from <= OffsetOf(b, b.cursor) /\ OffsetOf(b, b.cursor) <= to
    <3> HIDE DEF from, to
    <3> QED BY <1>2
  <2> HIDE DEF c, from, to, kind
  <2>4. from # to \/ text # <<>>
    BY <1>2, <1>4
  <2>5. buffer' = c /\ request' = [from |-> from, to |-> to, text |-> text]
    BY <2>2, <2>4 DEF Edited, Span
  <2>6. c \in Buffer /\ ~ HasSelection(c) /\ OffsetOf(c, SelectionStart(c)) = from + Len(text)
        /\ OffsetOf(c, SelectionEnd(c)) = from + Len(text) /\ Len(text) \in Nat
    BY ONLY <1>1, <1>2, <2>1, text \in Text, AfterRewrite
  <2>7. from <= OffsetOf(c, SelectionStart(c)) /\ OffsetOf(c, SelectionEnd(c)) <= from + Len(text)
    BY <1>2, <2>6
  <2>8. kind \in {"insert", "delete"} /\ coalesces \in BOOLEAN /\ text \in Text
        /\ (coalesces => (text = <<>> <=> kind = "delete"))
        /\ b.lines = buffer.lines /\ b.undo = buffer.undo /\ b.redo = buffer.redo
    BY DEF kind
  <2>9. coalesces /\ Open(b, kind) =>
          /\ Open(buffer, kind)
          /\ from <= OffsetOf(buffer, buffer.cursor) /\ OffsetOf(buffer, buffer.cursor) <= to
    BY <2>3
  <2>10. c.lines = c.lines /\ c.undo = c.undo /\ c.redo = c.redo
         /\ (c.group = None \/ (c.group = c.group /\ ~ HasSelection(c) /\ c.cursor = c.cursor))
    BY <2>6
  <2>11. History!Edit /\ Grouped'
    BY ONLY HistoryInv, <1>1, <1>2, <2>1, <2>4, <2>5, <2>6, <2>7, <2>8, <2>9, <2>10, EditIsEdit
  <2> QED BY <2>11 DEF Mirrored, History!Next
<1> QED BY <1>3, <1>4

LEMMA InsertionsMirrored ==
  ASSUME HistoryInv, Newline \/ Paste
  PROVE  Mirrored
<1>1. CASE Newline
  <2> DEFINE text == <<Break>>
             coalesces == ~ HasSelection(buffer) /\ text # <<Break>> /\ Len(text) = 1
  <2>1. Edited(InsertedImpl(buffer, text, coalesces), Selection(buffer), text)
    BY <1>1 DEF Newline, Inserted
  <2>2. text \in Text /\ coalesces \in BOOLEAN /\ ~ coalesces
    BY BreakIsText
  <2> HIDE DEF text, coalesces
  <2> QED BY <2>1, <2>2, InsertMirrored
<1>2. CASE Paste
  <2>1. PICK text \in Inputs : Edited(InsertedImpl(buffer, text, FALSE), Selection(buffer), text)
    BY <1>2 DEF Paste
  <2> DEFINE coalesces == FALSE
  <2>2. text \in Text /\ coalesces \in BOOLEAN /\ ~ coalesces
        /\ Edited(InsertedImpl(buffer, text, coalesces), Selection(buffer), text)
    BY <2>1, EditorAssumption
  <2> HIDE DEF coalesces
  <2> QED BY <2>2, InsertMirrored
<1> QED BY <1>1, <1>2

LEMMA TargetWithin ==
  ASSUME HistoryInv, NEW given \in Given
  PROVE  LET range == Target(given)
         IN /\ range.from \in 0..Len(TextOf(buffer.lines))
            /\ range.to \in 0..Len(TextOf(buffer.lines))
            /\ range.from <= range.to /\ range = Span(range.from, range.to)
<1> DEFINE n == Len(TextOf(buffer.lines))
           range == Target(given)
<1>1. buffer \in Buffer
  BY DEF HistoryInv, EditorInv
<1>2. n \in Nat
  BY <1>1, TextOfType DEF Buffer, Text
<1>3. CASE given # None
  <2>1. given \in Ranges(n) /\ range = given
    BY <1>3 DEF Given, Target
  <2> HIDE DEF n, range
  <2> QED BY <2>1 DEF Ranges, Span, n, range
<1>4. CASE given = None /\ marked # None
  <2>1. range = Span(Smaller(marked.from, n), Smaller(marked.to, n))
    BY <1>4 DEF Target
  <2>2. marked.from \in Nat /\ marked.to \in Nat /\ marked.from <= marked.to
    BY <1>4 DEF HistoryInv, EditorInv, Ranging
  <2>3. Smaller(marked.from, n) \in 0..n /\ Smaller(marked.to, n) \in 0..n
        /\ Smaller(marked.from, n) <= Smaller(marked.to, n)
    <3> HIDE DEF n
    <3> QED BY <1>2, <2>2 DEF Smaller
  <2> HIDE DEF n, range
  <2> QED BY <2>1, <2>3 DEF Span, n, range
<1>5. CASE given = None /\ marked = None
  <2>1. range = Selection(buffer)
    BY <1>5 DEF Target
  <2> HIDE DEF range
  <2> QED BY <1>1, <2>1, SelectedSpan DEF range
<1> QED BY <1>3, <1>4, <1>5

\* Both ends of a selection are its anchor and its caret.
LEMMA EndsBetween ==
  ASSUME NEW d \in Buffer, NEW from \in Nat, NEW to \in Nat,
         from <= OffsetOf(d, Anchor(d)), OffsetOf(d, Anchor(d)) <= to,
         from <= OffsetOf(d, d.cursor), OffsetOf(d, d.cursor) <= to
  PROVE  from <= OffsetOf(d, SelectionStart(d)) /\ OffsetOf(d, SelectionEnd(d)) <= to
BY DEF SelectionStart, SelectionEnd

\* What d shows of the text that replaced a range of the buffer's.
Shown(c, d, from, text) ==
  /\ d \in Buffer /\ d.lines = c.lines /\ d.undo = c.undo /\ d.redo = c.redo
  /\ d.group = IF Anchor(d) = Anchor(c) /\ d.cursor = c.cursor THEN c.group ELSE None
  /\ from <= OffsetOf(d, Anchor(d)) /\ OffsetOf(d, Anchor(d)) <= from + Len(text)
  /\ from <= OffsetOf(d, d.cursor) /\ OffsetOf(d, d.cursor) <= from + Len(text)

LEMMA NothingReplaced ==
  ASSUME HistoryInv, NEW from \in 0..Len(TextOf(buffer.lines)),
         NEW d, Shown(Replaced(buffer, Span(from, from), <<>>), d, from, <<>>),
         Edited(d, Span(from, from), <<>>)
  PROVE  Mirrored
<1> DEFINE b == buffer
           p == PositionAt(b, from)
           s == SelectionSet(b, p, p)
           c == Replaced(b, Span(from, from), <<>>)
<1>1. b \in Buffer /\ from \in Nat
  BY DEF HistoryInv, EditorInv
<1>2. p \in Here(b) /\ OffsetOf(b, p) = from
  BY <1>1, PositionThere
<1> HIDE DEF p
<1>3. s \in Buffer /\ s.lines = b.lines /\ s.undo = b.undo /\ s.redo = b.redo
      /\ s.cursor = p /\ Anchor(s) = p
      /\ s.group = IF Anchor(b) = p /\ b.cursor = p THEN b.group ELSE None
  BY <1>1, <1>2, SelectionSetEffect
<1>4. c = s
  <2>1. c = Inserted(s, <<>>)
    BY DEF Replaced, Span, p
  <2> HIDE DEF s
  <2>2. ~ HasSelection(s)
    BY <1>3 DEF HasSelection
  <2> QED BY <2>1, <2>2 DEF Inserted, InsertedImpl
<1> HIDE DEF s
<1>5. Shown(s, d, from, <<>>)
  BY <1>4
<1>6. d \in Buffer /\ d.lines = b.lines /\ d.undo = b.undo /\ d.redo = b.redo
  BY <1>3, <1>5 DEF Shown
<1>7. OffsetOf(d, Anchor(d)) = from /\ OffsetOf(d, d.cursor) = from
  <2> DEFINE m == OffsetOf(d, Anchor(d))
             n == OffsetOf(d, d.cursor)
  <2>1. from <= m /\ m <= from + Len(<<>>) /\ from <= n /\ n <= from + Len(<<>>)
    BY <1>5 DEF Shown
  <2>2. Len(<<>>) = 0
    BY BreakIsText
  <2>3. m \in Nat /\ n \in Nat
    BY <1>6, Ends, OffsetOfType DEF Here
  <2> HIDE DEF m, n
  <2>4. m = from /\ n = from
    BY <1>1, <2>1, <2>2, <2>3
  <2> QED BY <2>4 DEF m, n
<1>8. Anchor(d) = p /\ d.cursor = p
  <2>1. Anchor(d) \in Here(d) /\ d.cursor \in Here(d)
    BY <1>6, Ends
  <2>2. PositionAt(d, from) = Anchor(d) /\ PositionAt(d, from) = d.cursor
    BY <1>6, <1>7, <2>1, PositionBack
  <2>3. PositionAt(d, from) = p
    BY <1>1, <1>6, SameOffsets DEF p
  <2> QED BY <2>2, <2>3
<1>9. d.group = IF Unmoved(d) THEN b.group ELSE None
  BY <1>3, <1>5, <1>8 DEF Shown, Unmoved
<1> DEFINE range == Span(from, from)
<1>10. range.from = range.to
  BY DEF Span
<1> HIDE DEF range
<1>11. Edited(d, range, <<>>)
  BY DEF range
<1> QED BY <1>6, <1>9, <1>10, <1>11, NothingMirrored

LEMMA ReplaceMirrored ==
  ASSUME HistoryInv, NEW text \in Text,
         NEW from \in 0..Len(TextOf(buffer.lines)), NEW to \in 0..Len(TextOf(buffer.lines)),
         from <= to,
         NEW d, Shown(Replaced(buffer, Span(from, to), text), d, from, text),
         Edited(d, Span(from, to), text)
  PROVE  Mirrored
<1>1. CASE from = to /\ text = <<>>
  BY <1>1, NothingReplaced
<1>2. CASE from # to \/ text # <<>>
  <2> DEFINE b == buffer
             s == SelectionSet(b, PositionAt(b, from), PositionAt(b, to))
             coalesces == from = to /\ text # <<Break>> /\ Len(text) = 1
             c == Replaced(b, Span(from, to), text)
             kind == "insert"
  <2>1. b \in Buffer
    BY DEF HistoryInv, EditorInv
  <2>2. /\ Rewrites(b, c, from, to, text)
        /\ SameStacks(EditBegun(s, kind, coalesces), c)
        /\ s \in Buffer /\ s.lines = b.lines /\ s.undo = b.undo /\ s.redo = b.redo
        /\ s.group = None \/ /\ s.group = b.group /\ Anchor(b) = PositionAt(b, from)
                             /\ b.cursor = PositionAt(b, to)
    BY <1>2, <2>1, ReplacedEffect
  <2>3. OffsetOf(b, PositionAt(b, to)) = to
    BY <2>1, PositionThere
  <2>4. kind \in {"insert", "delete"} /\ coalesces \in BOOLEAN /\ (from # to \/ text # <<>>)
        /\ (coalesces => (text = <<>> <=> kind = "delete")) /\ (coalesces => from = to)
    <3>1. Len(<<>>) = 0
      BY BreakIsText
    <3> QED BY <1>2, <3>1
  <2> HIDE DEF s, c, coalesces
  <2>5. coalesces /\ Open(s, kind) =>
          /\ Open(buffer, kind)
          /\ from <= OffsetOf(buffer, buffer.cursor) /\ OffsetOf(buffer, buffer.cursor) <= to
    <3> SUFFICES ASSUME coalesces, Open(s, kind)
                 PROVE  /\ Open(buffer, kind)
                        /\ from <= OffsetOf(buffer, buffer.cursor)
                        /\ OffsetOf(buffer, buffer.cursor) <= to
      OBVIOUS
    <3>1. s.group # None
      BY NoneClosed
    <3>2. Open(buffer, kind) /\ OffsetOf(buffer, buffer.cursor) = to
      BY <2>2, <2>3, <3>1 DEF Open
    <3> QED BY <2>4, <3>2
  <2>6. Shown(c, d, from, text)
    BY DEF c
  <2>7. c \in Buffer /\ ~ HasSelection(c) /\ Len(text) \in Nat
    BY ONLY <2>1, <2>2, text \in Text, from \in 0..Len(TextOf(buffer.lines)),
            to \in 0..Len(TextOf(buffer.lines)), AfterRewrite
  <2>8. d \in Buffer /\ d.lines = c.lines /\ d.undo = c.undo /\ d.redo = c.redo
        /\ (d.group = None \/ (d.group = c.group /\ ~ HasSelection(d) /\ d.cursor = c.cursor))
    BY <2>6, <2>7 DEF Shown, HasSelection
  <2>9. from <= OffsetOf(d, SelectionStart(d)) /\ OffsetOf(d, SelectionEnd(d)) <= from + Len(text)
    <3> DEFINE end == from + Len(text)
    <3>1. end \in Nat /\ from \in Nat
      BY <2>7
    <3>2. /\ from <= OffsetOf(d, Anchor(d)) /\ OffsetOf(d, Anchor(d)) <= end
          /\ from <= OffsetOf(d, d.cursor) /\ OffsetOf(d, d.cursor) <= end
      BY <2>6 DEF Shown
    <3> HIDE DEF end
    <3>3. from <= OffsetOf(d, SelectionStart(d)) /\ OffsetOf(d, SelectionEnd(d)) <= end
      BY ONLY <2>8, <3>1, <3>2, EndsBetween
    <3> QED BY <3>3 DEF end
  <2>10. buffer' = d /\ request' = [from |-> from, to |-> to, text |-> text]
    BY <2>4 DEF Edited, Span
  <2> HIDE DEF kind
  <2>11. History!Edit /\ Grouped'
    BY ONLY HistoryInv, text \in Text, from \in 0..Len(TextOf(buffer.lines)),
            to \in 0..Len(TextOf(buffer.lines)), from <= to,
            <2>2, <2>4, <2>5, <2>7, <2>8, <2>9, <2>10, EditIsEdit
  <2> QED BY <2>11 DEF Mirrored, History!Next
<1> QED BY <1>1, <1>2

LEMMA ReplacedShown ==
  ASSUME NEW b \in Buffer, NEW text \in Text,
         NEW from \in 0..Len(TextOf(b.lines)), NEW to \in 0..Len(TextOf(b.lines)), from <= to
  PROVE  LET c == Replaced(b, Span(from, to), text)
         IN /\ c \in Buffer /\ Len(text) \in Nat
            /\ OffsetOf(c, c.cursor) = from + Len(text)
            /\ from + Len(text) <= Len(TextOf(c.lines))
            /\ Shown(c, c, from, text)
<1> DEFINE c == Replaced(b, Span(from, to), text)
           m == Len(text)
           n == Len(TextOf(b.lines))
<1>1. m \in Nat /\ n \in Nat
  <2>1. TextOf(b.lines) \in Text
    BY TextOfType DEF Buffer
  <2> QED BY <2>1 DEF Text
<1>2. c \in Buffer /\ ~ HasSelection(c) /\ OffsetOf(c, c.cursor) = from + m
      /\ from + m <= Len(TextOf(c.lines))
  <2>1. CASE from # to \/ text # <<>>
    <3>1. Rewrites(b, c, from, to, text)
      BY <2>1, ReplacedEffect
    <3> HIDE DEF c, m, n
    <3>2. ~ HasSelection(c) /\ c \in Buffer
      BY <3>1, RewritesEffect DEF Rewrites
    <3>3. OffsetOf(c, c.cursor) = from + m /\ Len(TextOf(c.lines)) = from + m + (n - to)
      BY <3>1, RewritesEffect DEF m, n
    <3>4. from \in 0..n /\ to \in 0..n
      BY DEF n
    <3>5. from + m <= from + m + (n - to)
      BY <1>1, <3>4
    <3> QED BY <3>2, <3>3, <3>5
  <2>2. CASE from = to /\ text = <<>>
    <3> DEFINE p == PositionAt(b, from)
               s == SelectionSet(b, p, p)
    <3>1. p \in Here(b) /\ OffsetOf(b, p) = from
      BY PositionThere
    <3> HIDE DEF p
    <3>2. s \in Buffer /\ s.lines = b.lines /\ s.cursor = p /\ Anchor(s) = p
      BY <3>1, SelectionSetEffect
    <3>3. c = Inserted(s, <<>>)
      BY <2>2 DEF Replaced, Span, p
    <3> HIDE DEF s, c
    <3>4. ~ HasSelection(s)
      BY <3>2 DEF HasSelection
    <3>5. c = s
      BY <3>3, <3>4 DEF Inserted, InsertedImpl
    <3>6. OffsetOf(s, p) = from
      BY <3>1, <3>2, SameOffsets
    <3>7. m = 0
      BY <2>2, BreakIsText
    <3>8. from \in 0..n
      BY DEF n
    <3> HIDE DEF m
    <3>9. Len(TextOf(c.lines)) = n
      BY <3>2, <3>5
    <3> HIDE DEF n
    <3> QED BY <3>2, <3>4, <3>5, <3>6, <3>7, <3>8, <3>9
  <2> QED BY <2>1, <2>2
<1>3. Shown(c, c, from, text)
  <2>1. Anchor(c) = c.cursor
    BY <1>2 DEF HasSelection
  <2>2. from <= from + m
    BY <1>1
  <2> HIDE DEF c
  <2> QED BY <1>2, <2>1, <2>2 DEF Shown
<1> QED BY <1>1, <1>2, <1>3

\* Of the text just put there a part is selected.
LEMMA ChosenShown ==
  ASSUME NEW c \in Buffer, NEW text \in Text, NEW from \in Nat,
         from + Len(text) <= Len(TextOf(c.lines)), NEW chosen \in Ranges(Len(text))
  PROVE  Shown(c, SelectionSet(c, PositionAt(c, from + chosen.from),
                                  PositionAt(c, from + chosen.to)), from, text)
<1> DEFINE i == from + chosen.from
           j == from + chosen.to
           p == PositionAt(c, i)
           q == PositionAt(c, j)
           d == SelectionSet(c, p, q)
           m == Len(text)
           n == Len(TextOf(c.lines))
<1>1. m \in Nat /\ n \in Nat /\ from + m <= n
  <2>1. TextOf(c.lines) \in Text
    BY TextOfType DEF Buffer
  <2> QED BY <2>1 DEF Text
<1>2. chosen.from \in 0..m /\ chosen.to \in 0..m
  <2>1. chosen \in Ranges(m)
    OBVIOUS
  <2> HIDE DEF m
  <2> QED BY <2>1 DEF Ranges
<1>3. i \in 0..n /\ j \in 0..n /\ from <= i /\ i <= from + m /\ from <= j /\ j <= from + m
  <2> DEFINE x == chosen.from
             y == chosen.to
  <2>1. x \in Nat /\ y \in Nat /\ x <= m /\ y <= m /\ m \in Nat /\ n \in Nat /\ from + m <= n
    BY <1>1, <1>2
  <2> HIDE DEF m, n, x, y
  <2>2. from + x <= from + m /\ from + y <= from + m /\ from <= from + x /\ from <= from + y
        /\ from + x \in Nat /\ from + y \in Nat
    BY ONLY <2>1, from \in Nat
  <2>3. from + x \in 0..n /\ from + y \in 0..n
    BY ONLY <2>1, <2>2, from \in Nat
  <2> QED BY <2>2, <2>3 DEF x, y
<1> HIDE DEF i, j
<1>4. p \in Here(c) /\ q \in Here(c) /\ OffsetOf(c, p) = i /\ OffsetOf(c, q) = j
  BY <1>3, PositionThere
<1> HIDE DEF p, q
<1>5. d \in Buffer /\ d.lines = c.lines /\ d.undo = c.undo /\ d.redo = c.redo
      /\ d.cursor = q /\ Anchor(d) = p
      /\ d.group = IF Anchor(c) = p /\ c.cursor = q THEN c.group ELSE None
  BY <1>4, SelectionSetEffect
<1> HIDE DEF d
<1>6. OffsetOf(d, p) = i /\ OffsetOf(d, q) = j
  BY <1>4, <1>5, SameOffsets
<1>7. Shown(c, d, from, text)
  BY <1>3, <1>5, <1>6 DEF Shown
<1> QED BY <1>7 DEF d, p, q, i, j

LEMMA TypedMirrored ==
  ASSUME HistoryInv, ReplaceTextInRange
  PROVE  Mirrored
<1>1. PICK given \in Given, text \in Inputs :
             Edited(Replaced(buffer, Target(given), text), Target(given), text)
  BY DEF ReplaceTextInRange
<1> DEFINE range == Target(given)
           from == range.from
           to == range.to
           c == Replaced(buffer, Span(from, to), text)
<1>2. from \in 0..Len(TextOf(buffer.lines)) /\ to \in 0..Len(TextOf(buffer.lines))
      /\ from <= to /\ range = Span(from, to)
  BY TargetWithin
<1>3. text \in Text /\ buffer \in Buffer
  BY EditorAssumption DEF HistoryInv, EditorInv
<1> HIDE DEF from, to
<1>4. Shown(c, c, from, text)
  BY <1>2, <1>3, ReplacedShown
<1>5. Edited(c, Span(from, to), text)
  BY <1>1, <1>2
<1> QED BY <1>2, <1>3, <1>4, <1>5, ReplaceMirrored

LEMMA ComposedMirrored ==
  ASSUME HistoryInv, ReplaceAndMarkTextInRange
  PROVE  Mirrored /\ (marked' # None => marked'.from <= marked'.to)
<1>0. PICK given \in Given, text \in Inputs \cup {<<>>} :
         \E chosen \in {None} \cup Ranges(Len(text)) :
         LET range == Target(given)
             b == Replaced(buffer, range, text)
             length == OffsetOf(b, b.cursor) - range.from
         IN /\ Edited(IF chosen = None THEN b
                      ELSE SelectionSet(b, PositionAt(b, range.from + chosen.from),
                                           PositionAt(b, range.from + chosen.to)),
                      range, text)
            /\ marked' = IF length = 0 THEN None ELSE Span(range.from, range.from + length)
  BY DEF ReplaceAndMarkTextInRange
<1>1. PICK chosen \in {None} \cup Ranges(Len(text)) :
         LET range == Target(given)
             b == Replaced(buffer, range, text)
             length == OffsetOf(b, b.cursor) - range.from
         IN /\ Edited(IF chosen = None THEN b
                      ELSE SelectionSet(b, PositionAt(b, range.from + chosen.from),
                                           PositionAt(b, range.from + chosen.to)),
                      range, text)
            /\ marked' = IF length = 0 THEN None ELSE Span(range.from, range.from + length)
  BY <1>0
<1> DEFINE range == Target(given)
           from == range.from
           to == range.to
           c == Replaced(buffer, Span(from, to), text)
           d == IF chosen = None THEN c
                ELSE SelectionSet(c, PositionAt(c, from + chosen.from),
                                     PositionAt(c, from + chosen.to))
           length == OffsetOf(c, c.cursor) - from
<1>2. from \in 0..Len(TextOf(buffer.lines)) /\ to \in 0..Len(TextOf(buffer.lines))
      /\ from <= to /\ range = Span(from, to)
  BY TargetWithin
<1>3. text \in Text /\ buffer \in Buffer
  BY EditorAssumption, BreakIsText DEF HistoryInv, EditorInv
<1>4. /\ Edited(d, Span(from, to), text)
      /\ marked' = IF length = 0 THEN None ELSE Span(from, from + length)
  BY <1>1, <1>2
<1> HIDE DEF from, to
<1>5. /\ c \in Buffer /\ Len(text) \in Nat
      /\ OffsetOf(c, c.cursor) = from + Len(text)
      /\ from + Len(text) <= Len(TextOf(c.lines))
      /\ Shown(c, c, from, text)
  BY <1>2, <1>3, ReplacedShown
<1>6. from \in Nat
  BY <1>2
<1>7. Shown(c, d, from, text)
  <2>1. CASE chosen = None
    BY <1>5, <2>1
  <2>2. CASE chosen # None
    <3>1. chosen \in Ranges(Len(text))
      BY <2>2
    <3> HIDE DEF c
    <3> QED BY <1>3, <1>5, <1>6, <2>2, <3>1, ChosenShown
  <2> QED BY <2>1, <2>2
<1>8. Mirrored
  <2> HIDE DEF d
  <2> QED BY <1>2, <1>3, <1>4, <1>7, ReplaceMirrored
<1>9. marked' # None => marked'.from <= marked'.to
  <2>1. length = Len(text)
    <3> HIDE DEF c
    <3> QED BY <1>5, <1>6
  <2>2. from <= from + length
    BY <1>5, <1>6, <2>1
  <2> HIDE DEF length
  <2> QED BY <1>4, <2>2 DEF Span
<1> QED BY <1>8, <1>9

-----------------------------------------------------------------------------
LEMMA HistoryInvInit == EditorInit => HistoryInv /\ History!Init
<1> SUFFICES ASSUME EditorInit PROVE HistoryInv /\ History!Init
  OBVIOUS
<1>1. PICK text \in Documents : buffer = NewBuffer(text)
  BY DEF EditorInit
<1> DEFINE b == NewBuffer(text)
<1>2. text \in Text
  BY EditorAssumption
<1>3. /\ Texts(b.undo) = <<>> /\ Texts(b.redo) = <<>>
      /\ Len(b.undo) = 0 /\ Len(b.redo) = 0 /\ b.group = None
      /\ OffsetOf(b, SelectionStart(b)) = 0 /\ OffsetOf(b, SelectionEnd(b)) = 0
  BY <1>2, NewIsNew
<1>4. buffer = b /\ request = None /\ marked = None
  BY <1>1 DEF EditorInit
<1> HIDE DEF b
<1>5. History!Init
  BY <1>3, <1>4 DEF History!Init
<1>6. \A kind \in {"insert", "delete"} : ~ Open(buffer, kind)
  BY <1>3, <1>4, NoneClosed
<1>7. Len(buffer.undo) + Len(buffer.redo) <= HistoryCap
  <2>1. 0 + 0 <= HistoryCap
    BY EditorAssumption
  <2> QED BY <1>3, <1>4, <2>1
<1>8. EditorInv
  BY EditorInvInit
<1> QED BY <1>4, <1>5, <1>6, <1>7, <1>8 DEF HistoryInv, Open

LEMMA IdleMirrored ==
  ASSUME HistoryInv, UNCHANGED <<buffer, request>>
  PROVE  Mirrored
BY DEF HistoryInv, Grouped, Mirrored, History!vars

LEMMA HistoryNext ==
  HistoryInv /\ [EditorNext]_editorVars => HistoryInv' /\ [History!Next]_(History!vars)
<1> SUFFICES ASSUME HistoryInv, [EditorNext]_editorVars
             PROVE  HistoryInv' /\ [History!Next]_(History!vars)
  OBVIOUS
<1>1. EditorInv'
  BY EditorInvNext DEF HistoryInv
<1>2. Mirrored /\ (marked' # None => marked'.from <= marked'.to)
  <2>1. UNCHANGED marked \/ marked' = None => (marked' # None => marked'.from <= marked'.to)
    BY DEF HistoryInv
  <2>2. CASE Move \/ SelectAll \/ MouseDown
    BY <2>1, <2>2, MovesMirrored DEF Move, SelectAll, MouseDown, Shows
  <2>3. CASE Drag
    BY <2>1, <2>3, DragMirrored DEF Drag
  <2>4. CASE Backspace \/ DeleteForward \/ Cut
    BY <2>1, <2>4, ErasuresMirrored DEF Backspace, DeleteForward, Cut
  <2>5. CASE Newline \/ Paste
    BY <2>1, <2>5, InsertionsMirrored DEF Newline, Paste
  <2>6. CASE Undo \/ Redo
    BY <2>1, <2>6, UndoMirrored DEF Undo, Redo
  <2>7. CASE SetText
    BY <2>1, <2>7, SetTextMirrored DEF SetText
  <2>8. CASE ReplaceTextInRange
    BY <2>1, <2>8, TypedMirrored DEF ReplaceTextInRange
  <2>9. CASE ReplaceAndMarkTextInRange
    BY <2>9, ComposedMirrored
  <2>10. CASE UnmarkText \/ OpenFind \/ CloseFind
    BY <2>1, <2>10, IdleMirrored DEF UnmarkText, OpenFind, CloseFind
  <2>11. CASE SetFindQuery \/ FindStep \/ ToggleFindCase
    BY <2>1, <2>11, FindMirrored DEF SetFindQuery, FindStep, ToggleFindCase, Lands
  <2>12. CASE UNCHANGED editorVars
    BY <2>1, <2>12, IdleMirrored DEF editorVars
  <2> QED BY <2>2, <2>3, <2>4, <2>5, <2>6, <2>7, <2>8, <2>9, <2>10, <2>11, <2>12 DEF EditorNext
<1>3. HistoryInv'
  BY <1>1, <1>2 DEF Mirrored, Grouped, HistoryInv
<1> QED BY <1>2, <1>3 DEF Mirrored

(* While edits may still be taken in one undo step, the caret is where the    *)
(* last of them ended; and the states kept to undo and to redo are together  *)
(* no more than the cap, so a redo never evicts one: the buffer's groups and *)
(* stacks, for any texts, edits, selections and compositions.                *)
THEOREM HistoryInvariant == EditorSpec => []HistoryInv
<1>1. EditorInit => HistoryInv
  BY HistoryInvInit
<1>2. HistoryInv /\ [EditorNext]_editorVars => HistoryInv'
  BY HistoryNext
<1> QED BY <1>1, <1>2, PTL DEF EditorSpec

(* The buffer of lines, positions and snapshots implements one text with a   *)
(* linear history: an edit replaces exactly the range it was asked to, undo  *)
(* and redo go along the texts there were, and edits share a step only when  *)
(* nothing came between them.                                                *)
THEOREM HistoryKept == EditorSpec => KeepsHistory
<1>1. EditorInit => HistoryInv /\ History!Init
  BY HistoryInvInit
<1>2. HistoryInv /\ [EditorNext]_editorVars => HistoryInv' /\ [History!Next]_(History!vars)
  BY HistoryNext
<1> QED BY <1>1, <1>2, PTL DEF EditorSpec, KeepsHistory, History!Spec

=============================================================================
