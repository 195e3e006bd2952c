------------------------------- MODULE Editor -------------------------------
(* zsql-editor: the SQL editor's text buffer with its caret, selection and   *)
(* undo stacks (buffer.rs), the operating system's way into it (view/        *)
(* input.rs and zsql-ui/src/text_input/handler.rs), and the find bar         *)
(* (find.rs and view/find.rs).                                               *)
(*                                                                           *)
(* The buffer is a record of TextBuffer's fields, and each of its methods an *)
(* operator from one buffer to the next; the view's handlers, which compose  *)
(* them, are the actions. A line is a sequence of characters without a line  *)
(* break. Offsets count characters: their conversions from and to bytes and  *)
(* UTF-16 units are left out. Lines are numbered from 1, columns from 0.     *)
(*                                                                           *)
(* Definitions named Mut... are faulty variants of the definition they       *)
(* precede, for checking that the properties can fail.                       *)
EXTENDS Naturals, Sequences, SequencesExt, FiniteSets

CONSTANTS Break,       \* the line break
          Fold,        \* character -> the one it is without regard to case
          ClassOf,     \* character -> CharClass
          Inputs,      \* texts typed, pasted or composed
          Documents,   \* texts given to set_text
          Queries,     \* texts searched for
          HistoryCap,  \* EDITOR_HISTORY_CAP
          None,
          EditorOps,   \* of "extend", "mouse", "compose", "find" and "set text",
                       \* those explored
          MaxTextEdits, MaxChars   \* bounds

VARIABLES buffer,      \* EditorView's buffer: see NewBuffer
          marked,      \* marked_range: None or [from, to], of characters
          find,        \* None or [query, matches, current, exact]
          edits,       \* edits so far
          request      \* for the properties: what the last edit was asked to
                       \* replace, None if its undo group is closed

editorVars == <<buffer, marked, find, edits, request>>

Text == Seq(DOMAIN Fold \cup {Break})

\* A text is of characters that Fold knows, and line breaks.
ASSUME EditorAssumption ==
  /\ Inputs \subseteq Text /\ Documents \subseteq Text /\ Queries \subseteq Text
  /\ HistoryCap \in Nat \ {0}

\* None is no position, no undo group and no request.
ASSUME NoneAssumption ==
  /\ None \notin [line : Nat, column : Nat]
  /\ None \notin [kind : {"insert", "delete"}, coalescing : BOOLEAN]
  /\ None \notin [from : Nat, to : Nat, text : Text]

-----------------------------------------------------------------------------
(* TextBuffer.                                                               *)

At(line, column) == [line |-> line, column |-> column]
Before(p, q) == p.line < q.line \/ (p.line = q.line /\ p.column < q.column)

\* str::split at line breaks.
Lines(text) ==
  LET split[i \in 0..Len(text)] ==
        IF i = 0 THEN << <<>> >>
        ELSE LET ls == split[i - 1]
             IN IF text[i] = Break THEN Append(ls, <<>>)
                ELSE [ls EXCEPT ![Len(ls)] = Append(@, text[i])]
  IN split[Len(text)]

\* TextBuffer::text: the lines joined.
TextOf(lines) ==
  LET joined[n \in 1..Len(lines)] ==
        IF n = 1 THEN lines[1] ELSE joined[n - 1] \o <<Break>> \o lines[n]
  IN joined[Len(lines)]

\* from_text.
NewBuffer(text) ==
  [lines |-> Lines(text), cursor |-> At(1, 0), anchor |-> None, desired |-> 0,
   undo |-> <<>>, redo |-> <<>>, group |-> None]

Anchor(b) == IF b.anchor = None THEN b.cursor ELSE b.anchor
HasSelection(b) == Anchor(b) # b.cursor
SelectionStart(b) == IF Before(Anchor(b), b.cursor) THEN Anchor(b) ELSE b.cursor
SelectionEnd(b) == IF Before(Anchor(b), b.cursor) THEN b.cursor ELSE Anchor(b)

Smaller(m, n) == IF m < n THEN m ELSE n
LineEnd(b, line) == At(line, Len(b.lines[line]))
DocumentEnd(b) == LineEnd(b, Len(b.lines))
Clamp(b, p) == LET line == Smaller(p.line, Len(b.lines))
               IN At(line, Smaller(p.column, Len(b.lines[line])))

LeftOf(b, p) == IF p.column > 0 THEN At(p.line, p.column - 1)
                ELSE IF p.line > 1 THEN LineEnd(b, p.line - 1) ELSE p
RightOf(b, p) == IF p.column < Len(b.lines[p.line]) THEN At(p.line, p.column + 1)
                 ELSE IF p.line < Len(b.lines) THEN At(p.line + 1, 0) ELSE p
Above(b, p) == IF p.line = 1 THEN p
               ELSE At(p.line - 1, Smaller(b.desired, Len(b.lines[p.line - 1])))
Below(b, p) == IF p.line = Len(b.lines) THEN p
               ELSE At(p.line + 1, Smaller(b.desired, Len(b.lines[p.line + 1])))

\* move_cursor_to_preserving_desired_column, for up and down.
MovedSteadily(b, p, extend) ==
  [b EXCEPT !.group = None,
            !.anchor = IF extend THEN Anchor(b) ELSE None,
            !.cursor = Clamp(b, p)]
\* move_cursor_to.
MovedTo(b, p, extend) ==
  LET c == MovedSteadily(b, p, extend) IN [c EXCEPT !.desired = c.cursor.column]

\* The targets of the movement methods.
Movements(b, extend) ==
  {MovedTo(b, p, extend) : p \in {LeftOf(b, b.cursor), RightOf(b, b.cursor),
                                At(b.cursor.line, 0), LineEnd(b, b.cursor.line),
                                At(1, 0), DocumentEnd(b)}}
  \cup {MovedSteadily(b, p, extend) : p \in {Above(b, b.cursor), Below(b, b.cursor)}}

CursorSet(b, p) == MovedTo(b, p, FALSE)

\* set_selection closes the undo group only if it moves something.
SelectionSet(b, p, q) ==
  [b EXCEPT !.group = IF Anchor(b) = Clamp(b, p) /\ b.cursor = Clamp(b, q)
                      THEN @ ELSE None,
            !.anchor = Clamp(b, p), !.cursor = Clamp(b, q),
            !.desired = Clamp(b, q).column]

\* select_all, select_line and select_word end alike.
Selected(b, p, q) ==
  [b EXCEPT !.group = None, !.anchor = p, !.cursor = q, !.desired = q.column]

\* The run of one class of characters that touches a position.
WordSelected(b, p) ==
  LET at == Clamp(b, p)
      line == b.lines[at.line]
      SameRun(i, j) == \A k \in i..j : ClassOf[line[k]] = ClassOf[line[at.column + 1]]
  IN IF at.column = Len(line) THEN CursorSet(b, at)
     ELSE LET first == CHOOSE i \in 0..at.column :
                         /\ SameRun(i + 1, at.column + 1)
                         /\ i = 0 \/ ~ SameRun(i, i)
              last == CHOOSE j \in at.column + 1..Len(line) :
                         /\ SameRun(at.column + 1, j)
                         /\ j = Len(line) \/ ~ SameRun(j + 1, j + 1)
          IN Selected(b, At(at.line, first), At(at.line, last))

SnapshotOf(b) == [lines |-> b.lines, cursor |-> b.cursor, anchor |-> b.anchor,
                desired |-> b.desired]

\* Only the text is put back.
MutRestoredTo(b, entry) == [b EXCEPT !.lines = entry.lines]

RestoredTo(b, entry) ==
  [b EXCEPT !.lines = entry.lines, !.cursor = entry.cursor,
            !.anchor = entry.anchor, !.desired = entry.desired]

\* push_undo_entry, the oldest one evicted.
UndoPushed(b, entry) ==
  [b EXCEPT !.undo = IF Len(@) = HistoryCap THEN Append(Tail(@), entry)
                     ELSE Append(@, entry)]

\* What was undone stays to be redone.
MutEditBegun(b, kind, coalesces) ==
  IF coalesces /\ b.group = [kind |-> kind, coalescing |-> TRUE] THEN b
  ELSE [UndoPushed(b, SnapshotOf(b)) EXCEPT
          !.group = [kind |-> kind, coalescing |-> coalesces]]

\* begin_edit.
EditBegun(b, kind, coalesces) ==
  LET cleared == [b EXCEPT !.redo = <<>>]
  IN IF coalesces /\ b.group = [kind |-> kind, coalescing |-> TRUE] THEN cleared
     ELSE [UndoPushed(cleared, SnapshotOf(b)) EXCEPT
             !.group = [kind |-> kind, coalescing |-> coalesces]]

CaretAt(b, p) == [b EXCEPT !.cursor = p, !.anchor = None, !.desired = p.column]

\* delete_selection, backspace and delete_forward once begun: what is between
\* two positions goes, and their lines become one.
Deleted(b, p, q) ==
  CaretAt([b EXCEPT !.lines =
             SubSeq(b.lines, 1, p.line - 1)
             \o <<SubSeq(b.lines[p.line], 1, p.column)
                  \o SubSeq(b.lines[q.line], q.column + 1, Len(b.lines[q.line]))>>
             \o SubSeq(b.lines, q.line + 1, Len(b.lines))], p)

SelectionDeleted(b) ==
  IF HasSelection(b) THEN Deleted(b, SelectionStart(b), SelectionEnd(b)) ELSE b

\* insert_text_impl.
InsertedImpl(b, text, coalesces) ==
  IF text = <<>> /\ ~ HasSelection(b) THEN b
  ELSE LET c == SelectionDeleted(EditBegun(b, "insert", coalesces))
           at == c.cursor
           before == SubSeq(c.lines[at.line], 1, at.column)
           after == SubSeq(c.lines[at.line], at.column + 1, Len(c.lines[at.line]))
           pieces == Lines(text)
           n == Len(pieces)
           new == IF n = 1 THEN <<before \o pieces[1] \o after>>
                  ELSE <<before \o pieces[1]>> \o SubSeq(pieces, 2, n - 1)
                       \o <<pieces[n] \o after>>
       IN CaretAt([c EXCEPT !.lines = SubSeq(@, 1, at.line - 1) \o new
                                      \o SubSeq(@, at.line + 1, Len(@))],
                  At(at.line + n - 1,
                     IF n = 1 THEN at.column + Len(text) ELSE Len(pieces[n])))

Inserted(b, text) ==
  InsertedImpl(b, text, ~ HasSelection(b) /\ text # <<Break>> /\ Len(text) = 1)

\* backspace and delete_forward, which take the character before the caret or
\* the one behind it.
Erased(b, p, q) ==
  IF HasSelection(b) THEN SelectionDeleted(EditBegun(b, "delete", FALSE))
  ELSE IF p = q THEN b
  ELSE Deleted(EditBegun(b, "delete", TRUE), p, q)

Undone(b) == [RestoredTo(b, Last(b.undo)) EXCEPT
                !.undo = Front(@), !.redo = Append(@, SnapshotOf(b)), !.group = None]

Redone(b) == LET c == UndoPushed(b, SnapshotOf(b))
             IN [RestoredTo(c, Last(b.redo)) EXCEPT !.redo = Front(@), !.group = None]

-----------------------------------------------------------------------------
(* Offsets: one number for a position, line breaks counted.                  *)

OffsetOf(b, position) ==
  LET p == Clamp(b, position)
      start[n \in 1..p.line] == IF n = 1 THEN 0 ELSE start[n - 1] + Len(b.lines[n - 1]) + 1
  IN start[p.line] + p.column

\* position_for_offset, which keeps within the document.
PositionAt(b, offset) ==
  LET text == TextOf(b.lines)
      before == Lines(SubSeq(text, 1, Smaller(offset, Len(text))))
  IN At(Len(before), Len(Last(before)))

Span(from, to) == [from |-> from, to |-> to]

Selection(b) ==
  Span(OffsetOf(b, SelectionStart(b)), OffsetOf(b, SelectionEnd(b)))

-----------------------------------------------------------------------------
(* EditorFind: the matches of a query, in order, none overlapping another.   *)

SameChar(a, b, exact) == IF exact THEN a = b ELSE Fold[a] = Fold[b]

Occurs(line, start, query, exact) ==
  /\ start + Len(query) <= Len(line)
  /\ \A i \in 1..Len(query) : SameChar(line[start + i], query[i], exact)

\* matches_in_line: their starts.
MatchesInLine(line, query, exact) ==
  LET upTo[i \in 0..Len(line)] ==
        IF i = 0 THEN <<>>
        ELSE LET starts == upTo[i - 1]
             IN IF /\ Occurs(line, i - 1, query, exact)
                   /\ starts # <<>> => Last(starts) + Len(query) < i
                THEN Append(starts, i - 1) ELSE starts
  IN upTo[Len(line)]

Matches(lines, query, exact) ==
  IF query = <<>> THEN <<>>
  ELSE FlattenSeq([n \in 1..Len(lines) |->
         LET starts == MatchesInLine(lines[n], query, exact)
         IN [i \in 1..Len(starts) |-> At(n, starts[i])]])

\* recompute: the current match is the one to keep if it still is one, or the
\* first. 0 is none.
Recomputed(f, lines, keep) ==
  LET found == Matches(lines, f.query, f.exact)
      kept == {i \in 1..Len(found) : found[i] = keep}
  IN [f EXCEPT !.matches = found,
               !.current = IF found = <<>> THEN 0
                           ELSE IF kept = {} THEN 1 ELSE CHOOSE i \in kept : TRUE]

CurrentMatch(f) == IF f.current = 0 THEN None ELSE f.matches[f.current]

\* sync_find_matches.
Synced(f, lines) == IF f = None THEN None ELSE Recomputed(f, lines, CurrentMatch(f))

\* next_match and prev_match, which go round.
Stepped(f, forward) ==
  LET n == Len(f.matches)
  IN IF n = 0 THEN f
     ELSE [f EXCEPT !.current = IF forward THEN (@ % n) + 1
                                ELSE IF @ <= 1 THEN n ELSE @ - 1]

-----------------------------------------------------------------------------
EditorInit ==
  /\ \E text \in Documents : buffer = NewBuffer(text)
  /\ marked = None /\ find = None
  /\ edits = 0 /\ request = None

Unmoved(b) == Anchor(b) = Anchor(buffer) /\ b.cursor = buffer.cursor

\* A change of the caret or the selection alone.
Shows(b) == /\ buffer' = b
            /\ request' = None
            /\ UNCHANGED <<marked, find, edits>>

\* notify_edit after a change of the text: the range replaced, and the text put
\* there. There may have been nothing to change.
Edited(b, range, text) ==
  /\ edits < MaxTextEdits /\ edits' = edits + 1
  /\ Len(TextOf(b.lines)) <= MaxChars
  /\ buffer' = b
  /\ find' = Synced(find, b.lines)
  /\ request' = IF range.from # range.to \/ text # <<>>
                THEN [from |-> range.from, to |-> range.to, text |-> text]
                ELSE IF Unmoved(b) THEN request ELSE None

\* The eight movements, and with shift the same eight.
Move == \E extend \in {FALSE, "extend" \in EditorOps} :
        \E b \in Movements(buffer, extend) : Shows(b)

SelectAll == /\ "extend" \in EditorOps
             /\ Shows(Selected(buffer, At(1, 0), DocumentEnd(buffer)))

\* on_mouse_down: the pointer may be right of a line's end.
MouseDown ==
  /\ "mouse" \in EditorOps
  /\ \E line \in 1..Len(buffer.lines) : \E column \in 0..Len(buffer.lines[line]) :
       LET p == At(line, column)
       IN \/ Shows(CursorSet(buffer, p))
          \/ Shows(WordSelected(buffer, p))
          \/ Shows(Selected(buffer, At(line, 0), LineEnd(buffer, line)))

\* Shift and the mouse, or on_mouse_move with the button down.
Drag ==
  /\ "mouse" \in EditorOps
  /\ \E line \in 1..Len(buffer.lines) : \E column \in 0..Len(buffer.lines[line]) :
       LET b == SelectionSet(buffer, Anchor(buffer), At(line, column))
       IN /\ buffer' = b
          /\ request' = IF Unmoved(b) THEN request ELSE None
          /\ UNCHANGED <<marked, find, edits>>

Backspace ==
  LET left == LeftOf(buffer, buffer.cursor)
  IN /\ Edited(Erased(buffer, left, buffer.cursor),
               IF HasSelection(buffer) THEN Selection(buffer)
               ELSE Span(OffsetOf(buffer, left), OffsetOf(buffer, buffer.cursor)),
               <<>>)
     /\ UNCHANGED marked

DeleteForward ==
  LET right == RightOf(buffer, buffer.cursor)
  IN /\ Edited(Erased(buffer, buffer.cursor, right),
               IF HasSelection(buffer) THEN Selection(buffer)
               ELSE Span(OffsetOf(buffer, buffer.cursor), OffsetOf(buffer, right)),
               <<>>)
     /\ UNCHANGED marked

Newline == /\ Edited(Inserted(buffer, <<Break>>), Selection(buffer), <<Break>>)
           /\ UNCHANGED marked

Cut == /\ HasSelection(buffer)
       /\ Edited(Erased(buffer, buffer.cursor, buffer.cursor), Selection(buffer), <<>>)
       /\ UNCHANGED marked

Paste == \E text \in Inputs :
           /\ Edited(InsertedImpl(buffer, text, FALSE), Selection(buffer), text)
           /\ UNCHANGED marked

\* The bar goes on showing what was found before.
MutUndo == /\ buffer.undo # <<>>
           /\ buffer' = Undone(buffer)
           /\ request' = None
           /\ UNCHANGED <<find, marked, edits>>

Undo == /\ buffer.undo # <<>>
        /\ buffer' = Undone(buffer)
        /\ find' = Synced(find, buffer'.lines)
        /\ request' = None
        /\ UNCHANGED <<marked, edits>>

Redo == /\ buffer.redo # <<>>
        /\ buffer' = Redone(buffer)
        /\ find' = Synced(find, buffer'.lines)
        /\ request' = None
        /\ UNCHANGED <<marked, edits>>

\* Another document: the composition's range is not looked at.
SetText == /\ "set text" \in EditorOps
           /\ \E text \in Documents : buffer' = NewBuffer(text)
           /\ find' = Synced(find, buffer'.lines)
           /\ request' = None
           /\ UNCHANGED <<marked, edits>>

-----------------------------------------------------------------------------
(* What the operating system asks for. Ranges are within the text: the       *)
(* conversion from UTF-16 units clamps them.                                 *)

Ranges(n) == {r \in [from : 0..n, to : 0..n] : r.from <= r.to}

\* resolve_replace_range.
Target(given) ==
  LET n == Len(TextOf(buffer.lines))
  IN IF given # None THEN given
     ELSE IF marked # None THEN Span(Smaller(marked.from, n), Smaller(marked.to, n))
     ELSE Selection(buffer)

\* replace_range: the range is selected and the selection typed over.
Replaced(b, range, text) ==
  Inserted(SelectionSet(b, PositionAt(b, range.from), PositionAt(b, range.to)), text)

Given == {None} \cup
         {r \in Ranges(Len(TextOf(buffer.lines))) : "compose" \in EditorOps}

\* Every key typed comes this way, with no range.
ReplaceTextInRange ==
  \E given \in Given, text \in Inputs :
    /\ Edited(Replaced(buffer, Target(given), text), Target(given), text)
    /\ marked' = None

\* The text so far of a composition, and what of it is selected.
ReplaceAndMarkTextInRange ==
  /\ "compose" \in EditorOps
  /\ \E given \in Given, text \in Inputs \cup {<<>>} :
     \E chosen \in {None} \cup Ranges(Len(text)) :
       LET range == Target(given)
           b == Replaced(buffer, range, text)
           length == OffsetOf(b, b.cursor) - range.from
           Within(offset) == PositionAt(b, range.from + offset)
       IN /\ Edited(IF chosen = None THEN b
                    ELSE SelectionSet(b, Within(chosen.from), Within(chosen.to)),
                    range, text)
          /\ marked' = IF length = 0 THEN None ELSE Span(range.from, range.from + length)

UnmarkText == /\ marked # None
              /\ marked' = None
              /\ UNCHANGED <<buffer, find, edits, request>>

-----------------------------------------------------------------------------
(* The find bar.                                                             *)

OpenFind ==
  /\ "find" \in EditorOps /\ find = None
  /\ find' = [query |-> <<>>, matches |-> <<>>, current |-> 0, exact |-> FALSE]
  /\ UNCHANGED <<buffer, marked, edits, request>>

CloseFind == /\ find # None
             /\ find' = None
             /\ UNCHANGED <<buffer, marked, edits, request>>

\* land_on_match.
Lands(f) ==
  /\ find' = f
  /\ IF f.current = 0 THEN UNCHANGED <<buffer, request>>
     ELSE /\ buffer' = CursorSet(buffer, CurrentMatch(f))
          /\ request' = None
  /\ UNCHANGED <<marked, edits>>

SetFindQuery ==
  /\ find # None
  /\ \E query \in Queries :
       Lands(Recomputed([find EXCEPT !.query = query], buffer.lines, None))

FindStep ==
  /\ find # None
  /\ \E forward \in BOOLEAN : Lands(Stepped(find, forward))

ToggleFindCase ==
  /\ find # None
  /\ Lands(Recomputed([find EXCEPT !.exact = ~ @], buffer.lines, CurrentMatch(find)))

-----------------------------------------------------------------------------
EditorNext ==
  \/ Move \/ SelectAll \/ MouseDown \/ Drag
  \/ Backspace \/ DeleteForward \/ Newline \/ Cut \/ Paste \/ Undo \/ Redo \/ SetText
  \/ ReplaceTextInRange \/ ReplaceAndMarkTextInRange \/ UnmarkText
  \/ OpenFind \/ CloseFind \/ SetFindQuery \/ FindStep \/ ToggleFindCase

EditorSpec == EditorInit /\ [][EditorNext]_editorVars

-----------------------------------------------------------------------------
(* Properties.                                                               *)

InText(position, lines) == /\ position.line \in 1..Len(lines)
                           /\ position.column \in 0..Len(lines[position.line])

\* The caret and the selection's anchor are in the text, in the buffer and in
\* every state undo and redo may put back: the methods index by them unchecked.
CaretInText ==
  \A state \in {buffer} \cup ToSet(buffer.undo) \cup ToSet(buffer.redo) :
    /\ InText(state.cursor, state.lines)
    /\ state.anchor # None => InText(state.anchor, state.lines)

\* The matches of f are occurrences of its query in the lines, in order, none
\* overlapping another, and no occurrence clear of all of them is left out. Some
\* match is current, if there is one.
Follows(f, lines) ==
  LET size == Len(f.query)
      found == ToSet(f.matches)
      Equals(a, b) == a = b \/ (~ f.exact /\ Fold[a] = Fold[b])
      there == {p \in UNION {{At(n, c) : c \in 0..Len(lines[n])} : n \in 1..Len(lines)} :
                  /\ size > 0 /\ p.column + size <= Len(lines[p.line])
                  /\ \A i \in 1..size : Equals(lines[p.line][p.column + i], f.query[i])}
      Overlap(p, q) == /\ p.line = q.line
                       /\ p.column < q.column + size /\ q.column < p.column + size
  IN /\ found \subseteq there
     /\ \A i, j \in 1..Len(f.matches) : i < j =>
          /\ Before(f.matches[i], f.matches[j])
          /\ ~ Overlap(f.matches[i], f.matches[j])
     /\ \A p \in there : \E q \in found : Overlap(p, q)
     /\ f.current \in IF found = {} THEN {0} ELSE 1..Len(f.matches)

\* The find bar's matches are those of its query in the text now shown, however
\* the text was changed.
FindFollowsText == find # None => Follows(find, buffer.lines)

Texts(entries) == [i \in 1..Len(entries) |-> TextOf(entries[i].lines)]

History == INSTANCE TextHistory WITH
             past <- Texts(buffer.undo), text <- TextOf(buffer.lines),
             future <- Texts(buffer.redo),
             lo <- OffsetOf(buffer, SelectionStart(buffer)),
             hi <- OffsetOf(buffer, SelectionEnd(buffer))

\* The lines, positions and stacks behave as one text with a history: an edit
\* replaces exactly the range it was asked to, undo and redo go along the texts
\* there were, and a step takes in several edits only if nothing came between.
KeepsHistory == History!Spec

=============================================================================
