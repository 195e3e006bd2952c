---------------------------- MODULE TextHistory ----------------------------
(* What the SQL editor promises of its text: the text is one sequence of     *)
(* characters, an edit replaces the range it was asked to replace by the     *)
(* text it was given and nothing else, and the texts the document has had    *)
(* are a line on which undo goes back and redo forth, and from which an edit *)
(* cuts off what lay ahead. Edits that follow each other with nothing        *)
(* between them may be one step of that line; the oldest steps are given up  *)
(* beyond a limit.                                                           *)
EXTENDS Naturals, Sequences

CONSTANTS HistoryCap,  \* steps that can be undone
          None

VARIABLES past,        \* the texts undo leads back to, the oldest first
          text,        \* the one shown
          future,      \* the texts redo leads forth to, the furthest first
          lo, hi,      \* the selection's ends, or twice the caret
          request      \* what the last edit was asked for, None when something
                       \* else has happened since

vars == <<past, text, future, lo, hi, request>>

Spliced(r) ==
  SubSeq(text, 1, r.from) \o r.text \o SubSeq(text, r.to + 1, Len(text))

Init == /\ past = <<>> /\ future = <<>>
        /\ lo = 0 /\ hi = 0
        /\ request = None

\* The next edit goes on where the last one ended, and does as it did.
Continues ==
  /\ request # None
  /\ LET end == request.from + Len(request.text)
     IN request'.from <= end /\ end <= request'.to
  /\ request.text = <<>> <=> request'.text = <<>>

\* A new step of the line, or the last edit's step extended.
Edit ==
  /\ request' # None
  /\ request'.from <= request'.to /\ request'.to <= Len(text)
  /\ text' = Spliced(request')
  /\ \/ past' = IF Len(past) < HistoryCap THEN Append(past, text)
                ELSE Append(Tail(past), text)
     \/ Continues /\ UNCHANGED past
  /\ future' = <<>>
  /\ request'.from <= lo' /\ lo' <= hi'
  /\ hi' <= request'.from + Len(request'.text)

Placed == lo' <= hi' /\ hi' <= Len(text')

\* The caret moves, or something is selected.
Select == /\ request' = None
          /\ UNCHANGED <<text, past, future>>
          /\ Placed

Undo == /\ request' = None
        /\ past # <<>>
        /\ text' = past[Len(past)]
        /\ past = Append(past', text')
        /\ future' = Append(future, text)
        /\ Placed

Redo == /\ request' = None
        /\ future # <<>>
        /\ text' = future[Len(future)]
        /\ future = Append(future', text')
        /\ past' = Append(past, text)
        /\ Placed

\* The editor is given another document.
Replace == /\ request' = None
           /\ past' = <<>> /\ future' = <<>>
           /\ lo' = 0 /\ hi' = 0

Next == Edit \/ Select \/ Undo \/ Redo \/ Replace

Spec == Init /\ [][Next]_vars

=============================================================================
