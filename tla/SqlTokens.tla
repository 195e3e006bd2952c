----------------------------- MODULE SqlTokens -----------------------------
(* How a text of SQL falls into tokens as the server of a dialect has it: at *)
(* each place the longest token there is. A text is a sequence of characters;*)
(* a word of letters that nothing else tells apart is one character. What    *)
(* takes characters no text here has is left out: PostgreSQL's $$ and E''    *)
(* strings, MySQL's # comments and back quotes, T-SQL's brackets. This is    *)
(* the reference Parameters is checked against.                              *)
EXTENDS Naturals, Sequences, SequencesExt

LineFeed == "newline"
Quote == "'"
Backslash == "\\"
Letters == {"a", "A", "DECLARE"}
Digits == {"1"}
Word == Letters \cup Digits

Starts(s, prefix) == Len(s) >= Len(prefix) /\ SubSeq(s, 1, Len(prefix)) = prefix
Ends(s, suffix) == /\ Len(s) >= Len(suffix)
                   /\ SubSeq(s, Len(s) - Len(suffix) + 1, Len(s)) = suffix
Inside(s) == SubSeq(s, 2, Len(s) - 1)

\* The places where s, read from left to right, has the first of a pair.
FirstOfPair(s, pairs) ==
  LET First[i \in 0..Len(s)] ==
        i > 0 /\ i < Len(s) /\ ~ First[i - 1] /\ SubSeq(s, i, i + 1) \in pairs
  IN First

\* Strings and quoted names. What stands for itself only as the second of a
\* pair: the quote, doubled, and in MySQL a backslash before any character.
Escapes(quote, dialect) == {quote} \cup (IF dialect = "mysql" THEN {Backslash} ELSE {})
Escaping(s, quote, dialect) ==
  FirstOfPair(s, {<<quote, quote>>}
                   \cup (IF dialect = "mysql" THEN {Backslash} \X ToSet(s) ELSE {}))

AllPaired(s, chars, quote, dialect) ==
  LET First == Escaping(s, quote, dialect)
  IN \A i \in DOMAIN s : s[i] \in chars => First[i] \/ First[i - 1]

IsEnclosed(s, quote, dialect) ==
  /\ Len(s) >= 2 /\ Starts(s, <<quote>>) /\ Ends(s, <<quote>>)
  /\ AllPaired(Inside(s), Escapes(quote, dialect), quote, dialect)

IsString(s, dialect) == IsEnclosed(s, Quote, dialect)
IsQuotedName(s, dialect) == IsEnclosed(s, "\"", dialect)

\* What a string literal denotes.
Denoted(s, dialect) ==
  LET inner == Inside(s)
      kept == {i \in DOMAIN inner : ~ Escaping(inner, Quote, dialect)[i]}
  IN [n \in 1..Cardinality(kept) |-> inner[SetToSortSeq(kept, <)[n]]]

\* MySQL wants a space, or the end of the line, after the dashes.
IsLineComment(s, dialect) ==
  /\ Starts(s, <<"-", "-">>)
  /\ \A i \in 1..Len(s) - 1 : s[i] # LineFeed
  /\ dialect = "mysql" => Len(s) > 2 /\ s[3] \in {" ", LineFeed}

\* How many block comments are open after the first n characters of what
\* follows the first one's opening. They nest, but not in MySQL.
OpenComments(s, n, dialect) ==
  LET opening == IF dialect = "mysql" THEN {} ELSE {<<"/", "*">>}
      First == FirstOfPair(s, opening \cup {<<"*", "/">>})
      Places(c) == {i \in 1..n : First[i] /\ s[i] = c}
  IN 1 + Cardinality(Places("/")) - Cardinality(Places("*"))

IsBlockComment(s, dialect) ==
  LET rest == SubSeq(s, 3, Len(s))
  IN /\ Len(s) >= 4 /\ Starts(s, <<"/", "*">>)
     /\ OpenComments(rest, Len(rest), dialect) = 0
     /\ \A n \in 1..Len(rest) - 2 : OpenComments(rest, n, dialect) > 0

\* A string, name or comment that the end of the text leaves open.
Unterminated(s, dialect) ==
  \/ \E quote \in {Quote, "\""} :
       Starts(s, <<quote>>) /\ AllPaired(Tail(s), {quote}, quote, dialect)
  \/ /\ Starts(s, <<"/", "*">>)
     /\ \A n \in 1..Len(s) - 2 : OpenComments(SubSeq(s, 3, Len(s)), n, dialect) > 0

IsNamed(s, sigil) ==
  /\ Len(s) >= 2 /\ s[1] = sigil /\ s[2] \in Letters
  /\ \A i \in 2..Len(s) : s[i] \in Word

IsPositional(s) == s[1] = "?" /\ \A i \in 2..Len(s) : s[i] \in Digits

IsToken(s, dialect) ==
  \/ Len(s) = 1
  \/ s \in {<<":", ":">>, <<"@", "@">>}
  \/ \A i \in DOMAIN s : s[i] \in Word
  \/ IsNamed(s, ":") \/ IsNamed(s, "@") \/ IsPositional(s)
  \/ IsString(s, dialect) \/ IsQuotedName(s, dialect)
  \/ IsLineComment(s, dialect) \/ IsBlockComment(s, dialect)

Tokens(text, dialect) ==
  LET last == Len(text)
      From[i \in 1..last + 1] ==
        IF i > last THEN <<>>
        ELSE LET ends == {j \in i..last : \/ IsToken(SubSeq(text, i, j), dialect)
                                          \/ j = last /\ Unterminated(SubSeq(text, i, j), dialect)}
                 end == CHOOSE j \in ends : \A k \in ends : k <= j
             IN <<SubSeq(text, i, end)>> \o From[end + 1]
  IN From[1]

=============================================================================
