----------------------------- MODULE Parameters -----------------------------
(***************************************************************************)
(* Running a script that has parameters: crates/zsql-core/src/sql/params.rs *)
(* finds them in the SQL and puts what the user types in their place, the  *)
(* modal of ui/parameters_modal asks for them, and the session store keeps *)
(* what was typed, under the save claims of SaveClaims.                    *)
(*                                                                         *)
(* While the modal is shown it covers the workspace: only the connection   *)
(* attempt under way and the writes of the history go on. A text is a      *)
(* sequence of the characters SqlTokens knows. A connection stands for its *)
(* session directory too, and a claim for the number of runs it saves.     *)
(***************************************************************************)
EXTENDS SqlTokens

CONSTANTS
  Conns,        \* the connections the user has saved
  DriverOf,     \* Driver::id of each, a function
  Scripts,      \* history keys of the scripts that are open
  ScriptTexts,  \* what a script may hold when it is run
  Values,       \* what the user types
  MaxHistory,   \* Config's remembered values of a parameter
  MaxRuns,      \* bound: confirmed runs the history files can be about
  NoValue

VARIABLES
  active,        \* the connection whose tabs and session directory are shown
  held,          \* the session's connection, and what current_url names
  target,        \* the connection an attempt under way is for
  modal,         \* ParametersModalView.open and its fields
  sent,          \* what the last run requested has sent, once it has been sent
  history_cache, \* SessionStore.param_history_cache
  histories,     \* the history files, and how many runs each is about
  mark,          \* the newest claim that has come to write each of them
  writes,        \* writes spawned
  log            \* the confirmed runs of each connection: no variable of the code

parameterVars ==
  <<active, held, target, modal, sent, history_cache, histories, mark, writes, log>>

-----------------------------------------------------------------------------
(* Definitions named Mut... are faulty variants of the definition they       *)
(* precede: each breaks one of the properties below.                         *)
(*                                                                           *)
(* Finding the parameters. A scan is in a region: no region, or one named by *)
(* the characters that open it.                                              *)

Normal == ""
Precedes(s, i, c) == i < Len(s) /\ s[i + 1] = c

\* Where the run of "chars" that begins at i ends.
RunEnd(s, i, chars) ==
  CHOOSE j \in i..Len(s) + 1 : /\ \A k \in i..j - 1 : s[k] \in chars
                               /\ j > Len(s) \/ s[j] \notin chars

\* A doubled quote does not close its region.
Quoted(s, i, quote) ==
  IF s[i] # quote THEN <<i + 1, quote>>
  ELSE IF Precedes(s, i, quote) THEN <<i + 2, quote>> ELSE <<i + 1, Normal>>

InLineComment(s, i) == <<i + 1, IF s[i] = LineFeed THEN Normal ELSE "--">>

InBlockComment(s, i) ==
  IF s[i] = "*" /\ Precedes(s, i, "/") THEN <<i + 2, Normal>> ELSE <<i + 1, "/*">>

\* What a scan outside any region takes at once. The scan for parameters and
\* the scan for declared names tell different pieces apart, and cut alike.
PieceEnd(s, i) ==
  CASE s[i] \in {":", "@"} /\ Precedes(s, i, s[i]) -> i + 2
    [] s[i] \in {":", "@"} /\ i < Len(s) /\ s[i + 1] \in Letters -> RunEnd(s, i + 1, Word)
    [] s[i] = "?" -> RunEnd(s, i + 1, Digits)
    [] s[i] \in Letters -> RunEnd(s, i, Word)
    [] OTHER -> i + 1

Outside(s, i) ==
  CASE s[i] = "-" /\ Precedes(s, i, "-") -> <<i + 2, "--">>
    [] s[i] = "/" /\ Precedes(s, i, "*") -> <<i + 2, "/*">>
    [] s[i] \in {Quote, "\""} -> <<i + 1, s[i]>>
    [] OTHER -> <<PieceEnd(s, i), Normal>>

\* The pieces of s outside its regions, in order.
Pieces(s) ==
  LET last == Len(s)
      From[i \in 1..last + 1, region \in {Normal, Quote, "\"", "--", "/*"}] ==
        IF i > last THEN <<>>
        ELSE LET next == CASE region = Normal -> Outside(s, i)
                           [] region = "--" -> InLineComment(s, i)
                           [] region = "/*" -> InBlockComment(s, i)
                           [] OTHER -> Quoted(s, i, region)
             IN (IF region = Normal /\ next[2] = Normal
                 THEN <<[first |-> i, last |-> next[1] - 1]>> ELSE <<>>)
                \o From[next]
  IN From[1, Normal]

TextAt(s, piece) == SubSeq(s, piece.first, piece.last)

\* T-SQL names are compared without regard to case.
FoldedName(name) == [i \in DOMAIN name |-> IF name[i] = "A" THEN "a" ELSE name[i]]

\* DeclareListScan
ClosedList(declared) ==
  [declared |-> declared, awaiting |-> FALSE, open |-> FALSE, depth |-> 0, plain |-> 0]
OpenedList(declared) == [ClosedList(declared) EXCEPT !.awaiting = TRUE, !.open = TRUE]

\* An identifier that is not an awaited name: the first is a variable's type,
\* another the next statement.
PlainIdent(list) ==
  IF ~ list.open \/ list.depth # 0 THEN [list EXCEPT !.awaiting = FALSE]
  ELSE IF list.plain = 0 THEN [list EXCEPT !.awaiting = FALSE, !.plain = 1]
  ELSE ClosedList(list.declared)

\* advance_declare_scan, where a parameter is an identifier as any other.
Listed(list, text) ==
  LET ident == IF text[1] \in Letters THEN text ELSE Tail(text)
  IN IF list.awaiting /\ IsNamed(text, "@")
     THEN [list EXCEPT !.declared = @ \cup {FoldedName(Tail(text))},
                       !.awaiting = FALSE, !.plain = 0]
     ELSE CASE text = <<"(">> -> [list EXCEPT !.depth = @ + 1]
            [] text = <<")">> -> [list EXCEPT !.depth = @ - 1]
            [] text = <<";">> -> ClosedList(list.declared)
            [] text = <<",">> /\ list.open /\ list.depth = 0 ->
                 [list EXCEPT !.awaiting = TRUE, !.plain = 0]
            [] ident = <<"DECLARE">> -> OpenedList(list.declared)
            [] ident # <<>> /\ ident # <<"DECLARE">> /\ ident[1] \in Letters -> PlainIdent(list)
            [] OTHER -> list

\* collect_declared_at_names
DeclaredNames(s) ==
  FoldLeft(LAMBDA list, piece : Listed(list, TextAt(s, piece)),
           ClosedList({}), Pieces(s)).declared

\* find_param_occurrences
Occurrences(s, driver) ==
  LET declared == IF driver = "mssql" THEN DeclaredNames(s) ELSE {}
      IsParameter(text) ==
        \/ IsNamed(text, ":")
        \/ driver = "mssql" /\ IsNamed(text, "@") /\ FoldedName(Tail(text)) \notin declared
        \/ driver \in {"mysql", "sqlite"} /\ text[1] = "?"
  IN SelectSeq(Pieces(s), LAMBDA piece : IsParameter(TextAt(s, piece)))

\* What the n-th of the places found is a place of: a name, or one "?".
Group(s, found, n) ==
  LET Text(m) == TextAt(s, found[m])
      sigil == Head(Text(n))
  IN CASE sigil = "?" -> <<"?", <<Cardinality({m \in 1..n : Head(Text(m)) = "?"})>>>>
       [] sigil = "@" -> <<"@", FoldedName(Tail(Text(n)))>>
       [] OTHER -> <<":", Tail(Text(n))>>

\* One parameter for all the places of a group. The key is
\* Parameter::storage_key, with the spelling of the first place.
Grouped(s, found, groups) ==
  {[key |-> IF groups[n][1] = "@" THEN <<"@", Tail(TextAt(s, found[n]))>> ELSE groups[n],
    occurrences |-> {found[m] : m \in {m \in DOMAIN found : groups[m] = groups[n]}}]
   : n \in {n \in DOMAIN found : \A m \in 1..n - 1 : groups[m] # groups[n]}}

\* detect_parameters
DetectParameters(s, driver) ==
  LET found == Occurrences(s, driver)
  IN Grouped(s, found, [n \in DOMAIN found |-> Group(s, found, n)])

-----------------------------------------------------------------------------
(* Putting the values in their place.                                        *)

Doubled(value, c) ==
  FlattenSeq([i \in DOMAIN value |-> IF value[i] = c THEN <<c, c>> ELSE <<value[i]>>])

QuoteSqlString(value) == <<Quote>> \o Doubled(value, Quote) \o <<Quote>>

MutQuoteParamValue(value, driver) == QuoteSqlString(value)

QuoteParamValue(value, driver) ==
  QuoteSqlString(IF driver = "mysql" THEN Doubled(value, Backslash) ELSE value)

\* From the last occurrence to the first, so that the places of the others
\* stay what they were.
SubstituteParams(s, parameters, values, driver) ==
  LET literals ==
        UNION {{[at |-> piece, by |-> QuoteParamValue(values[p.key], driver)]
                : piece \in p.occurrences} : p \in parameters}
      fromLast == SetToSortSeq(literals, LAMBDA x, y : x.at.first > y.at.first)
      Replaced(sql, l) == SubSeq(sql, 1, l.at.first - 1) \o l.by
                            \o SubSeq(sql, l.at.last + 1, Len(sql))
  IN FoldLeft(Replaced, s, fromLast)

-----------------------------------------------------------------------------
(* The values remembered: the lists of a history file, most recent first, by *)
(* script and parameter.                                                     *)

NoHistory == <<>>

HistoryFor(file, script, key) ==
  IF <<script, key>> \in DOMAIN file THEN file[<<script, key>>] ELSE <<>>

Cap == IF MaxHistory = 0 THEN 1 ELSE MaxHistory
Capped(list) == IF Len(list) > Cap THEN SubSeq(list, 1, Cap) ELSE list

\* The list without a value.
Others(list, value) ==
  LET Kept[n \in 0..Len(list)] ==
        IF n = 0 THEN <<>>
        ELSE IF list[n] = value THEN Kept[n - 1] ELSE Append(Kept[n - 1], list[n])
  IN Kept[Len(list)]

RecordRun(file, script, values) ==
  [p \in DOMAIN file \cup {<<script, key>> : key \in DOMAIN values} |->
     IF p[1] = script /\ p[2] \in DOMAIN values
     THEN Capped(<<values[p[2]]>> \o Others(HistoryFor(file, script, p[2]), values[p[2]]))
     ELSE file[p]]

\* SessionStore::param_history: from the file the first time; a file that
\* cannot be read is taken for an empty one, which is not modelled.
ParamHistory(c) == IF history_cache[c] = NoValue THEN histories[c].file ELSE history_cache[c]

-----------------------------------------------------------------------------

ParametersInit ==
  /\ active = NoValue /\ held = NoValue /\ target = NoValue
  /\ modal = NoValue /\ sent = NoValue
  /\ history_cache = [c \in Conns |-> NoValue]
  /\ histories = [c \in Conns |-> [file |-> NoHistory, runs |-> 0]]
  /\ mark = [c \in Conns |-> 0] /\ writes = {}
  /\ log = [c \in Conns |-> <<>>]

\* begin_switch and connect_url: the tabs are the new connection's at once,
\* the session keeps the old connection until the attempt is answered.
Connect(c) ==
  /\ modal = NoValue
  /\ active' = c /\ target' = c
  /\ UNCHANGED <<held, modal, sent, history_cache, histories, mark, writes, log>>

\* apply_connect_outcome
Resolves ==
  /\ target # NoValue
  /\ held' \in {target, NoValue}
  /\ target' = NoValue
  /\ UNCHANGED <<active, modal, sent, history_cache, histories, mark, writes, log>>

\* What a query has been sent as, and from what.
Query(text, values, driver, sql) ==
  [text |-> text, values |-> values, driver |-> driver, on |-> held, sql |-> sql]

\* handle_parameters_requested: the modal, filled in with the newest values.
RequestParameters(script, text, driver, parameters) ==
  LET Newest(history) == IF history = <<>> THEN <<>> ELSE history[1]
  IN /\ modal' = [script |-> script, text |-> text, driver |-> driver,
                  parameters |-> parameters,
                  fields |-> [key \in {p.key : p \in parameters} |->
                                Newest(HistoryFor(ParamHistory(active), script, key))]]
     /\ history_cache' = [history_cache EXCEPT ![active] = ParamHistory(active)]
     /\ sent' = NoValue

\* run_for_tab, once the parameters of the text have been detected.
RunOrAsk(script, text, driver, parameters) ==
  IF parameters = {}
  THEN /\ sent' = Query(text, <<>>, driver, text)
       /\ UNCHANGED <<modal, history_cache>>
  ELSE RequestParameters(script, text, driver, parameters)

Run(script, text) ==
  /\ modal = NoValue
  /\ held # NoValue
  /\ RunOrAsk(script, text, DriverOf[held], DetectParameters(text, DriverOf[held]))
  /\ UNCHANGED <<active, held, target, histories, mark, writes, log>>

\* The user fills the fields in.
Fill(values) ==
  /\ modal # NoValue
  /\ modal' = [modal EXCEPT !.fields = values]
  /\ UNCHANGED <<active, held, target, sent, history_cache, histories, mark, writes, log>>

MutPersist(script, values) ==
  LET file == RecordRun(histories[active].file, script, values)
  IN /\ log' = [log EXCEPT ![active] = Append(@, [script |-> script, values |-> values])]
     /\ history_cache' = [history_cache EXCEPT ![active] = file]
     /\ writes' = writes \cup {[conn |-> active, runs |-> Len(log'[active]), file |-> file]}

\* persist_param_history: the cache at once, the file by a write of its own.
Persist(script, values) ==
  LET file == RecordRun(ParamHistory(active), script, values)
  IN /\ log' = [log EXCEPT ![active] = Append(@, [script |-> script, values |-> values])]
     /\ history_cache' = [history_cache EXCEPT ![active] = file]
     /\ writes' = writes \cup {[conn |-> active, runs |-> Len(log'[active]), file |-> file]}

\* confirm, run_confirmed_params and persist_param_history. Without a
\* connection nothing runs, and the values are remembered all the same.
Confirm ==
  /\ modal # NoValue
  /\ \A key \in DOMAIN modal.fields : modal.fields[key] # <<>>
  /\ Cardinality(UNION {{<<c, run>> : run \in DOMAIN log[c]} : c \in Conns}) < MaxRuns
  /\ sent' = IF held = NoValue THEN NoValue
             ELSE Query(modal.text, modal.fields, modal.driver,
                        SubstituteParams(modal.text, modal.parameters, modal.fields,
                                         modal.driver))
  /\ modal' = NoValue
  /\ Persist(modal.script, modal.fields)
  /\ UNCHANGED <<active, held, target, histories, mark>>

Cancel ==
  /\ modal # NoValue
  /\ modal' = NoValue
  /\ UNCHANGED <<active, held, target, sent, history_cache, histories, mark, writes, log>>

\* write_if_current: refused, or the mark is raised and the file written, or not.
Write(job) ==
  /\ writes' = writes \ {job}
  /\ IF job.runs < mark[job.conn]
     THEN UNCHANGED <<histories, mark>>
     ELSE /\ mark' = [mark EXCEPT ![job.conn] = job.runs]
          /\ \/ histories' = [histories EXCEPT ![job.conn] = [file |-> job.file, runs |-> job.runs]]
             \/ UNCHANGED histories
  /\ UNCHANGED <<active, held, target, modal, sent, history_cache, log>>

\* The program ends, at any moment, and is started again.
Restart ==
  /\ active' = NoValue /\ held' = NoValue /\ target' = NoValue
  /\ modal' = NoValue /\ sent' = NoValue
  /\ history_cache' = [c \in Conns |-> NoValue]
  /\ mark' = [c \in Conns |-> 0] /\ writes' = {}
  /\ log' = [c \in Conns |-> SubSeq(log[c], 1, histories[c].runs)]
  /\ UNCHANGED histories

ParametersNext ==
  \/ \E c \in Conns : Connect(c)
  \/ Resolves
  \/ \E script \in Scripts, text \in ScriptTexts : Run(script, text)
  \/ modal # NoValue /\ \E values \in [DOMAIN modal.fields -> Values] : Fill(values)
  \/ Confirm
  \/ Cancel
  \/ \E job \in writes : Write(job)
  \/ Restart

ParametersSpec == ParametersInit /\ [][ParametersNext]_parameterVars

-----------------------------------------------------------------------------

\* T[i] is the place of the parameter "key".
IsPlaceOf(T, i, key) ==
  CASE key[1] = ":" -> T[i] = <<":">> \o key[2]
    [] key[1] = "@" -> IsNamed(T[i], "@") /\ FoldedName(Tail(T[i])) = FoldedName(key[2])
    [] OTHER -> /\ IsPositional(T[i])
                /\ key[2] = <<Cardinality({j \in 1..i : IsPositional(T[j])})>>

\* Tokens the user must be asked for, and those nobody may be asked for: the
\* name that a DECLARE introduces.
MustAsk(T, i, driver) ==
  IsNamed(T[i], ":") \/ (driver \in {"mysql", "sqlite"} /\ IsPositional(T[i]))
MayAsk(T, i, driver) ==
  \/ MustAsk(T, i, driver)
  \/ /\ driver = "mssql" /\ IsNamed(T[i], "@")
     /\ \A j \in 1..Len(T) - 1 :
          T[j] = <<"DECLARE">> /\ IsNamed(T[j + 1], "@")
            => FoldedName(T[j + 1]) # FoldedName(T[i])

\* A literal in the place of T[i] would not be a token of its own.
Fuses(T, i) ==
  \E j \in {i - 1, i + 1} \cap DOMAIN T :
    T[j][1] = Quote \/ MayAsk(T, j, "mssql") \/ IsPositional(T[j])

\* The tokens got are those asked, with the values in their places.
Answers(asked, got) ==
  LET Keys(i) == {key \in DOMAIN sent.values : IsPlaceOf(asked, i, key)}
  IN (\A i \in DOMAIN asked : Keys(i) # {} => ~ Fuses(asked, i)) =>
       /\ \A i \in DOMAIN asked :
            /\ MustAsk(asked, i, sent.driver) => Keys(i) # {}
            /\ Keys(i) # {} => MayAsk(asked, i, sent.driver)
       /\ Len(got) = Len(asked)
       /\ \A i \in DOMAIN asked :
            IF Keys(i) = {} THEN got[i] = asked[i]
            ELSE /\ IsString(got[i], sent.driver)
                 /\ \A key \in Keys(i) :
                      Denoted(got[i], sent.driver) = sent.values[key]

\* Tokens the program's scan takes for others: a MySQL string with a quote that
\* a backslash escapes (for the scan it ends there), two dashes that are no
\* comment in MySQL (for the scan they are), and a comment in a comment (for
\* the scan the first end is the end of both).
Misread(T, driver) ==
  \E i \in DOMAIN T :
    LET quote == T[i][1]
        First == Escaping(Tail(T[i]), quote, driver)
    IN \/ /\ quote \in {Quote, "\""}
          /\ \E n \in 1..Len(T[i]) - 2 :
               First[n] /\ T[i][n + 1] = Backslash /\ T[i][n + 2] = quote
       \/ i > 1 /\ T[i - 1] = <<"-">> /\ T[i] = <<"-">>
       \/ /\ Starts(T[i], <<"/", "*">>)
          /\ \E n \in 1..Len(T[i]) - 2 :
               OpenComments(SubSeq(T[i], 3, Len(T[i])), n, driver) > 1

(* A query is sent as the user typed it: every parameter the SQL has outside *)
(* strings, quoted names and comments is asked for; in its places, and       *)
(* nowhere else, there is one string literal, which denotes the very value   *)
(* that was typed; and no other token has changed. Not so in a text with a   *)
(* token the scan misreads: "skips a token inside a single-quoted string     *)
(* literal" (params.rs:443) is not true after a quote that a backslash       *)
(* escapes. And not so where a parameter touches a string literal or another *)
(* parameter: the two literals are one.                                      *)
SentAsTyped ==
  sent # NoValue =>
    LET asked == Tokens(sent.text, sent.driver)
    IN ~ Misread(asked, sent.driver) => Answers(asked, Tokens(sent.sql, sent.driver))

\* The runs a value of the parameter p was typed for.
Uses(runs, p) ==
  {i \in DOMAIN runs : runs[i].script = p[1] /\ p[2] \in DOMAIN runs[i].values}

\* The values of p, each once and most recent first, as many as are kept: each
\* is where it was last typed, and one left out was last typed before them all.
IsRecent(list, runs, p) ==
  LET uses == Uses(runs, p)
      Value(i) == runs[i].values[p[2]]
  IN \E at \in [DOMAIN list -> uses] :
       /\ \A n \in DOMAIN list :
            list[n] = Value(at[n]) /\ \A i \in uses : Value(i) = list[n] => i <= at[n]
       /\ \A m, n \in DOMAIN list : m < n => at[n] < at[m]
       /\ \A i \in uses :
            \/ \E n \in DOMAIN list : list[n] = Value(i)
            \/ Len(list) = Cap /\ \A n \in DOMAIN list : i < at[n]
       /\ Len(list) <= Cap

IsHistoryOf(file, runs) ==
  /\ DOMAIN file = UNION {{runs[i].script} \X DOMAIN runs[i].values : i \in DOMAIN runs}
  /\ \A p \in DOMAIN file : IsRecent(file[p], runs, p)

(* What is remembered is what was typed, across writes that overtake each    *)
(* other, fail or die with the program: the cache is the history of every    *)
(* confirmed run; the file is the history of the first of them, and, once    *)
(* every write has come to its end, of all but those whose write failed.     *)
RemembersRuns ==
  \A c \in DOMAIN log :
    /\ history_cache[c] # NoValue => IsHistoryOf(history_cache[c], log[c])
    /\ IsHistoryOf(histories[c].file, SubSeq(log[c], 1, histories[c].runs))
    /\ histories[c].runs <= Len(log[c])
    /\ histories[c].runs < Len(log[c]) =>
         mark[c] = Len(log[c]) \/ \E job \in writes : job.conn = c /\ job.runs = Len(log[c])

(* "The active connection's driver id, deciding how substitute_params        *)
(* escapes each value on confirm": the values are escaped for the connection *)
(* that they are sent to.                                                    *)
SentInItsDialect == sent # NoValue => sent.driver = DriverOf[sent.on]

=============================================================================
