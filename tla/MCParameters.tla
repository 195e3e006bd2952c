---------------------------- MODULE MCParameters ----------------------------
(* The parameters of one text, in the dialect of one connection, and the     *)
(* values of many runs, of two connections: what the extended module's       *)
(* constants are set to.                                                     *)
EXTENDS Parameters

CONSTANTS c1, c2, q1

VARIABLE scenario

RememberingDrivers == [c \in {c1, c2} |-> IF c = c1 THEN "postgres" ELSE "mysql"]
RememberingTexts == {<<":", "a">>}
RememberingValues == {<<"a">>, <<"1">>}

\* The texts of up to n of the chunks.
TextsFrom(chunks, n) == {FlattenSeq(t) : t \in UNION {[1..k -> chunks] : k \in 1..n}}

Dialects == {"postgres", "mysql", "mssql"}
TextsIn == [dialect \in Dialects |->
  CASE dialect = "postgres" ->
         TextsFrom({<<":", "a">>, <<":">>, <<"'">>, <<"-", "-">>, <<"newline">>}, 4)
           \cup TextsFrom({<<":", "a">>, <<"\"">>, <<"/", "*">>, <<"*", "/">>}, 4)
    [] dialect = "mysql" ->
         TextsFrom({<<"?">>, <<"1">>, <<":", "a">>, <<"'">>, <<"\\">>}, 5)
           \cup TextsFrom({<<":", "a">>, <<"-", "-">>, <<" ">>, <<"newline">>}, 3)
    [] dialect = "mssql" ->
         TextsFrom({<<"@", "a">>, <<"@", "A">>, <<"@">>, <<" ">>}, 3)
           \cup {<<"DECLARE", "@", "a">> \o t :
                 t \in TextsFrom({<<"@", "a">>, <<"@", "A", "A">>, <<",">>, <<"(">>, <<" ", "a">>}, 4)}]

Scanning(dialect) == INSTANCE Parameters WITH
  Conns <- {c1}, DriverOf <- [c \in {c1} |-> dialect], Scripts <- {q1},
  ScriptTexts <- TextsIn[dialect], Values <- {<<"'">>, <<"\\", "a">>},
  MaxHistory <- 1, MaxRuns <- 1

RunningInit ==
  \/ scenario = "remembering" /\ ParametersInit
  \/ \E dialect \in Dialects : scenario = dialect /\ Scanning(dialect)!ParametersInit

\* One text is run, and the program started again for the next.
ScanningNext(dialect) ==
  \/ /\ sent = NoValue
     /\ Scanning(dialect)!ParametersNext
     /\ held # NoValue => modal' # NoValue \/ sent' # NoValue
  \/ sent # NoValue /\ Scanning(dialect)!Restart

RunningNext ==
  /\ \/ \E dialect \in Dialects : scenario = dialect /\ ScanningNext(dialect)
     \/ scenario = "remembering" /\ ParametersNext
  /\ UNCHANGED scenario

\* The runs of two connections alone.
RememberingSpec ==
  /\ scenario = "remembering" /\ ParametersInit
  /\ [][ParametersNext /\ UNCHANGED scenario]_<<scenario, parameterVars>>

=============================================================================
