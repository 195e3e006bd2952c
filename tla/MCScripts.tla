------------------------------ MODULE MCScripts ------------------------------
(* The scripts of a connection, checked by one run of parts that share no    *)
(* state: the editor that changes a script's text, what becomes of a text    *)
(* with parameters when it is run (MCParameters), and the files the scripts  *)
(* are kept in. All the operations at once on texts, or directories, of any  *)
(* interest are out of TLC's reach, so each behaviour is of one scenario,    *)
(* chosen at first, and the variables of the other parts rest.               *)
EXTENDS Editor, MCParameters, ScriptStore

CONSTANTS a, A, dash,   \* characters, beside the line break
          foo, bar      \* names of scripts

-----------------------------------------------------------------------------
(* The editor.                                                               *)

Folded == [ch \in {a, A, dash} |-> IF ch = A THEN a ELSE ch]
Classes == [ch \in {a, A, dash} |-> IF ch = dash THEN "punctuation" ELSE "word"]

\* Three edits of two lines, undone and redone: what the extended module's
\* constants are set to.
WritingInputs == {<<a>>}
WritingDocuments == {<<a, Break>>}

\* Selections of every kind, and one edit of several lines over them.
Selecting == INSTANCE Editor WITH
  Inputs <- {<<a, Break>>}, Documents <- {<<a, dash>>}, Queries <- {},
  EditorOps <- {"mouse", "extend"}, HistoryCap <- 2, MaxTextEdits <- 1, MaxChars <- 4

\* Compositions, beside edits that know nothing of them.
Composing == INSTANCE Editor WITH
  Inputs <- {<<a>>, <<dash, a>>}, Documents <- {<<Break>>}, Queries <- {},
  EditorOps <- {"compose", "set text"}, HistoryCap <- 2, MaxTextEdits <- 2, MaxChars <- 3

\* The find bar, over a text that changes.
Finding == INSTANCE Editor WITH
  Inputs <- {<<A>>}, Documents <- {<<a, a>>}, Queries <- {<<a>>, <<a, a>>},
  EditorOps <- {"find", "set text"}, HistoryCap <- 2, MaxTextEdits <- 2, MaxChars <- 3

TextInit ==
  \/ scenario = "writing" /\ EditorInit
  \/ scenario = "selecting" /\ Selecting!EditorInit
  \/ scenario = "composing" /\ Composing!EditorInit
  \/ scenario = "finding" /\ Finding!EditorInit

TextNext ==
  \/ scenario = "writing" /\ EditorNext
  \/ scenario = "selecting" /\ Selecting!EditorNext
  \/ scenario = "composing" /\ Composing!EditorNext
  \/ scenario = "finding" /\ Finding!EditorNext

\* KeepsHistory, where the editor is what a behaviour is of.
TextKeepsHistory ==
  /\ History!Init
  /\ [][(scenario \in {"writing", "selecting", "composing", "finding"}) =>
           [History!Next]_(History!vars)]_editorVars

-----------------------------------------------------------------------------
(* The store. Each instance meets NamesApart and MovesApart, the conditions  *)
(* of OneTabPerFile and AutosavedTextSurvives. The module extended is of     *)
(* scripts promoted to the library, saved and renamed there ("sharing").     *)

\* Two documents saved under one name, with crashes.
Naming == INSTANCE ScriptStore WITH
  UserNames <- {foo}, Relations <- {}, OnDisk <- {}, Ops <- {"name", "crash", "close"},
  MaxTabs <- 2, MaxDocs <- 2, MaxEdits <- 1, MaxJobs <- 3, MaxClaims <- 5

\* A document renamed again and again, with writes that fail.
Renaming == INSTANCE ScriptStore WITH
  UserNames <- {foo, bar}, Relations <- {}, OnDisk <- {},
  Ops <- {"name", "rename", "crash", "torn"},
  MaxTabs <- 2, MaxDocs <- 1, MaxEdits <- 1, MaxJobs <- 3, MaxClaims <- 4

\* Autosaves that fail part way or are cut short.
Tearing == INSTANCE ScriptStore WITH
  UserNames <- {foo}, Relations <- {3}, OnDisk <- {"named"},
  Ops <- {"reopen", "crash", "torn", "close"},
  MaxTabs <- 2, MaxDocs <- 2, MaxEdits <- 1, MaxJobs <- 2, MaxClaims <- 4

\* Reopening, closing and files that vanish, on the way to rest.
Settling == INSTANCE ScriptStore WITH
  UserNames <- {foo}, Relations <- {}, OnDisk <- {"named", "shared"},
  Ops <- {"reopen", "gone", "close"},
  MaxTabs <- 2, MaxDocs <- 1, MaxEdits <- 2, MaxJobs <- 3, MaxClaims <- 6

StoreInit ==
  \/ scenario = "sharing" /\ Init
  \/ scenario = "naming" /\ Naming!Init
  \/ scenario = "renaming" /\ Renaming!Init
  \/ scenario = "tearing" /\ Tearing!Init
  \/ scenario = "settling" /\ Settling!Init

StoreNext ==
  \/ scenario = "sharing" /\ Next
  \/ scenario = "naming" /\ Naming!Next
  \/ scenario = "renaming" /\ Renaming!Next
  \/ scenario = "tearing" /\ Tearing!Next
  \/ scenario = "settling" /\ Settling!Next

\* When nothing is under way the directory gives the tabs last seen: only
\* where no write fails and nothing is renamed in the directory.
SettledIsCurrent == scenario \in {"sharing", "settling"} => SettledDiskIsCurrent

-----------------------------------------------------------------------------
(* All of it.                                                                *)

ScriptsInit ==
  \/ TextInit /\ ParametersInit /\ Init
  \/ EditorInit /\ RunningInit /\ Init
  \/ EditorInit /\ ParametersInit /\ StoreInit

ScriptsNext ==
  \/ TextNext /\ UNCHANGED <<scenario, parameterVars, vars>>
  \/ RunningNext /\ UNCHANGED <<editorVars, vars>>
  \/ StoreNext /\ UNCHANGED <<scenario, editorVars, parameterVars>>

\* The names of scripts stand for one another: a scenario has both or only foo.
NameSymmetry == Permutations({foo, bar})

ScriptsSpec ==
  ScriptsInit /\ [][ScriptsNext]_<<scenario, editorVars, parameterVars, vars>>

=============================================================================
