---------------------------- MODULE MCScriptNames ----------------------------
(* ScriptStore with a preview of a relation that is called as new scripts    *)
(* are.                                                                      *)
EXTENDS ScriptStore

=============================================================================
