----------------------------- MODULE MCPreviews -----------------------------
(* Previews on small instances, given by the configuration files.            *)
EXTENDS Previews

\* Nothing, two pages of two rows or one of three, and about as much.
FewCounts == {[exact |-> TRUE, rows |-> 0], [exact |-> TRUE, rows |-> 3],
              [exact |-> FALSE, rows |-> 3]}

=============================================================================
