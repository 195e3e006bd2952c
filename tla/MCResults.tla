------------------------------ MODULE MCResults ------------------------------
(* What a results view shows, in two parts that share no state, checked by   *)
(* one run: the changes staged over a preview's rows (Staging), on two       *)
(* windows of one relation and one of another; and the tabs that run queries *)
(* and page through relations (Previews). A behaviour is of the part chosen  *)
(* at first.                                                                 *)
EXTENDS Staging, MCPreviews

CONSTANTS p1, p2, q1, orders, users, o1, o2, u1   \* Staging

WindowRelations == [w \in {p1, p2, q1} |-> IF w = q1 THEN users ELSE orders]

WindowRows == [w \in {p1, p2, q1} |->
  CASE w = p1 -> <<o1>> [] w = p2 -> <<o2>> [] OTHER -> <<u1>>]

VARIABLE part

ResultsInit == /\ part \in {"staging", "pages"}
               /\ Init /\ PreviewsInit
               /\ part # "staging" => window = p1

ResultsNext ==
  /\ \/ part = "staging" /\ Next /\ UNCHANGED previewVars
     \/ part = "pages" /\ PreviewsNext /\ UNCHANGED vars
  /\ UNCHANGED part

ResultsSpec == ResultsInit /\ [][ResultsNext]_<<part, vars, previewVars>>

=============================================================================
