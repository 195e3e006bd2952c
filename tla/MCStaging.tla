----------------------------- MODULE MCStaging -----------------------------
(* Staging on two windows of one relation and one of another.                *)
EXTENDS Staging

CONSTANTS p1, p2, q1, orders, users, o1, o2, u1

WindowRelations == [w \in {p1, p2, q1} |-> IF w = q1 THEN users ELSE orders]

WindowRows == [w \in {p1, p2, q1} |->
  CASE w = p1 -> <<o1>> [] w = p2 -> <<o2>> [] OTHER -> <<u1>>]

=============================================================================
