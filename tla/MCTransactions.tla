--------------------------- MODULE MCTransactions ---------------------------
(* Transactions with a batch of two statements and a write of the user's.    *)
EXTENDS Transactions

CONSTANTS begin, s1, s2, commit, rollback, upd

TwoStatements == <<s1, s2>>

KindOf == [q \in Queries |->
  CASE q = begin -> "begin" [] q = commit -> "commit" [] q = rollback -> "rollback"
    [] OTHER -> "write"]

=============================================================================
