----------------------------- MODULE AtomicBatch -----------------------------
(* What session/transaction.rs promises of a batch of statements: all of     *)
(* them are committed in one step or none is, success is reported only for   *)
(* the first, and what was reported does not change.                         *)
CONSTANTS Statements

VARIABLES written,     \* the statements of the batch that are committed
          outcome      \* "none", "ok" or "failed"

vars == <<written, outcome>>

Init == written = {} /\ outcome = "none"

Commit == /\ outcome # "failed"
          /\ written = {}
          /\ written' = Statements
          /\ UNCHANGED outcome

Succeed == /\ outcome = "none"
           /\ written = Statements
           /\ outcome' = "ok"
           /\ UNCHANGED written

Fail == /\ outcome = "none"
        /\ outcome' = "failed"
        /\ UNCHANGED written

Next == Commit \/ Succeed \/ Fail

Spec == Init /\ [][Next]_vars

=============================================================================
