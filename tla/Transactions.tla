---------------------------- MODULE Transactions ----------------------------
(* session/transaction.rs and zsql-core/src/transaction.rs: a batch of       *)
(* statements run as one transaction over a driver connection, while the     *)
(* user's own queries run on the same driver connection.                     *)
(*                                                                           *)
(* BEGIN, each statement, COMMIT and ROLLBACK are stream_query calls of      *)
(* their own, each awaited before the next is made. Which connection of the  *)
(* pool each one lands on is the driver's business.                          *)
EXTENDS Driver

CONSTANTS BeginQuery, CommitQuery, RollbackQuery,
          Statements,    \* the batch's own, in a sequence
          UserQueries    \* all the others of Queries

VARIABLES at,       \* index in Script of the statement awaited; 0 before
          outcome   \* "none", "rolling_back", "ok" or "failed"

vars == <<driverVars, at, outcome>>

BatchWrites == {Statements[i] : i \in DOMAIN Statements}

BatchQueries == {BeginQuery, CommitQuery, RollbackQuery} \cup BatchWrites

\* Each call of the batch is one of its own, its statements write, and the
\* user's own queries neither open nor end a transaction.
BatchIsPlain ==
  /\ Statements \in Seq(Queries) /\ {BeginQuery, CommitQuery, RollbackQuery} \subseteq Queries
  /\ \A i, j \in DOMAIN Statements : i # j => Statements[i] # Statements[j]
  /\ Kind[BeginQuery] = "begin" /\ Kind[CommitQuery] = "commit"
  /\ Kind[RollbackQuery] = "rollback"
  /\ \A q \in BatchWrites : Kind[q] = "write"
  /\ UserQueries = Queries \ BatchQueries
  /\ \A q \in UserQueries : Kind[q] \in {"select", "write"}

\* The pool is one connection, which lasts.
OneConnection == ~ Breaks /\ \E c \in Conns : Conns = {c}

Script == <<BeginQuery>> \o Statements \o <<CommitQuery>>

Init == DriverInit /\ at = 0 /\ outcome = "none"

Ended(q, kind) == \E i \in DOMAIN stream[q] : stream[q][i].kind = kind

\* Transaction::begin.
BeginBatch ==
  /\ at = 0
  /\ at' = 1
  /\ StreamQuery(BeginQuery)
  /\ UNCHANGED outcome

\* The last statement's end is taken for the batch's.
MutNextOfBatch ==
  /\ at > 0 /\ outcome = "none"
  /\ Ended(Script[at], "done")
  /\ at' = at + 1
  /\ StreamQuery(Script[at + 1])
  /\ outcome' = IF at + 1 = Len(Script) THEN "ok" ELSE outcome

\* The awaited statement completed: run the next one, or report success.
NextOfBatch ==
  /\ at > 0 /\ outcome = "none"
  /\ Ended(Script[at], "done")
  /\ IF at = Len(Script) THEN /\ outcome' = "ok"
                              /\ UNCHANGED <<at, driverVars>>
                         ELSE /\ at' = at + 1
                              /\ StreamQuery(Script[at + 1])
                              /\ UNCHANGED outcome

\* The awaited statement failed. A failed BEGIN or COMMIT ends the batch; any
\* other statement is followed by a ROLLBACK.
BatchFails ==
  /\ at > 0 /\ outcome = "none"
  /\ Ended(Script[at], "err")
  /\ IF at \in {1, Len(Script)} THEN /\ outcome' = "failed"
                                     /\ UNCHANGED driverVars
                                ELSE /\ outcome' = "rolling_back"
                                     /\ StreamQuery(RollbackQuery)
  /\ UNCHANGED at

\* The ROLLBACK's own failure is ignored.
RolledBack ==
  /\ outcome = "rolling_back"
  /\ Ended(RollbackQuery, "done") \/ Ended(RollbackQuery, "err")
  /\ outcome' = "failed"
  /\ UNCHANGED <<at, driverVars>>

Next == \/ /\ \/ \E q \in Queries : Task(q)
              \/ \E q \in UserQueries : StreamQuery(q) \/ Cancel(q)
              \/ PoolNext
           /\ UNCHANGED <<at, outcome>>
        \/ BeginBatch \/ NextOfBatch \/ BatchFails \/ RolledBack

Spec == Init /\ [][Next]_vars

-----------------------------------------------------------------------------

(* Nothing already executed in a batch is left committed when a statement of *)
(* it fails, and nothing of it is visible before all of it is                *)
(* (session/transaction.rs:24, zsql-core/src/transaction.rs:8).              *)
AllOrNothing == BatchWrites \cap committed \in {{}, BatchWrites}

(* The batch over a pool whose one connection lasts is the promised atomic   *)
(* one, also when acquires time out, statements fail, the pool is closed     *)
(* under it and the user's own queries run between its statements.           *)
Promise == INSTANCE AtomicBatch
             WITH Statements <- BatchWrites,
                  written <- BatchWrites \cap committed,
                  outcome <- IF outcome = "rolling_back" THEN "none" ELSE outcome
PromiseKept == Promise!Spec

=============================================================================
