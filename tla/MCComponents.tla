---------------------------- MODULE MCComponents ----------------------------
(* Six parts of the program that share no state, checked by one run. All are *)
(* at their beginning, and a behaviour is one of the part chosen at first,   *)
(* so that the states checked are each part's own, added up.                 *)
EXTENDS SaveClaims, ConnectionManager, Migration, ConnectionStore

CONSTANTS begin, s1, s2, commit, rollback, upd, k1, Nobody,   \* Transactions
          url1, url2, secret1,                                \* ConnectionStore
          server1, database1, orders, users                   \* Session

VARIABLES
  part,
  queryPhase, stream, stmt, latched, rows, cancelled, holder, open, kills, closed,
  inTx, txPending, committed, at, outcome,
  connection, current_url, active_ssh, tunnel, session_state, schema,
  active_query, accumulator, row_count, query_generation,
  liveness, connection_generation, probe_in_flight,
  session_attempts, introspections, streams, counts, loops, probes,
  opened, discarded, introspected

queryingVars ==
  <<connection, current_url, active_ssh, tunnel, session_state, schema,
    active_query, accumulator, row_count, query_generation,
    liveness, connection_generation, probe_in_flight,
    session_attempts, introspections, streams, counts, loops, probes,
    opened, discarded, introspected>>
batchVars == <<queryPhase, stream, stmt, latched, rows, cancelled, holder, open,
               kills, closed, inTx, txPending, committed, at, outcome>>
allVars ==
  <<part, vars, batchVars, storeVars, managerVars, migrationVars, queryingVars>>

\* One connection that lasts, a batch of two statements, a write of the user's.
Batch == INSTANCE Transactions WITH
  BeginQuery <- begin, CommitQuery <- commit, RollbackQuery <- rollback,
  Statements <- <<s1, s2>>, UserQueries <- {upd},
  Queries <- {begin, s1, s2, commit, rollback, upd},
  Kind <- [q \in {begin, s1, s2, commit, rollback, upd} |->
             CASE q = begin -> "begin" [] q = commit -> "commit"
               [] q = rollback -> "rollback" [] OTHER -> "write"],
  Conns <- {k1}, Networked <- FALSE, Breaks <- FALSE, Stalled <- {},
  BatchSize <- 2, MaxRows <- 0, MaxStmts <- 1,
  phase <- queryPhase, pending <- txPending

\* What the theorems on batches take for granted holds of this one.
ASSUME BatchInstance == Batch!BatchIsPlain /\ Batch!OneConnection

\* The session's queries and counts, over a connection that is replaced once.
Querying == INSTANCE MCSession WITH
  state <- session_state, attempts <- session_attempts,
  Servers <- {server1}, Databases <- {database1}, Tunneled <- {}, Silent <- {},
  Previews <- {orders, users}, MaxResultRows <- 1,
  MaxGeneration <- 3, MaxQueries <- 2, MaxIntrospections <- 1

\* Two different connections to save, one of them with a tunnel.
StoreArgs == {[url |-> url1, ssh |-> FALSE, secret |-> Absent],
              [url |-> url2, ssh |-> TRUE, secret |-> secret1]}

ComponentsInit ==
  /\ part \in {"claims", "batch", "store", "manager", "sessions", "querying"}
  /\ Init /\ Batch!Init /\ StoreInit /\ ManagerInit /\ MigrationInit /\ Querying!Init
  /\ part # "manager" => keyring = [x \in Conns |-> None]
  /\ part # "sessions" => /\ backup = FALSE
                         /\ names = [i \in Saved |-> CHOOSE n \in Names : TRUE]

Rest ==
  /\ UNCHANGED part
  /\ part # "claims" => UNCHANGED vars
  /\ part # "batch" => UNCHANGED batchVars
  /\ part # "store" => UNCHANGED storeVars
  /\ part # "manager" => UNCHANGED managerVars
  /\ part # "sessions" => UNCHANGED migrationVars
  /\ part # "querying" => UNCHANGED queryingVars

ComponentsNext ==
  /\ \/ part = "claims" /\ Next
     \/ part = "batch" /\ Batch!Next
     \/ part = "store" /\ StoreNext
     \/ part = "manager" /\ ManagerNext
     \/ part = "sessions" /\ MigrationNext
     \/ part = "querying" /\ Querying!QueryingNext
  /\ Rest

ComponentsSpec == ComponentsInit /\ [][ComponentsNext]_allVars

-----------------------------------------------------------------------------
\* All of a batch's writes are committed in one step or none is.
BatchIsAtomic == Batch!PromiseKept

\* The result set is of one query, whatever events are still queued.
ResultsOfOneQuery == Querying!ResultsOfOneQuery

\* The cancel handle is of the newest query, while it streams.
HandleOfLiveQuery == Querying!HandleOfLiveQuery

\* A row count is of the preview that is shown.
RowCountOfPreview == Querying!RowCountOfPreview

=============================================================================
