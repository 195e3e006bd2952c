------------------------------- MODULE Driver -------------------------------
(* zsql-sqlx/src/lib.rs and zsql-sqlite/src/driver.rs: the queries of one    *)
(* driver connection, each a background task streaming events into a sink,   *)
(* over a bounded pool of database connections.                              *)
(*                                                                           *)
(* A query acquires any connection of the pool, or gives up after the        *)
(* acquire timeout; runs its statements, grouping rows into batches; and, if *)
(* no statement gave it columns, has the statement described on a connection *)
(* of the pool before it reports its end. Cancelling (or dropping the        *)
(* handle) is seen between two rows and ends the stream with no event. The   *)
(* network drivers also ask the server, from another pool, to kill what the  *)
(* connection's backend runs. A connection goes back to the pool some time   *)
(* after its query ended.                                                    *)
(*                                                                           *)
(* The database keeps for each connection whether a transaction is open on   *)
(* it and what was written in it. The pool itself and the database are not   *)
(* the program's code: they are modelled from how it uses them.              *)
(*                                                                           *)
(* Definitions named Mut... are faulty variants of the definition they       *)
(* precede, for checking that the properties can fail.                       *)
EXTENDS Naturals, Sequences, FiniteSets

CONSTANTS Queries,     \* the calls of stream_query, each made at most once
          Kind,        \* what a query does: one of the Kinds below
          Conns,       \* the connections the main pool may open
          Networked,   \* sqlx network driver (TRUE) or SQLite (FALSE)
          Stalled,     \* the queries the server never answers
          Breaks,      \* whether a connection may break and be replaced
          BatchSize,   \* query.batch_size
          MaxRows,     \* bound: rows of one statement
          MaxStmts,    \* bound: statements of one select text
          Nobody

Kinds == {"select", "write", "begin", "commit", "rollback"}

ASSUME DriverAssumption == /\ Kind \in [Queries -> Kinds]
                           /\ Stalled \subseteq Queries
                           /\ BatchSize \in Nat \ {0}
                           /\ Nobody \notin Queries

VARIABLES phase,       \* query -> where its task is
          stream,      \* query -> the events sent into its sink
          stmt,        \* query -> the statement being streamed
          latched,     \* the queries whose columns_sent is set
          rows,        \* query -> rows of this statement so far
          cancelled,   \* the queries whose handle was cancelled or dropped
          holder,      \* connection -> the query holding it, or Nobody
          open,        \* the connections the pool has opened
          kills,       \* the connections a server-side cancel is on its way to
          closed,      \* Connection::close was called
          inTx,        \* the connections with an open transaction
          pending,     \* connection -> writes of its open transaction
          committed    \* the writes every other connection sees

taskVars == <<phase, stream, stmt, latched, rows>>
poolVars == <<holder, open, kills, closed>>
dataVars == <<inTx, pending, committed>>
driverVars == <<taskVars, cancelled, poolVars, dataVars>>

Event(k, n) == [kind |-> k, set |-> n]

DriverInit ==
  /\ phase = [q \in Queries |-> "new"]
  /\ stream = [q \in Queries |-> <<>>]
  /\ stmt = [q \in Queries |-> 0]
  /\ latched = {}
  /\ rows = [q \in Queries |-> 0]
  /\ cancelled = {}
  /\ holder = [c \in Conns |-> Nobody]
  /\ open = {}
  /\ kills = {}
  /\ closed = FALSE
  /\ inTx = {}
  /\ pending = [c \in Conns |-> {}]
  /\ committed = {}

-----------------------------------------------------------------------------
(* The pool and the database.                                                *)

Free(c) == holder[c] = Nobody

\* An idle connection, or a new one when every open one is taken.
Acquirable == IF \E c \in open : Free(c) THEN {c \in open : Free(c)}
                                         ELSE {c \in Conns : Free(c)}

\* No connection comes free to an acquire before its timeout, and none that it
\* may open can be.
NoneToAcquire == closed \/ Acquirable \cap open = {}

Held(q) == {c \in Conns : holder[c] = q}

\* The writes that q commits when it runs on c.
MakesDurable(q, c) == CASE Kind[q] = "write" /\ c \notin inTx -> {q}
                        [] Kind[q] = "commit" -> pending[c]
                        [] OTHER -> {}

\* What running q on c does to the database.
Effect(q, c) ==
  /\ committed' = committed \cup MakesDurable(q, c)
  /\ inTx' = CASE Kind[q] = "begin" -> inTx \cup {c}
               [] Kind[q] \in {"commit", "rollback"} -> inTx \ {c}
               [] OTHER -> inTx
  /\ pending' = [pending EXCEPT ![c] =
                   CASE Kind[q] = "write" /\ c \in inTx -> @ \cup {q}
                     [] Kind[q] \in {"commit", "rollback"} -> {}
                     [] OTHER -> @]

\* SQLite refuses a transaction inside another, and the end of none; the
\* servers answer either with a warning.
Refused(q, c) == /\ ~ Networked
                 /\ \/ Kind[q] = "begin" /\ c \in inTx
                    \/ Kind[q] \in {"commit", "rollback"} /\ c \notin inTx

Send(q, events) == stream' = [stream EXCEPT ![q] = @ \o events]

Goto(q, p) == phase' = [phase EXCEPT ![q] = p]

HasColumns(q) == \E i \in DOMAIN stream[q] : stream[q][i].kind = "columns"

-----------------------------------------------------------------------------
(* One action per step of run_query.                                         *)

StreamQuery(q) ==
  /\ phase[q] = "new"
  /\ Goto(q, "waiting")
  /\ UNCHANGED <<stream, stmt, latched, rows, cancelled, poolVars, dataVars>>

\* QueryHandle::cancel, or the last handle dropped.
Cancel(q) ==
  /\ phase[q] # "new"
  /\ cancelled' = cancelled \cup {q}
  /\ UNCHANGED <<taskVars, poolVars, dataVars>>

Acquire(q) ==
  /\ phase[q] = "waiting"
  /\ ~ closed
  /\ \E c \in Acquirable : /\ holder' = [holder EXCEPT ![c] = q]
                           /\ open' = open \cup {c}
  /\ Goto(q, "running")
  /\ stmt' = [stmt EXCEPT ![q] = 1]
  /\ UNCHANGED <<stream, latched, rows, cancelled, kills, closed, dataVars>>

\* The acquire timeout, a closed pool, or a connection that cannot be opened.
AcquireFails(q) ==
  /\ phase[q] = "waiting"
  /\ NoneToAcquire
  /\ Goto(q, "over")
  /\ Send(q, <<Event("err", 0)>>)
  /\ UNCHANGED <<stmt, latched, rows, cancelled, poolVars, dataVars>>

Running(q) == phase[q] = "running" /\ q \notin cancelled

Buffered(q) == rows[q] % BatchSize

\* A row: announce the columns before the first one, send a full batch.
Row(q) ==
  /\ Running(q)
  /\ Kind[q] = "select"
  /\ rows[q] < MaxRows
  /\ rows' = [rows EXCEPT ![q] = @ + 1]
  /\ latched' = latched \cup {q}
  /\ Send(q, (IF q \in latched THEN <<>> ELSE <<Event("columns", stmt[q])>>)
             \o (IF Buffered(q) = BatchSize - 1 THEN <<Event("batch", stmt[q])>> ELSE <<>>))
  /\ UNCHANGED <<phase, stmt, cancelled, poolVars, dataVars>>

Flush(q) == IF Buffered(q) > 0 THEN <<Event("batch", stmt[q])>> ELSE <<>>

\* The rows of the statement that ended stay in the buffer.
MutNextStatement(q) ==
  /\ Running(q)
  /\ Kind[q] = "select"
  /\ stmt[q] < MaxStmts
  /\ stmt' = [stmt EXCEPT ![q] = @ + 1]
  /\ latched' = latched \ {q}
  /\ UNCHANGED <<phase, stream, rows, cancelled, poolVars, dataVars>>

\* The end of a statement that another one follows.
NextStatement(q) ==
  /\ Running(q)
  /\ Kind[q] = "select"
  /\ stmt[q] < MaxStmts
  /\ Send(q, Flush(q))
  /\ stmt' = [stmt EXCEPT ![q] = @ + 1]
  /\ rows' = [rows EXCEPT ![q] = 0]
  /\ latched' = latched \ {q}
  /\ UNCHANGED <<phase, cancelled, poolVars, dataVars>>

\* The last statement ended: report it, or describe the text first. SQLite's
\* only connection is dropped before it is described.
End(q) ==
  /\ Running(q)
  /\ \E c \in Held(q) : /\ ~ Refused(q, c)
                        /\ Effect(q, c)
  /\ IF HasColumns(q) THEN /\ Goto(q, "over")
                           /\ Send(q, Flush(q) \o <<Event("done", 0)>>)
                      ELSE /\ Goto(q, "describing")
                           /\ UNCHANGED stream
  /\ rows' = [rows EXCEPT ![q] = 0]
  /\ UNCHANGED <<stmt, latched, cancelled, poolVars>>

\* The fallback describe asks for a connection of the pool, waiting for it at
\* most as long as an acquire does.
Describe(q) ==
  /\ phase[q] = "describing"
  /\ ~ closed
  /\ \E c \in Acquirable : /\ holder' = [holder EXCEPT ![c] = q]
                           /\ open' = open \cup {c}
  /\ Goto(q, "preparing")
  /\ UNCHANGED <<stream, stmt, latched, rows, cancelled, kills, closed, dataVars>>

Report(q) ==
  /\ Goto(q, "over")
  /\ Send(q, <<Event("columns", stmt[q]), Event("done", 0)>>)
  /\ UNCHANGED <<stmt, latched, rows, cancelled, poolVars, dataVars>>

\* The describe waits for a connection for as long as it takes.
MutDescribeGivesUp(q) == phase[q] = "describing" /\ closed /\ Report(q)

\* None came free in time: it is as if the text had no columns.
DescribeGivesUp(q) == phase[q] = "describing" /\ NoneToAcquire /\ Report(q)

\* The server described the text, or refused to.
Described(q) == phase[q] = "preparing" /\ Report(q)

\* The server refuses the statement.
Fail(q) ==
  /\ Running(q)
  /\ Goto(q, "over")
  /\ Send(q, <<Event("err", 0)>>)
  /\ UNCHANGED <<stmt, latched, rows, cancelled, poolVars, dataVars>>

\* The connection breaks, before or after the server ran the statement; the
\* server rolls back what was open on it.
Lost(q) ==
  /\ Breaks
  /\ Running(q)
  /\ \E c \in Held(q) :
       /\ committed' \in {committed, committed \cup MakesDurable(q, c)}
       /\ inTx' = inTx \ {c}
       /\ pending' = [pending EXCEPT ![c] = {}]
       /\ open' = open \ {c}
       /\ holder' = [holder EXCEPT ![c] = Nobody]
       /\ kills' = kills \ {c}
  /\ Goto(q, "over")
  /\ Send(q, <<Event("err", 0)>>)
  /\ UNCHANGED <<stmt, latched, rows, cancelled, closed>>

\* A cancel seen between two rows: the stream just ends. The server may have
\* run the statement; the network drivers ask it to stop.
SeeCancel(q) ==
  /\ phase[q] = "running"
  /\ q \in cancelled
  /\ \E c \in Held(q) : /\ \/ ~ Refused(q, c) /\ Effect(q, c)
                           \/ UNCHANGED dataVars
                        /\ kills' = IF Networked THEN kills \cup {c} ELSE kills
  /\ Goto(q, "over")
  /\ UNCHANGED <<stream, stmt, latched, rows, cancelled, holder, open, closed>>

\* The server-side cancel arrives: it stops whatever the backend runs now.
KillLands(c) ==
  /\ c \in kills
  /\ kills' = kills \ {c}
  /\ \/ \E q \in Queries : /\ holder[c] = q
                           /\ Running(q)
                           /\ Goto(q, "over")
                           /\ Send(q, <<Event("err", 0)>>)
     \/ /\ \A q \in Queries : ~ (holder[c] = q /\ Running(q))
        /\ UNCHANGED <<phase, stream>>
  /\ UNCHANGED <<stmt, latched, rows, cancelled, holder, open, closed, dataVars>>

\* A connection goes back: after its query is over, or, for SQLite, dropped
\* before the describe. A closed pool closes it.
GiveBack(c) ==
  /\ \E q \in Queries : /\ holder[c] = q
                        /\ \/ phase[q] = "over"
                           \/ ~ Networked /\ phase[q] = "describing"
  /\ holder' = [holder EXCEPT ![c] = Nobody]
  /\ UNCHANGED <<taskVars, cancelled, open, kills, closed, dataVars>>

\* Connection::close: no more acquires.
Close ==
  /\ ~ closed
  /\ closed' = TRUE
  /\ UNCHANGED <<taskVars, cancelled, holder, open, kills, dataVars>>

\* A closed pool closes the connections given back to it.
CloseIdle(c) ==
  /\ closed
  /\ c \in open
  /\ Free(c)
  /\ open' = open \ {c}
  /\ inTx' = inTx \ {c}
  /\ pending' = [pending EXCEPT ![c] = {}]
  /\ UNCHANGED <<taskVars, cancelled, holder, kills, closed, committed>>

Asking(q) == Acquire(q) \/ AcquireFails(q) \/ Describe(q) \/ DescribeGivesUp(q)

Answered(q) == \/ Row(q) \/ NextStatement(q) \/ End(q) \/ Fail(q) \/ Lost(q)
               \/ SeeCancel(q) \/ Described(q)

Task(q) == Asking(q) \/ Answered(q)

PoolNext == \/ \E c \in Conns : KillLands(c) \/ GiveBack(c) \/ CloseIdle(c)
            \/ Close

DriverNext == \/ \E q \in Queries : StreamQuery(q) \/ Cancel(q) \/ Task(q)
              \/ PoolNext

(* The code bounds one wait only, the pool's acquire (POOL_ACQUIRE_TIMEOUT):  *)
(* the first one of a query and the describe's end. A connection that is let *)
(* go of returns to the pool. Nothing in the code makes a server answer, a   *)
(* running statement or a describe: that is assumed, and only of the queries *)
(* that are not Stalled, for whom also the consumer takes what is sent.      *)
DriverFairness ==
  /\ \A q \in Queries : WF_driverVars(Asking(q))
  /\ \A c \in Conns : WF_driverVars(GiveBack(c))
  /\ \A q \in Queries \ Stalled : WF_driverVars(Answered(q))

DriverSpec == DriverInit /\ [][DriverNext]_driverVars /\ DriverFairness

-----------------------------------------------------------------------------

(* What the consumer of a stream relies on. The session's accumulator keeps  *)
(* one result set and the transaction takes a stream that just ends for      *)
(* success, so: every batch follows the columns of its own set, the stream   *)
(* has at most one terminal event and nothing after it, a completed query    *)
(* announced its columns, and only a cancelled one ends without a word.      *)
StreamProtocol ==
  \A q \in Queries :
    /\ \A i \in DOMAIN stream[q] :
         LET e == stream[q][i]
             heads == {j \in 1..i - 1 : stream[q][j].kind = "columns"}
         IN /\ e.kind = "batch" => \E h \in heads : /\ stream[q][h].set = e.set
                                                   /\ \A j \in heads : j <= h
            /\ e.kind \in {"done", "err"} => i = Len(stream[q])
            /\ e.kind = "done" => heads # {}
    /\ (phase[q] = "over" /\ q \notin cancelled) =>
         \E i \in DOMAIN stream[q] : stream[q][i].kind \in {"done", "err"}

(* Whoever holds the pool, and though the server never answers those that    *)
(* are Stalled, a query it does answer comes to its end and has let go of    *)
(* every connection: queries which hold one connection and wait for another  *)
(* to be described on do not wait for each other (sqlite's driver.rs:317-321 *)
(* gives its only one back for that; the network drivers keep theirs).       *)
NoEndlessWait ==
  \A q \in Queries \ Stalled : phase[q] = "waiting" ~> phase[q] = "over" /\ Held(q) = {}

=============================================================================
