------------------------------- MODULE Session -------------------------------
(***************************************************************************)
(* The Session entity of crates/zsql/src/session.rs and session/*.rs: the  *)
(* one active database connection of the application, the query it streams,*)
(* the schema it shows and the liveness probe that watches it.             *)
(*                                                                         *)
(* Every method of Session runs to completion on the UI thread, so it is   *)
(* one action.  What a method spawns (a connect attempt, an introspection, *)
(* a count, a probe, a query stream) is a member of a set; it finishes at  *)
(* any later moment, in any order, and re-enters the UI thread in an       *)
(* action of its own.                                                      *)
(*                                                                         *)
(* Data is abstracted to identities: a connection is known by the order in *)
(* which it was opened, a schema tree by the connection it was read from, a*)
(* row count by what was counted, a query by its generation number.        *)
(* current_url stands for current_url, current_database and                *)
(* available_databases, which the code always assigns together.            *)
(***************************************************************************)
EXTENDS Naturals, FiniteSets

CONSTANTS
  Servers,            \* the database servers a saved connection can name
  Databases,          \* the databases of a server
  Tunneled,           \* the servers reached through an SSH tunnel
  Silent,             \* the servers that may accept a connection and never
                      \* answer on it
  Previews,           \* what a preview can show: a relation under a filter
  None,               \* Rust's Option::None
  MaxResultRows,      \* Config::query.max_result_rows
  MaxGeneration,      \* bound: connect and switch attempts
  MaxQueries,         \* bound: query generations
  MaxIntrospections   \* bound: introspections a caller asks for

ASSUME ConstantsAssumption ==
  /\ Tunneled \subseteq Servers /\ Silent \subseteq Servers
  /\ None \notin Servers \cup Previews
  /\ MaxResultRows \in Nat \ {0}
  /\ {MaxGeneration, MaxQueries, MaxIntrospections} \subseteq Nat

Url == [server : Servers, db : Databases]

\* The SSH configuration saved with a server's connection, if it has one.
SshOf(server) == IF server \in Tunneled THEN server ELSE None

\* An Arc<dyn Connection>: the id tells two connections to one URL apart,
\* ssh is the tunnel configuration it was opened through.
Connection == [id : Nat \ {0}, url : Url, ssh : Servers \cup {None}]

\* None is not a record: no connection, URL or count is confused with it.
ASSUME NoneAssumption ==
  /\ None \notin Connection
  /\ None \notin Url
  /\ None \notin [of : Previews, conn : Connection]

VARIABLES
  \* fields of Session
  connection, current_url, active_ssh, tunnel,
  state, schema,
  active_query, accumulator, row_count, query_generation,
  liveness, connection_generation, probe_in_flight,
  \* what Session's methods have spawned and not yet heard back from
  attempts, introspections, streams, counts, loops, probes,
  \* the world: connections opened so far, and those told to close
  opened, discarded, introspected

connVars  == <<connection, current_url, active_ssh, tunnel, opened, discarded>>
queryVars == <<active_query, accumulator, row_count, query_generation,
               streams, counts>>
probeVars == <<liveness, connection_generation, probe_in_flight, loops, probes>>
schemaVars == <<schema, introspections, introspected>>
vars == <<connVars, state, schemaVars, queryVars, probeVars, attempts>>

-----------------------------------------------------------------------------
(* The values of the state enums.                                          *)

SessionState == {"Empty", "Connecting", "Connected", "Running", "Results",
                 "Truncating", "Truncated", "Error"}
Terminal == {"Results", "Truncated", "Error"}

\* A Ready schema is the tree read from the connection "of".
SchemaState == [kind : {"NotLoaded", "Loading", "Ready", "Error"},
                of : Connection \cup {None}]
Schema(kind) == [kind |-> kind, of |-> None]

\* A probe's verdict, about the connection "of".
Liveness == [kind : {"Unknown", "Healthy", "Unreachable"},
             of : Connection \cup {None}]
Unknown == [kind |-> "Unknown", of |-> None]

\* ResultAccumulator: the query it was made for, what that query previews
\* and on which connection; the rows it retains, the queries they came from.
Accumulator == [query : Nat, of : Previews \cup {None},
                conn : Connection \cup {None},
                rows : 0 .. MaxResultRows, from : SUBSET Nat,
                status : {"Running", "Truncating", "Truncated", "Results",
                          "Error"}]
NewAccumulator(q, of, conn) ==
  [query |-> q, of |-> of, conn |-> conn, rows |-> 0, from |-> {},
   status |-> "Running"]

RowCount == [of : Previews, conn : Connection]

\* The background work in flight.
Attempt == [kind : {"connect", "switch"}, generation : Nat, url : Url,
            ssh : Servers \cup {None}, previous_schema : SchemaState]
Introspection == [id : Nat, conn : Connection]
Stream == [query : Nat, conn : Connection, columns : BOOLEAN]
Count == [query : Nat, of : Previews, conn : Connection]
Probe == [generation : Nat, conn : Connection]

Init ==
  /\ connection = None /\ current_url = None /\ active_ssh = None
  /\ tunnel = None
  /\ state = "Empty" /\ schema = Schema("NotLoaded")
  /\ active_query = 0 /\ accumulator = NewAccumulator(0, None, None)
  /\ row_count = None /\ query_generation = 0
  /\ liveness = Unknown /\ connection_generation = 0
  /\ probe_in_flight = FALSE
  /\ attempts = {} /\ introspections = {} /\ streams = {} /\ counts = {}
  /\ loops = {} /\ probes = {}
  /\ opened = 0 /\ discarded = {} /\ introspected = 0

-----------------------------------------------------------------------------
(* Definitions named Mut... are faulty variants of the definition they      *)
(* precede: each breaks one of the properties below.                        *)

\* Attempts and probes carry the connection generation they were started
\* under, counts and streams the query generation; older ones are ignored.
MutIsCurrent(job) == TRUE
IsCurrent(job) == job.generation = connection_generation

MutIsNewest(job) == TRUE
IsNewest(job) == job.query = query_generation

\* spawn_liveness_probe_loop
MutWatch(g) == UNCHANGED loops
Watch(g) == loops' = loops \cup {g}

\* A connection taken out of the session is closed by a background task.
MutClosing(c) == {}
Closing(c) == IF c = None THEN {} ELSE {c.id}

-----------------------------------------------------------------------------
(* Connecting.                                                             *)

\* Both kinds of attempt invalidate the probe loop before they are spawned.
BeginAttempt(a) ==
  /\ state' = "Connecting"
  /\ liveness' = Unknown
  /\ connection_generation' = a.generation
  /\ probe_in_flight' = FALSE
  /\ attempts' = attempts \cup {a}
  /\ UNCHANGED <<loops, probes>>

\* connect_url: replace whatever is active by a connection to u.
ConnectUrl(u) ==
  /\ connection_generation < MaxGeneration
  /\ BeginAttempt([kind |-> "connect", generation |-> connection_generation + 1,
                   url |-> u, ssh |-> SshOf(u.server),
                   previous_schema |-> Schema("NotLoaded")])
  /\ schema' = Schema("NotLoaded")
  /\ tunnel' = None
  /\ active_ssh' = SshOf(u.server)
  /\ UNCHANGED <<connection, current_url, opened, discarded, introspections,
                 introspected, queryVars>>

\* switch_database: another database of the server current_url names.
SwitchDatabase(db) ==
  /\ current_url # None
  /\ connection_generation < MaxGeneration
  /\ BeginAttempt([kind |-> "switch", generation |-> connection_generation + 1,
                   url |-> [current_url EXCEPT !.db = db], ssh |-> active_ssh,
                   previous_schema |-> schema])
  /\ active_query' = 0
  /\ schema' = Schema("Loading")
  /\ UNCHANGED <<connVars, introspections, introspected, accumulator,
                 row_count, query_generation, streams, counts>>

\* switch_database with nothing to switch from.
SwitchNotConnected ==
  /\ current_url = None
  /\ state' = "Error"
  /\ UNCHANGED <<connVars, schemaVars, queryVars, probeVars, attempts>>

\* The connection an attempt that succeeds has opened.
NewConnection(a) == [id |-> opened + 1, url |-> a.url, ssh |-> a.ssh]

\* An attempt newer ones have superseded: its connection, if any, is closed.
AttemptSuperseded(a) ==
  /\ ~IsCurrent(a)
  /\ attempts' = attempts \ {a}
  /\ \/ UNCHANGED <<opened, discarded>>
     \/ /\ opened' = opened + 1
        /\ discarded' = discarded \cup Closing(NewConnection(a))
  /\ UNCHANGED <<connection, current_url, active_ssh, tunnel, state,
                 schemaVars, queryVars, probeVars>>

\* The success arm of apply_connect_outcome and apply_switch_outcome, and the
\* probe loop both start.
Install(a) ==
  /\ IsCurrent(a)
  /\ attempts' = attempts \ {a}
  /\ opened' = opened + 1
  /\ connection' = NewConnection(a)
  /\ tunnel' = IF a.ssh = None THEN None ELSE opened + 1
  /\ current_url' = a.url
  /\ state' = "Connected"
  /\ discarded' = discarded \cup Closing(connection)
  /\ Watch(a.generation)
  /\ UNCHANGED <<active_ssh, queryVars, liveness, connection_generation,
                 probe_in_flight, probes>>

ConnectSucceeds(a) ==
  /\ a.kind = "connect"
  /\ Install(a)
  /\ UNCHANGED schemaVars

MutConnectFails(a) ==
  /\ a.kind = "connect"
  /\ IsCurrent(a)
  /\ attempts' = attempts \ {a}
  /\ connection' = None /\ tunnel' = None
  /\ state' = "Error"
  /\ discarded' = discarded \cup Closing(connection)
  /\ UNCHANGED <<active_ssh, current_url, opened, schemaVars, queryVars,
                 probeVars>>

\* A connect that fails leaves the session without a connection.
ConnectFails(a) ==
  /\ a.kind = "connect"
  /\ IsCurrent(a)
  /\ attempts' = attempts \ {a}
  /\ connection' = None /\ tunnel' = None /\ current_url' = None
  /\ state' = "Error"
  /\ discarded' = discarded \cup Closing(connection)
  /\ UNCHANGED <<active_ssh, opened, schemaVars, queryVars, probeVars>>

\* introspect, on connection c: the schema is Loading until it answers.
BeginIntrospection(c) ==
  /\ schema' = Schema("Loading")
  /\ introspected' = introspected + 1
  /\ introspections' = introspections \cup {[id |-> introspected + 1, conn |-> c]}

SwitchSucceeds(a) ==
  /\ a.kind = "switch"
  /\ Install(a)
  /\ BeginIntrospection(NewConnection(a))

MutSwitchFails(a) ==
  /\ a.kind = "switch"
  /\ IsCurrent(a)
  /\ attempts' = attempts \ {a}
  /\ schema' = a.previous_schema
  /\ connection_generation' = connection_generation + 1
  /\ probe_in_flight' = FALSE
  /\ Watch(connection_generation + 1)
  /\ UNCHANGED <<connVars, state, introspections, introspected, queryVars,
                 liveness, probes>>

\* A switch that fails keeps the connection, puts back the schema it found
\* and moves the probe loop to a generation of its own.
SwitchFails(a) ==
  /\ a.kind = "switch"
  /\ IsCurrent(a)
  /\ attempts' = attempts \ {a}
  /\ schema' = a.previous_schema
  /\ state' = "Error"
  /\ connection_generation' = connection_generation + 1
  /\ probe_in_flight' = FALSE
  /\ Watch(connection_generation + 1)
  /\ UNCHANGED <<connVars, introspections, introspected, queryVars, liveness,
                 probes>>

AttemptResolves(a) ==
  \/ AttemptSuperseded(a)
  \/ ConnectSucceeds(a)
  \/ ConnectFails(a)
  \/ SwitchSucceeds(a)
  \/ SwitchFails(a)

-----------------------------------------------------------------------------
(* The schema.                                                             *)

Introspect ==
  /\ introspected < MaxIntrospections
  /\ connection # None
  /\ BeginIntrospection(connection)
  /\ UNCHANGED <<connVars, state, queryVars, probeVars, attempts>>

IntrospectNotConnected ==
  /\ connection = None
  /\ schema' = Schema("Error")
  /\ UNCHANGED <<connVars, state, introspections, introspected, queryVars,
                 probeVars, attempts>>

\* The answer is stored whatever has happened to the session since.
IntrospectionResolves(i) ==
  /\ introspections' = introspections \ {i}
  /\ \/ schema' = [kind |-> "Ready", of |-> i.conn]
     \/ schema' = Schema("Error")
  /\ UNCHANGED <<connVars, state, introspected, queryVars, probeVars, attempts>>

-----------------------------------------------------------------------------
(* Queries.                                                                *)

\* run_query, previewing "of" or, for SQL typed by the user, None.
StartQuery(of) ==
  /\ accumulator' = NewAccumulator(query_generation + 1, of, connection)
  /\ state' = "Running"
  /\ query_generation' = query_generation + 1
  /\ active_query' = query_generation + 1
  /\ streams' = streams \cup {[query |-> query_generation + 1,
                               conn |-> connection, columns |-> FALSE]}
  /\ UNCHANGED <<connVars, schemaVars, probeVars, attempts>>

\* The count preview_relation fetches beside the rows.
StartCount(of) ==
  counts' = counts \cup {[query |-> query_generation + 1, of |-> of,
                          conn |-> connection]}

CanRun == connection # None /\ query_generation < MaxQueries

RunQuery == CanRun /\ StartQuery(None) /\ row_count' = None /\ UNCHANGED counts

RunNotConnected ==
  /\ connection = None
  /\ state' = "Error"
  /\ UNCHANGED <<connVars, schemaVars, queryVars, probeVars, attempts>>

\* preview_relation, and preview_relation_windowed with refetch_count.
PreviewRelation(of) ==
  CanRun /\ StartQuery(of) /\ row_count' = None /\ StartCount(of)

\* preview_relation_windowed without refetch_count: the total is carried over.
PreviewWindow(of) ==
  CanRun /\ StartQuery(of) /\ UNCHANGED <<row_count, counts>>

MutCancelQuery ==
  /\ active_query # 0
  /\ query_generation' = query_generation + 1
  /\ state' = "Error"
  /\ UNCHANGED <<connVars, schemaVars, active_query, accumulator, row_count,
                 streams, counts, probeVars, attempts>>

\* cancel_query: the events still queued belong to an older generation.
CancelQuery ==
  /\ active_query # 0
  /\ active_query' = 0
  /\ query_generation' = query_generation + 1
  /\ state' = "Error"
  /\ UNCHANGED <<connVars, schemaVars, accumulator, row_count, streams, counts,
                 probeVars, attempts>>

\* ResultAccumulator::apply, a batch being one row.
Folded(acc, q, event) ==
  CASE event = "Columns" ->
         [acc EXCEPT !.rows = 0, !.from = {}, !.status = "Running"]
    [] event = "Batch" /\ acc.status = "Truncating" -> acc
    [] event = "Batch" /\ acc.status # "Truncating" ->
         LET kept == acc.rows < MaxResultRows
             rows == IF kept THEN acc.rows + 1 ELSE acc.rows
         IN [acc EXCEPT !.rows = rows,
                        !.from = IF kept THEN acc.from \cup {q} ELSE acc.from,
                        !.status = IF rows >= MaxResultRows THEN "Truncating"
                                                      ELSE "Running"]
    [] event = "Done" ->
         [acc EXCEPT !.status = IF acc.status = "Truncating"
                                THEN "Truncated" ELSE "Results"]
    [] event = "Err" -> [acc EXCEPT !.status = "Error"]

\* What a driver may send next: the columns of a set, then its rows, Done
\* once columns have been sent, or an error.
CanSend(s, event) == event \in {"Batch", "Done"} => s.columns

\* The consumer loop receives an event of the query that is still current.
StreamEvent(s, event) ==
  /\ CanSend(s, event)
  /\ IsNewest(s)
  /\ accumulator' = Folded(accumulator, s.query, event)
  /\ state' = accumulator'.status
  /\ active_query' = IF state' \in Terminal THEN 0 ELSE active_query
  /\ streams' = (streams \ {s}) \cup
                (IF state' \in Terminal THEN {} ELSE {[s EXCEPT !.columns = TRUE]})
  /\ UNCHANGED <<connVars, schemaVars, row_count, query_generation, counts,
                 probeVars, attempts>>

\* The consumer loop of a superseded query stops: at its next event, or when
\* the driver, its handle dropped or cancelled, closes the channel silently.
StreamEnds(s) ==
  /\ ~IsNewest(s) \/ active_query # s.query
  /\ streams' = streams \ {s}
  /\ UNCHANGED <<connVars, state, schemaVars, active_query, accumulator,
                 row_count, query_generation, counts, probeVars, attempts>>

\* A count lands, and is dropped if it failed or a newer query has started.
CountResolves(k) ==
  /\ counts' = counts \ {k}
  /\ \/ UNCHANGED row_count
     \/ /\ IsNewest(k)
        /\ row_count' = [of |-> k.of, conn |-> k.conn]
  /\ UNCHANGED <<connVars, state, schemaVars, active_query, accumulator,
                 query_generation, streams, probeVars, attempts>>

-----------------------------------------------------------------------------
(* The liveness probe.                                                     *)

\* A tick that starts a probe; one that finds a probe outstanding is skipped.
ProbeTick(g) ==
  /\ g = connection_generation
  /\ connection # None
  /\ ~probe_in_flight
  /\ probe_in_flight' = TRUE
  /\ probes' = probes \cup {[generation |-> g, conn |-> connection]}
  /\ UNCHANGED <<connVars, state, schemaVars, queryVars, attempts, liveness,
                 connection_generation, loops>>

\* A tick that finds its connection superseded, or gone, ends the loop.
LoopStops(g) ==
  /\ g # connection_generation \/ connection = None
  /\ loops' = loops \ {g}
  /\ UNCHANGED <<connVars, state, schemaVars, queryVars, attempts, liveness,
                 connection_generation, probe_in_flight, probes>>

\* A probe's answer, or its timeout.
ProbeResolves(p) ==
  /\ probes' = probes \ {p}
  /\ IF IsCurrent(p)
     THEN /\ probe_in_flight' = FALSE
          /\ \E kind \in {"Healthy", "Unreachable"} :
               liveness' = [kind |-> kind, of |-> p.conn]
     ELSE UNCHANGED <<probe_in_flight, liveness>>
  /\ UNCHANGED <<connVars, state, schemaVars, queryVars, attempts,
                 connection_generation, loops>>

-----------------------------------------------------------------------------

\* What preview_relation_windowed asks of a caller that skips the count: the
\* window is one of the relation, on the connection, the session last counted.
SameRelation(of) == accumulator.of = of /\ accumulator.conn = connection

ConnectNext ==
  \/ \E u \in Url : ConnectUrl(u)
  \/ \E db \in Databases : SwitchDatabase(db)
  \/ SwitchNotConnected
  \/ \E a \in attempts : AttemptResolves(a)

SchemaNext ==
  \/ Introspect
  \/ IntrospectNotConnected
  \/ \E i \in introspections : IntrospectionResolves(i)

QueryNext ==
  \/ RunQuery
  \/ RunNotConnected
  \/ \E of \in Previews : PreviewRelation(of)
  \/ \E of \in Previews : SameRelation(of) /\ PreviewWindow(of)
  \/ CancelQuery
  \/ \E s \in streams, event \in {"Columns", "Batch", "Done", "Err"} :
        StreamEvent(s, event)
  \/ \E s \in streams : StreamEnds(s)
  \/ \E k \in counts : CountResolves(k)

ProbeNext ==
  \/ \E g \in loops : ProbeTick(g) \/ LoopStops(g)
  \/ \E p \in probes : ProbeResolves(p)

Next == ConnectNext \/ SchemaNext \/ QueryNext \/ ProbeNext

Spec == Init /\ [][Next]_vars

\* What an attempt may wait for: dialling the server and acquiring the pool's
\* first connection have time-outs, the queries asked on it then (SELECT 1, the
\* list of databases) have none. That a server not Silent answers them is
\* assumed of the world; each attempt is a task of its own.
AttemptEnds(g) ==
  \E a \in attempts :
    a.generation = g /\ a.url.server \notin Silent /\ AttemptResolves(a)

Fairness == \A g \in 1 .. MaxGeneration : WF_vars(AttemptEnds(g))

FairSpec == Spec /\ Fairness

-----------------------------------------------------------------------------
(* Properties.                                                             *)

\* Type correctness of every field and of the work in flight.  (The flag is
\* kept apart because the provers treat Booleans apart.)
FieldTypes ==
  /\ connection \in Connection \cup {None}
  /\ current_url \in Url \cup {None}
  /\ active_ssh \in Servers \cup {None}
  /\ tunnel \in Nat \cup {None}
  /\ state \in SessionState
  /\ schema \in SchemaState
  /\ active_query \in Nat
  /\ accumulator \in Accumulator
  /\ row_count \in RowCount \cup {None}
  /\ query_generation \in Nat
  /\ liveness \in Liveness
  /\ connection_generation \in Nat
  /\ attempts \subseteq Attempt
  /\ introspections \subseteq Introspection
  /\ streams \subseteq Stream
  /\ counts \subseteq Count
  /\ loops \subseteq Nat
  /\ probes \subseteq Probe
  /\ opened \in Nat
  /\ discarded \subseteq Nat
  /\ introspected \in Nat

TypeOK == FieldTypes /\ probe_in_flight \in BOOLEAN

\* Every connection an attempt opened is either the session's own or has been
\* told to close, never both: none leaks, and none is closed while in use
\* (connect.rs, apply_connect_outcome and close_outgoing_connection).
ConnectionsAccountedFor ==
  /\ discarded \cup Closing(connection) = 1 .. opened
  /\ discarded \cap Closing(connection) = {}

\* The URL a database switch is derived from is the one the connection was
\* opened with, whatever attempts failed or were superseded in between.
UrlNamesConnection ==
  current_url = IF connection = None THEN None ELSE connection.url

\* A verdict of the probe is about the connection the session holds: a probe
\* of a replaced connection never lands (probe.rs, spawn_probe_and_apply).
LivenessOfConnection ==
  liveness.kind # "Unknown" => connection # None /\ liveness.of = connection

\* A connection is never left unwatched: a probe loop of the current
\* generation is alive, or an attempt that will decide who is watched is.
ConnectionIsWatched ==
  connection # None =>
    \/ connection_generation \in loops
    \/ \E a \in attempts : IsCurrent(a)

\* probe_in_flight tells whether a probe of this generation is outstanding,
\* so probes never overlap and a stale one never blocks the next.
CurrentProbes == {p \in probes : IsCurrent(p)}
OneProbeAtATime ==
  /\ probe_in_flight <=> CurrentProbes # {}
  /\ \A p, q \in CurrentProbes : p = q

\* Connecting is shown only while the attempt that will end it is in flight.
ConnectingHasAttempt ==
  state = "Connecting" =>
    \E a \in attempts : IsCurrent(a)

\* The rows shown all come from the query the result set was made for, on
\* however many superseded streams events are still arriving.
ResultsOfOneQuery == accumulator.from \subseteq {accumulator.query}

\* The handle Cancel uses is that of the newest query, and that query is still
\* streaming: Cancel never reports cancelling a query that has finished.
HandleOfLiveQuery ==
  active_query # 0 =>
    /\ active_query = query_generation
    /\ \E s \in streams : s.query = active_query

\* The total shown beside a preview was counted for what the preview shows: a
\* count overtaken by a newer query is dropped. That a window which carries the
\* total over is one of the relation last counted (SameRelation) is asked of the
\* caller, and not checked by session.rs:507-557.
RowCountOfPreview ==
  row_count # None =>
    row_count = [of |-> accumulator.of, conn |-> accumulator.conn]

\* An attempt never leaves the session Connecting for ever, whatever attempts
\* older ones have superseded hang, unless the newest is to a server that may
\* accept a connection and not answer on it: nothing bounds that one.
ConnectingResolves ==
  state = "Connecting" ~>
    \/ state # "Connecting"
    \/ \E a \in attempts : IsCurrent(a) /\ a.url.server \in Silent

-----------------------------------------------------------------------------
(* What the properties rest on: the conjuncts that make them inductive.     *)

\* Every generation in use was handed out, and an attempt has its own.
GenerationsHandedOut ==
  /\ \A job \in attempts \cup probes : job.generation <= connection_generation
  /\ \A g \in loops : g <= connection_generation
  /\ \A a, b \in attempts : a.generation = b.generation => a = b

QueriesHandedOut ==
  /\ accumulator.query <= query_generation
  /\ \A job \in streams \cup counts : job.query <= query_generation

\* While the attempt of this generation is undecided nothing is watched.
UndecidedIsUnwatched ==
  (\E a \in attempts : IsCurrent(a)) =>
    /\ connection_generation \notin loops
    /\ CurrentProbes = {}
    /\ liveness.kind = "Unknown"

\* A probe of this generation asks the connection the session holds.
ProbesOfConnection ==
  \A p \in CurrentProbes : connection # None /\ p.conn = connection

\* Streams and counts of the newest generation feed the current result set.
NewestFeedsAccumulator ==
  /\ \A s \in streams : IsNewest(s) => s.query = accumulator.query
  /\ \A k \in counts :
       IsNewest(k) => k.of = accumulator.of /\ k.conn = accumulator.conn

\* What comments of the code say, which the runs that check them refute.

\* connect.rs:62: "whatever schema tree belongs to the connection this attempt
\* is replacing must stop being shown as current".
SchemaOfConnection ==
  schema.kind = "Ready" => connection # None /\ schema.of = connection

=============================================================================
