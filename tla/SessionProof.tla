---------------------------- MODULE SessionProof ----------------------------
(* Proofs that the invariants of Session hold for any servers, databases,   *)
(* previews and bounds: its types, then the safety invariants, in three     *)
(* groups that do not need one another: who owns a connection, who watches  *)
(* it, and which query the results belong to.                               *)
EXTENDS Session, TLAPS

-----------------------------------------------------------------------------
(* Type correctness.                                                        *)

LEMMA TypeInit == Init => FieldTypes
  BY ConstantsAssumption
  DEF Init, FieldTypes, SessionState, SchemaState, Schema, Liveness, Unknown,
      Accumulator, NewAccumulator, Attempt, Introspection, Stream, Count, Probe

\* A connection an attempt opens is one, and so is what it is described by.
LEMMA NewConnectionType ==
  ASSUME FieldTypes, NEW a \in attempts
  PROVE  /\ NewConnection(a) \in Connection
         /\ a.url \in Url
         /\ a.generation \in Nat
         /\ a.previous_schema \in SchemaState
         /\ NewConnection(a).id = opened + 1
         /\ NewConnection(a).url = a.url
  BY DEF FieldTypes, Attempt, Connection, NewConnection

LEMMA SchemaType ==
  ASSUME NEW kind \in {"NotLoaded", "Loading", "Error"}
  PROVE  Schema(kind) \in SchemaState
  BY DEF Schema, SchemaState

\* Closing a connection names it by its id.
LEMMA ClosingType ==
  ASSUME NEW c \in Connection \cup {None}
  PROVE  /\ Closing(c) \subseteq Nat \ {0}
         /\ c \in Connection => Closing(c) = {c.id}
  BY NoneAssumption DEF Closing, Connection

LEMMA TypeConnect ==
  ASSUME FieldTypes, ConnectNext
  PROVE  FieldTypes'
<1> USE DEF connVars, schemaVars, queryVars, probeVars
<1>1. ASSUME NEW u \in Url, ConnectUrl(u) PROVE FieldTypes'
  <2>1. SshOf(u.server) \in Servers \cup {None}
    BY DEF SshOf, Url
  <2>2. [kind |-> "connect", generation |-> connection_generation + 1,
         url |-> u, ssh |-> SshOf(u.server),
         previous_schema |-> Schema("NotLoaded")] \in Attempt
    BY <2>1, SchemaType DEF FieldTypes, Attempt
  <2> QED
    BY <1>1, <2>1, <2>2, SchemaType
    DEF FieldTypes, ConnectUrl, BeginAttempt, SessionState, Liveness, Unknown
<1>2. ASSUME NEW db \in Databases, SwitchDatabase(db) PROVE FieldTypes'
  <2>1. [current_url EXCEPT !.db = db] \in Url
    BY <1>2 DEF FieldTypes, SwitchDatabase, Url
  <2>2. [kind |-> "switch", generation |-> connection_generation + 1,
         url |-> [current_url EXCEPT !.db = db], ssh |-> active_ssh,
         previous_schema |-> schema] \in Attempt
    BY <2>1 DEF FieldTypes, Attempt
  <2> QED
    BY <1>2, <2>1, <2>2, SchemaType
    DEF FieldTypes, SwitchDatabase, BeginAttempt, SessionState, Liveness, Unknown
<1>3. CASE SwitchNotConnected
  BY <1>3 DEF FieldTypes, SwitchNotConnected, SessionState
<1>4. ASSUME NEW a \in attempts, AttemptResolves(a) PROVE FieldTypes'
  <2> USE NewConnectionType, SchemaType
  <2>1. CASE AttemptSuperseded(a)
    BY <1>4, <2>1, ClosingType DEF FieldTypes, AttemptSuperseded
  <2>2. CASE ConnectSucceeds(a)
    BY <1>4, <2>2, ClosingType
    DEF FieldTypes, ConnectSucceeds, Install, Watch, SessionState
  <2>3. CASE ConnectFails(a)
    BY <1>4, <2>3, ClosingType DEF FieldTypes, ConnectFails, SessionState
  <2>4. CASE SwitchSucceeds(a)
    <3>1. [id |-> introspected + 1, conn |-> NewConnection(a)] \in Introspection
      BY <1>4 DEF FieldTypes, Introspection
    <3>2. introspections' \subseteq Introspection /\ introspected' \in Nat
      BY <2>4, <3>1 DEF FieldTypes, SwitchSucceeds, BeginIntrospection
    <3>3. schema' \in SchemaState
      BY <2>4 DEF SwitchSucceeds, BeginIntrospection
    <3> QED
      BY <1>4, <2>4, <3>2, <3>3, ClosingType
      DEF FieldTypes, SwitchSucceeds, Install, Watch, SessionState
  <2>5. CASE SwitchFails(a)
    <3>0. connection_generation + 1 \in Nat
      BY DEF FieldTypes
    <3>1. connection_generation' \in Nat /\ loops' = loops \cup {connection_generation'}
      BY <2>5, <3>0 DEF SwitchFails, Watch
    <3>2. schema' \in SchemaState /\ state' \in SessionState
      BY <2>5 DEF SwitchFails, SessionState
    <3> QED BY <2>5, <3>1, <3>2 DEF FieldTypes, SwitchFails
  <2> QED BY <1>4, <2>1, <2>2, <2>3, <2>4, <2>5 DEF AttemptResolves
<1> QED BY <1>1, <1>2, <1>3, <1>4 DEF ConnectNext

LEMMA TypeSchema ==
  ASSUME FieldTypes, SchemaNext
  PROVE  FieldTypes'
<1> USE DEF connVars, schemaVars, queryVars, probeVars
<1>1. CASE Introspect
  <2>1. [id |-> introspected + 1, conn |-> connection] \in Introspection
    BY <1>1 DEF FieldTypes, Introspection, Introspect
  <2> QED BY <1>1, <2>1, SchemaType DEF FieldTypes, Introspect, BeginIntrospection
<1>2. CASE IntrospectNotConnected
  BY <1>2, SchemaType DEF FieldTypes, IntrospectNotConnected
<1>3. ASSUME NEW i \in introspections, IntrospectionResolves(i) PROVE FieldTypes'
  <2>1. [kind |-> "Ready", of |-> i.conn] \in SchemaState
    BY DEF FieldTypes, Introspection, SchemaState
  <2> QED BY <1>3, <2>1, SchemaType DEF FieldTypes, IntrospectionResolves
<1> QED BY <1>1, <1>2, <1>3 DEF SchemaNext

\* Folding an event keeps the query, what it previews and its connection.
LEMMA FoldedType ==
  ASSUME NEW acc \in Accumulator, NEW q \in Nat,
         NEW event \in {"Columns", "Batch", "Done", "Err"}
  PROVE  /\ Folded(acc, q, event) \in Accumulator
         /\ Folded(acc, q, event).query = acc.query
         /\ Folded(acc, q, event).of = acc.of
         /\ Folded(acc, q, event).conn = acc.conn
         /\ Folded(acc, q, event).from \subseteq acc.from \cup {q}
         /\ Folded(acc, q, event).status \in SessionState \ {"Connecting"}
<1> USE ConstantsAssumption DEF Accumulator, SessionState
<1>1. CASE event = "Columns"
  <2>1. Folded(acc, q, event) =
          [acc EXCEPT !.rows = 0, !.from = {}, !.status = "Running"]
    BY <1>1 DEF Folded
  <2> DEFINE rows == 0
             from == {}
  <2>2. rows \in 0 .. MaxResultRows /\ from \in SUBSET Nat
    OBVIOUS
  <2>3. from \subseteq acc.from \cup {q}
    OBVIOUS
  <2>4. Folded(acc, q, event) =
          [acc EXCEPT !.rows = rows, !.from = from, !.status = "Running"]
    BY <2>1
  <2> HIDE DEF rows, from
  <2> QED BY <2>2, <2>3, <2>4
<1>2. CASE event = "Batch" /\ acc.status = "Truncating"
  BY <1>2 DEF Folded
<1>3. CASE event = "Batch" /\ acc.status # "Truncating"
  <2> DEFINE rows == IF acc.rows < MaxResultRows THEN acc.rows + 1 ELSE acc.rows
             from == IF acc.rows < MaxResultRows THEN acc.from \cup {q} ELSE acc.from
             status == IF rows >= MaxResultRows THEN "Truncating" ELSE "Running"
  <2>1. Folded(acc, q, event) =
          [acc EXCEPT !.rows = rows, !.from = from, !.status = status]
    BY <1>3 DEF Folded
  <2>2. rows \in 0 .. MaxResultRows
    OBVIOUS
  <2>3. from \in SUBSET Nat /\ from \subseteq acc.from \cup {q}
    OBVIOUS
  <2>4. status \in {"Truncating", "Running"}
    OBVIOUS
  <2> HIDE DEF rows, from, status
  <2> QED BY <2>1, <2>2, <2>3, <2>4
<1>4. CASE event = "Done"
  BY <1>4 DEF Folded
<1>5. CASE event = "Err"
  BY <1>5 DEF Folded
<1> QED BY <1>1, <1>2, <1>3, <1>4, <1>5

\* The query a run starts, the stream it reads and the count beside it.
LEMMA StartQueryType ==
  ASSUME FieldTypes, connection # None, NEW of \in Previews \cup {None},
         StartQuery(of)
  PROVE  /\ accumulator' \in Accumulator
         /\ streams' \subseteq Stream
         /\ query_generation' \in Nat /\ active_query' \in Nat
         /\ state' \in SessionState
         /\ StartCount(of) /\ of # None => counts' \subseteq Count
<1>1. connection \in Connection /\ query_generation + 1 \in Nat
  BY DEF FieldTypes
<1>2. accumulator' \in Accumulator
  BY <1>1, ConstantsAssumption DEF StartQuery, NewAccumulator, Accumulator
<1>3. streams' \subseteq Stream
  <2>1. [query |-> query_generation + 1, conn |-> connection,
         columns |-> FALSE] \in Stream
    BY <1>1 DEF Stream
  <2> QED BY <2>1 DEF StartQuery, FieldTypes
<1>4. StartCount(of) /\ of # None => counts' \subseteq Count
  BY <1>1 DEF StartCount, Count, FieldTypes
<1>5. query_generation' \in Nat /\ active_query' \in Nat
  BY <1>1 DEF StartQuery
<1>6. state' \in SessionState
  BY DEF StartQuery, SessionState
<1> QED BY <1>2, <1>3, <1>4, <1>5, <1>6

LEMMA TypeQuery ==
  ASSUME FieldTypes, QueryNext
  PROVE  FieldTypes'
<1> USE DEF connVars, schemaVars, probeVars, queryVars
<1>1. CASE RunQuery
  <2>1. StartQuery(None) /\ connection # None
    BY <1>1 DEF RunQuery, CanRun
  <2>2. UNCHANGED <<connVars, schemaVars, attempts, liveness, counts,
                    connection_generation, loops, probes>> /\ row_count' = None
    BY <1>1 DEF RunQuery, StartQuery
  <2> QED BY <2>1, <2>2, StartQueryType DEF FieldTypes
<1>2. CASE RunNotConnected
  BY <1>2 DEF FieldTypes, RunNotConnected, SessionState
<1>3. ASSUME NEW of \in Previews, PreviewRelation(of) PROVE FieldTypes'
  <2>1. StartQuery(of) /\ connection # None /\ StartCount(of) /\ of # None
    BY <1>3, ConstantsAssumption DEF PreviewRelation, CanRun
  <2>2. UNCHANGED <<connVars, schemaVars, attempts, liveness,
                    connection_generation, loops, probes>> /\ row_count' = None
    BY <1>3 DEF PreviewRelation, StartQuery
  <2> QED BY <2>1, <2>2, StartQueryType DEF FieldTypes
<1>4. ASSUME NEW of \in Previews, PreviewWindow(of) PROVE FieldTypes'
  <2>1. StartQuery(of) /\ connection # None
    BY <1>4 DEF PreviewWindow, CanRun
  <2>2. UNCHANGED <<connVars, schemaVars, attempts, liveness, counts,
                    connection_generation, loops, probes, row_count>>
    BY <1>4 DEF PreviewWindow, StartQuery
  <2> QED BY <2>1, <2>2, StartQueryType DEF FieldTypes
<1>5. CASE CancelQuery
  <2>1. query_generation' \in Nat /\ active_query' \in Nat
    BY <1>5 DEF FieldTypes, CancelQuery
  <2> QED BY <1>5, <2>1 DEF FieldTypes, CancelQuery, SessionState
<1>6. ASSUME NEW s \in streams, NEW event \in {"Columns", "Batch", "Done", "Err"},
             StreamEvent(s, event)
      PROVE  FieldTypes'
  <2>1. s \in Stream /\ accumulator \in Accumulator
    BY DEF FieldTypes
  <2>2. accumulator' \in Accumulator /\ state' \in SessionState
    BY <1>6, <2>1, FoldedType DEF StreamEvent, Stream
  <2>3. [s EXCEPT !.columns = TRUE] \in Stream
    BY <2>1 DEF Stream
  <2>4. streams' \subseteq Stream
    BY <1>6, <2>3 DEF FieldTypes, StreamEvent
  <2>5. active_query' \in Nat
    BY <1>6 DEF FieldTypes, StreamEvent
  <2>6. UNCHANGED <<connVars, schemaVars, attempts, liveness, counts,
                    connection_generation, loops, probes, row_count,
                    query_generation>>
    BY <1>6 DEF StreamEvent
  <2> QED BY <2>2, <2>4, <2>5, <2>6 DEF FieldTypes
<1>7. ASSUME NEW s \in streams, StreamEnds(s) PROVE FieldTypes'
  BY <1>7 DEF FieldTypes, StreamEnds
<1>8. ASSUME NEW k \in counts, CountResolves(k) PROVE FieldTypes'
  <2>1. [of |-> k.of, conn |-> k.conn] \in RowCount
    BY DEF FieldTypes, Count, RowCount
  <2> QED BY <1>8, <2>1 DEF FieldTypes, CountResolves
<1> QED BY <1>1, <1>2, <1>3, <1>4, <1>5, <1>6, <1>7, <1>8 DEF QueryNext

LEMMA TypeProbe ==
  ASSUME FieldTypes, ProbeNext
  PROVE  FieldTypes'
<1> USE DEF connVars, schemaVars, probeVars, queryVars
<1>1. ASSUME NEW g \in loops, ProbeTick(g) PROVE FieldTypes'
  <2>1. [generation |-> g, conn |-> connection] \in Probe
    BY <1>1 DEF FieldTypes, ProbeTick, Probe
  <2> QED BY <1>1, <2>1 DEF FieldTypes, ProbeTick
<1>2. ASSUME NEW g \in loops, LoopStops(g) PROVE FieldTypes'
  BY <1>2 DEF FieldTypes, LoopStops
<1>3. ASSUME NEW p \in probes, ProbeResolves(p) PROVE FieldTypes'
  <2>1. \A kind \in {"Healthy", "Unreachable"} :
          [kind |-> kind, of |-> p.conn] \in Liveness
    BY DEF FieldTypes, Probe, Liveness
  <2>2. liveness' \in Liveness
    BY <1>3, <2>1 DEF FieldTypes, ProbeResolves
  <2> QED BY <1>3, <2>2 DEF FieldTypes, ProbeResolves
<1> QED BY <1>1, <1>2, <1>3 DEF ProbeNext

\* The probe flag stays a Boolean: every action sets it or leaves it alone.
LEMMA TypeFlag ==
  ASSUME probe_in_flight \in BOOLEAN, [Next]_vars
  PROVE  probe_in_flight' \in BOOLEAN
BY DEF Next, ConnectNext, SchemaNext, QueryNext, ProbeNext, vars, connVars,
       schemaVars, queryVars, probeVars, ConnectUrl, SwitchDatabase,
       BeginAttempt, SwitchNotConnected, AttemptResolves, AttemptSuperseded,
       ConnectSucceeds, ConnectFails, SwitchSucceeds, SwitchFails, Install,
       Introspect, IntrospectNotConnected, IntrospectionResolves, RunQuery,
       RunNotConnected, PreviewRelation, PreviewWindow, StartQuery,
       CancelQuery, StreamEvent, StreamEnds, CountResolves, ProbeTick,
       LoopStops, ProbeResolves

\* Every field of the session keeps its type in every behaviour.
THEOREM Typing == Spec => []TypeOK
<1>1. Init => TypeOK
  BY TypeInit DEF TypeOK, Init
<1>2. TypeOK /\ [Next]_vars => TypeOK'
  <2> SUFFICES ASSUME TypeOK, [Next]_vars PROVE TypeOK'
    OBVIOUS
  <2>1. probe_in_flight' \in BOOLEAN
    BY TypeFlag DEF TypeOK
  <2>2. FieldTypes'
    <3>1. CASE UNCHANGED vars
      BY <3>1 DEF TypeOK, FieldTypes, vars, connVars, schemaVars, queryVars,
                  probeVars
    <3> QED BY <3>1, TypeConnect, TypeSchema, TypeQuery, TypeProbe
            DEF TypeOK, Next
  <2> QED BY <2>1, <2>2 DEF TypeOK
<1> QED BY <1>1, <1>2, PTL DEF Spec

-----------------------------------------------------------------------------
(* Connections are owned by the session or closed.                          *)

Ownership == ConnectionsAccountedFor /\ UrlNamesConnection

\* Taking a connection into the session, or closing it at once, accounts for
\* the next id and for the connection it replaces.
LEMMA Accounted ==
  ASSUME NEW n \in Nat, NEW C, NEW D, C \cup D = 1 .. n, C \cap D = {}
  PROVE  /\ (C \cup D) \cup {n + 1} = 1 .. (n + 1)
         /\ (C \cup {n + 1}) \cup D = 1 .. (n + 1)
         /\ (C \cup D) \cap {n + 1} = {}
         /\ (C \cup {n + 1}) \cap D = {}
<1>1. (1 .. n) \cup {n + 1} = 1 .. (n + 1)
  OBVIOUS
<1>2. n + 1 \notin 1 .. n
  OBVIOUS
<1> QED BY <1>1, <1>2

LEMMA OwnershipStep ==
  ASSUME TypeOK, Ownership, [Next]_vars
  PROVE  Ownership'
<1> USE DEF connVars, schemaVars, queryVars, probeVars, TypeOK
<1>0. /\ opened \in Nat
      /\ discarded \cup Closing(connection) = 1 .. opened
      /\ discarded \cap Closing(connection) = {}
  BY DEF Ownership, ConnectionsAccountedFor, FieldTypes
<1>1. ASSUME UNCHANGED <<connection, current_url, opened, discarded>>
      PROVE  Ownership'
  BY <1>1 DEF Ownership, ConnectionsAccountedFor, UrlNamesConnection, Closing
<1>2. ASSUME NEW a \in attempts, AttemptResolves(a) PROVE Ownership'
  <2>0. /\ NewConnection(a).id = opened + 1
        /\ NewConnection(a).url = a.url
        /\ NewConnection(a) \in Connection
        /\ NewConnection(a) # None
        /\ Closing(NewConnection(a)) = {opened + 1}
    BY NewConnectionType, ClosingType, NoneAssumption
  <2>1. CASE AttemptSuperseded(a)
    <3>1. CASE UNCHANGED <<opened, discarded>>
      BY <1>1, <2>1, <3>1 DEF AttemptSuperseded
    <3>2. CASE opened' = opened + 1 /\ discarded' = discarded \cup {opened + 1}
      <4>1. Closing(connection') = Closing(connection)
        BY <2>1 DEF AttemptSuperseded
      <4>2. ConnectionsAccountedFor'
        BY <1>0, <3>2, <4>1, Accounted DEF ConnectionsAccountedFor, Closing
      <4> QED
        BY <2>1, <4>2 DEF Ownership, UrlNamesConnection, AttemptSuperseded
    <3> QED BY <2>0, <2>1, <3>1, <3>2 DEF AttemptSuperseded
  <2>2. CASE Install(a)
    <3>1. /\ connection' = NewConnection(a) /\ current_url' = a.url
          /\ opened' = opened + 1 /\ discarded' = discarded \cup Closing(connection)
      BY <2>2 DEF Install
    <3>2. Closing(connection)' = {opened + 1}
      BY <2>0, <3>1 DEF Closing
    <3>3. ConnectionsAccountedFor'
      BY <1>0, <3>1, <3>2, Accounted DEF ConnectionsAccountedFor
    <3> QED BY <2>0, <3>1, <3>3 DEF Ownership, UrlNamesConnection
  <2>3. CASE ConnectFails(a)
    <3>1. /\ connection' = None /\ current_url' = None
          /\ opened' = opened /\ discarded' = discarded \cup Closing(connection)
      BY <2>3 DEF ConnectFails
    <3>2. Closing(connection)' = {}
      BY <3>1 DEF Closing
    <3> QED BY <1>0, <3>1, <3>2
            DEF Ownership, ConnectionsAccountedFor, UrlNamesConnection
  <2>4. CASE SwitchFails(a)
    BY <1>1, <2>4 DEF SwitchFails
  <2> QED
    BY <1>2, <2>1, <2>2, <2>3, <2>4
    DEF AttemptResolves, ConnectSucceeds, SwitchSucceeds
<1>3. CASE SchemaNext
  BY <1>1, <1>3 DEF SchemaNext, Introspect, IntrospectNotConnected,
                    IntrospectionResolves
<1>4. CASE QueryNext
  BY <1>1, <1>4 DEF QueryNext, RunQuery, RunNotConnected, PreviewRelation,
                    PreviewWindow, StartQuery, CancelQuery, StreamEvent,
                    StreamEnds, CountResolves
<1>5. CASE ProbeNext
  BY <1>1, <1>5 DEF ProbeNext, ProbeTick, LoopStops, ProbeResolves
<1>6. CASE UNCHANGED vars
  BY <1>1, <1>6 DEF vars
<1> QED
  BY <1>1, <1>2, <1>3, <1>4, <1>5, <1>6
  DEF Next, ConnectNext, ConnectUrl, SwitchDatabase, SwitchNotConnected

\* No connection leaks and none in use is closed; a switch is derived from the
\* URL of the connection it replaces (apply_connect_outcome and
\* apply_switch_outcome).
THEOREM Owned == Spec => [](ConnectionsAccountedFor /\ UrlNamesConnection)
<1>1. Init => Ownership
  BY DEF Init, Ownership, ConnectionsAccountedFor, UrlNamesConnection, Closing
<1>2. TypeOK /\ Ownership /\ [Next]_vars => Ownership'
  BY OwnershipStep
<1>3. Ownership => ConnectionsAccountedFor /\ UrlNamesConnection
  BY DEF Ownership
<1> QED BY <1>1, <1>2, <1>3, Typing, PTL DEF Spec

-----------------------------------------------------------------------------
(* The connection is watched, by probes that ask about it and no other.     *)

Watched ==
  /\ GenerationsHandedOut
  /\ UndecidedIsUnwatched
  /\ ProbesOfConnection
  /\ LivenessOfConnection
  /\ ConnectionIsWatched
  /\ OneProbeAtATime
  /\ ConnectingHasAttempt

\* The numbers a generation is compared with.
LEMMA Generations ==
  ASSUME FieldTypes
  PROVE  /\ connection_generation \in Nat
         /\ \A job \in attempts \cup probes : job.generation \in Nat
         /\ \A g \in loops : g \in Nat
BY DEF FieldTypes, Attempt, Probe

\* A step that touches neither the connection nor what watches it, and shows
\* no Connecting that was not shown, preserves all of it.
LEMMA WatchedFrame ==
  ASSUME Watched,
         UNCHANGED <<connection, attempts, probeVars>>,
         state' = state \/ state' # "Connecting"
  PROVE  Watched'
BY DEF Watched, GenerationsHandedOut, UndecidedIsUnwatched, ProbesOfConnection,
       LivenessOfConnection, ConnectionIsWatched, OneProbeAtATime,
       ConnectingHasAttempt, CurrentProbes, IsCurrent, probeVars

\* A generation just handed out: nothing in flight belongs to it yet.
LEMMA FreshGeneration ==
  ASSUME FieldTypes, GenerationsHandedOut
  PROVE  /\ \A job \in attempts \cup probes :
              job.generation # connection_generation + 1
         /\ connection_generation + 1 \notin loops
BY Generations DEF GenerationsHandedOut

\* connect_url and switch_database: the new attempt has the new generation to
\* itself and nothing is watched until it is decided.
LEMMA WatchedBegin ==
  ASSUME FieldTypes, Watched, NEW a, BeginAttempt(a),
         a.generation = connection_generation + 1
  PROVE  Watched'
<1>1. \A job \in attempts \cup probes :
        job.generation # connection_generation + 1
  BY FreshGeneration DEF Watched
<1>2. connection_generation' = connection_generation + 1 /\ probes' = probes
      /\ loops' = loops /\ attempts' = attempts \cup {a}
  BY DEF BeginAttempt
<1>3. CurrentProbes' = {}
  BY <1>1, <1>2 DEF CurrentProbes, IsCurrent
<1>4. \E b \in attempts' : IsCurrent(b)'
  BY <1>2 DEF IsCurrent
<1>5. GenerationsHandedOut'
  BY <1>1, <1>2, Generations DEF GenerationsHandedOut, Watched
<1>6. connection_generation' \notin loops'
  BY <1>2, FreshGeneration DEF Watched
<1>7. liveness'.kind = "Unknown" /\ probe_in_flight' = FALSE
  BY DEF BeginAttempt, Unknown
<1> QED
  BY <1>3, <1>4, <1>5, <1>6, <1>7
  DEF Watched, UndecidedIsUnwatched, ProbesOfConnection, LivenessOfConnection,
      ConnectionIsWatched, OneProbeAtATime, ConnectingHasAttempt

\* The attempt that is decided was the only one of its generation.
LEMMA Decided ==
  ASSUME Watched, NEW a \in attempts, IsCurrent(a)
  PROVE  /\ \A b \in attempts \ {a} : ~IsCurrent(b)
         /\ connection_generation \notin loops
         /\ CurrentProbes = {} /\ liveness.kind = "Unknown"
         /\ ~probe_in_flight
BY DEF Watched, GenerationsHandedOut, UndecidedIsUnwatched, OneProbeAtATime,
       IsCurrent

\* An attempt that ends, however it ends.
LEMMA WatchedResolve ==
  ASSUME FieldTypes, Watched, NEW a \in attempts, AttemptResolves(a)
  PROVE  Watched'
<1> USE DEF probeVars
<1>1. CASE AttemptSuperseded(a)
  <2>1. /\ ~IsCurrent(a) /\ attempts' = attempts \ {a}
        /\ UNCHANGED <<connection, state, probeVars>>
    BY <1>1 DEF AttemptSuperseded
  <2>2. \A b : IsCurrent(b)' <=> IsCurrent(b)
    BY <2>1 DEF IsCurrent
  <2>3. CurrentProbes' = CurrentProbes
    BY <2>1, <2>2 DEF CurrentProbes
  <2>4. (\E b \in attempts : IsCurrent(b))' <=> \E b \in attempts : IsCurrent(b)
    BY <2>1, <2>2
  <2>5. GenerationsHandedOut'
    BY <2>1 DEF Watched, GenerationsHandedOut
  <2> QED
    BY <2>1, <2>3, <2>4, <2>5
    DEF Watched, UndecidedIsUnwatched, ProbesOfConnection, LivenessOfConnection,
        ConnectionIsWatched, OneProbeAtATime, ConnectingHasAttempt
<1>2. CASE Install(a)
  <2>1. /\ IsCurrent(a) /\ attempts' = attempts \ {a} /\ state' = "Connected"
        /\ loops' = loops \cup {connection_generation}
        /\ UNCHANGED <<liveness, connection_generation, probe_in_flight, probes>>
    BY <1>2 DEF Install, Watch, IsCurrent
  <2>2. \A b \in attempts' : ~IsCurrent(b)'
    BY <2>1, Decided DEF IsCurrent
  <2>3. CurrentProbes' = {} /\ liveness'.kind = "Unknown" /\ ~probe_in_flight'
    BY <2>1, Decided DEF CurrentProbes, IsCurrent
  <2>4. GenerationsHandedOut'
    BY <2>1, Generations DEF Watched, GenerationsHandedOut
  <2> QED
    BY <2>1, <2>2, <2>3, <2>4
    DEF Watched, UndecidedIsUnwatched, ProbesOfConnection, LivenessOfConnection,
        ConnectionIsWatched, OneProbeAtATime, ConnectingHasAttempt
<1>3. CASE ConnectFails(a)
  <2>1. /\ IsCurrent(a) /\ attempts' = attempts \ {a} /\ state' = "Error"
        /\ connection' = None /\ UNCHANGED probeVars
    BY <1>3 DEF ConnectFails
  <2>2. \A b \in attempts' : ~IsCurrent(b)'
    BY <2>1, Decided DEF IsCurrent
  <2>3. CurrentProbes' = {} /\ liveness'.kind = "Unknown" /\ ~probe_in_flight'
    BY <2>1, Decided DEF CurrentProbes, IsCurrent
  <2>4. GenerationsHandedOut'
    BY <2>1 DEF Watched, GenerationsHandedOut
  <2> QED
    BY <2>1, <2>2, <2>3, <2>4
    DEF Watched, UndecidedIsUnwatched, ProbesOfConnection, LivenessOfConnection,
        ConnectionIsWatched, OneProbeAtATime, ConnectingHasAttempt
<1>4. CASE SwitchFails(a)
  <2>1. /\ IsCurrent(a) /\ attempts' = attempts \ {a} /\ state' = "Error"
        /\ connection_generation' = connection_generation + 1
        /\ probe_in_flight' = FALSE
        /\ loops' = loops \cup {connection_generation'}
        /\ UNCHANGED <<liveness, probes>>
    BY <1>4 DEF SwitchFails, Watch
  <2>2. \A b \in attempts' : ~IsCurrent(b)'
    BY <2>1, FreshGeneration DEF Watched, IsCurrent
  <2>3. CurrentProbes' = {}
    BY <2>1, FreshGeneration DEF Watched, CurrentProbes, IsCurrent
  <2>4. liveness'.kind = "Unknown"
    BY <2>1, Decided
  <2>5. GenerationsHandedOut'
    BY <2>1, Generations DEF Watched, GenerationsHandedOut
  <2> QED
    BY <2>1, <2>2, <2>3, <2>4, <2>5
    DEF Watched, UndecidedIsUnwatched, ProbesOfConnection, LivenessOfConnection,
        ConnectionIsWatched, OneProbeAtATime, ConnectingHasAttempt
<1> QED
  BY <1>1, <1>2, <1>3, <1>4
  DEF AttemptResolves, ConnectSucceeds, SwitchSucceeds


\* The probe loop and its probes.
LEMMA WatchedProbe ==
  ASSUME FieldTypes, Watched, ProbeNext
  PROVE  Watched'
<1>1. ASSUME NEW g \in loops, ProbeTick(g) PROVE Watched'
  <2> DEFINE new == [generation |-> g, conn |-> connection]
  <2>1. /\ connection_generation \in loops /\ g = connection_generation
        /\ connection # None /\ ~probe_in_flight
        /\ probe_in_flight' = TRUE /\ probes' = probes \cup {new}
        /\ UNCHANGED <<connection, state, attempts, liveness,
                       connection_generation, loops>>
    BY <1>1 DEF ProbeTick, connVars
  <2>2. ~\E a \in attempts : IsCurrent(a)
    BY <2>1 DEF Watched, UndecidedIsUnwatched
  <2>3. CurrentProbes' = {new}
    BY <2>1 DEF Watched, OneProbeAtATime, CurrentProbes, IsCurrent
  <2>4. GenerationsHandedOut'
    BY <2>1, Generations DEF Watched, GenerationsHandedOut
  <2>5. ~(\E a \in attempts : IsCurrent(a))'
    BY <2>1, <2>2 DEF IsCurrent
  <2> QED
    BY <2>1, <2>2, <2>3, <2>4, <2>5
    DEF Watched, UndecidedIsUnwatched, ProbesOfConnection, LivenessOfConnection,
        ConnectionIsWatched, OneProbeAtATime, ConnectingHasAttempt
<1>2. ASSUME NEW g \in loops, LoopStops(g) PROVE Watched'
  <2>1. /\ g # connection_generation \/ connection = None
        /\ loops' = loops \ {g}
        /\ UNCHANGED <<connection, state, attempts, liveness, probes,
                       connection_generation, probe_in_flight>>
    BY <1>2 DEF LoopStops, connVars
  <2> QED
    BY <2>1
    DEF Watched, GenerationsHandedOut, UndecidedIsUnwatched, ProbesOfConnection,
        LivenessOfConnection, ConnectionIsWatched, OneProbeAtATime,
        ConnectingHasAttempt, CurrentProbes, IsCurrent
<1>3. ASSUME NEW p \in probes, ProbeResolves(p) PROVE Watched'
  <2>1. /\ probes' = probes \ {p}
        /\ UNCHANGED <<connection, state, attempts, connection_generation, loops>>
    BY <1>3 DEF ProbeResolves, connVars
  <2>2. GenerationsHandedOut'
    BY <2>1 DEF Watched, GenerationsHandedOut
  <2>3. CurrentProbes' = CurrentProbes \ {p}
    BY <2>1 DEF CurrentProbes, IsCurrent
  <2>4. CASE IsCurrent(p)
    <3>1. p \in CurrentProbes /\ p.conn = connection /\ connection # None
      BY <2>4 DEF CurrentProbes, Watched, ProbesOfConnection
    <3>2. CurrentProbes' = {} /\ probe_in_flight' = FALSE
      BY <1>3, <2>3, <2>4, <3>1 DEF Watched, OneProbeAtATime, ProbeResolves
    <3>3. liveness'.of = connection
      BY <1>3, <2>4, <3>1 DEF ProbeResolves
    <3>4. ~\E a \in attempts : IsCurrent(a)
      BY <3>1 DEF Watched, UndecidedIsUnwatched
    <3>5. ~(\E a \in attempts : IsCurrent(a))'
      BY <2>1, <3>4 DEF IsCurrent
    <3> QED
      BY <2>1, <2>2, <3>1, <3>2, <3>3, <3>4, <3>5
      DEF Watched, UndecidedIsUnwatched, ProbesOfConnection,
          LivenessOfConnection, ConnectionIsWatched, OneProbeAtATime,
          ConnectingHasAttempt
  <2>5. CASE ~IsCurrent(p)
    <3>1. CurrentProbes' = CurrentProbes /\ UNCHANGED <<probe_in_flight, liveness>>
      BY <1>3, <2>3, <2>5 DEF CurrentProbes, ProbeResolves
    <3> QED
      BY <2>1, <2>2, <3>1
      DEF Watched, UndecidedIsUnwatched, ProbesOfConnection,
          LivenessOfConnection, ConnectionIsWatched, OneProbeAtATime,
          ConnectingHasAttempt, IsCurrent
  <2> QED BY <2>4, <2>5
<1> QED BY <1>1, <1>2, <1>3 DEF ProbeNext

LEMMA WatchedStep ==
  ASSUME TypeOK, Watched, [Next]_vars
  PROVE  Watched'
<1> USE DEF connVars, schemaVars, queryVars
<1>0. FieldTypes
  BY DEF TypeOK
<1>1. ASSUME NEW u \in Url, ConnectUrl(u) PROVE Watched'
  BY <1>0, <1>1, WatchedBegin DEF ConnectUrl
<1>2. ASSUME NEW db \in Databases, SwitchDatabase(db) PROVE Watched'
  BY <1>0, <1>2, WatchedBegin DEF SwitchDatabase
<1>3. CASE SwitchNotConnected
  BY <1>3, WatchedFrame DEF SwitchNotConnected
<1>4. ASSUME NEW a \in attempts, AttemptResolves(a) PROVE Watched'
  BY <1>0, <1>4, WatchedResolve
<1>5. CASE SchemaNext
  BY <1>5, WatchedFrame DEF SchemaNext, Introspect, IntrospectNotConnected,
                            IntrospectionResolves
<1>6. CASE QueryNext
  <2>1. ASSUME NEW s \in streams, NEW event \in {"Columns", "Batch", "Done", "Err"},
               StreamEvent(s, event)
        PROVE  Watched'
    <3>1. accumulator \in Accumulator
      BY <1>0 DEF FieldTypes
    <3>2. PICK q \in Nat : state' = Folded(accumulator, q, event).status
      BY <1>0, <2>1 DEF FieldTypes, Stream, StreamEvent
    <3>3. state' # "Connecting"
      <4>1. Folded(accumulator, q, event).status # "Connecting"
        BY <3>1, FoldedType, SMTT(30)
      <4> QED BY <3>2, <4>1
    <3>4. UNCHANGED <<connection, attempts, probeVars>>
      BY <2>1 DEF StreamEvent
    <3> QED BY <3>3, <3>4, WatchedFrame
  <2> QED
    BY <1>6, <2>1, WatchedFrame
    DEF QueryNext, RunQuery, RunNotConnected, PreviewRelation, PreviewWindow,
        StartQuery, CancelQuery, StreamEnds, CountResolves
<1>7. CASE ProbeNext
  BY <1>0, <1>7, WatchedProbe
<1>8. CASE UNCHANGED vars
  BY <1>8, WatchedFrame DEF vars
<1> QED
  BY <1>1, <1>2, <1>3, <1>4, <1>5, <1>6, <1>7, <1>8 DEF Next, ConnectNext

LEMMA WatchedInit == Init => Watched
BY DEF Init, Watched, GenerationsHandedOut, UndecidedIsUnwatched,
       ProbesOfConnection, LivenessOfConnection, ConnectionIsWatched,
       OneProbeAtATime, ConnectingHasAttempt, CurrentProbes, Unknown

\* The liveness shown is a verdict about the connection the session holds,
\* that connection is always watched, by at most one probe at a time, and
\* Connecting is shown only while an attempt is there to end it
\* (probe.rs, apply_connect_outcome and apply_switch_outcome).
THEOREM WatchedAlways ==
  Spec => [](/\ LivenessOfConnection /\ ConnectionIsWatched
             /\ OneProbeAtATime /\ ConnectingHasAttempt)
<1>1. TypeOK /\ Watched /\ [Next]_vars => Watched'
  BY WatchedStep
<1>2. Watched => /\ LivenessOfConnection /\ ConnectionIsWatched
                 /\ OneProbeAtATime /\ ConnectingHasAttempt
  BY DEF Watched
<1> QED BY <1>1, <1>2, WatchedInit, Typing, PTL DEF Spec

-----------------------------------------------------------------------------
(* The results belong to one query.                                         *)

Attributed ==
  /\ QueriesHandedOut
  /\ NewestFeedsAccumulator
  /\ ResultsOfOneQuery
  /\ HandleOfLiveQuery
  /\ RowCountOfPreview

\* The numbers a query generation is compared with.
LEMMA QueryNumbers ==
  ASSUME FieldTypes
  PROVE  /\ query_generation \in Nat /\ accumulator.query \in Nat
         /\ query_generation + 1 # 0
         /\ \A job \in streams \cup counts : job.query \in Nat
BY DEF FieldTypes, Stream, Count, Accumulator

\* A step that touches none of the query's state preserves all of it.
LEMMA AttributedFrame ==
  ASSUME Attributed, UNCHANGED <<accumulator, query_generation, row_count>>,
         active_query' \in {0, active_query},
         streams' = streams, counts' \subseteq counts
  PROVE  Attributed'
BY DEF Attributed, QueriesHandedOut, NewestFeedsAccumulator, ResultsOfOneQuery,
       HandleOfLiveQuery, RowCountOfPreview, IsNewest

\* A query just started: nothing else in flight has its generation.
LEMMA AttributedStart ==
  ASSUME FieldTypes, Attributed, NEW of \in Previews \cup {None}, StartQuery(of),
         \/ row_count' = None
         \/ row_count' = row_count /\ SameRelation(of),
         \/ counts' = counts
         \/ of # None /\ StartCount(of)
  PROVE  Attributed'
<1> DEFINE q == query_generation + 1
<1>1. /\ accumulator' = NewAccumulator(q, of, connection)
      /\ query_generation' = q /\ active_query' = q
      /\ streams' = streams \cup
           {[query |-> q, conn |-> connection, columns |-> FALSE]}
  BY DEF StartQuery
<1>2. /\ accumulator'.query = q /\ accumulator'.of = of
      /\ accumulator'.conn = connection /\ accumulator'.from = {}
  BY <1>1 DEF NewAccumulator
<1>3. counts' \subseteq counts \cup
        {[query |-> q, of |-> of, conn |-> connection]}
  BY DEF StartCount
<1>4. \A job \in streams \cup counts : job.query # q /\ job.query <= q
  BY QueryNumbers DEF Attributed, QueriesHandedOut
<1>5. q \in Nat /\ q # 0 /\ q <= q
  BY QueryNumbers
<1> HIDE DEF q
<1>6. QueriesHandedOut'
  BY <1>1, <1>2, <1>3, <1>4, <1>5 DEF QueriesHandedOut
<1>7. NewestFeedsAccumulator'
  BY <1>1, <1>2, <1>3, <1>4 DEF NewestFeedsAccumulator, IsNewest
<1>8. HandleOfLiveQuery'
  <2>1. [query |-> q, conn |-> connection, columns |-> FALSE] \in streams'
    BY <1>1
  <2> QED BY <1>1, <2>1 DEF HandleOfLiveQuery
<1>9. RowCountOfPreview'
  BY <1>2 DEF Attributed, RowCountOfPreview, SameRelation
<1> QED BY <1>2, <1>6, <1>7, <1>8, <1>9 DEF Attributed, ResultsOfOneQuery

\* Folding an event keeps the query the result set is of.
LEMMA FoldedQuery ==
  ASSUME NEW acc \in Accumulator, NEW q \in Nat,
         NEW event \in {"Columns", "Batch", "Done", "Err"}
  PROVE  Folded(acc, q, event).query = acc.query
BY FoldedType, SMTT(30)

LEMMA AttributedQuery ==
  ASSUME FieldTypes, Attributed, QueryNext
  PROVE  Attributed'
<1> USE DEF connVars, schemaVars, probeVars
<1>1. CASE RunQuery
  <2>1. StartQuery(None) /\ row_count' = None /\ counts' = counts
    BY <1>1 DEF RunQuery
  <2> QED BY <2>1, AttributedStart
<1>2. CASE RunNotConnected
  BY <1>2, AttributedFrame DEF RunNotConnected, queryVars
<1>3. ASSUME NEW of \in Previews, PreviewRelation(of) PROVE Attributed'
  BY <1>3, AttributedStart, ConstantsAssumption DEF PreviewRelation
<1>4. ASSUME NEW of \in Previews, SameRelation(of), PreviewWindow(of)
      PROVE  Attributed'
  <2>1. /\ StartQuery(of) /\ SameRelation(of)
        /\ row_count' = row_count /\ counts' = counts
    BY <1>4 DEF PreviewWindow
  <2> QED BY <2>1, AttributedStart
<1>5. CASE CancelQuery
  <2>1. /\ query_generation' = query_generation + 1 /\ active_query' = 0
        /\ UNCHANGED <<accumulator, row_count, streams, counts>>
    BY <1>5 DEF CancelQuery
  <2>2. \A job \in streams \cup counts : job.query # query_generation'
    BY <2>1, QueryNumbers DEF Attributed, QueriesHandedOut
  <2>3. QueriesHandedOut'
    BY <2>1, QueryNumbers DEF Attributed, QueriesHandedOut
  <2> QED
    BY <2>1, <2>2, <2>3
    DEF Attributed, NewestFeedsAccumulator, ResultsOfOneQuery,
        HandleOfLiveQuery, RowCountOfPreview, IsNewest
<1>6. ASSUME NEW s \in streams, NEW event \in {"Columns", "Batch", "Done", "Err"},
             StreamEvent(s, event)
      PROVE  Attributed'
  <2> DEFINE ended == state' \in Terminal
             rest == [s EXCEPT !.columns = TRUE]
  <2>1. s.query = query_generation /\ s.query = accumulator.query
        /\ s.query \in Nat /\ accumulator \in Accumulator
    BY <1>6, QueryNumbers
    DEF StreamEvent, IsNewest, Attributed, NewestFeedsAccumulator, FieldTypes
  <2>2. /\ accumulator' = Folded(accumulator, s.query, event)
        /\ active_query' = IF ended THEN 0 ELSE active_query
        /\ streams' = (streams \ {s}) \cup IF ended THEN {} ELSE {rest}
        /\ UNCHANGED <<row_count, query_generation, counts>>
    BY <1>6 DEF StreamEvent
  <2>3. /\ accumulator'.query = accumulator.query
        /\ accumulator'.of = accumulator.of
        /\ accumulator'.conn = accumulator.conn
        /\ accumulator'.from \subseteq accumulator.from \cup {s.query}
    <3>1. PICK q \in Nat :
            q = s.query /\ accumulator' = Folded(accumulator, q, event)
      BY <2>1, <2>2
    <3>2. accumulator \in Accumulator
      BY <2>1
    <3>3. Folded(accumulator, q, event).query = accumulator.query
      BY <3>2, FoldedQuery
    <3>4. Folded(accumulator, q, event).of = accumulator.of
      BY <3>2, FoldedType, SMTT(30)
    <3>5. Folded(accumulator, q, event).conn = accumulator.conn
      BY <3>2, FoldedType, SMTT(30)
    <3>6. Folded(accumulator, q, event).from \subseteq accumulator.from \cup {q}
      BY <3>2, FoldedType, SMTT(30)
    <3> QED BY <3>1, <3>3, <3>4, <3>5, <3>6
  <2>4. rest.query = s.query
    BY DEF FieldTypes, Stream
  <2> HIDE DEF ended, rest
  <2>5. \A t \in streams' : \E u \in streams : u.query = t.query
    BY <2>2, <2>4
  <2>6. QueriesHandedOut'
    BY <2>2, <2>3, <2>5 DEF Attributed, QueriesHandedOut
  <2>7. NewestFeedsAccumulator'
    BY <2>2, <2>3, <2>5 DEF Attributed, NewestFeedsAccumulator, IsNewest
  <2>8. ResultsOfOneQuery'
    BY <2>1, <2>3 DEF Attributed, ResultsOfOneQuery
  <2>9. HandleOfLiveQuery'
    BY <2>1, <2>2, <2>4 DEF Attributed, HandleOfLiveQuery
  <2>10. RowCountOfPreview'
    BY <2>2, <2>3 DEF Attributed, RowCountOfPreview
  <2> QED BY <2>6, <2>7, <2>8, <2>9, <2>10 DEF Attributed
<1>7. ASSUME NEW s \in streams, StreamEnds(s) PROVE Attributed'
  <2>1. /\ ~IsNewest(s) \/ active_query # s.query
        /\ streams' = streams \ {s}
        /\ UNCHANGED <<active_query, accumulator, row_count, query_generation,
                       counts>>
    BY <1>7 DEF StreamEnds
  <2> QED
    BY <2>1
    DEF Attributed, QueriesHandedOut, NewestFeedsAccumulator, ResultsOfOneQuery,
        HandleOfLiveQuery, RowCountOfPreview, IsNewest
<1>8. ASSUME NEW k \in counts, CountResolves(k) PROVE Attributed'
  <2>1. /\ counts' = counts \ {k}
        /\ UNCHANGED <<active_query, accumulator, query_generation, streams>>
        /\ \/ row_count' = row_count
           \/ IsNewest(k) /\ row_count' = [of |-> k.of, conn |-> k.conn]
    BY <1>8 DEF CountResolves
  <2> QED
    BY <2>1
    DEF Attributed, QueriesHandedOut, NewestFeedsAccumulator, ResultsOfOneQuery,
        HandleOfLiveQuery, RowCountOfPreview, IsNewest
<1> QED BY <1>1, <1>2, <1>3, <1>4, <1>5, <1>6, <1>7, <1>8 DEF QueryNext

LEMMA AttributedStep ==
  ASSUME TypeOK, Attributed, [Next]_vars
  PROVE  Attributed'
<1> USE DEF TypeOK, queryVars
<1>1. CASE ConnectNext
  <2>1. UNCHANGED <<accumulator, query_generation, row_count, streams, counts>>
        /\ active_query' \in {0, active_query}
    BY <1>1 DEF ConnectNext, ConnectUrl, SwitchDatabase, SwitchNotConnected,
                AttemptResolves, AttemptSuperseded, ConnectSucceeds,
                ConnectFails, SwitchSucceeds, SwitchFails, Install
  <2> QED BY <2>1, AttributedFrame
<1>2. CASE SchemaNext
  BY <1>2, AttributedFrame DEF SchemaNext, Introspect, IntrospectNotConnected,
                               IntrospectionResolves
<1>3. CASE QueryNext
  BY <1>3, AttributedQuery
<1>4. CASE ProbeNext
  BY <1>4, AttributedFrame DEF ProbeNext, ProbeTick, LoopStops, ProbeResolves
<1>5. CASE UNCHANGED vars
  BY <1>5, AttributedFrame DEF vars
<1> QED BY <1>1, <1>2, <1>3, <1>4, <1>5 DEF Next

\* The rows shown come from one query, the handle Cancel uses is that of a
\* query still streaming, and the total beside a preview was counted for it
\* (run_query, cancel_query and spawn_count_fetch).
THEOREM AttributedAlways ==
  Spec => [](ResultsOfOneQuery /\ HandleOfLiveQuery /\ RowCountOfPreview)
<1>1. Init => Attributed
  BY DEF Init, Attributed, QueriesHandedOut, NewestFeedsAccumulator,
         ResultsOfOneQuery, HandleOfLiveQuery, RowCountOfPreview, NewAccumulator
<1>2. TypeOK /\ Attributed /\ [Next]_vars => Attributed'
  BY AttributedStep
<1>3. Attributed => ResultsOfOneQuery /\ HandleOfLiveQuery /\ RowCountOfPreview
  BY DEF Attributed
<1> QED BY <1>1, <1>2, <1>3, Typing, PTL DEF Spec


=============================================================================
