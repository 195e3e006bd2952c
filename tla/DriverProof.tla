----------------------------- MODULE DriverProof -----------------------------
(* The streams of a driver keep their protocol for any queries, pools and    *)
(* batch sizes.                                                              *)
EXTENDS Transactions, TLAPS, SequenceTheorems

Phases == {"new", "waiting", "running", "describing", "preparing", "over"}

Events == [kind : {"columns", "batch", "done", "err"}, set : Nat]

Terminal(e) == e.kind \in {"done", "err"}

\* A batch follows the columns of its own set, a terminal event is the last
\* one, and done comes after columns.
Orderly(s) ==
  \A i \in DOMAIN s :
    /\ s[i].kind = "batch" =>
         \E h \in 1..i - 1 :
           /\ s[h].kind = "columns" /\ s[h].set = s[i].set
           /\ \A j \in 1..i - 1 : s[j].kind = "columns" => j <= h
    /\ Terminal(s[i]) => i = Len(s)
    /\ s[i].kind = "done" => \E h \in 1..i - 1 : s[h].kind = "columns"

\* No terminal event so far.
Silent(s) == \A i \in DOMAIN s : ~ Terminal(s[i])

\* The last columns announced are those of set n.
Announced(s, n) ==
  \E h \in DOMAIN s :
    /\ s[h].kind = "columns" /\ s[h].set = n
    /\ \A j \in DOMAIN s : s[j].kind = "columns" => j <= h

\* One query: its stream is orderly, and its latch tells that the statement
\* under way was announced, before any of its rows is kept for a batch.
Streaming(q) ==
  /\ Orderly(stream[q])
  /\ phase[q] # "over" => Silent(stream[q])
  /\ phase[q] = "running" /\ q \in latched => Announced(stream[q], stmt[q])
  /\ phase[q] = "running" /\ rows[q] > 0 => q \in latched
  /\ phase[q] \in {"new", "waiting"} => rows[q] = 0 /\ q \notin latched
  /\ phase[q] = "over" /\ q \notin cancelled => ~ Silent(stream[q])

StreamTypes ==
  /\ phase \in [Queries -> Phases]
  /\ stream \in [Queries -> Seq(Events)]
  /\ stmt \in [Queries -> Nat] /\ rows \in [Queries -> Nat]

\* The inductive invariant.
StreamInv == StreamTypes /\ \A q \in Queries : Streaming(q)

-----------------------------------------------------------------------------
(* Streams.                                                                  *)

\* The empty stream.
LEMMA EmptyStream == <<>> \in Seq(Events) /\ Orderly(<<>>) /\ Silent(<<>>)
<1>1. <<>> \in Seq(Events) /\ DOMAIN <<>> = {}
  OBVIOUS
<1> QED BY <1>1 DEF Orderly, Silent

\* One more event.
LEMMA AppendEffect ==
  ASSUME NEW s \in Seq(Events), NEW e \in Events
  PROVE  LET r == Append(s, e)
         IN  /\ r \in Seq(Events) /\ Len(r) = Len(s) + 1 /\ Len(s) \in Nat
             /\ DOMAIN s = 1..Len(s) /\ DOMAIN r = 1..Len(s) + 1
             /\ \A i \in 1..Len(s) : r[i] = s[i]
             /\ r[Len(s) + 1] = e
             /\ s \o <<e>> = r
OBVIOUS

\* Events sent in two calls or in one.
LEMMA Regrouped ==
  ASSUME NEW s \in Seq(Events), NEW t \in Seq(Events), NEW u \in Seq(Events)
  PROVE  s \o (t \o u) = (s \o t) \o u
OBVIOUS

\* Columns may be announced in any stream that has not ended.
LEMMA AppendColumns ==
  ASSUME NEW s \in Seq(Events), Orderly(s), Silent(s), NEW n \in Nat
  PROVE  LET r == Append(s, Event("columns", n))
         IN  r \in Seq(Events) /\ Orderly(r) /\ Silent(r) /\ Announced(r, n)
<1> DEFINE e == Event("columns", n)
           r == Append(s, e)
           l == Len(s)
<1>1. e \in Events /\ e.kind = "columns" /\ e.set = n
  BY DEF Event, Events
<1> HIDE DEF e
<1>2. /\ r \in Seq(Events) /\ Len(r) = l + 1 /\ l \in Nat /\ DOMAIN s = 1..l
      /\ DOMAIN r = 1..l + 1 /\ (\A i \in 1..l : r[i] = s[i]) /\ r[l + 1] = e
  BY <1>1, AppendEffect
<1> HIDE DEF r, l
<1>3. Silent(r)
  BY <1>1, <1>2 DEF Silent, Terminal
<1>4. Announced(r, n)
  BY <1>1, <1>2 DEF Announced
<1>5. Orderly(r)
  <2> SUFFICES ASSUME NEW i \in 1..l + 1, r[i].kind = "batch"
               PROVE  \E h \in 1..i - 1 :
                        /\ r[h].kind = "columns" /\ r[h].set = r[i].set
                        /\ \A j \in 1..i - 1 : r[j].kind = "columns" => j <= h
    BY <1>1, <1>2, <1>3 DEF Orderly, Silent, Terminal
  <2>1. i \in 1..l
    BY <1>1, <1>2
  <2> QED BY <1>2, <2>1 DEF Orderly
<1> QED BY <1>2, <1>3, <1>4, <1>5 DEF r, e

\* A batch of the set announced last.
LEMMA AppendBatch ==
  ASSUME NEW s \in Seq(Events), Orderly(s), Silent(s), NEW n \in Nat, Announced(s, n)
  PROVE  LET r == Append(s, Event("batch", n))
         IN  r \in Seq(Events) /\ Orderly(r) /\ Silent(r) /\ Announced(r, n)
<1> DEFINE e == Event("batch", n)
           r == Append(s, e)
           l == Len(s)
<1>1. e \in Events /\ e.kind = "batch" /\ e.set = n
  BY DEF Event, Events
<1> HIDE DEF e
<1>2. /\ r \in Seq(Events) /\ Len(r) = l + 1 /\ l \in Nat /\ DOMAIN s = 1..l
      /\ DOMAIN r = 1..l + 1 /\ (\A i \in 1..l : r[i] = s[i]) /\ r[l + 1] = e
  BY <1>1, AppendEffect
<1> HIDE DEF r, l
<1>3. Silent(r)
  BY <1>1, <1>2 DEF Silent, Terminal
<1>4. Announced(r, n)
  BY <1>1, <1>2 DEF Announced
<1>5. Orderly(r)
  <2> SUFFICES ASSUME NEW i \in 1..l + 1, r[i].kind = "batch"
               PROVE  \E h \in 1..i - 1 :
                        /\ r[h].kind = "columns" /\ r[h].set = r[i].set
                        /\ \A j \in 1..i - 1 : r[j].kind = "columns" => j <= h
    BY <1>1, <1>2, <1>3 DEF Orderly, Silent, Terminal
  <2>1. CASE i \in 1..l
    BY <1>2, <2>1 DEF Orderly
  <2>2. CASE i = l + 1
    BY <1>1, <1>2, <2>2 DEF Announced
  <2> QED BY <1>2, <2>1, <2>2
<1> QED BY <1>2, <1>3, <1>4, <1>5 DEF r, e

\* The end of a stream: an error, or done once columns are announced.
LEMMA AppendEnd ==
  ASSUME NEW s \in Seq(Events), Orderly(s), Silent(s), NEW k \in {"done", "err"},
         k = "done" => \E h \in DOMAIN s : s[h].kind = "columns"
  PROVE  LET r == Append(s, Event(k, 0))
         IN  r \in Seq(Events) /\ Orderly(r) /\ ~ Silent(r)
<1> DEFINE e == Event(k, 0)
           r == Append(s, e)
           l == Len(s)
<1>1. e \in Events /\ e.kind = k
  BY DEF Event, Events
<1> HIDE DEF e
<1>2. /\ r \in Seq(Events) /\ Len(r) = l + 1 /\ l \in Nat /\ DOMAIN s = 1..l
      /\ DOMAIN r = 1..l + 1 /\ (\A i \in 1..l : r[i] = s[i]) /\ r[l + 1] = e
  BY <1>1, AppendEffect
<1> HIDE DEF r, l
<1>3. ~ Silent(r)
  BY <1>1, <1>2 DEF Silent, Terminal
<1>4. Orderly(r)
  <2> SUFFICES ASSUME NEW i \in 1..l + 1
               PROVE  /\ r[i].kind = "batch" =>
                           \E h \in 1..i - 1 :
                             /\ r[h].kind = "columns" /\ r[h].set = r[i].set
                             /\ \A j \in 1..i - 1 : r[j].kind = "columns" => j <= h
                      /\ Terminal(r[i]) => i = l + 1
                      /\ r[i].kind = "done" => \E h \in 1..i - 1 : r[h].kind = "columns"
    BY <1>2 DEF Orderly
  <2>1. CASE i \in 1..l
    <3>1. ~ Terminal(r[i]) /\ r[i].kind # "done"
      BY <1>2, <2>1 DEF Silent, Terminal
    <3> QED BY <1>2, <2>1, <3>1 DEF Orderly
  <2>2. CASE i = l + 1
    <3>1. r[i] = e /\ DOMAIN s = 1..i - 1 /\ \A h \in 1..i - 1 : r[h] = s[h]
      BY <1>2, <2>2
    <3> QED BY <1>1, <2>2, <3>1
  <2> QED BY <1>2, <2>1, <2>2
<1> QED BY <1>2, <1>3, <1>4 DEF r, e

-----------------------------------------------------------------------------
(* Steps.                                                                    *)

\* A step of one query's task.
LEMMA OneTask ==
  ASSUME StreamInv, NEW q \in Queries,
         NEW p \in Phases, phase' = [phase EXCEPT ![q] = p],
         NEW s \in Seq(Events), stream' = [stream EXCEPT ![q] = s],
         NEW n \in Nat, stmt' = [stmt EXCEPT ![q] = n],
         NEW r \in Nat, rows' = [rows EXCEPT ![q] = r],
         \A x \in Queries \ {q} : x \in latched' <=> x \in latched,
         UNCHANGED cancelled,
         Orderly(s), p # "over" => Silent(s),
         p = "running" => (q \in latched' => Announced(s, n)) /\ (r > 0 => q \in latched'),
         p = "waiting" => r = 0 /\ q \notin latched',
         p # "new",
         p = "over" /\ q \notin cancelled => ~ Silent(s)
  PROVE  StreamInv'
<1>1. StreamTypes
  BY DEF StreamInv
<1>2. StreamTypes'
  BY <1>1 DEF StreamTypes
<1>3. ASSUME NEW x \in Queries PROVE Streaming(x)'
  <2>1. CASE x = q
    <3>1. phase'[x] = p /\ stream'[x] = s /\ stmt'[x] = n /\ rows'[x] = r
      BY <1>1, <2>1 DEF StreamTypes
    <3> QED BY <2>1, <3>1 DEF Streaming
  <2>2. CASE x # q
    <3>1. /\ phase'[x] = phase[x] /\ stream'[x] = stream[x] /\ stmt'[x] = stmt[x]
          /\ rows'[x] = rows[x] /\ (x \in latched' <=> x \in latched)
      BY <1>1, <2>2 DEF StreamTypes
    <3> QED BY <3>1 DEF StreamInv, Streaming
  <2> QED BY <2>1, <2>2
<1> QED BY <1>2, <1>3 DEF StreamInv

\* What a task finds.
LEMMA TaskFields ==
  ASSUME StreamInv, NEW q \in Queries
  PROVE  /\ phase[q] \in Phases /\ stream[q] \in Seq(Events)
         /\ stmt[q] \in Nat /\ rows[q] \in Nat
         /\ phase = [phase EXCEPT ![q] = phase[q]]
         /\ stream = [stream EXCEPT ![q] = stream[q]]
         /\ stmt = [stmt EXCEPT ![q] = stmt[q]]
         /\ rows = [rows EXCEPT ![q] = rows[q]]
         /\ Streaming(q)
BY DEF StreamInv, StreamTypes

\* The task of a query ends with an error.
LEMMA ErrKeeps ==
  ASSUME StreamInv, NEW q \in Queries, phase[q] # "over",
         Goto(q, "over"), Send(q, <<Event("err", 0)>>),
         UNCHANGED <<stmt, latched, rows, cancelled>>
  PROVE  StreamInv'
<1> DEFINE s == Append(stream[q], Event("err", 0))
<1>1. /\ stream[q] \in Seq(Events) /\ stmt[q] \in Nat /\ rows[q] \in Nat
      /\ stmt' = [stmt EXCEPT ![q] = stmt[q]] /\ rows' = [rows EXCEPT ![q] = rows[q]]
      /\ Orderly(stream[q]) /\ Silent(stream[q])
  BY TaskFields DEF Streaming
<1>2. s \in Seq(Events) /\ Orderly(s) /\ ~ Silent(s)
  BY <1>1, AppendEnd
<1>3. stream' = [stream EXCEPT ![q] = s]
  <2>1. Event("err", 0) \in Events
    BY DEF Event, Events
  <2>2. stream[q] \o <<Event("err", 0)>> = s
    BY <1>1, <2>1, AppendEffect
  <2> QED BY <2>2 DEF Send
<1>4. phase' = [phase EXCEPT ![q] = "over"] /\ "over" \in Phases
  BY DEF Goto, Phases
<1> HIDE DEF s
<1> QED BY <1>1, <1>2, <1>3, <1>4, OneTask

\* A step that leaves the tasks alone.
LEMMA OthersKeep ==
  ASSUME StreamInv, UNCHANGED taskVars, cancelled \subseteq cancelled'
  PROVE  StreamInv'
BY DEF StreamInv, StreamTypes, Streaming, taskVars

\* stream_query, and the acquires that succeed.
LEMMA StartKeeps ==
  ASSUME StreamInv, NEW q \in Queries, StreamQuery(q) \/ Acquire(q) \/ Describe(q)
  PROVE  StreamInv'
<1>1. /\ stream[q] \in Seq(Events) /\ stmt[q] \in Nat /\ rows[q] \in Nat
      /\ stmt = [stmt EXCEPT ![q] = stmt[q]] /\ rows = [rows EXCEPT ![q] = rows[q]]
      /\ stream = [stream EXCEPT ![q] = stream[q]] /\ Streaming(q)
  BY TaskFields
<1>2. CASE StreamQuery(q)
  <2>1. /\ phase' = [phase EXCEPT ![q] = "waiting"] /\ phase[q] = "new"
        /\ stream' = [stream EXCEPT ![q] = stream[q]]
        /\ stmt' = [stmt EXCEPT ![q] = stmt[q]] /\ rows' = [rows EXCEPT ![q] = rows[q]]
        /\ UNCHANGED <<latched, cancelled>>
    BY <1>1, <1>2 DEF StreamQuery, Goto
  <2>2. Orderly(stream[q]) /\ Silent(stream[q]) /\ rows[q] = 0 /\ q \notin latched
    BY <1>1, <2>1 DEF Streaming
  <2>3. "waiting" \in Phases
    BY DEF Phases
  <2> QED BY <1>1, <2>1, <2>2, <2>3, OneTask
<1>3. CASE Acquire(q)
  <2>0. PICK first \in Nat : first = 1
    OBVIOUS
  <2>1. /\ phase' = [phase EXCEPT ![q] = "running"] /\ phase[q] = "waiting"
        /\ stream' = [stream EXCEPT ![q] = stream[q]]
        /\ stmt' = [stmt EXCEPT ![q] = first] /\ rows' = [rows EXCEPT ![q] = rows[q]]
        /\ UNCHANGED <<latched, cancelled>>
    BY <1>1, <1>3, <2>0 DEF Acquire, Goto
  <2>2. Orderly(stream[q]) /\ Silent(stream[q]) /\ rows[q] = 0 /\ q \notin latched
    BY <1>1, <2>1 DEF Streaming
  <2>3. "running" \in Phases
    BY DEF Phases
  <2>4. ~ rows[q] > 0 /\ q \notin latched' /\ \A x \in Queries : x \in latched' <=> x \in latched
    BY <2>1, <2>2
  <2> QED BY <1>1, <2>1, <2>2, <2>3, <2>4, OneTask
<1>4. CASE Describe(q)
  <2>1. /\ phase' = [phase EXCEPT ![q] = "preparing"] /\ phase[q] = "describing"
        /\ stream' = [stream EXCEPT ![q] = stream[q]]
        /\ stmt' = [stmt EXCEPT ![q] = stmt[q]] /\ rows' = [rows EXCEPT ![q] = rows[q]]
        /\ UNCHANGED <<latched, cancelled>>
    BY <1>1, <1>4 DEF Describe, Goto
  <2>2. Orderly(stream[q]) /\ Silent(stream[q]) /\ "preparing" \in Phases
    BY <1>1, <2>1 DEF Streaming, Phases
  <2> QED BY <1>1, <2>1, <2>2, OneTask
<1> QED BY <1>2, <1>3, <1>4

\* The rest of a batch, at the end of a statement or of the query.
LEMMA FlushEffect ==
  ASSUME StreamInv, NEW q \in Queries, phase[q] = "running"
  PROVE  LET s == stream[q] \o Flush(q)
         IN  /\ s \in Seq(Events) /\ Orderly(s) /\ Silent(s)
             /\ HasColumns(q) => \E h \in DOMAIN s : s[h].kind = "columns"
<1>1. /\ stream[q] \in Seq(Events) /\ stmt[q] \in Nat /\ rows[q] \in Nat
      /\ Orderly(stream[q]) /\ Silent(stream[q])
      /\ q \in latched => Announced(stream[q], stmt[q])
      /\ rows[q] > 0 => q \in latched
  BY TaskFields DEF Streaming
<1>2. CASE Buffered(q) > 0
  <2>1. rows[q] > 0
    BY <1>1, <1>2, DriverAssumption DEF Buffered
  <2>2. /\ Append(stream[q], Event("batch", stmt[q])) \in Seq(Events)
        /\ Orderly(Append(stream[q], Event("batch", stmt[q])))
        /\ Silent(Append(stream[q], Event("batch", stmt[q])))
        /\ Announced(Append(stream[q], Event("batch", stmt[q])), stmt[q])
    BY <1>1, <2>1, AppendBatch
  <2>3. Event("batch", stmt[q]) \in Events
    BY <1>1 DEF Event, Events
  <2>4. stream[q] \o Flush(q) = Append(stream[q], Event("batch", stmt[q]))
    BY <1>1, <1>2, <2>3, AppendEffect DEF Flush
  <2> QED BY <2>2, <2>4 DEF Announced
<1>3. CASE ~ Buffered(q) > 0
  <2>1. stream[q] \o Flush(q) = stream[q]
    BY <1>1, <1>3 DEF Flush
  <2> QED BY <1>1, <2>1 DEF HasColumns
<1> QED BY <1>2, <1>3

\* A row: columns before the first of its statement, a batch when it is full.
LEMMA RowKeeps ==
  ASSUME StreamInv, NEW q \in Queries, Row(q)
  PROVE  StreamInv'
<1> DEFINE columns == Event("columns", stmt[q])
           batch == Event("batch", stmt[q])
           first == IF q \in latched THEN stream[q] ELSE Append(stream[q], columns)
           s == IF Buffered(q) = BatchSize - 1 THEN Append(first, batch)
                ELSE first
<1>1. /\ stream[q] \in Seq(Events) /\ stmt[q] \in Nat /\ rows[q] \in Nat
      /\ phase = [phase EXCEPT ![q] = phase[q]] /\ phase[q] = "running"
      /\ stmt = [stmt EXCEPT ![q] = stmt[q]]
      /\ Orderly(stream[q]) /\ Silent(stream[q])
      /\ q \in latched => Announced(stream[q], stmt[q])
  BY TaskFields DEF Row, Running, Streaming
<1>2. columns \in Events /\ batch \in Events
  BY <1>1 DEF Event, Events
<1>3. first \in Seq(Events) /\ Orderly(first) /\ Silent(first) /\ Announced(first, stmt[q])
  <2>1. CASE q \in latched
    BY <1>1, <2>1
  <2>2. CASE q \notin latched
    <3>1. first = Append(stream[q], columns)
      BY <2>2
    <3> HIDE DEF first
    <3> QED BY <1>1, <3>1, AppendColumns
  <2> QED BY <2>1, <2>2
<1>4. stream[q] \o (IF q \in latched THEN <<>> ELSE <<columns>>) = first
  <2>1. CASE q \in latched
    BY <1>1, <2>1, ConcatEmptySeq
  <2>2. CASE q \notin latched
    BY <1>1, <1>2, <2>2, AppendEffect
  <2> QED BY <2>1, <2>2
<1> HIDE DEF columns, first
<1>5. s \in Seq(Events) /\ Orderly(s) /\ Silent(s) /\ Announced(s, stmt[q])
  BY <1>1, <1>3, AppendBatch
<1>6. first \o (IF Buffered(q) = BatchSize - 1 THEN <<batch>> ELSE <<>>) = s
  BY <1>2, <1>3, AppendEffect
<1> HIDE DEF batch, s
<1>7. stream' = [stream EXCEPT ![q] = s]
  <2> DEFINE a == IF q \in latched THEN <<>> ELSE <<columns>>
             b == IF Buffered(q) = BatchSize - 1 THEN <<batch>> ELSE <<>>
  <2>1. stream' = [stream EXCEPT ![q] = stream[q] \o (a \o b)]
    BY DEF Row, Send, columns, batch
  <2>2. a \in Seq(Events) /\ b \in Seq(Events)
    BY <1>2
  <2> HIDE DEF a, b
  <2>3. stream[q] \o (a \o b) = (stream[q] \o a) \o b
    BY <1>1, <2>2, Regrouped
  <2>4. (stream[q] \o a) \o b = s
    BY <1>4, <1>6 DEF a, b
  <2> QED BY <2>1, <2>3, <2>4
<1>8. /\ phase' = [phase EXCEPT ![q] = "running"] /\ stmt' = [stmt EXCEPT ![q] = stmt[q]]
      /\ rows' = [rows EXCEPT ![q] = rows[q] + 1] /\ rows[q] + 1 \in Nat
      /\ latched' = latched \cup {q} /\ UNCHANGED cancelled /\ "running" \in Phases
  BY <1>1 DEF Row, Phases
<1> QED BY <1>1, <1>5, <1>7, <1>8, OneTask

\* The end of a statement that another one follows.
LEMMA NextStatementKeeps ==
  ASSUME StreamInv, NEW q \in Queries, NextStatement(q)
  PROVE  StreamInv'
<1> DEFINE s == stream[q] \o Flush(q)
<1>1. /\ stmt[q] \in Nat /\ rows[q] \in Nat
      /\ phase = [phase EXCEPT ![q] = phase[q]] /\ phase[q] = "running"
  BY TaskFields DEF NextStatement, Running
<1>2. s \in Seq(Events) /\ Orderly(s) /\ Silent(s)
  BY <1>1, FlushEffect
<1>3. PICK none \in Nat : none = 0
  OBVIOUS
<1>4. PICK n \in Nat : n = stmt[q] + 1
  BY <1>1
<1>5. /\ phase' = [phase EXCEPT ![q] = "running"] /\ stream' = [stream EXCEPT ![q] = s]
      /\ stmt' = [stmt EXCEPT ![q] = n] /\ rows' = [rows EXCEPT ![q] = none]
      /\ latched' = latched \ {q} /\ UNCHANGED cancelled
  BY <1>1, <1>3, <1>4 DEF NextStatement, Send
<1>6. ~ none > 0 /\ "running" \in Phases
  BY <1>3 DEF Phases
<1> HIDE DEF s
<1> QED BY <1>2, <1>5, <1>6, OneTask

\* The end of the last statement.
LEMMA EndKeeps ==
  ASSUME StreamInv, NEW q \in Queries, End(q)
  PROVE  StreamInv'
<1>1. /\ stream[q] \in Seq(Events) /\ stmt[q] \in Nat /\ rows[q] \in Nat
      /\ stmt = [stmt EXCEPT ![q] = stmt[q]] /\ stream = [stream EXCEPT ![q] = stream[q]]
      /\ phase[q] = "running" /\ Orderly(stream[q]) /\ Silent(stream[q])
  BY TaskFields DEF End, Running, Streaming
<1>2. PICK none \in Nat : none = 0
  OBVIOUS
<1>3. /\ stmt' = [stmt EXCEPT ![q] = stmt[q]] /\ rows' = [rows EXCEPT ![q] = none]
      /\ UNCHANGED <<latched, cancelled>>
  BY <1>1, <1>2 DEF End
<1>4. "over" \in Phases /\ "describing" \in Phases
  BY DEF Phases
<1>5. CASE HasColumns(q)
  <2> DEFINE f == stream[q] \o Flush(q)
             done == Event("done", 0)
             s == Append(f, done)
  <2>1. /\ f \in Seq(Events) /\ Orderly(f) /\ Silent(f)
        /\ \E h \in DOMAIN f : f[h].kind = "columns"
    <3> HIDE DEF s, done
    <3>1. LET r == stream[q] \o Flush(q)
          IN  /\ r \in Seq(Events) /\ Orderly(r) /\ Silent(r)
              /\ HasColumns(q) => \E h \in DOMAIN r : r[h].kind = "columns"
      BY <1>1, FlushEffect, Zenon
    <3> QED BY <1>5, <3>1
  <2>2. Flush(q) \in Seq(Events) /\ done \in Events
    <3>1. done \in Events /\ Event("batch", stmt[q]) \in Events
      BY <1>1 DEF Event, Events
    <3> QED BY <3>1, EmptyStream DEF Flush
  <2>3. stream' = [stream EXCEPT ![q] = stream[q] \o (Flush(q) \o <<done>>)]
        /\ phase' = [phase EXCEPT ![q] = "over"]
    BY <1>5 DEF End, Send, Goto
  <2>4. stream[q] \o (Flush(q) \o <<done>>) = f \o <<done>>
    <3>1. <<done>> \in Seq(Events)
      BY <2>2
    <3> HIDE DEF done
    <3> QED BY <1>1, <2>2, <3>1, Regrouped
  <2> HIDE DEF f
  <2>5. f \o <<done>> = s
    BY <2>1, <2>2, AppendEffect
  <2>6. s \in Seq(Events) /\ Orderly(s) /\ ~ Silent(s)
    BY <2>1, AppendEnd
  <2> HIDE DEF s, done
  <2>7. stream' = [stream EXCEPT ![q] = s]
    BY <2>3, <2>4, <2>5
  <2> QED BY <1>1, <1>3, <1>4, <2>3, <2>6, <2>7, OneTask
<1>6. CASE ~ HasColumns(q)
  <2>1. stream' = [stream EXCEPT ![q] = stream[q]] /\ phase' = [phase EXCEPT ![q] = "describing"]
    BY <1>1, <1>6 DEF End, Goto
  <2> QED BY <1>1, <1>3, <1>4, <2>1, OneTask
<1> QED BY <1>5, <1>6

\* The fallback describe.
LEMMA DescribeKeeps ==
  ASSUME StreamInv, NEW q \in Queries, DescribeGivesUp(q) \/ Described(q)
  PROVE  StreamInv'
<1> DEFINE columns == Event("columns", stmt[q])
           done == Event("done", 0)
           c == Append(stream[q], columns)
           s == Append(c, done)
<1>1. /\ stream[q] \in Seq(Events) /\ stmt[q] \in Nat /\ rows[q] \in Nat
      /\ stmt = [stmt EXCEPT ![q] = stmt[q]] /\ rows = [rows EXCEPT ![q] = rows[q]]
      /\ Orderly(stream[q]) /\ Silent(stream[q])
  BY TaskFields DEF DescribeGivesUp, Described, Streaming
<1>2. columns \in Events /\ done \in Events
  BY <1>1 DEF Event, Events
<1>3. c \in Seq(Events) /\ Orderly(c) /\ Silent(c) /\ \E h \in DOMAIN c : c[h].kind = "columns"
  BY <1>1, AppendColumns DEF Announced
<1>4. /\ stream' = [stream EXCEPT ![q] = stream[q] \o <<columns, done>>]
      /\ phase' = [phase EXCEPT ![q] = "over"]
      /\ stmt' = [stmt EXCEPT ![q] = stmt[q]] /\ rows' = [rows EXCEPT ![q] = rows[q]]
      /\ UNCHANGED <<latched, cancelled>>
  BY <1>1 DEF DescribeGivesUp, Described, Report, Goto, Send
<1> HIDE DEF columns, done
<1>5. stream[q] \o <<columns, done>> = s
  BY <1>1, <1>2
<1> HIDE DEF c
<1>6. s \in Seq(Events) /\ Orderly(s) /\ ~ Silent(s)
  BY <1>3, AppendEnd DEF done
<1> HIDE DEF s
<1>7. "over" \in Phases
  BY DEF Phases
<1> QED BY <1>1, <1>4, <1>5, <1>6, <1>7, OneTask

\* A cancel seen between two rows.
LEMMA SeeCancelKeeps ==
  ASSUME StreamInv, NEW q \in Queries, SeeCancel(q)
  PROVE  StreamInv'
<1>1. /\ stream[q] \in Seq(Events) /\ stmt[q] \in Nat /\ rows[q] \in Nat
      /\ stmt = [stmt EXCEPT ![q] = stmt[q]] /\ rows = [rows EXCEPT ![q] = rows[q]]
      /\ stream = [stream EXCEPT ![q] = stream[q]] /\ Orderly(stream[q])
  BY TaskFields DEF Streaming
<1>2. /\ phase' = [phase EXCEPT ![q] = "over"] /\ q \in cancelled
      /\ stream' = [stream EXCEPT ![q] = stream[q]]
      /\ stmt' = [stmt EXCEPT ![q] = stmt[q]] /\ rows' = [rows EXCEPT ![q] = rows[q]]
      /\ UNCHANGED <<latched, cancelled>>
  BY <1>1 DEF SeeCancel, Goto
<1>3. "over" \in Phases
  BY DEF Phases
<1> QED BY <1>1, <1>2, <1>3, OneTask

\* Nothing is sent before the first call.
LEMMA StreamInvInit == DriverInit => StreamInv
<1> SUFFICES ASSUME DriverInit PROVE StreamInv
  OBVIOUS
<1>1. /\ phase = [q \in Queries |-> "new"] /\ stream = [q \in Queries |-> <<>>]
      /\ stmt = [q \in Queries |-> 0] /\ latched = {} /\ rows = [q \in Queries |-> 0]
  BY DEF DriverInit
<1>2. StreamTypes
  <2>1. stream \in [Queries -> Seq(Events)]
    BY <1>1, EmptyStream
  <2> QED BY <1>1, <2>1 DEF StreamTypes, Phases
<1>3. ASSUME NEW q \in Queries PROVE Streaming(q)
  BY <1>1, EmptyStream DEF Streaming
<1> QED BY <1>2, <1>3 DEF StreamInv

\* Every step of the tasks, of the pool and of the handles keeps it.
LEMMA StreamInvNext == StreamInv /\ [DriverNext]_driverVars => StreamInv'
<1> SUFFICES ASSUME StreamInv, [DriverNext]_driverVars PROVE StreamInv'
  OBVIOUS
<1>1. ASSUME NEW q \in Queries, StreamQuery(q) \/ Acquire(q) \/ Describe(q) PROVE StreamInv'
  BY <1>1, StartKeeps
<1>2. ASSUME NEW q \in Queries, AcquireFails(q) \/ Fail(q) \/ Lost(q) PROVE StreamInv'
  <2>1. /\ phase[q] # "over" /\ Goto(q, "over") /\ Send(q, <<Event("err", 0)>>)
        /\ UNCHANGED <<stmt, latched, rows, cancelled>>
    BY <1>2 DEF AcquireFails, Fail, Lost, Running, poolVars, dataVars
  <2> QED BY <2>1, ErrKeeps
<1>3. ASSUME NEW q \in Queries,
             \/ Row(q) \/ NextStatement(q) \/ End(q)
             \/ DescribeGivesUp(q) \/ Described(q) \/ SeeCancel(q)
      PROVE  StreamInv'
  BY <1>3, RowKeeps, NextStatementKeeps, EndKeeps, DescribeKeeps, SeeCancelKeeps
<1>4. ASSUME NEW q \in Queries, Cancel(q) PROVE StreamInv'
  <2>1. UNCHANGED taskVars /\ cancelled \subseteq cancelled'
    BY <1>4 DEF Cancel
  <2> QED BY <2>1, OthersKeep
<1>5. ASSUME NEW c \in Conns, KillLands(c) PROVE StreamInv'
  <2>1. UNCHANGED <<stmt, latched, rows, cancelled>>
    BY <1>5 DEF KillLands
  <2>2. CASE UNCHANGED <<phase, stream>>
    <3>1. UNCHANGED taskVars /\ cancelled \subseteq cancelled'
      BY <2>1, <2>2 DEF taskVars
    <3> QED BY <3>1, OthersKeep
  <2>3. CASE \E q \in Queries : Running(q) /\ Goto(q, "over") /\ Send(q, <<Event("err", 0)>>)
    <3>1. PICK q \in Queries : Running(q) /\ Goto(q, "over") /\ Send(q, <<Event("err", 0)>>)
      BY <2>3
    <3>2. phase[q] # "over"
      BY <3>1 DEF Running
    <3> QED BY <2>1, <3>1, <3>2, ErrKeeps
  <2> QED BY <1>5, <2>2, <2>3 DEF KillLands
<1>6. ASSUME NEW c \in Conns, GiveBack(c) \/ CloseIdle(c) PROVE StreamInv'
  <2>1. UNCHANGED taskVars /\ cancelled \subseteq cancelled'
    BY <1>6 DEF GiveBack, CloseIdle
  <2> QED BY <2>1, OthersKeep
<1>7. CASE Close \/ UNCHANGED driverVars
  <2>1. UNCHANGED taskVars /\ cancelled \subseteq cancelled'
    BY <1>7 DEF Close, driverVars
  <2> QED BY <2>1, OthersKeep
<1> QED BY <1>1, <1>2, <1>3, <1>4, <1>5, <1>6, <1>7 DEF DriverNext, Task, Asking, Answered, PoolNext

\* The streams' inductive invariant, for any queries, pools and batch sizes.
THEOREM StreamInvariant == DriverSpec => []StreamInv
<1>1. DriverInit => StreamInv
  BY StreamInvInit
<1>2. StreamInv /\ [DriverNext]_driverVars => StreamInv'
  BY StreamInvNext
<1> QED BY <1>1, <1>2, PTL DEF DriverSpec

\* The consumer of a stream finds columns before batches, one terminal event at
\* the end, and is told nothing only when it has cancelled.
THEOREM ProtocolKept == DriverSpec => []StreamProtocol
<1>1. StreamInv => StreamProtocol
  <2> SUFFICES ASSUME StreamInv, NEW q \in Queries
               PROVE  /\ \A i \in DOMAIN stream[q] :
                           LET e == stream[q][i]
                               heads == {j \in 1..i - 1 : stream[q][j].kind = "columns"}
                           IN /\ e.kind = "batch" =>
                                   \E h \in heads : /\ stream[q][h].set = e.set
                                                    /\ \A j \in heads : j <= h
                              /\ e.kind \in {"done", "err"} => i = Len(stream[q])
                              /\ e.kind = "done" => heads # {}
                      /\ (phase[q] = "over" /\ q \notin cancelled) =>
                           \E i \in DOMAIN stream[q] : stream[q][i].kind \in {"done", "err"}
    BY DEF StreamProtocol
  <2>1. Streaming(q) /\ stream[q] \in Seq(Events)
    BY DEF StreamInv, StreamTypes
  <2> QED BY <2>1 DEF Streaming, Orderly, Silent, Terminal
<1> QED BY <1>1, StreamInvariant, PTL

-----------------------------------------------------------------------------
(* A batch over one connection that lasts.                                   *)

Sole == CHOOSE c \in Conns : TRUE

\* The server has run the statement.
Ran(q) == phase[q] \in {"describing", "preparing"} \/ Ended(q, "done")

\* The pool was closed with no query of the batch on its connection: what is
\* still to come of the batch fails.
Cut == closed /\ \A q \in BatchQueries : phase[q] # "running"

BatchTypes ==
  /\ at \in 0..Len(Script) /\ outcome \in {"none", "rolling_back", "ok", "failed"}
  /\ holder \in [Conns -> Queries \cup {Nobody}]
  /\ pending \in [Conns -> SUBSET Queries] /\ open \subseteq Conns

\* The script runs in order, one call at a time, up to the first that fails.
Calls ==
  /\ BatchQueries \cap cancelled = {}
  /\ \A i \in DOMAIN Script : /\ i > at => phase[Script[i]] = "new"
                              /\ i < at => Ended(Script[i], "done")
  /\ phase[RollbackQuery] # "new" => outcome \in {"rolling_back", "failed"}

\* The outcome is what the awaited call's stream says.
Verdict ==
  /\ outcome = "rolling_back" => at \in 2..Len(Script) - 1
  /\ outcome \in {"rolling_back", "failed"} =>
       at \in DOMAIN Script /\ Ended(Script[at], "err")
  /\ outcome = "ok" => at = Len(Script) /\ Ended(CommitQuery, "done")

Order == Calls /\ Verdict

\* What ran of the batch waits in the connection's transaction for its COMMIT.
Whole ==
  /\ \A q \in Queries : phase[q] = "running" => holder[Sole] = q
  /\ IF Ran(CommitQuery) THEN BatchWrites \subseteq committed
                         ELSE BatchWrites \cap committed = {}
  /\ (Ran(BeginQuery) /\ ~ Ran(CommitQuery) /\ phase[RollbackQuery] = "new" /\ ~ Cut) =>
       Sole \in inTx /\ \A q \in BatchWrites : Ran(q) => q \in pending[Sole]

\* The inductive invariant of a batch.
BatchInv == StreamInv /\ BatchTypes /\ Order /\ Whole

\* Two sequences, one after the other.
LEMMA Joined ==
  ASSUME NEW S, NEW s \in Seq(S), NEW t \in Seq(S)
  PROVE  /\ s \o t \in Seq(S) /\ Len(s \o t) = Len(s) + Len(t)
         /\ DOMAIN (s \o t) = 1..Len(s) + Len(t)
         /\ \A i \in 1..Len(s) + Len(t) :
              (s \o t)[i] = IF i <= Len(s) THEN s[i] ELSE t[i - Len(s)]
OBVIOUS

\* The script's calls.
LEMMA ScriptFacts ==
  ASSUME BatchIsPlain
  PROVE  /\ Len(Statements) \in Nat /\ DOMAIN Statements = 1..Len(Statements)
         /\ Len(Script) = Len(Statements) + 2 /\ DOMAIN Script = 1..Len(Statements) + 2
         /\ Script[1] = BeginQuery /\ Script[Len(Statements) + 2] = CommitQuery
         /\ \A i \in 1..Len(Statements) : Script[i + 1] = Statements[i]
         /\ \A q \in BatchWrites : \E i \in 2..Len(Statements) + 1 : Script[i] = q
         /\ \A i \in 2..Len(Statements) + 1 : Script[i] \in BatchWrites
         /\ \A i \in DOMAIN Script : /\ Script[i] \in Queries /\ Script[i] \in BatchQueries
                                    /\ Script[i] # RollbackQuery
         /\ \A i, j \in DOMAIN Script : i # j => Script[i] # Script[j]
<1> DEFINE n == Len(Statements)
           head == <<BeginQuery>>
           tail == <<CommitQuery>>
<1>1. Statements \in Seq(Queries) /\ n \in Nat /\ DOMAIN Statements = 1..n
  BY DEF BatchIsPlain
<1>2. /\ head \in Seq(Queries) /\ Len(head) = 1 /\ head[1] = BeginQuery
      /\ tail \in Seq(Queries) /\ Len(tail) = 1 /\ tail[1] = CommitQuery
  BY DEF BatchIsPlain
<1> HIDE DEF n, head, tail
<1>3. /\ head \o Statements \in Seq(Queries) /\ Len(head \o Statements) = n + 1
      /\ (head \o Statements)[1] = BeginQuery
      /\ \A i \in 2..n + 1 : (head \o Statements)[i] = Statements[i - 1]
  <2>1. /\ head \o Statements \in Seq(Queries) /\ Len(head \o Statements) = n + 1
        /\ \A i \in 1..n + 1 :
             (head \o Statements)[i] = IF i <= 1 THEN head[i] ELSE Statements[i - 1]
    <3>1. /\ head \o Statements \in Seq(Queries)
          /\ Len(head \o Statements) = Len(head) + Len(Statements)
          /\ \A i \in 1..Len(head) + Len(Statements) : (head \o Statements)[i] =
               IF i <= Len(head) THEN head[i] ELSE Statements[i - Len(head)]
      BY <1>1, <1>2, Joined
    <3>2. Len(head) + Len(Statements) = n + 1
      BY <1>1, <1>2 DEF n
    <3> QED BY <1>2, <3>1, <3>2
  <2>2. 1 \in 1..n + 1 /\ \A i \in 2..n + 1 : i \in 1..n + 1 /\ ~ i <= 1
    BY <1>1
  <2> QED BY <1>2, <2>1, <2>2
<1> DEFINE h == head \o Statements
<1> HIDE DEF h
<1>4. /\ h \in Seq(Queries) /\ Len(h) = n + 1 /\ h[1] = BeginQuery
      /\ \A i \in 2..n + 1 : h[i] = Statements[i - 1]
  BY <1>3 DEF h
<1>5. Script = h \o tail
  BY DEF Script, h, head, tail
<1>6. /\ Script \in Seq(Queries) /\ Len(Script) = n + 2
      /\ \A i \in 1..n + 1 : Script[i] = h[i]
      /\ Script[n + 2] = CommitQuery
  <2>1. /\ h \o tail \in Seq(Queries) /\ Len(h \o tail) = n + 2
        /\ \A i \in 1..n + 2 : (h \o tail)[i] = IF i <= n + 1 THEN h[i] ELSE tail[i - (n + 1)]
    <3>1. /\ h \o tail \in Seq(Queries)
          /\ Len(h \o tail) = Len(h) + Len(tail)
          /\ \A i \in 1..Len(h) + Len(tail) : (h \o tail)[i] =
               IF i <= Len(h) THEN h[i] ELSE tail[i - Len(h)]
      BY <1>2, <1>4, Joined
    <3>2. Len(h) + Len(tail) = n + 2
      BY <1>1, <1>2, <1>4
    <3> QED BY <1>4, <3>1, <3>2
  <2>2. /\ \A i \in 1..n + 1 : i \in 1..n + 2 /\ i <= n + 1
        /\ n + 2 \in 1..n + 2 /\ ~ n + 2 <= n + 1 /\ n + 2 - (n + 1) = 1
    BY <1>1
  <2>3. \A i \in 1..n + 1 : (h \o tail)[i] = h[i]
    BY <2>1, <2>2
  <2>4. (h \o tail)[n + 2] = tail[1]
    <3>1. PICK k \in 1..n + 2 : k = n + 2
      BY <2>2
    <3>2. ~ k <= n + 1 /\ k - (n + 1) = 1
      BY <1>1, <3>1
    <3>3. (h \o tail)[k] = tail[k - (n + 1)]
      BY <2>1, <3>2
    <3> QED BY <3>1, <3>2, <3>3
  <2> QED BY <1>2, <1>5, <2>1, <2>3, <2>4
<1>7. Script[1] = BeginQuery /\ \A i \in 2..n + 1 : Script[i] = Statements[i - 1]
  BY <1>1, <1>4, <1>6
<1>8. DOMAIN Script = 1..n + 2 /\ \A i \in DOMAIN Script : Script[i] \in Queries
  BY <1>6
<1>9. \A i \in 1..n : i + 1 \in 2..n + 1 /\ Script[i + 1] = Statements[i]
  BY <1>1, <1>7
<1>10. \A i \in 2..n + 1 : i - 1 \in 1..n /\ Script[i] \in BatchWrites
  BY <1>1, <1>7 DEF BatchWrites
<1>11. \A q \in BatchWrites : \E i \in 2..n + 1 : Script[i] = q
  BY <1>1, <1>9 DEF BatchWrites
<1>12. \A i \in DOMAIN Script : Script[i] \in BatchQueries
  <2> SUFFICES ASSUME NEW i \in 1..n + 2 PROVE Script[i] \in BatchQueries
    BY <1>8
  <2>1. i = 1 \/ i = n + 2 \/ i \in 2..n + 1
    BY <1>1
  <2> QED BY <1>6, <1>7, <1>10, <2>1 DEF BatchQueries
<1>13. /\ Kind[BeginQuery] = "begin" /\ Kind[CommitQuery] = "commit"
       /\ Kind[RollbackQuery] = "rollback" /\ \A q \in BatchWrites : Kind[q] = "write"
  BY DEF BatchIsPlain
<1>14. \A i \in DOMAIN Script : i = 1 \/ i = n + 2 \/ i \in 2..n + 1
  BY <1>1, <1>8
<1>15. \A i \in DOMAIN Script : Script[i] # RollbackQuery
  BY <1>6, <1>7, <1>10, <1>13, <1>14
<1>16. ASSUME NEW i \in DOMAIN Script, NEW j \in DOMAIN Script, i # j
       PROVE  Script[i] # Script[j]
  <2>1. CASE i \in 2..n + 1 /\ j \in 2..n + 1
    <3>1. i - 1 \in 1..n /\ j - 1 \in 1..n /\ i - 1 # j - 1
      BY <1>1, <1>16, <2>1
    <3> QED BY <1>1, <1>7, <2>1, <3>1 DEF BatchIsPlain
  <2>2. CASE i \notin 2..n + 1 \/ j \notin 2..n + 1
    BY <1>6, <1>7, <1>10, <1>13, <1>14, <1>16, <2>2
  <2> QED BY <2>1, <2>2
<1> QED BY <1>1, <1>6, <1>7, <1>8, <1>9, <1>10, <1>11, <1>12, <1>15, <1>16 DEF n

\* The one connection.
LEMMA SoleFacts ==
  ASSUME OneConnection
  PROVE  Conns = {Sole} /\ ~ Breaks
BY DEF OneConnection, Sole

\* What a terminal event says of its query's task.
LEMMA EndedFacts ==
  ASSUME StreamInv, NEW q \in Queries
  PROVE  /\ Ended(q, "done") \/ Ended(q, "err") => phase[q] = "over"
         /\ ~ (Ended(q, "done") /\ Ended(q, "err"))
<1>1. Streaming(q) /\ stream[q] \in Seq(Events)
  BY TaskFields
<1>2. Ended(q, "done") \/ Ended(q, "err") => ~ Silent(stream[q])
  BY DEF Ended, Silent, Terminal
<1>3. \A i \in DOMAIN stream[q] :
        stream[q][i].kind \in {"done", "err"} => i = Len(stream[q])
  BY <1>1 DEF Streaming, Orderly, Terminal
<1> QED BY <1>1, <1>2, <1>3 DEF Streaming, Ended

\* What has been sent after a call of the sink.
LEMMA SendFacts ==
  ASSUME StreamInv, NEW q \in Queries, NEW t \in Seq(Events), Send(q, t)
  PROVE  /\ \A x \in Queries \ {q} : stream'[x] = stream[x]
         /\ \A kind : Ended(q, kind) => Ended(q, kind)'
         /\ \A kind : Ended(q, kind)' => Ended(q, kind) \/ \E i \in DOMAIN t : t[i].kind = kind
         /\ \A kind : (\E i \in DOMAIN t : t[i].kind = kind) => Ended(q, kind)'
<1> DEFINE s == stream[q]
<1>1. s \in Seq(Events) /\ stream \in [Queries -> Seq(Events)]
  BY DEF StreamInv, StreamTypes
<1>2. stream'[q] = s \o t /\ \A x \in Queries \ {q} : stream'[x] = stream[x]
  BY <1>1 DEF Send
<1>3. /\ DOMAIN s = 1..Len(s) /\ DOMAIN t = 1..Len(t) /\ Len(s) \in Nat /\ Len(t) \in Nat
      /\ DOMAIN (s \o t) = 1..Len(s) + Len(t)
      /\ \A i \in 1..Len(s) + Len(t) :
           (s \o t)[i] = IF i <= Len(s) THEN s[i] ELSE t[i - Len(s)]
  BY <1>1, Joined
<1> HIDE DEF s
<1>4. ASSUME NEW kind, Ended(q, kind) PROVE Ended(q, kind)'
  <2>1. PICK i \in DOMAIN s : s[i].kind = kind
    BY <1>4 DEF Ended, s
  <2>2. i \in 1..Len(s) + Len(t) /\ i <= Len(s)
    BY <1>3
  <2> QED BY <1>2, <1>3, <2>1, <2>2 DEF Ended
<1>5. ASSUME NEW kind, NEW j \in DOMAIN t, t[j].kind = kind PROVE Ended(q, kind)'
  <2>1. /\ j + Len(s) \in 1..Len(s) + Len(t) /\ ~ j + Len(s) <= Len(s)
        /\ j + Len(s) - Len(s) = j
    BY <1>3
  <2> QED BY <1>2, <1>3, <1>5, <2>1 DEF Ended
<1>6. ASSUME NEW kind, Ended(q, kind)' PROVE Ended(q, kind) \/ \E i \in DOMAIN t : t[i].kind = kind
  <2>1. PICK i \in 1..Len(s) + Len(t) : (s \o t)[i].kind = kind
    BY <1>2, <1>3, <1>6 DEF Ended
  <2>2. CASE i <= Len(s)
    <3>1. i \in DOMAIN s /\ s[i].kind = kind
      BY <1>3, <2>1, <2>2
    <3> QED BY <3>1 DEF Ended, s
  <2>3. CASE ~ i <= Len(s)
    <3>1. i - Len(s) \in DOMAIN t /\ t[i - Len(s)].kind = kind
      BY <1>3, <2>1, <2>3
    <3> QED BY <3>1
  <2> QED BY <2>2, <2>3
<1> QED BY <1>2, <1>4, <1>5, <1>6

\* The steps that start no query and acquire nothing.
QuietStep ==
  \/ \E q \in Queries : \/ AcquireFails(q) \/ Row(q) \/ NextStatement(q) \/ End(q)
                        \/ Describe(q) \/ DescribeGivesUp(q) \/ Described(q)
                        \/ Fail(q) \/ SeeCancel(q) \/ Cancel(q)
  \/ \E c \in Conns : KillLands(c) \/ GiveBack(c) \/ CloseIdle(c)
  \/ Close

\* A query in such a step: it starts or runs on only in its own.
QuietFor(x) ==
  /\ phase'[x] = "new" <=> phase[x] = "new"
  /\ phase'[x] = "running" => phase[x] = "running"
  /\ \A kind : Ended(x, kind) => Ended(x, kind)'
  /\ Ran(x) => Ran(x)'
  /\ Ran(x)' => Ran(x) \/ End(x)

\* A task that goes on or ends without the server having run its query.
LEMMA UnrunFacts ==
  ASSUME StreamInv, NEW q \in Queries, phase[q] \in {"waiting", "running"},
         NEW p \in {"running", "over"}, p = "running" => phase[q] = "running",
         phase' = [phase EXCEPT ![q] = p],
         NEW t \in Seq(Events), Send(q, t), \A i \in DOMAIN t : t[i].kind # "done"
  PROVE  \A x \in Queries : QuietFor(x)
<1>1. phase \in [Queries -> Phases]
  BY DEF StreamInv, StreamTypes
<1>2. /\ \A x \in Queries \ {q} : stream'[x] = stream[x] /\ phase'[x] = phase[x]
      /\ \A kind : Ended(q, kind) => Ended(q, kind)'
      /\ Ended(q, "done")' => Ended(q, "done")
      /\ phase'[q] = p
  BY <1>1, SendFacts
<1>3. \A x \in Queries \ {q} : QuietFor(x)
  BY <1>2 DEF QuietFor, Ran, Ended
<1>4. QuietFor(q)
  BY <1>2 DEF QuietFor, Ran
<1> QED BY <1>3, <1>4

\* A step that leaves tasks and streams alone.
LEMMA SameTasks == (UNCHANGED <<phase, stream>>) => \A x \in Queries : QuietFor(x)
BY DEF QuietFor, Ran, Ended

\* One event.
LEMMA OneEvent ==
  ASSUME NEW k \in {"columns", "batch", "done", "err"}, NEW n \in Nat
  PROVE  /\ <<Event(k, n)>> \in Seq(Events) /\ DOMAIN <<Event(k, n)>> = {1}
         /\ <<Event(k, n)>>[1].kind = k
<1>1. Event(k, n) \in Events /\ Event(k, n).kind = k
  BY DEF Event, Events
<1> QED BY <1>1

\* What a step of a row sends.
LEMMA BatchesSent ==
  ASSUME StreamInv, NEW q \in Queries, NEW a, NEW b,
         a = <<>> \/ a = <<Event("columns", stmt[q])>>,
         b = <<>> \/ b = <<Event("batch", stmt[q])>>
  PROVE  a \o b \in Seq(Events) /\ \A i \in DOMAIN (a \o b) : (a \o b)[i].kind # "done"
<1>1. stmt[q] \in Nat
  BY DEF StreamInv, StreamTypes
<1>2. a \in Seq(Events) /\ \A i \in DOMAIN a : a[i].kind # "done"
  <2>1. CASE a = <<>>
    <3>1. DOMAIN a = {} /\ a \in Seq(Events)
      BY <2>1, EmptyStream
    <3> QED BY <3>1
  <2>2. CASE a = <<Event("columns", stmt[q])>>
    BY <1>1, <2>2, OneEvent
  <2> QED BY <2>1, <2>2
<1>3. b \in Seq(Events) /\ \A i \in DOMAIN b : b[i].kind # "done"
  <2>1. CASE b = <<>>
    <3>1. DOMAIN b = {} /\ b \in Seq(Events)
      BY <2>1, EmptyStream
    <3> QED BY <3>1
  <2>2. CASE b = <<Event("batch", stmt[q])>>
    BY <1>1, <2>2, OneEvent
  <2> QED BY <2>1, <2>2
<1>4. /\ DOMAIN a = 1..Len(a) /\ DOMAIN b = 1..Len(b) /\ Len(a) \in Nat /\ Len(b) \in Nat
      /\ a \o b \in Seq(Events) /\ DOMAIN (a \o b) = 1..Len(a) + Len(b)
      /\ \A i \in 1..Len(a) + Len(b) :
           (a \o b)[i] = IF i <= Len(a) THEN a[i] ELSE b[i - Len(a)]
  BY <1>2, <1>3, Joined
<1>5. ASSUME NEW i \in 1..Len(a) + Len(b) PROVE (a \o b)[i].kind # "done"
  <2>1. CASE i <= Len(a)
    BY <1>2, <1>4, <2>1
  <2>2. CASE ~ i <= Len(a)
    <3>1. i - Len(a) \in DOMAIN b
      BY <1>4, <2>2
    <3> QED BY <1>3, <1>4, <2>2, <3>1
  <2> QED BY <2>1, <2>2
<1> QED BY <1>4, <1>5

\* Every quiet step is quiet for every query.
LEMMA QuietFacts ==
  ASSUME StreamInv, QuietStep
  PROVE  \A x \in Queries : QuietFor(x)
<1>1. phase \in [Queries -> Phases] /\ stream \in [Queries -> Seq(Events)]
      /\ stmt \in [Queries -> Nat]
  BY DEF StreamInv, StreamTypes
<1>2. /\ <<Event("err", 0)>> \in Seq(Events)
      /\ \A i \in DOMAIN <<Event("err", 0)>> : <<Event("err", 0)>>[i].kind # "done"
  BY OneEvent
<1>3. ASSUME NEW q \in Queries, AcquireFails(q) \/ Fail(q) PROVE \A x \in Queries : QuietFor(x)
  <2>1. /\ phase[q] \in {"waiting", "running"} /\ Send(q, <<Event("err", 0)>>)
        /\ phase' = [phase EXCEPT ![q] = "over"]
    BY <1>3 DEF AcquireFails, Fail, Running, Goto
  <2> QED BY <1>2, <2>1, UnrunFacts
<1>4. ASSUME NEW q \in Queries, Row(q) PROVE \A x \in Queries : QuietFor(x)
  <2> DEFINE a == IF q \in latched THEN <<>> ELSE <<Event("columns", stmt[q])>>
             b == IF Buffered(q) = BatchSize - 1 THEN <<Event("batch", stmt[q])>> ELSE <<>>
  <2>1. a \o b \in Seq(Events) /\ \A i \in DOMAIN (a \o b) : (a \o b)[i].kind # "done"
    BY BatchesSent
  <2>2. /\ phase[q] = "running" /\ Send(q, a \o b)
        /\ phase' = [phase EXCEPT ![q] = "running"]
    BY <1>1, <1>4 DEF Row, Running
  <2> HIDE DEF a, b
  <2> QED BY <2>1, <2>2, UnrunFacts
<1>5. ASSUME NEW q \in Queries, NextStatement(q) PROVE \A x \in Queries : QuietFor(x)
  <2>2. Flush(q) \in Seq(Events) /\ \A i \in DOMAIN Flush(q) : Flush(q)[i].kind # "done"
    BY <1>1, OneEvent, EmptyStream DEF Flush
  <2>3. /\ phase[q] = "running" /\ Send(q, Flush(q))
        /\ phase' = [phase EXCEPT ![q] = "running"]
    BY <1>1, <1>5 DEF NextStatement, Running
  <2> QED BY <2>2, <2>3, UnrunFacts
<1>6. ASSUME NEW q \in Queries, SeeCancel(q) PROVE \A x \in Queries : QuietFor(x)
  <2>1. phase[q] = "running" /\ phase' = [phase EXCEPT ![q] = "over"] /\ UNCHANGED stream
    BY <1>6 DEF SeeCancel, Goto
  <2>2. \A x \in Queries : phase'[x] = IF x = q THEN "over" ELSE phase[x]
    BY <1>1, <2>1
  <2> QED BY <2>1, <2>2 DEF QuietFor, Ran, Ended
<1>7. ASSUME NEW q \in Queries, DescribeGivesUp(q) \/ Described(q) PROVE \A x \in Queries : QuietFor(x)
  <2> DEFINE t == <<Event("columns", stmt[q]), Event("done", 0)>>
  <2>1. /\ t \in Seq(Events) /\ DOMAIN t = {1, 2} /\ t[2].kind = "done"
    <3>1. Event("columns", stmt[q]) \in Events /\ Event("done", 0) \in Events
          /\ Event("done", 0).kind = "done"
      BY <1>1 DEF Event, Events
    <3> QED BY <3>1
  <2>2. /\ phase[q] \in {"describing", "preparing"} /\ Send(q, t)
        /\ phase' = [phase EXCEPT ![q] = "over"]
    BY <1>7 DEF DescribeGivesUp, Described, Report, Goto
  <2> HIDE DEF t
  <2>3. /\ \A x \in Queries \ {q} : stream'[x] = stream[x] /\ phase'[x] = phase[x]
        /\ \A kind : Ended(q, kind) => Ended(q, kind)'
        /\ Ended(q, "done")' /\ phase'[q] = "over"
    BY <1>1, <2>1, <2>2, SendFacts
  <2>4. \A x \in Queries \ {q} : QuietFor(x)
    BY <2>3 DEF QuietFor, Ran, Ended
  <2>5. QuietFor(q)
    BY <2>2, <2>3 DEF QuietFor, Ran
  <2> QED BY <2>4, <2>5
<1>8. ASSUME NEW q \in Queries, End(q) PROVE \A x \in Queries : QuietFor(x)
  <2>1. phase[q] = "running" /\ \E p \in {"over", "describing"} : phase' = [phase EXCEPT ![q] = p]
    BY <1>8 DEF End, Running, Goto
  <2>2. \E t \in Seq(Events) : Send(q, t)
    <3>1. CASE HasColumns(q)
      <4>1. Flush(q) \in Seq(Events) /\ <<Event("done", 0)>> \in Seq(Events)
        BY <1>1, OneEvent, EmptyStream DEF Flush
      <4>2. Flush(q) \o <<Event("done", 0)>> \in Seq(Events)
        BY <4>1, Joined
      <4> QED BY <1>8, <3>1, <4>2 DEF End
    <3>2. CASE ~ HasColumns(q)
      <4>1. stream' = stream /\ stream[q] \o <<>> = stream[q]
        BY <1>1, <1>8, <3>2, ConcatEmptySeq DEF End
      <4>2. Send(q, <<>>)
        BY <1>1, <4>1 DEF Send
      <4> QED BY <4>2, EmptyStream
    <3> QED BY <3>1, <3>2
  <2>3. /\ \A x \in Queries \ {q} : stream'[x] = stream[x] /\ phase'[x] = phase[x]
        /\ \A kind : Ended(q, kind) => Ended(q, kind)'
        /\ phase'[q] \in {"over", "describing"}
    BY <1>1, <2>1, <2>2, SendFacts
  <2>4. \A x \in Queries \ {q} : QuietFor(x)
    BY <2>3 DEF QuietFor, Ran, Ended
  <2>5. QuietFor(q)
    BY <1>8, <2>1, <2>3 DEF QuietFor, Ran
  <2> QED BY <2>4, <2>5
<1>9. ASSUME NEW c \in Conns, KillLands(c) PROVE \A x \in Queries : QuietFor(x)
  <2>1. CASE UNCHANGED <<phase, stream>>
    BY <2>1, SameTasks
  <2>2. CASE \E q \in Queries : Running(q) /\ Goto(q, "over") /\ Send(q, <<Event("err", 0)>>)
    <3>1. PICK q \in Queries : Running(q) /\ Goto(q, "over") /\ Send(q, <<Event("err", 0)>>)
      BY <2>2
    <3>2. phase[q] = "running" /\ phase' = [phase EXCEPT ![q] = "over"]
      BY <3>1 DEF Running, Goto
    <3> QED BY <1>2, <3>1, <3>2, UnrunFacts
  <2> QED BY <1>9, <2>1, <2>2 DEF KillLands
<1>10. ASSUME \/ \E q \in Queries : Cancel(q)
              \/ \E c \in Conns : GiveBack(c) \/ CloseIdle(c)
              \/ Close
       PROVE  \A x \in Queries : QuietFor(x)
  <2>1. UNCHANGED <<phase, stream>>
    BY <1>10 DEF Cancel, GiveBack, CloseIdle, Close, taskVars
  <2> QED BY <2>1, SameTasks
<1>11. ASSUME NEW q \in Queries, Describe(q) PROVE \A x \in Queries : QuietFor(x)
  <2>1. phase[q] = "describing" /\ phase' = [phase EXCEPT ![q] = "preparing"] /\ UNCHANGED stream
    BY <1>11 DEF Describe, Goto
  <2>2. \A x \in Queries : phase'[x] = IF x = q THEN "preparing" ELSE phase[x]
    BY <1>1, <2>1
  <2> QED BY <2>1, <2>2 DEF QuietFor, Ran, Ended
<1> QED BY <1>3, <1>4, <1>5, <1>6, <1>7, <1>8, <1>9, <1>10, <1>11 DEF QuietStep

\* What running a query does to the database, by what the query is.
LEMMA EffectFacts ==
  ASSUME BatchTypes, OneConnection, NEW q \in Queries, Effect(q, Sole)
  PROVE  /\ pending' \in [Conns -> SUBSET Queries]
         /\ Kind[q] = "begin" =>
              committed' = committed /\ pending' = pending /\ inTx' = inTx \cup {Sole}
         /\ Kind[q] = "select" => UNCHANGED dataVars
         /\ Kind[q] = "write" =>
              /\ inTx' = inTx
              /\ IF Sole \in inTx THEN /\ committed' = committed
                                       /\ pending'[Sole] = pending[Sole] \cup {q}
                                  ELSE /\ committed' = committed \cup {q}
                                       /\ pending' = pending
         /\ Kind[q] = "commit" => committed' = committed \cup pending[Sole]
         /\ Kind[q] = "rollback" => committed' = committed
<1>1. Sole \in Conns /\ pending \in [Conns -> SUBSET Queries]
  BY SoleFacts DEF BatchTypes
<1>2. pending' \in [Conns -> SUBSET Queries]
  <2>1. \E w \in SUBSET Queries : pending' = [pending EXCEPT ![Sole] = w]
    <3>1. pending[Sole] \in SUBSET Queries /\ pending[Sole] \cup {q} \in SUBSET Queries
          /\ {} \in SUBSET Queries
      BY <1>1
    <3> QED BY <3>1 DEF Effect
  <2> QED BY <1>1, <2>1
<1>3. CASE Kind[q] = "begin"
  <2>1. MakesDurable(q, Sole) = {} /\ pending' = [pending EXCEPT ![Sole] = @]
        /\ inTx' = inTx \cup {Sole}
    BY <1>3 DEF Effect, MakesDurable
  <2> QED BY <1>1, <1>2, <1>3, <2>1 DEF Effect
<1>4. CASE Kind[q] = "select"
  <2>1. MakesDurable(q, Sole) = {} /\ pending' = [pending EXCEPT ![Sole] = @]
        /\ inTx' = inTx
    BY <1>4 DEF Effect, MakesDurable
  <2> QED BY <1>1, <1>2, <1>4, <2>1 DEF Effect, dataVars
<1>5. CASE Kind[q] = "write" /\ Sole \in inTx
  <2>1. MakesDurable(q, Sole) = {} /\ pending' = [pending EXCEPT ![Sole] = @ \cup {q}]
        /\ inTx' = inTx
    BY <1>5 DEF Effect, MakesDurable
  <2> QED BY <1>1, <1>2, <1>5, <2>1 DEF Effect
<1>6. CASE Kind[q] = "write" /\ Sole \notin inTx
  <2>1. MakesDurable(q, Sole) = {q} /\ pending' = [pending EXCEPT ![Sole] = @]
        /\ inTx' = inTx
    BY <1>6 DEF Effect, MakesDurable
  <2> QED BY <1>1, <1>2, <1>6, <2>1 DEF Effect
<1>7. CASE Kind[q] = "commit"
  <2>1. MakesDurable(q, Sole) = pending[Sole]
    BY <1>7 DEF MakesDurable
  <2> QED BY <1>2, <1>7, <2>1 DEF Effect
<1>8. CASE Kind[q] = "rollback"
  <2>1. MakesDurable(q, Sole) = {}
    BY <1>8 DEF MakesDurable
  <2> QED BY <1>2, <1>8, <2>1 DEF Effect
<1>9. CASE Kind[q] \notin Kinds
  BY <1>2, <1>9 DEF Kinds
<1> QED BY <1>3, <1>4, <1>5, <1>6, <1>7, <1>8, <1>9 DEF Kinds

\* The statement of the script that is running is the awaited one: those before
\* it have completed, those after it have not been made, and nothing failed.
LEMMA Awaited ==
  ASSUME BatchIsPlain, StreamInv, BatchTypes, Order,
         NEW i \in DOMAIN Script, phase[Script[i]] = "running"
  PROVE  /\ at = i /\ outcome = "none" /\ phase[RollbackQuery] = "new"
         /\ \A j \in DOMAIN Script : /\ j < i => Ended(Script[j], "done")
                                     /\ j > i => phase[Script[j]] = "new"
<1>1. /\ Script[i] \in Queries /\ CommitQuery \in Queries
      /\ Len(Statements) \in Nat /\ DOMAIN Script = 1..Len(Statements) + 2
      /\ Len(Script) = Len(Statements) + 2 /\ Script[Len(Statements) + 2] = CommitQuery
  BY ScriptFacts DEF BatchIsPlain
<1>2. ~ Ended(Script[i], "done") /\ ~ Ended(Script[i], "err")
  BY <1>1, EndedFacts
<1>3. at = i
  <2>1. at \in Int /\ i \in Int
    BY <1>1 DEF BatchTypes
  <2>2. ~ i > at /\ ~ i < at
    BY <1>2 DEF Order, Calls, Verdict
  <2> QED BY <2>1, <2>2
<1>4. outcome \notin {"rolling_back", "failed"}
  BY <1>2, <1>3 DEF Order, Calls, Verdict
<1>5. outcome # "ok"
  BY <1>1, <1>2, <1>3 DEF Order, Calls, Verdict
<1>6. outcome = "none"
  BY <1>4, <1>5 DEF BatchTypes
<1> QED BY <1>3, <1>6 DEF Order, Calls, Verdict

\* A query that ends has run on the connection it holds.
LEMMA EndRuns ==
  ASSUME BatchInv, OneConnection, NEW q \in Queries, End(q)
  PROVE  /\ phase[q] = "running" /\ q \notin cancelled /\ holder[Sole] = q
         /\ Effect(q, Sole) /\ Ran(q)'
<1>1. phase \in [Queries -> Phases]
  BY DEF BatchInv, StreamInv, StreamTypes
<1>2. phase[q] = "running" /\ q \notin cancelled /\ holder[Sole] = q
  BY DEF End, Running, BatchInv, Whole
<1>3. Effect(q, Sole)
  BY SoleFacts DEF End, Held
<1>4. Ran(q)'
  <2>1. CASE HasColumns(q)
    <3>1. Flush(q) \in Seq(Events) /\ <<Event("done", 0)>> \in Seq(Events)
          /\ DOMAIN <<Event("done", 0)>> = {1} /\ <<Event("done", 0)>>[1].kind = "done"
      <4>1. stmt[q] \in Nat
        BY DEF BatchInv, StreamInv, StreamTypes
      <4> QED BY <4>1, OneEvent, EmptyStream DEF Flush
    <3> DEFINE f == Flush(q)
               d == <<Event("done", 0)>>
    <3>2. /\ f \o d \in Seq(Events) /\ Len(f) \in Nat /\ Len(d) = 1
          /\ DOMAIN (f \o d) = 1..Len(f) + Len(d)
          /\ \A i \in 1..Len(f) + Len(d) :
               (f \o d)[i] = IF i <= Len(f) THEN f[i] ELSE d[i - Len(f)]
      BY <3>1, Joined
    <3>3. Send(q, f \o d)
      BY <2>1 DEF End
    <3> HIDE DEF f, d
    <3>4. (f \o d)[Len(f) + 1] = d[1] /\ Len(f) + 1 \in DOMAIN (f \o d)
      <4>1. PICK k \in 1..Len(f) + Len(d) : k = Len(f) + 1
        BY <3>2
      <4>2. ~ k <= Len(f) /\ k - Len(f) = 1
        BY <3>2, <4>1
      <4> QED BY <3>2, <4>1, <4>2
    <3>5. Ended(q, "done")'
      <4>1. d[1].kind = "done"
        BY <3>1 DEF d
      <4>2. \E i \in DOMAIN (f \o d) : (f \o d)[i].kind = "done"
        BY <3>4, <4>1
      <4> QED BY <3>2, <3>3, <4>2, SendFacts DEF BatchInv
    <3> QED BY <3>5 DEF Ran
  <2>2. CASE ~ HasColumns(q)
    BY <1>1, <2>2 DEF End, Goto, Ran
  <2> QED BY <2>1, <2>2
<1> QED BY <1>2, <1>3, <1>4

\* A step that makes no call leaves the script in order.
LEMMA OrderKept ==
  ASSUME BatchIsPlain, BatchTypes, Order, UNCHANGED <<at, outcome>>,
         BatchQueries \cap cancelled' = {},
         \A x \in Queries : /\ phase'[x] = "new" <=> phase[x] = "new"
                            /\ \A kind : Ended(x, kind) => Ended(x, kind)'
  PROVE  Order'
<1>1. /\ RollbackQuery \in Queries /\ CommitQuery \in Queries
      /\ \A i \in DOMAIN Script : Script[i] \in Queries
  BY ScriptFacts DEF BatchIsPlain
<1>2. \A x \in Queries : (\E i \in DOMAIN stream[x] : stream[x][i].kind = "err") =>
                           \E i \in DOMAIN stream'[x] : stream'[x][i].kind = "err"
  BY DEF Ended
<1>3. \A i \in DOMAIN Script : /\ i > at' => phase'[Script[i]] = "new"
                               /\ i < at' => Ended(Script[i], "done")'
  BY <1>1 DEF Order, Calls, Verdict
<1>4. phase'[RollbackQuery] # "new" => outcome' \in {"rolling_back", "failed"}
  BY <1>1 DEF Order, Calls, Verdict
<1>5. outcome' = "rolling_back" => at' \in 2..Len(Script) - 1
  BY DEF Order, Calls, Verdict
<1>6. outcome' \in {"rolling_back", "failed"} =>
        /\ at' \in DOMAIN Script
        /\ \E i \in DOMAIN stream'[Script[at']] : stream'[Script[at']][i].kind = "err"
  <2>1. SUFFICES ASSUME outcome \in {"rolling_back", "failed"}
                 PROVE  /\ at \in DOMAIN Script
                        /\ \E i \in DOMAIN stream'[Script[at]] :
                             stream'[Script[at]][i].kind = "err"
    OBVIOUS
  <2>2. at \in DOMAIN Script /\ Ended(Script[at], "err")
    BY <2>1 DEF Order, Calls, Verdict
  <2>3. PICK x \in Queries : x = Script[at]
    BY <1>1, <2>2
  <2>4. \E i \in DOMAIN stream[x] : stream[x][i].kind = "err"
    BY <2>2, <2>3 DEF Ended
  <2>5. \E i \in DOMAIN stream'[x] : stream'[x][i].kind = "err"
    BY <1>2, <2>4
  <2> QED BY <2>2, <2>3, <2>5
<1>7. outcome' = "ok" => at' = Len(Script) /\ Ended(CommitQuery, "done")'
  BY <1>1 DEF Order, Calls, Verdict
<1>8. outcome' \in {"rolling_back", "failed"} =>
        at' \in DOMAIN Script /\ Ended(Script[at], "err")'
  BY <1>6 DEF Ended
<1>9. Calls'
  BY <1>3, <1>4 DEF Calls
<1>10. Verdict'
  BY <1>5, <1>7, <1>8 DEF Verdict
<1> QED BY <1>9, <1>10 DEF Order

\* The connection in a quiet step: a running query keeps it.
LEMMA QuietPool ==
  ASSUME BatchInv, OneConnection, QuietStep
  PROVE  /\ holder' \in [Conns -> Queries \cup {Nobody}] /\ open' \subseteq Conns
         /\ \A q \in Queries : phase'[q] = "running" => holder'[Sole] = q
         /\ closed => closed'
<1>1. /\ holder \in [Conns -> Queries \cup {Nobody}] /\ open \subseteq Conns
      /\ \A q \in Queries : phase[q] = "running" => holder[Sole] = q
      /\ Sole \in Conns /\ Conns = {Sole}
  BY SoleFacts DEF BatchInv, BatchTypes, Whole
<1>2. \A q \in Queries : phase'[q] = "running" => phase[q] = "running"
  BY QuietFacts DEF BatchInv, QuietFor
<1>3. ASSUME NEW q \in Queries,
             \/ AcquireFails(q) \/ Row(q) \/ NextStatement(q) \/ End(q)
             \/ DescribeGivesUp(q) \/ Described(q)
             \/ Fail(q) \/ SeeCancel(q) \/ Cancel(q)
      PROVE  UNCHANGED <<holder, open, closed>>
  BY <1>3 DEF AcquireFails, Row, NextStatement, End, DescribeGivesUp, Described, Report, Fail,
              SeeCancel, Cancel, poolVars
<1>4. ASSUME NEW q \in Queries, Describe(q)
      PROVE  /\ holder' \in [Conns -> Queries \cup {Nobody}] /\ UNCHANGED closed
             /\ open' \subseteq Conns /\ \A x \in Queries : phase[x] # "running"
  <2>1. PICK c \in Acquirable : /\ holder' = [holder EXCEPT ![c] = q]
                                /\ open' = open \cup {c}
    BY <1>4 DEF Describe
  <2>2. c \in Conns /\ holder[Sole] = Nobody
    BY <1>1, <2>1 DEF Acquirable, Free
  <2>3. \A x \in Queries : phase[x] # "running"
    BY <1>1, <2>2, DriverAssumption
  <2> QED BY <1>1, <1>4, <2>1, <2>2, <2>3 DEF Describe
<1>5. ASSUME NEW c \in Conns, KillLands(c)
      PROVE  UNCHANGED <<holder, open, closed>>
  BY <1>5 DEF KillLands
<1>6. ASSUME NEW c \in Conns, CloseIdle(c)
      PROVE  UNCHANGED <<holder, closed>> /\ open' \subseteq Conns
  BY <1>1, <1>6 DEF CloseIdle
<1>7. ASSUME Close
      PROVE  UNCHANGED <<holder, open>> /\ closed'
  BY <1>7 DEF Close
<1>8. ASSUME NEW c \in Conns, GiveBack(c)
      PROVE  /\ holder' \in [Conns -> Queries \cup {Nobody}] /\ UNCHANGED <<open, closed>>
             /\ \A q \in Queries : phase[q] # "running"
  <2>1. PICK x \in Queries : holder[Sole] = x /\ phase[x] \in {"over", "describing"}
    BY <1>1, <1>8 DEF GiveBack
  <2> QED BY <1>1, <1>8, <2>1 DEF GiveBack
<1>9. CASE (\E c \in Conns : GiveBack(c)) \/ \E q \in Queries : Describe(q)
  BY <1>1, <1>2, <1>4, <1>8, <1>9
<1>10. CASE ~ ((\E c \in Conns : GiveBack(c)) \/ \E q \in Queries : Describe(q))
  <2>1. UNCHANGED holder /\ open' \subseteq Conns /\ (closed => closed')
    BY <1>1, <1>3, <1>5, <1>6, <1>7, <1>10 DEF QuietStep
  <2> QED BY <1>1, <1>2, <2>1
<1> QED BY <1>9, <1>10

\* The database in a quiet step: it stays, or the query that is running has
\* run, or the idle connection of a closed pool is dropped.
LEMMA QuietData ==
  ASSUME BatchInv, OneConnection, QuietStep
  PROVE  \/ UNCHANGED dataVars
         \/ \E x \in Queries : /\ phase[x] = "running" /\ (x \notin cancelled => End(x))
                               /\ Effect(x, Sole)
         \/ /\ closed /\ holder[Sole] = Nobody
            /\ UNCHANGED <<phase, committed>>
            /\ pending' \in [Conns -> SUBSET Queries]
<1>1. /\ pending \in [Conns -> SUBSET Queries]
      /\ Sole \in Conns /\ Conns = {Sole}
  BY SoleFacts DEF BatchInv, BatchTypes
<1>2. ASSUME NEW q \in Queries,
             \/ AcquireFails(q) \/ Row(q) \/ NextStatement(q) \/ Describe(q)
             \/ DescribeGivesUp(q) \/ Described(q) \/ Fail(q) \/ Cancel(q)
      PROVE  UNCHANGED dataVars
  BY <1>2 DEF AcquireFails, Row, NextStatement, Describe, DescribeGivesUp, Described, Report,
              Fail, Cancel
<1>3. ASSUME NEW q \in Queries, End(q)
      PROVE  phase[q] = "running" /\ Effect(q, Sole)
  BY <1>3, EndRuns
<1>4. ASSUME NEW q \in Queries, SeeCancel(q)
      PROVE  \/ UNCHANGED dataVars
             \/ phase[q] = "running" /\ q \in cancelled /\ Effect(q, Sole)
  BY <1>1, <1>4 DEF SeeCancel, Held
<1>5. ASSUME NEW c \in Conns, KillLands(c) \/ GiveBack(c)
      PROVE  UNCHANGED dataVars
  BY <1>5 DEF KillLands, GiveBack
<1>6. ASSUME NEW c \in Conns, CloseIdle(c)
      PROVE  /\ closed /\ holder[Sole] = Nobody
             /\ UNCHANGED <<phase, committed>>
             /\ pending' \in [Conns -> SUBSET Queries]
  <2>1. {} \in SUBSET Queries
    OBVIOUS
  <2> QED BY <1>1, <1>6, <2>1 DEF CloseIdle, Free, taskVars
<1>7. ASSUME Close
      PROVE  UNCHANGED dataVars
  BY <1>7 DEF Close
<1> QED BY <1>2, <1>3, <1>4, <1>5, <1>6, <1>7 DEF QuietStep

\* Steps in which the server runs none of the batch's calls.
LEMMA StillWhole ==
  ASSUME BatchIsPlain, Whole,
         \A q \in Queries : phase'[q] = "running" => holder'[Sole] = q,
         \A q \in BatchQueries : Ran(q)' <=> Ran(q),
         BatchWrites \cap committed' = BatchWrites \cap committed,
         phase'[RollbackQuery] = "new" => phase[RollbackQuery] = "new",
         ~ Cut' => ~ Cut /\ (Sole \in inTx => Sole \in inTx')
                         /\ pending[Sole] \subseteq pending'[Sole]
  PROVE  Whole'
<1>1. CommitQuery \in BatchQueries /\ BeginQuery \in BatchQueries
      /\ BatchWrites \subseteq BatchQueries
  BY DEF BatchQueries
<1>2. (Ran(CommitQuery)' <=> Ran(CommitQuery)) /\ (Ran(BeginQuery)' <=> Ran(BeginQuery))
  BY <1>1
<1>3. CASE Ran(CommitQuery)
  <2>1. Ran(CommitQuery)' /\ BatchWrites \subseteq committed'
    BY <1>2, <1>3 DEF Whole
  <2> QED BY <2>1 DEF Whole
<1>4. CASE ~ Ran(CommitQuery)
  <2>1. ~ Ran(CommitQuery)' /\ BatchWrites \cap committed' = {}
    BY <1>2, <1>4 DEF Whole
  <2>2. ASSUME Ran(BeginQuery)', phase'[RollbackQuery] = "new", ~ Cut'
        PROVE  Sole \in inTx' /\ \A q \in BatchWrites : Ran(q)' => q \in pending'[Sole]
    <3>1. Sole \in inTx /\ \A q \in BatchWrites : Ran(q) => q \in pending[Sole]
      BY <1>2, <1>4, <2>2 DEF Whole
    <3> QED BY <1>1, <2>2, <3>1
  <2> QED BY <2>1, <2>2 DEF Whole
<1> QED BY <1>3, <1>4

\* A call of the batch that the server has run.
LEMMA BatchRuns ==
  ASSUME BatchIsPlain, OneConnection, BatchInv, QuietStep, NEW x \in BatchQueries, End(x)
  PROVE  Whole'
<1> DEFINE n == Len(Statements)
<1>1. /\ BatchQueries \subseteq Queries /\ x \in Queries /\ BatchWrites \subseteq BatchQueries
      /\ {BeginQuery, CommitQuery, RollbackQuery} \subseteq BatchQueries
  BY ScriptFacts DEF BatchIsPlain, BatchQueries
<1>2. /\ Kind[BeginQuery] = "begin" /\ Kind[CommitQuery] = "commit"
      /\ Kind[RollbackQuery] = "rollback" /\ \A q \in BatchWrites : Kind[q] = "write"
  BY DEF BatchIsPlain
<1>3. /\ phase[x] = "running" /\ holder[Sole] = x /\ Effect(x, Sole) /\ Ran(x)'
  BY <1>1, EndRuns
<1>4. \A q \in Queries : phase[q] = "running" \/ phase[q] = "new" => ~ Ran(q)
  BY EndedFacts DEF BatchInv, Ran
<1>5. \A q \in Queries \ {x} : Ran(q)' <=> Ran(q)
  <2>1. \A q \in Queries \ {x} : ~ End(q)
    BY <1>3, EndRuns
  <2> QED BY <2>1, QuietFacts DEF BatchInv, QuietFor
<1>6. /\ \A q \in Queries : phase'[q] = "running" => holder'[Sole] = q
      /\ phase'[RollbackQuery] = "new" => phase[RollbackQuery] = "new"
  BY <1>1, QuietPool, QuietFacts DEF BatchInv, QuietFor
<1>7. ~ Cut
  BY <1>3 DEF Cut
<1>8. /\ n \in Nat /\ DOMAIN Script = 1..n + 2
      /\ Script[1] = BeginQuery /\ Script[n + 2] = CommitQuery
      /\ (\A i \in DOMAIN Script : Script[i] \in Queries)
      /\ \A q \in BatchWrites : \E i \in 2..n + 1 : Script[i] = q
  BY ScriptFacts
<1>9. \A i \in DOMAIN Script : x = Script[i] =>
        /\ phase[RollbackQuery] = "new"
        /\ \A j \in DOMAIN Script : /\ j < i => Ran(Script[j])
                                    /\ j > i => ~ Ran(Script[j])
  BY <1>1, <1>3, <1>4, <1>8, Awaited DEF BatchInv, Ran
<1> HIDE DEF n
<1>10. CASE x = BeginQuery
  <2>1. ~ Ran(CommitQuery) /\ \A q \in BatchWrites : ~ Ran(q)
    <3>1. 1 \in DOMAIN Script /\ n + 2 \in DOMAIN Script /\ n + 2 > 1
      BY <1>8
    <3>2. \A i \in 2..n + 1 : i \in DOMAIN Script /\ i > 1
      BY <1>8
    <3>3. \A j \in DOMAIN Script : j > 1 => ~ Ran(Script[j])
      BY <1>8, <1>9, <1>10, <3>1
    <3>4. ~ Ran(CommitQuery)
      BY <1>8, <3>1, <3>3
    <3>5. \A q \in BatchWrites : ~ Ran(q)
      BY <1>8, <3>2, <3>3
    <3> QED BY <3>4, <3>5
  <2>2. CommitQuery \in Queries \ {x} /\ BatchWrites \subseteq Queries \ {x}
    BY <1>1, <1>2, <1>10
  <2>3. ~ Ran(CommitQuery)' /\ \A q \in BatchWrites : ~ Ran(q)'
    BY <1>5, <2>1, <2>2
  <2>4. Sole \in inTx' /\ committed' = committed
    BY <1>1, <1>2, <1>3, <1>10, EffectFacts DEF BatchInv
  <2>5. BatchWrites \cap committed' = {}
    BY <2>1, <2>4 DEF BatchInv, Whole
  <2> QED BY <1>6, <2>3, <2>4, <2>5 DEF Whole
<1>11. CASE x \in BatchWrites
  <2>1. /\ ~ Ran(CommitQuery) /\ Ran(BeginQuery) /\ phase[RollbackQuery] = "new"
    <3>1. PICK i \in 2..n + 1 : Script[i] = x
      BY <1>8, <1>11
    <3>2. /\ i \in DOMAIN Script /\ 1 \in DOMAIN Script /\ n + 2 \in DOMAIN Script
          /\ 1 < i /\ n + 2 > i
      BY <1>8, <3>1
    <3>3. phase[RollbackQuery] = "new"
      BY <1>9, <3>1, <3>2
    <3>4. Ran(BeginQuery)
      BY <1>8, <1>9, <3>1, <3>2
    <3>5. ~ Ran(CommitQuery)
      BY <1>8, <1>9, <3>1, <3>2
    <3> QED BY <3>3, <3>4, <3>5
  <2>2. /\ Sole \in inTx /\ BatchWrites \cap committed = {}
        /\ \A q \in BatchWrites : Ran(q) => q \in pending[Sole]
    BY <1>7, <2>1 DEF BatchInv, Whole
  <2>3. inTx' = inTx /\ committed' = committed /\ pending'[Sole] = pending[Sole] \cup {x}
    BY <1>1, <1>2, <1>3, <1>11, <2>2, EffectFacts DEF BatchInv
  <2>4. CommitQuery \in Queries \ {x}
    BY <1>1, <1>2, <1>11
  <2>5. ~ Ran(CommitQuery)'
    BY <1>5, <2>1, <2>4
  <2>6. \A q \in BatchWrites : Ran(q)' => q \in pending'[Sole]
    BY <1>1, <1>5, <2>2, <2>3
  <2> QED BY <1>6, <2>2, <2>3, <2>5, <2>6 DEF Whole
<1>12. CASE x = CommitQuery
  <2>1. /\ phase[RollbackQuery] = "new" /\ Ran(BeginQuery) /\ \A q \in BatchWrites : Ran(q)
    <3>1. /\ 1 \in DOMAIN Script /\ n + 2 \in DOMAIN Script /\ 1 < n + 2
          /\ \A i \in 2..n + 1 : i \in DOMAIN Script /\ i < n + 2
      BY <1>8
    <3>2. /\ phase[RollbackQuery] = "new"
          /\ \A j \in DOMAIN Script : j < n + 2 => Ran(Script[j])
      BY <1>8, <1>9, <1>12, <3>1
    <3>3. Ran(BeginQuery)
      BY <1>8, <3>1, <3>2
    <3>4. \A q \in BatchWrites : Ran(q)
      BY <1>8, <3>1, <3>2
    <3> QED BY <3>2, <3>3, <3>4
  <2>2. BatchWrites \subseteq pending[Sole]
    <3>1. ~ Ran(CommitQuery)
      BY <1>1, <1>3, <1>4, <1>12
    <3> QED BY <1>7, <2>1, <3>1 DEF BatchInv, Whole
  <2>3. committed' = committed \cup pending[Sole]
    BY <1>1, <1>2, <1>3, <1>12, EffectFacts DEF BatchInv
  <2>4. BatchWrites \subseteq committed'
    BY <2>2, <2>3
  <2> QED BY <1>3, <1>6, <1>12, <2>4 DEF Whole
<1>13. CASE x = RollbackQuery
  <2>1. phase'[RollbackQuery] # "new"
    BY <1>3, <1>6, <1>13
  <2>2. CommitQuery \in Queries \ {x}
    BY <1>1, <1>2, <1>13
  <2>3. Ran(CommitQuery)' <=> Ran(CommitQuery)
    BY <1>5, <2>2
  <2>4. committed' = committed
    BY <1>1, <1>2, <1>3, <1>13, EffectFacts DEF BatchInv
  <2>5. IF Ran(CommitQuery)' THEN BatchWrites \subseteq committed'
                             ELSE BatchWrites \cap committed' = {}
    <3>1. CASE Ran(CommitQuery)
      BY <2>3, <2>4, <3>1 DEF BatchInv, Whole
    <3>2. CASE ~ Ran(CommitQuery)
      BY <2>3, <2>4, <3>2 DEF BatchInv, Whole
    <3> QED BY <3>1, <3>2
  <2> QED BY <1>6, <2>1, <2>5 DEF Whole
<1> QED BY <1>10, <1>11, <1>12, <1>13 DEF BatchQueries

\* Every quiet step keeps the batch whole.
LEMMA QuietWhole ==
  ASSUME BatchIsPlain, OneConnection, BatchInv, QuietStep
  PROVE  Whole' /\ pending' \in [Conns -> SUBSET Queries]
<1>1. BatchQueries \subseteq Queries /\ RollbackQuery \in Queries
      /\ BatchQueries \cap cancelled = {} /\ pending \in [Conns -> SUBSET Queries]
      /\ BatchWrites \subseteq BatchQueries
  BY ScriptFacts DEF BatchIsPlain, BatchQueries, BatchInv, BatchTypes, Order, Calls
<1>2. /\ \A q \in Queries : phase'[q] = "running" => holder'[Sole] = q
      /\ phase'[RollbackQuery] = "new" => phase[RollbackQuery] = "new"
      /\ closed => closed'
      /\ \A q \in Queries : phase'[q] = "running" => phase[q] = "running"
  BY <1>1, QuietPool, QuietFacts DEF BatchInv, QuietFor
<1>3. pending' \in [Conns -> SUBSET Queries]
  BY <1>1, QuietData, EffectFacts DEF BatchInv, dataVars
<1>4. ~ Cut' => ~ Cut
  BY <1>1, <1>2 DEF Cut
<1>5. CASE \E x \in BatchQueries : End(x)
  BY <1>3, <1>5, BatchRuns
<1>6. CASE ~ \E x \in BatchQueries : End(x)
  <2>1. \A q \in BatchQueries : Ran(q)' <=> Ran(q)
    BY <1>1, <1>6, QuietFacts DEF BatchInv, QuietFor
  <2>2. CASE UNCHANGED dataVars
    <3>1. UNCHANGED <<committed, inTx, pending>>
      BY <2>2 DEF dataVars
    <3> QED BY <1>2, <1>3, <1>4, <2>1, <3>1, StillWhole DEF BatchInv
  <2>3. CASE \E x \in Queries : /\ phase[x] = "running" /\ (x \notin cancelled => End(x))
                                /\ Effect(x, Sole)
    <3>1. PICK x \in Queries : /\ phase[x] = "running" /\ (x \notin cancelled => End(x))
                               /\ Effect(x, Sole)
      BY <2>3
    <3>2. x \notin BatchQueries
      BY <1>1, <1>6, <3>1
    <3>3. Kind[x] \in {"select", "write"} /\ x \notin BatchWrites
      BY <1>1, <3>2 DEF BatchIsPlain
    <3>4. /\ BatchWrites \cap committed' = BatchWrites \cap committed
          /\ inTx' = inTx /\ pending[Sole] \subseteq pending'[Sole]
      <4>1. CASE Kind[x] = "select"
        <5>1. UNCHANGED <<committed, inTx, pending>>
          BY <3>1, <4>1, EffectFacts DEF BatchInv, dataVars
        <5> QED BY <5>1
      <4>2. CASE Kind[x] = "write" /\ Sole \in inTx
        <5>1. /\ inTx' = inTx /\ committed' = committed
              /\ pending'[Sole] = pending[Sole] \cup {x}
          BY <3>1, <4>2, EffectFacts DEF BatchInv
        <5> QED BY <5>1
      <4>3. CASE Kind[x] = "write" /\ Sole \notin inTx
        <5>1. inTx' = inTx /\ committed' = committed \cup {x} /\ pending' = pending
          BY <3>1, <4>3, EffectFacts DEF BatchInv
        <5> QED BY <3>3, <5>1
      <4> QED BY <3>3, <4>1, <4>2, <4>3
    <3> QED BY <1>2, <1>3, <1>4, <2>1, <3>4, StillWhole DEF BatchInv
  <2>4. CASE /\ closed /\ holder[Sole] = Nobody
             /\ UNCHANGED <<phase, committed>>
    <3>1. \A q \in Queries : phase[q] # "running"
      BY <2>4, DriverAssumption DEF BatchInv, Whole
    <3>2. Cut'
      BY <1>1, <1>2, <2>4, <3>1 DEF Cut
    <3> QED BY <1>2, <1>3, <2>1, <2>4, <3>2, StillWhole DEF BatchInv
  <2> QED BY <2>2, <2>3, <2>4, QuietData
<1> QED BY <1>3, <1>5, <1>6

\* The calls of the batch are queries.
LEMMA PlainFacts ==
  ASSUME BatchIsPlain
  PROVE  /\ BatchQueries \subseteq Queries
         /\ {BeginQuery, CommitQuery, RollbackQuery} \subseteq BatchQueries
BY ScriptFacts DEF BatchIsPlain, BatchQueries

\* A query that is given the connection.
LEMMA AcquireWhole ==
  ASSUME BatchIsPlain, OneConnection, BatchInv, NEW q \in Queries, Acquire(q)
  PROVE  /\ Whole' /\ holder' \in [Conns -> Queries \cup {Nobody}]
         /\ open' \subseteq Conns /\ UNCHANGED <<pending, cancelled>>
         /\ \A x \in Queries : /\ phase'[x] = "new" <=> phase[x] = "new"
                               /\ \A kind : Ended(x, kind) => Ended(x, kind)'
<1>1. /\ holder \in [Conns -> Queries \cup {Nobody}] /\ open \subseteq Conns
      /\ \A x \in Queries : phase[x] = "running" => holder[Sole] = x
      /\ Sole \in Conns /\ Conns = {Sole} /\ phase \in [Queries -> Phases]
      /\ RollbackQuery \in Queries /\ BatchQueries \subseteq Queries
  BY SoleFacts, PlainFacts DEF BatchInv, BatchTypes, Whole, StreamInv, StreamTypes
<1>2. /\ phase[q] = "waiting" /\ phase' = [phase EXCEPT ![q] = "running"]
      /\ stream' = stream /\ ~ closed /\ closed' = closed
      /\ UNCHANGED <<cancelled, dataVars>>
  BY DEF Acquire, Goto
<1>3. /\ holder[Sole] = Nobody /\ holder' = [holder EXCEPT ![Sole] = q]
      /\ open' \subseteq Conns
  <2>1. PICK c \in Acquirable : /\ holder' = [holder EXCEPT ![c] = q]
                                /\ open' = open \cup {c}
    BY DEF Acquire
  <2>2. c = Sole /\ holder[c] = Nobody
    BY <1>1 DEF Acquirable, Free
  <2> QED BY <1>1, <2>1, <2>2
<1>4. holder' \in [Conns -> Queries \cup {Nobody}] /\ holder'[Sole] = q
  BY <1>1, <1>3
<1>5. \A x \in Queries : phase[x] # "running"
  BY <1>1, <1>3, DriverAssumption
<1>6. \A x \in Queries \ {q} : phase'[x] = phase[x]
  BY <1>1, <1>2
<1>7. phase'[q] = "running"
  BY <1>1, <1>2
<1>8. \A x \in Queries : /\ phase'[x] = "new" <=> phase[x] = "new"
                         /\ phase'[x] = "running" => holder'[Sole] = x
                         /\ Ran(x)' <=> Ran(x)
                         /\ \A kind : Ended(x, kind) => Ended(x, kind)'
  <2>1. ASSUME NEW x \in Queries
        PROVE  /\ phase'[x] = "new" <=> phase[x] = "new"
               /\ phase'[x] = "running" => holder'[Sole] = x
               /\ phase'[x] \in {"describing", "preparing"} <=>
                    phase[x] \in {"describing", "preparing"}
    BY <1>2, <1>4, <1>5, <1>6, <1>7
  <2>2. \A x \in Queries : \A kind : Ended(x, kind) => Ended(x, kind)'
    BY <1>2 DEF Ended
  <2>3. \A x \in Queries : Ran(x)' <=> Ran(x)
    BY <1>2, <2>1 DEF Ran, Ended
  <2> QED BY <2>1, <2>2, <2>3
<1>9. UNCHANGED <<committed, inTx, pending>>
  BY <1>2 DEF dataVars
<1>10. ~ Cut
  BY <1>2 DEF Cut
<1>11. Whole'
  BY <1>1, <1>8, <1>9, <1>10, StillWhole DEF BatchInv
<1> QED BY <1>2, <1>3, <1>4, <1>8, <1>9, <1>11

\* A call that is made.
LEMMA StartWhole ==
  ASSUME BatchIsPlain, OneConnection, BatchInv, NEW q \in Queries, StreamQuery(q)
  PROVE  /\ Whole' /\ UNCHANGED <<stream, holder, open, pending, cancelled>>
         /\ phase[q] = "new" /\ \A x \in Queries \ {q} : phase'[x] = phase[x]
<1>1. /\ \A x \in Queries : phase[x] = "running" => holder[Sole] = x
      /\ phase \in [Queries -> Phases]
      /\ RollbackQuery \in Queries /\ BatchQueries \subseteq Queries
  BY PlainFacts DEF BatchInv, Whole, StreamInv, StreamTypes
<1>2. /\ phase[q] = "new" /\ phase' = [phase EXCEPT ![q] = "waiting"]
      /\ UNCHANGED <<stream, cancelled, poolVars, dataVars>>
  BY DEF StreamQuery, Goto
<1>3. UNCHANGED <<stream, cancelled, holder, open, closed, committed, inTx, pending>>
  BY <1>2 DEF poolVars, dataVars
<1>4. phase'[q] = "waiting" /\ \A x \in Queries \ {q} : phase'[x] = phase[x]
  BY <1>1, <1>2
<1>5. \A x \in Queries : /\ phase'[x] = "running" <=> phase[x] = "running"
                         /\ phase'[x] \in {"describing", "preparing"} <=>
                              phase[x] \in {"describing", "preparing"}
                         /\ phase'[x] = "new" => phase[x] = "new"
  BY <1>2, <1>4
<1>6. \A x \in Queries : Ran(x)' <=> Ran(x)
  BY <1>3, <1>5 DEF Ran, Ended
<1>7. Cut' <=> Cut
  BY <1>1, <1>3, <1>5 DEF Cut
<1>8. Whole'
  BY <1>1, <1>3, <1>5, <1>6, <1>7, StillWhole DEF BatchInv
<1> QED BY <1>2, <1>3, <1>4, <1>8

\* Nothing happened.
LEMMA StutterKeeps == BatchInv /\ UNCHANGED vars => BatchInv'
<1>1. SUFFICES ASSUME BatchInv, UNCHANGED vars PROVE BatchInv'
  OBVIOUS
<1>2. UNCHANGED <<phase, stream, stmt, latched, rows, cancelled, holder, open, closed,
                  inTx, pending, committed, at, outcome>>
  BY <1>1 DEF vars, driverVars, taskVars, poolVars, dataVars
<1>3. StreamInv'
  BY <1>1, StreamInvNext DEF BatchInv, vars
<1>4. BatchTypes'
  BY <1>1, <1>2 DEF BatchInv, BatchTypes
<1>5. Calls' /\ Verdict'
  BY <1>1, <1>2 DEF BatchInv, Order, Calls, Verdict, Ended
<1>6. Whole'
  BY <1>1, <1>2 DEF BatchInv, Whole, Ran, Ended, Cut
<1> QED BY <1>3, <1>4, <1>5, <1>6 DEF BatchInv, Order

\* Nothing has been called yet.
LEMMA BatchInit ==
  ASSUME BatchIsPlain, OneConnection, Init
  PROVE  BatchInv
<1>1. /\ phase = [q \in Queries |-> "new"] /\ stream = [q \in Queries |-> <<>>]
      /\ cancelled = {} /\ holder = [c \in Conns |-> Nobody] /\ open = {} /\ closed = FALSE
      /\ pending = [c \in Conns |-> {}] /\ committed = {} /\ at = 0 /\ outcome = "none"
  BY DEF Init, DriverInit
<1>2. StreamInv
  BY StreamInvInit DEF Init
<1>3. /\ BatchQueries \subseteq Queries
      /\ {BeginQuery, CommitQuery, RollbackQuery} \subseteq BatchQueries
      /\ Len(Script) \in Nat /\ DOMAIN Script = 1..Len(Script)
      /\ \A i \in DOMAIN Script : Script[i] \in Queries
  BY PlainFacts, ScriptFacts
<1>4. BatchTypes
  BY <1>1, <1>3 DEF BatchTypes
<1>5. Order
  BY <1>1, <1>3 DEF Order, Calls, Verdict
<1>6. \A q \in Queries : ~ Ran(q)
  <2>1. \A q \in Queries : DOMAIN stream[q] = {} /\ phase[q] = "new"
    BY <1>1
  <2> QED BY <2>1 DEF Ran, Ended
<1>7. Whole
  BY <1>1, <1>3, <1>6 DEF Whole
<1> QED BY <1>2, <1>4, <1>5, <1>7 DEF BatchInv

\* Steps of the driver, with no new call.
LEMMA DriverKeeps ==
  ASSUME BatchIsPlain, OneConnection, BatchInv, UNCHANGED <<at, outcome>>, StreamInv',
         \/ \E q \in Queries : Task(q)
         \/ \E q \in UserQueries : Cancel(q)
         \/ PoolNext
  PROVE  BatchInv'
<1>1. BatchQueries \cap cancelled' = {}
  <2>1. BatchQueries \cap cancelled = {} /\ BatchQueries \cap UserQueries = {}
    BY DEF BatchInv, Order, Calls, BatchIsPlain
  <2>2. CASE \E q \in UserQueries : Cancel(q)
    BY <2>1, <2>2 DEF Cancel
  <2>3. CASE \E q \in Queries : Task(q)
    <3>1. cancelled' = cancelled
      BY <2>3 DEF Task, Asking, Answered, Acquire, AcquireFails, Row, NextStatement, End,
                  Describe, DescribeGivesUp, Described, Report, Fail, Lost, SeeCancel
    <3> QED BY <2>1, <3>1
  <2>4. CASE PoolNext
    <3>1. cancelled' = cancelled
      BY <2>4 DEF PoolNext, KillLands, GiveBack, CloseIdle, Close
    <3> QED BY <2>1, <3>1
  <2> QED BY <2>2, <2>3, <2>4
<1>2. CASE \E q \in Queries : Acquire(q)
  <2>1. PICK q \in Queries : Acquire(q)
    BY <1>2
  <2>2. /\ Whole' /\ holder' \in [Conns -> Queries \cup {Nobody}]
        /\ open' \subseteq Conns /\ UNCHANGED <<pending, cancelled>>
        /\ \A x \in Queries : /\ phase'[x] = "new" <=> phase[x] = "new"
                              /\ \A kind : Ended(x, kind) => Ended(x, kind)'
    BY <2>1, AcquireWhole
  <2>3. BatchTypes'
    BY <2>2 DEF BatchInv, BatchTypes
  <2>4. Order'
    BY <1>1, <2>2, OrderKept DEF BatchInv
  <2> QED BY <2>2, <2>3, <2>4 DEF BatchInv
<1>3. CASE ~ \E q \in Queries : Acquire(q)
  <2>1. QuietStep
    <3>1. \A q \in Queries : ~ Lost(q)
      BY DEF Lost, OneConnection
    <3>2. UserQueries \subseteq Queries
      BY DEF BatchIsPlain
    <3> QED BY <1>3, <3>1, <3>2 DEF Task, Asking, Answered, PoolNext, QuietStep
  <2>2. Whole' /\ pending' \in [Conns -> SUBSET Queries]
    BY <2>1, QuietWhole
  <2>3. BatchTypes'
    BY <2>1, <2>2, QuietPool DEF BatchInv, BatchTypes
  <2>4. Order'
    BY <1>1, <2>1, QuietFacts, OrderKept DEF BatchInv, QuietFor
  <2> QED BY <2>2, <2>3, <2>4 DEF BatchInv
<1> QED BY <1>2, <1>3

\* A query of the user's that is made.
LEMMA UserKeeps ==
  ASSUME BatchIsPlain, OneConnection, BatchInv, UNCHANGED <<at, outcome>>, StreamInv',
         NEW q \in UserQueries, StreamQuery(q)
  PROVE  BatchInv'
<1>1. q \in Queries /\ q \notin BatchQueries /\ BatchQueries \subseteq Queries
      /\ {BeginQuery, CommitQuery, RollbackQuery} \subseteq BatchQueries
      /\ \A i \in DOMAIN Script : Script[i] \in BatchQueries
  BY PlainFacts, ScriptFacts DEF BatchIsPlain
<1>2. /\ Whole' /\ UNCHANGED <<stream, holder, open, pending, cancelled>>
      /\ \A x \in Queries \ {q} : phase'[x] = phase[x]
  BY <1>1, StartWhole
<1>3. BatchTypes'
  BY <1>2 DEF BatchInv, BatchTypes
<1>4. \A x \in BatchQueries : phase'[x] = phase[x]
  BY <1>1, <1>2
<1>5. Calls'
  <2>1. \A i \in DOMAIN Script : /\ i > at' => phase'[Script[i]] = "new"
                                 /\ i < at' => Ended(Script[i], "done")'
    BY <1>1, <1>2, <1>4 DEF BatchInv, Order, Calls, Ended
  <2> QED BY <1>1, <1>2, <1>4, <2>1 DEF BatchInv, Order, Calls
<1>6. Verdict'
  BY <1>2 DEF BatchInv, Order, Verdict, Ended
<1> QED BY <1>2, <1>3, <1>5, <1>6 DEF BatchInv, Order

\* The BEGIN is called.
LEMMA BeginKeeps ==
  ASSUME BatchIsPlain, OneConnection, BatchInv, StreamInv', BeginBatch
  PROVE  BatchInv'
<1> DEFINE n == Len(Statements)
<1>1. /\ n \in Nat /\ Len(Script) = n + 2 /\ DOMAIN Script = 1..n + 2
      /\ Script[1] = BeginQuery /\ BeginQuery \in Queries /\ RollbackQuery \in Queries
      /\ \A i \in DOMAIN Script : /\ Script[i] \in Queries /\ Script[i] # RollbackQuery
                                  /\ i # 1 => Script[i] # BeginQuery
  <2>1. 1 \in DOMAIN Script
    BY ScriptFacts
  <2> QED BY <2>1, PlainFacts, ScriptFacts
<1> HIDE DEF n
<1>2. at = 0 /\ at' = 1 /\ UNCHANGED outcome /\ StreamQuery(BeginQuery)
  BY DEF BeginBatch
<1>3. /\ Whole' /\ UNCHANGED <<stream, holder, open, pending, cancelled>>
      /\ \A x \in Queries \ {BeginQuery} : phase'[x] = phase[x]
  BY <1>1, <1>2, StartWhole
<1>4. outcome = "none"
  <2>1. 0 \notin DOMAIN Script /\ Len(Script) # 0
    BY <1>1
  <2> QED BY <1>2, <2>1 DEF BatchInv, BatchTypes, Order, Verdict
<1>5. BatchTypes'
  BY <1>1, <1>2, <1>3 DEF BatchInv, BatchTypes
<1>6. Calls'
  <2>1. \A i \in DOMAIN Script : i > 1 => phase'[Script[i]] = "new"
    BY <1>1, <1>2, <1>3 DEF BatchInv, Order, Calls
  <2>2. \A i \in DOMAIN Script : ~ i < 1
    BY <1>1
  <2>3. phase'[RollbackQuery] = "new"
    <3>1. 1 \in DOMAIN Script
      BY <1>1
    <3> QED BY <1>1, <1>3, <1>4, <3>1 DEF BatchInv, Order, Calls
  <2>4. BatchQueries \cap cancelled' = {}
    BY <1>3 DEF BatchInv, Order, Calls
  <2> QED BY <1>2, <2>1, <2>2, <2>3, <2>4 DEF Calls
<1>7. Verdict'
  BY <1>2, <1>4 DEF Verdict
<1> QED BY <1>3, <1>5, <1>6, <1>7 DEF BatchInv, Order

\* The awaited call completed: the next one is made, or the batch has succeeded.
LEMMA NextKeeps ==
  ASSUME BatchIsPlain, OneConnection, BatchInv, StreamInv', NextOfBatch
  PROVE  BatchInv'
<1> DEFINE n == Len(Statements)
<1>1. /\ n \in Nat /\ Len(Script) = n + 2 /\ DOMAIN Script = 1..n + 2
      /\ Script[n + 2] = CommitQuery /\ CommitQuery \in Queries /\ RollbackQuery \in Queries
      /\ \A i \in DOMAIN Script : Script[i] \in Queries /\ Script[i] # RollbackQuery
      /\ \A i, j \in DOMAIN Script : i # j => Script[i] # Script[j]
  BY PlainFacts, ScriptFacts
<1> HIDE DEF n
<1>2. at \in 1..n + 2 /\ outcome = "none" /\ Ended(Script[at], "done")
  BY <1>1 DEF NextOfBatch, BatchInv, BatchTypes
<1>3. CASE at = n + 2
  <2>1. outcome' = "ok" /\ UNCHANGED <<at, driverVars>>
    BY <1>1, <1>3 DEF NextOfBatch
  <2>2. UNCHANGED <<phase, stream, cancelled, holder, open, closed, inTx, pending, committed>>
    BY <2>1 DEF driverVars, taskVars, poolVars, dataVars
  <2>3. BatchTypes'
    BY <2>1, <2>2 DEF BatchInv, BatchTypes
  <2>4. Calls'
    BY <1>2, <2>1, <2>2 DEF BatchInv, Order, Calls, Ended
  <2>5. Verdict'
    <3>1. Ended(CommitQuery, "done")
      BY <1>1, <1>2, <1>3
    <3>2. Ended(CommitQuery, "done")'
      BY <2>2, <3>1 DEF Ended
    <3> QED BY <1>1, <1>3, <2>1, <3>2 DEF Verdict
  <2>6. Whole'
    BY <2>2 DEF BatchInv, Whole, Ran, Ended, Cut
  <2> QED BY <2>3, <2>4, <2>5, <2>6 DEF BatchInv, Order
<1>4. CASE at # n + 2
  <2>1. at' = at + 1 /\ StreamQuery(Script[at + 1]) /\ UNCHANGED outcome
    BY <1>1, <1>4 DEF NextOfBatch
  <2>2. at \in DOMAIN Script /\ at + 1 \in DOMAIN Script
    BY <1>1, <1>2, <1>4
  <2>3. PICK q \in Queries : q = Script[at + 1]
    BY <1>1, <2>2
  <2>4. /\ Whole' /\ UNCHANGED <<stream, holder, open, pending, cancelled>>
        /\ \A x \in Queries \ {q} : phase'[x] = phase[x]
    BY <2>1, <2>3, StartWhole
  <2>5. BatchTypes'
    BY <1>1, <2>1, <2>2, <2>4 DEF BatchInv, BatchTypes
  <2>6. Calls'
    <3>1. ASSUME NEW i \in DOMAIN Script, i > at + 1 PROVE phase'[Script[i]] = "new"
      <4>1. Script[i] \in Queries \ {q} /\ i > at
        BY <1>1, <1>2, <2>2, <2>3, <3>1
      <4> QED BY <2>4, <4>1 DEF BatchInv, Order, Calls
    <3>2. ASSUME NEW i \in DOMAIN Script, i < at + 1 PROVE Ended(Script[i], "done")'
      <4>1. i < at \/ i = at
        BY <1>1, <1>2, <3>2
      <4>2. Ended(Script[i], "done")
        BY <1>2, <4>1 DEF BatchInv, Order, Calls
      <4> QED BY <2>4, <4>2 DEF Ended
    <3>3. phase'[RollbackQuery] = "new"
      BY <1>1, <1>2, <2>2, <2>3, <2>4 DEF BatchInv, Order, Calls
    <3>4. BatchQueries \cap cancelled' = {}
      BY <2>4 DEF BatchInv, Order, Calls
    <3> QED BY <2>1, <3>1, <3>2, <3>3, <3>4 DEF Calls
  <2>7. Verdict'
    BY <1>2, <2>1 DEF Verdict
  <2> QED BY <2>4, <2>5, <2>6, <2>7 DEF BatchInv, Order
<1> QED BY <1>3, <1>4

\* The awaited call failed: the batch has, or is rolled back first.
LEMMA FailKeeps ==
  ASSUME BatchIsPlain, OneConnection, BatchInv, StreamInv', BatchFails
  PROVE  BatchInv'
<1> DEFINE n == Len(Statements)
<1>1. /\ n \in Nat /\ Len(Script) = n + 2 /\ DOMAIN Script = 1..n + 2
      /\ RollbackQuery \in Queries
      /\ \A i \in DOMAIN Script : Script[i] \in Queries /\ Script[i] # RollbackQuery
  BY PlainFacts, ScriptFacts
<1> HIDE DEF n
<1>2. at \in 1..n + 2 /\ outcome = "none" /\ Ended(Script[at], "err") /\ at' = at
  BY <1>1 DEF BatchFails, BatchInv, BatchTypes
<1>3. PICK q \in Queries : q = Script[at]
  BY <1>1, <1>2
<1>4. CASE at \in {1, Len(Script)}
  <2>1. outcome' = "failed" /\ UNCHANGED driverVars
    BY <1>4 DEF BatchFails
  <2>2. UNCHANGED <<phase, stream, cancelled, holder, open, closed, inTx, pending, committed>>
    BY <2>1 DEF driverVars, taskVars, poolVars, dataVars
  <2>3. BatchTypes'
    BY <1>2, <2>1, <2>2 DEF BatchInv, BatchTypes
  <2>4. Calls'
    BY <1>2, <2>1, <2>2 DEF BatchInv, Order, Calls, Ended
  <2>5. Verdict'
    <3>1. Ended(Script[at], "err")'
      BY <1>2, <2>2 DEF Ended
    <3> QED BY <1>1, <1>2, <2>1, <3>1 DEF Verdict
  <2>6. Whole'
    BY <2>2 DEF BatchInv, Whole, Ran, Ended, Cut
  <2> QED BY <2>3, <2>4, <2>5, <2>6 DEF BatchInv, Order
<1>5. CASE at \notin {1, Len(Script)}
  <2>1. outcome' = "rolling_back" /\ StreamQuery(RollbackQuery)
    BY <1>5 DEF BatchFails
  <2>2. /\ Whole' /\ UNCHANGED <<stream, holder, open, pending, cancelled>>
        /\ \A x \in Queries \ {RollbackQuery} : phase'[x] = phase[x]
    BY <1>1, <2>1, StartWhole
  <2>3. BatchTypes'
    BY <1>2, <2>1, <2>2 DEF BatchInv, BatchTypes
  <2>4. Calls'
    <3>1. \A i \in DOMAIN Script : phase'[Script[i]] = phase[Script[i]]
      BY <1>1, <2>2
    <3>2. \A i \in DOMAIN Script : /\ i > at => phase'[Script[i]] = "new"
                                   /\ i < at => Ended(Script[i], "done")'
      BY <2>2, <3>1 DEF BatchInv, Order, Calls, Ended
    <3>3. BatchQueries \cap cancelled' = {}
      BY <2>2 DEF BatchInv, Order, Calls
    <3> QED BY <1>2, <2>1, <3>2, <3>3 DEF Calls
  <2>5. Verdict'
    <3>1. at' \in 2..Len(Script) - 1 /\ at' \in DOMAIN Script
      BY <1>1, <1>2, <1>5
    <3>2. Ended(Script[at], "err")'
      BY <1>2, <2>2 DEF Ended
    <3> QED BY <2>1, <3>1, <3>2 DEF Verdict
  <2> QED BY <2>2, <2>3, <2>4, <2>5 DEF BatchInv, Order
<1> QED BY <1>4, <1>5

\* The ROLLBACK ended.
LEMMA RolledBackKeeps ==
  ASSUME BatchIsPlain, OneConnection, BatchInv, StreamInv', RolledBack
  PROVE  BatchInv'
<1>1. outcome = "rolling_back" /\ outcome' = "failed" /\ UNCHANGED <<at, driverVars>>
  BY DEF RolledBack
<1>2. UNCHANGED <<phase, stream, cancelled, holder, open, closed, inTx, pending, committed>>
  BY <1>1 DEF driverVars, taskVars, poolVars, dataVars
<1>3. BatchTypes'
  BY <1>1, <1>2 DEF BatchInv, BatchTypes
<1>4. Calls'
  BY <1>1, <1>2 DEF BatchInv, Order, Calls, Ended
<1>5. Verdict'
  <2>1. at' \in DOMAIN Script /\ Ended(Script[at], "err")'
    BY <1>1, <1>2 DEF BatchInv, Order, Verdict, Ended
  <2> QED BY <1>1, <2>1 DEF Verdict
<1>6. Whole'
  BY <1>2 DEF BatchInv, Whole, Ran, Ended, Cut
<1> QED BY <1>3, <1>4, <1>5, <1>6 DEF BatchInv, Order

\* Every step of a batch is one of the driver.
LEMMA BatchDrives ==
  ASSUME BatchIsPlain, BatchInv, [Next]_vars
  PROVE  [DriverNext]_driverVars
<1>1. /\ Len(Statements) \in Nat /\ Len(Script) = Len(Statements) + 2
      /\ DOMAIN Script = 1..Len(Statements) + 2 /\ at \in 0..Len(Script)
      /\ \A i \in DOMAIN Script : Script[i] \in Queries
      /\ {BeginQuery, RollbackQuery} \subseteq Queries /\ UserQueries \subseteq Queries
  BY PlainFacts, ScriptFacts DEF BatchInv, BatchTypes, BatchIsPlain
<1>2. \A q \in Queries : StreamQuery(q) => DriverNext
  BY DEF DriverNext
<1>3. CASE UNCHANGED vars
  BY <1>3 DEF vars
<1>4. CASE \/ \E q \in Queries : Task(q)
           \/ \E q \in UserQueries : StreamQuery(q) \/ Cancel(q)
           \/ PoolNext
  BY <1>1, <1>4 DEF DriverNext
<1>5. CASE BeginBatch
  BY <1>1, <1>2, <1>5 DEF BeginBatch
<1>6. CASE NextOfBatch
  <2>1. CASE at = Len(Script)
    BY <1>6, <2>1 DEF NextOfBatch
  <2>2. CASE at # Len(Script)
    <3>1. at + 1 \in DOMAIN Script
      BY <1>1, <1>6, <2>2 DEF NextOfBatch
    <3> QED BY <1>1, <1>2, <1>6, <2>2, <3>1 DEF NextOfBatch
  <2> QED BY <2>1, <2>2
<1>7. CASE BatchFails
  BY <1>1, <1>2, <1>7 DEF BatchFails
<1>8. CASE RolledBack
  BY <1>8 DEF RolledBack
<1> QED BY <1>3, <1>4, <1>5, <1>6, <1>7, <1>8 DEF Next

\* The invariant is inductive.
LEMMA BatchInvNext ==
  ASSUME BatchIsPlain, OneConnection, BatchInv, [Next]_vars
  PROVE  BatchInv'
<1>1. StreamInv'
  BY BatchDrives, StreamInvNext DEF BatchInv
<1>2. CASE UNCHANGED vars
  BY <1>2, StutterKeeps
<1>3. CASE /\ \/ \E q \in Queries : Task(q)
              \/ \E q \in UserQueries : Cancel(q)
              \/ PoolNext
           /\ UNCHANGED <<at, outcome>>
  BY <1>1, <1>3, DriverKeeps
<1>4. CASE /\ \E q \in UserQueries : StreamQuery(q)
           /\ UNCHANGED <<at, outcome>>
  BY <1>1, <1>4, UserKeeps
<1>5. CASE BeginBatch
  BY <1>1, <1>5, BeginKeeps
<1>6. CASE NextOfBatch
  BY <1>1, <1>6, NextKeeps
<1>7. CASE BatchFails
  BY <1>1, <1>7, FailKeeps
<1>8. CASE RolledBack
  BY <1>1, <1>8, RolledBackKeeps
<1> QED BY <1>2, <1>3, <1>4, <1>5, <1>6, <1>7, <1>8 DEF Next

\* Along every behaviour of a batch over one connection that lasts, its calls
\* run in order and what the server ran of them waits for the COMMIT.
THEOREM BatchInvariant ==
  ASSUME BatchIsPlain, OneConnection
  PROVE  Spec => []BatchInv
<1>1. Init => BatchInv
  BY BatchInit
<1>2. BatchInv /\ [Next]_vars => BatchInv'
  BY BatchInvNext
<1> QED BY <1>1, <1>2, PTL DEF Spec

\* What is committed of the batch tells whether its COMMIT ran.
LEMMA WrittenFacts ==
  ASSUME BatchInv
  PROVE  BatchWrites \cap committed = IF Ran(CommitQuery) THEN BatchWrites ELSE {}
BY DEF BatchInv, Whole

\* Nothing of a failed batch is committed, and all of a completed one is.
THEOREM BatchAtomic ==
  ASSUME BatchIsPlain, OneConnection
  PROVE  Spec => []AllOrNothing
<1>1. BatchInv => AllOrNothing
  BY WrittenFacts DEF AllOrNothing
<1> QED BY <1>1, BatchInvariant, PTL

\* The steps of the driver that commit something of the batch commit all of it,
\* while its outcome is open.
LEMMA WrittenAtOnce ==
  ASSUME BatchIsPlain, OneConnection, BatchInv, BatchInv',
         \/ \E q \in Queries : Task(q)
         \/ \E q \in UserQueries : StreamQuery(q) \/ Cancel(q)
         \/ PoolNext
  PROVE  \/ BatchWrites \cap committed' = BatchWrites \cap committed
         \/ /\ outcome = "none" /\ BatchWrites \cap committed = {}
            /\ BatchWrites \cap committed' = BatchWrites
<1>1. BatchWrites \cap committed' = IF Ran(CommitQuery)' THEN BatchWrites ELSE {}
  BY DEF BatchInv, Whole
<1>2. /\ CommitQuery \in Queries /\ UserQueries \subseteq Queries
      /\ Len(Statements) + 2 \in DOMAIN Script
      /\ Script[Len(Statements) + 2] = CommitQuery
  BY PlainFacts, ScriptFacts DEF BatchIsPlain
<1>3. CASE (\E q \in Queries : Acquire(q)) \/ \E q \in UserQueries : StreamQuery(q)
  <2>1. UNCHANGED committed
    BY <1>3 DEF Acquire, StreamQuery, dataVars
  <2> QED BY <2>1
<1>4. CASE ~ ((\E q \in Queries : Acquire(q)) \/ \E q \in UserQueries : StreamQuery(q))
  <2>1. QuietStep
    <3>1. \A q \in Queries : ~ Lost(q)
      BY DEF Lost, OneConnection
    <3> QED BY <1>2, <1>4, <3>1 DEF Task, Asking, Answered, PoolNext, QuietStep
  <2>2. QuietFor(CommitQuery)
    BY <1>2, <2>1, QuietFacts DEF BatchInv
  <2>3. CASE Ran(CommitQuery)
    <3>1. Ran(CommitQuery)'
      BY <2>2, <2>3 DEF QuietFor
    <3> QED BY <1>1, <2>3, <3>1, WrittenFacts
  <2>4. CASE ~ Ran(CommitQuery) /\ ~ Ran(CommitQuery)'
    BY <1>1, <2>4, WrittenFacts
  <2>5. CASE ~ Ran(CommitQuery) /\ Ran(CommitQuery)'
    <3>1. End(CommitQuery)
      BY <2>2, <2>5 DEF QuietFor
    <3>2. phase[CommitQuery] = "running"
      BY <3>1 DEF End, Running
    <3>3. outcome = "none"
      BY <1>2, <3>2, Awaited DEF BatchInv
    <3> QED BY <1>1, <2>5, <3>3, WrittenFacts
  <2> QED BY <2>3, <2>4, <2>5
<1> QED BY <1>3, <1>4

\* The beginning of a batch is the promised one's.
LEMMA PromiseInit ==
  ASSUME Init
  PROVE  Promise!Init
<1>1. committed = {} /\ outcome = "none"
  BY DEF Init, DriverInit
<1> QED BY <1>1 DEF Promise!Init

\* Every step of a batch is one of the promised one, or none.
LEMMA PromiseNext ==
  ASSUME BatchIsPlain, OneConnection, BatchInv, BatchInv', [Next]_vars
  PROVE  [Promise!Next]_Promise!vars
<1> DEFINE w == BatchWrites \cap committed
           o == IF outcome = "rolling_back" THEN "none" ELSE outcome
<1>1. CASE UNCHANGED vars
  <2>1. w' = w /\ o' = o
    BY <1>1 DEF vars, driverVars, dataVars
  <2> QED BY <2>1 DEF Promise!vars
<1>2. CASE /\ \/ \E q \in Queries : Task(q)
              \/ \E q \in UserQueries : StreamQuery(q) \/ Cancel(q)
              \/ PoolNext
           /\ UNCHANGED <<at, outcome>>
  <2>1. o' = o
    BY <1>2
  <2>2. CASE w' = w
    BY <2>1, <2>2 DEF Promise!vars
  <2>3. CASE outcome = "none" /\ w = {} /\ w' = BatchWrites
    <3>1. Promise!Commit
      BY <1>2, <2>3 DEF Promise!Commit
    <3> QED BY <3>1 DEF Promise!Next
  <2> QED BY <1>2, <2>2, <2>3, WrittenAtOnce
<1>3. CASE BeginBatch
  <2>1. w' = w /\ o' = o
    BY <1>3 DEF BeginBatch, StreamQuery, dataVars
  <2> QED BY <2>1 DEF Promise!vars
<1>4. CASE NextOfBatch
  <2>1. w' = w
    BY <1>4 DEF NextOfBatch, StreamQuery, dataVars, driverVars
  <2>2. CASE at = Len(Script)
    <3>1. Len(Script) = Len(Statements) + 2 /\ Script[Len(Statements) + 2] = CommitQuery
      BY ScriptFacts
    <3>2. Ended(CommitQuery, "done") /\ outcome = "none" /\ outcome' = "ok"
      BY <1>4, <2>2, <3>1 DEF NextOfBatch
    <3>3. w = BatchWrites
      BY <3>2, WrittenFacts DEF Ran
    <3>4. Promise!Succeed
      BY <2>1, <3>2, <3>3 DEF Promise!Succeed
    <3> QED BY <3>4 DEF Promise!Next
  <2>3. CASE at # Len(Script)
    <3>1. o' = o
      BY <1>4, <2>3 DEF NextOfBatch
    <3> QED BY <2>1, <3>1 DEF Promise!vars
  <2> QED BY <2>2, <2>3
<1>5. CASE BatchFails
  <2>1. w' = w
    BY <1>5 DEF BatchFails, StreamQuery, dataVars, driverVars
  <2>2. CASE at \in {1, Len(Script)}
    <3>1. outcome = "none" /\ outcome' = "failed"
      BY <1>5, <2>2 DEF BatchFails
    <3>2. Promise!Fail
      BY <2>1, <3>1 DEF Promise!Fail
    <3> QED BY <3>2 DEF Promise!Next
  <2>3. CASE at \notin {1, Len(Script)}
    <3>1. o' = o
      BY <1>5, <2>3 DEF BatchFails
    <3> QED BY <2>1, <3>1 DEF Promise!vars
  <2> QED BY <2>2, <2>3
<1>6. CASE RolledBack
  <2>1. w' = w
    BY <1>6 DEF RolledBack, dataVars, driverVars
  <2>2. outcome = "rolling_back" /\ outcome' = "failed"
    BY <1>6 DEF RolledBack
  <2>3. Promise!Fail
    BY <2>1, <2>2 DEF Promise!Fail
  <2> QED BY <2>3 DEF Promise!Next
<1> QED BY <1>1, <1>2, <1>3, <1>4, <1>5, <1>6 DEF Next

\* A batch over one connection that lasts is the promised atomic one: it is
\* committed in one step or not at all, and success is reported of the first.
THEOREM BatchKept ==
  ASSUME BatchIsPlain, OneConnection
  PROVE  Spec => PromiseKept
<1>1. Init => Promise!Init
  BY PromiseInit
<1>2. BatchInv /\ BatchInv' /\ [Next]_vars => [Promise!Next]_Promise!vars
  BY PromiseNext
<1> QED BY <1>1, <1>2, BatchInvariant, PTL DEF Spec, PromiseKept, Promise!Spec

=============================================================================
