---------------------------- MODULE ResultsProof ----------------------------
(* What is proved of a results view: of the changes staged over its rows and *)
(* of the tabs that run queries and page through relations, for any windows, *)
(* relations, rows, filters, page sizes, counts and bounds.                  *)
EXTENDS Staging, Previews, TLAPS, FiniteSetTheorems, Recursion

-----------------------------------------------------------------------------
(* Staging                                                                   *)

\* What is described, or being described, is the relation shown.
SchemaInv ==
  /\ schemaKey # None => schemaKey = RelOf[window]
  /\ schema # None => schema = schemaKey

\* sync_relation ends with the key of the relation shown, or with none.
LEMMA SyncLemma ==
  ASSUME SchemaInv, NEW live, Sync(RelOf[window'], live)
  PROVE  SchemaInv'
BY DEF SchemaInv, Sync

(* The description held is that of the relation shown, however late and in   *)
(* whatever order the answers of describe_relation come.                     *)
THEOREM SchemaAlways == Spec => []SchemaOfShownRelation
<1>1. Init => SchemaInv
  BY DEF Init, SchemaInv
<1>2. ASSUME SchemaInv, [Next]_vars PROVE SchemaInv'
  <2>1. CASE SessionChanges
    <3>1. window' = window /\ Sync(RelOf[window'], connected')
      BY <2>1 DEF SessionChanges
    <3> QED BY <1>2, <3>1, SyncLemma
  <2>2. ASSUME NEW rel \in fetches, Described(rel) PROVE SchemaInv'
    BY <1>2, <2>2 DEF Described, SchemaInv
  <2>3. ASSUME NEW w \in Windows, ShowWindow(w) \/ ShowOther(w) PROVE SchemaInv'
    <3>1. window' = w /\ Sync(RelOf[window'], connected)
      BY <2>3 DEF ShowWindow, ShowOther
    <3> QED BY <1>2, <3>1, SyncLemma
  <2>4. CASE UNCHANGED viewVars
    BY <1>2, <2>4 DEF viewVars, SchemaInv
  <2>5. CASE UNCHANGED vars
    BY <2>4, <2>5 DEF vars
  <2>6. ASSUME NEW i \in DOMAIN RowsOf[window], StageOrRestore(i) PROVE SchemaInv'
    BY <2>4, <2>6 DEF StageOrRestore
  <2>7. ASSUME NEW i, NEW col \in Columns, OpenEditor(i, col) PROVE SchemaInv'
    BY <2>4, <2>7 DEF OpenEditor
  <2>8. ASSUME NEW i \in DOMAIN queue, Unstage(i) PROVE SchemaInv'
    BY <2>4, <2>8 DEF Unstage
  <2>9. CASE DiscardAll \/ CloseEditor \/ Apply
    BY <2>4, <2>9 DEF DiscardAll, CloseEditor, Apply
  <2>10. ASSUME NEW val \in Values, ConfirmEdit(val) PROVE SchemaInv'
    BY <2>4, <2>10 DEF ConfirmEdit
  <2>11. ASSUME NEW b \in batches, Applied(b) \/ ApplyFailed(b) PROVE SchemaInv'
    BY <2>4, <2>11 DEF Applied, ApplyFailed
  <2> QED BY <1>2, <2>1, <2>2, <2>3, <2>5, <2>6, <2>7, <2>8, <2>9, <2>10, <2>11 DEF Next
<1>3. SchemaInv /\ [Next]_vars => SchemaInv'
  BY <1>2
<1>4. SchemaInv => SchemaOfShownRelation
  BY DEF SchemaInv, SchemaOfShownRelation
<1> QED BY <1>1, <1>3, <1>4, PTL DEF Spec

-----------------------------------------------------------------------------

(* The popover is closed by every step that changes the rows it looks its    *)
(* row up in.                                                                *)
THEOREM EditorAlways == Spec => []EditHitsItsRow
<1>1. Init => EditHitsItsRow
  BY DEF Init, EditHitsItsRow
<1>2. ASSUME EditHitsItsRow, [Next]_vars PROVE EditHitsItsRow'
  <2>1. CASE UNCHANGED <<window, editor>>
    BY <1>2, <2>1 DEF EditHitsItsRow
  <2>2. CASE editor' = None
    BY <2>2 DEF EditHitsItsRow
  <2>3. ASSUME NEW i, NEW col \in Columns, OpenEditor(i, col) PROVE EditHitsItsRow'
    BY <2>3 DEF OpenEditor, viewVars, EditHitsItsRow
  <2>4. CASE UNCHANGED vars
    BY <2>1, <2>4 DEF vars, viewVars
  <2>5. CASE SessionChanges \/ \E rel \in fetches : Described(rel)
    BY <2>1, <2>5 DEF SessionChanges, Described
  <2>6. ASSUME NEW w \in Windows, ShowWindow(w) \/ ShowOther(w) PROVE EditHitsItsRow'
    BY <2>2, <2>6 DEF ShowWindow, ShowOther
  <2>7. ASSUME NEW i \in DOMAIN RowsOf[window], StageOrRestore(i) PROVE EditHitsItsRow'
    BY <2>1, <2>7 DEF StageOrRestore, viewVars
  <2>8. ASSUME NEW i \in DOMAIN queue, Unstage(i) PROVE EditHitsItsRow'
    BY <2>1, <2>8 DEF Unstage, viewVars
  <2>9. CASE DiscardAll \/ Apply
    BY <2>1, <2>9 DEF DiscardAll, Apply, viewVars
  <2>10. CASE CloseEditor \/ \E val \in Values : ConfirmEdit(val)
    BY <2>2, <2>10 DEF CloseEditor, ConfirmEdit
  <2>11. ASSUME NEW b \in batches, Applied(b) \/ ApplyFailed(b) PROVE EditHitsItsRow'
    BY <2>1, <2>11 DEF Applied, ApplyFailed, viewVars
  <2> QED BY <1>2, <2>3, <2>4, <2>5, <2>6, <2>7, <2>8, <2>9, <2>10, <2>11 DEF Next
<1>3. EditHitsItsRow /\ [Next]_vars => EditHitsItsRow'
  BY <1>2
<1> QED BY <1>1, <1>3, PTL DEF Spec

-----------------------------------------------------------------------------

\* Unless an edit was confirmed during an Apply, at most one batch is in
\* flight and the queue is still the one it was made of.
SubmissionInv ==
  \/ disturbed = TRUE
  \/ /\ disturbed = FALSE
     /\ \A b \in batches : Applying /\ queue = b.entries
     /\ \A a, b \in batches : a = b

\* A step while no batch is in flight leaves none.
LEMMA NoBatch ==
  ASSUME SubmissionInv, UNCHANGED <<batches, disturbed>>, ~ Applying
  PROVE  SubmissionInv'
BY DEF SubmissionInv

\* It holds throughout.
LEMMA SubmissionKept == Spec => []SubmissionInv
<1>1. Init => SubmissionInv
  BY DEF Init, SubmissionInv
<1>2. ASSUME SubmissionInv, [Next]_vars PROVE SubmissionInv'
  <2>1. CASE UNCHANGED <<queue, applyState, batches, disturbed>>
    BY <1>2, <2>1 DEF SubmissionInv, Applying
  <2>2. CASE UNCHANGED vars
    BY <2>1, <2>2 DEF vars, queueVars, dbVars
  <2>3. CASE SessionChanges \/ \E rel \in fetches : Described(rel)
    BY <2>1, <2>3 DEF SessionChanges, Described, queueVars, dbVars
  <2>4. ASSUME NEW w \in Windows, ShowWindow(w) PROVE SubmissionInv'
    BY <2>1, <2>4 DEF ShowWindow, queueVars, dbVars
  <2>5. CASE Discarded /\ UNCHANGED <<batches, disturbed>>
    <3>1. CASE UNCHANGED <<queue, applyState>>
      BY <2>1, <2>5, <3>1
    <3>2. CASE ~ Applying
      BY <1>2, <2>5, <3>2, NoBatch
    <3> QED BY <2>5, <3>1, <3>2 DEF Discarded
  <2>6. ASSUME NEW w \in Windows, ShowOther(w) PROVE SubmissionInv'
    BY <2>5, <2>6 DEF ShowOther, dbVars
  <2>7. CASE DiscardAll
    BY <2>5, <2>7 DEF DiscardAll, dbVars
  <2>8. ASSUME NEW i \in DOMAIN RowsOf[window], StageOrRestore(i) PROVE SubmissionInv'
    BY <1>2, <2>8, NoBatch DEF StageOrRestore, dbVars
  <2>9. ASSUME NEW i, NEW col \in Columns, OpenEditor(i, col) PROVE SubmissionInv'
    BY <2>1, <2>9 DEF OpenEditor, queueVars, dbVars
  <2>10. ASSUME NEW i \in DOMAIN queue, Unstage(i) PROVE SubmissionInv'
    BY <1>2, <2>10, NoBatch DEF Unstage, dbVars
  <2>11. CASE CloseEditor
    BY <2>1, <2>11 DEF CloseEditor, queueVars, dbVars
  <2>12. ASSUME NEW val \in Values, ConfirmEdit(val) PROVE SubmissionInv'
    <3>1. UNCHANGED batches /\ disturbed' = (disturbed \/ Applying)
      BY <2>12 DEF ConfirmEdit, dbVars
    <3>2. CASE Applying
      BY <3>1, <3>2 DEF SubmissionInv
    <3>3. CASE ~ Applying
      BY <1>2, <3>1, <3>3, NoBatch DEF SubmissionInv
    <3> QED BY <3>2, <3>3
  <2>13. CASE Apply
    <3>1. /\ ~ Applying /\ UNCHANGED <<queue, disturbed>> /\ Applying'
          /\ batches' = batches \cup {[no |-> applies', entries |-> queue]}
      BY <2>13 DEF Apply, Applying
    <3>2. disturbed = FALSE => batches = {}
      BY <1>2, <3>1 DEF SubmissionInv
    <3>3. ASSUME batches = {}
          PROVE  /\ \A b \in batches' : b.entries = queue
                 /\ \A a, b \in batches' : a = b
      BY <3>1, <3>3
    <3> QED BY <1>2, <3>1, <3>2, <3>3 DEF SubmissionInv
  <2>14. ASSUME NEW b \in batches, Applied(b) \/ ApplyFailed(b) PROVE SubmissionInv'
    <3>1. batches' = batches \ {b} /\ disturbed' = disturbed
      BY <2>14 DEF Applied, ApplyFailed
    <3>2. disturbed = FALSE => batches' = {}
      BY <1>2, <3>1 DEF SubmissionInv
    <3> QED BY <1>2, <3>1, <3>2 DEF SubmissionInv
  <2> QED BY <1>2, <2>2, <2>3, <2>4, <2>6, <2>7, <2>8, <2>9, <2>10, <2>11, <2>12,
             <2>13, <2>14 DEF Next
<1>3. SubmissionInv /\ [Next]_vars => SubmissionInv'
  BY <1>2
<1> QED BY <1>1, <1>3, PTL DEF Spec

(* "The queue submitted here is exactly what completes": no two batches are  *)
(* ever in flight, and while one is the queue is what was submitted, unless  *)
(* an edit was confirmed during the Apply.                                   *)
THEOREM SubmissionAlways == Spec => []QueueIsSubmission
<1>1. ASSUME SubmissionInv PROVE QueueIsSubmission
  <2>1. CASE disturbed = TRUE
    BY <2>1 DEF QueueIsSubmission
  <2>2. CASE disturbed = FALSE
    <3>1. CASE batches = {}
      BY <3>1, FS_EmptySet DEF QueueIsSubmission
    <3>2. CASE \E b : batches = {b}
      <4>1. Cardinality(batches) = 1
        BY <3>2, FS_Singleton
      <4> QED BY <1>1, <2>2, <4>1 DEF SubmissionInv, QueueIsSubmission
    <3>3. CASE batches # {}
      <4>1. PICK b : b \in batches
        BY <3>3
      <4>2. \A a \in batches : a = b
        BY <1>1, <2>2, <4>1 DEF SubmissionInv
      <4>3. batches = {b}
        BY <4>1, <4>2
      <4> QED BY <4>3, <3>2
    <3> QED BY <3>1, <3>2, <3>3
  <2> QED BY <1>1, <2>1, <2>2 DEF SubmissionInv
<1>2. SubmissionInv => QueueIsSubmission
  BY <1>1
<1> QED BY <1>2, SubmissionKept, PTL

-----------------------------------------------------------------------------
(* The order of the queue, and what an Apply may take for done.              *)

Rows == UNION {{RowsOf[w][i] : i \in DOMAIN RowsOf[w]} : w \in Windows}

Entry == [id : Nat, row : Rows, col : Columns \cup {Delete}, val : Values \cup {None}]

\* A row's delete is its last entry.
DeletesLast(list) ==
  \A i, j \in DOMAIN list : i < j /\ list[i].row = list[j].row => list[i].col # Delete

QueueInv ==
  /\ window \in Windows /\ nextId \in Nat /\ queue \in Seq(Entry)
  /\ editor # None => editor.col \in Columns
  /\ DeletesLast(queue)

\* What is kept of the first n entries, from what is kept of n - 1.
KeptWith(list, ids, n, kept) ==
  IF list[n].id \in ids THEN kept ELSE Append(kept, list[n])

Keeps(list, ids, f) ==
  f = [n \in 0..Len(list) |-> IF n = 0 THEN <<>> ELSE KeptWith(list, ids, n, f[n - 1])]

\* Entries of the first k of a list, in their order.
InOrder(s, list, k) ==
  /\ \A m \in DOMAIN s : \E i \in 1..k : s[m] = list[i]
  /\ \A m, n \in DOMAIN s : m < n => \E i, j \in 1..k : i < j /\ s[m] = list[i] /\ s[n] = list[j]

\* One entry more.
LEMMA KeptInOrder ==
  ASSUME NEW T, NEW list \in Seq(T), NEW ids, NEW k \in 1..Len(list),
         NEW s \in Seq(T), InOrder(s, list, k - 1)
  PROVE  /\ KeptWith(list, ids, k, s) \in Seq(T)
         /\ InOrder(KeptWith(list, ids, k, s), list, k)
<1>1. k - 1 \in Nat /\ 1..k - 1 \subseteq 1..k /\ k \in 1..k
  OBVIOUS
<1>2. CASE list[k].id \in ids
  <2>1. InOrder(s, list, k)
    BY <1>1 DEF InOrder
  <2> QED BY <1>2, <2>1 DEF KeptWith
<1>3. CASE list[k].id \notin ids
  <2> DEFINE r == Append(s, list[k])
  <2>1. /\ r \in Seq(T) /\ Len(r) = Len(s) + 1 /\ r[Len(r)] = list[k]
        /\ \A m \in DOMAIN s : r[m] = s[m]
    OBVIOUS
  <2>2. KeptWith(list, ids, k, s) = r
    BY <1>3 DEF KeptWith
  <2> HIDE DEF r
  <2>3. ASSUME NEW m \in DOMAIN r PROVE m \in DOMAIN s \/ m = Len(r)
    BY <2>1
  <2>4. ASSUME NEW m \in DOMAIN r PROVE \E i \in 1..k : r[m] = list[i]
    BY <1>1, <2>1, <2>3 DEF InOrder
  <2>5. ASSUME NEW m \in DOMAIN r, NEW n \in DOMAIN r, m < n
        PROVE  \E i, j \in 1..k : i < j /\ r[m] = list[i] /\ r[n] = list[j]
    <3>1. m \in DOMAIN s
      BY <2>1, <2>5
    <3>2. CASE n \in DOMAIN s
      <4>1. PICK i, j \in 1..k - 1 : i < j /\ s[m] = list[i] /\ s[n] = list[j]
        BY <2>5, <3>1, <3>2 DEF InOrder
      <4> QED BY <1>1, <2>1, <3>1, <3>2, <4>1
    <3>3. CASE n = Len(r)
      <4>1. PICK i \in 1..k - 1 : s[m] = list[i]
        BY <3>1 DEF InOrder
      <4>2. i \in 1..k /\ i < k /\ r[m] = list[i] /\ r[n] = list[k]
        BY <2>1, <3>1, <3>3, <4>1
      <4> QED BY <1>1, <4>2
    <3> QED BY <2>3, <3>2, <3>3
  <2>6. InOrder(r, list, k)
    BY <2>4, <2>5 DEF InOrder
  <2> QED BY <2>1, <2>2, <2>6
<1> QED BY <1>2, <1>3

\* Unstaging leaves entries of the list, in their order.
LEMMA WithoutEffect ==
  ASSUME NEW T, NEW list \in Seq(T), NEW ids
  PROVE  Without(list, ids) \in Seq(T) /\ InOrder(Without(list, ids), list, Len(list))
<1> DEFINE N == Len(list)
           none == <<>>
           step == [n \in 1..N |-> [s \in Seq(T) |-> KeptWith(list, ids, n, s)]]
           kept == CHOOSE f : Keeps(list, ids, f)
<1>1. N \in Nat /\ none \in Seq(T) /\ \A n \in 1..N : list[n] \in T
  OBVIOUS
<1>2. \A n \in 1..N, s \in Seq(T) : KeptWith(list, ids, n, s) \in Seq(T)
  BY <1>1 DEF KeptWith
<1>3. step \in [1..N -> [Seq(T) -> Seq(T)]]
  BY <1>2
<1>4. PICK f \in [0..N -> Seq(T)] :
        f[0] = none /\ \A n \in 1..N : f[n] = step[n][f[n - 1]]
  <2> DEFINE S == Seq(T)
  <2>1. N \in Nat /\ none \in S /\ step \in [1..N -> [S -> S]]
    BY <1>1, <1>3
  <2>2. \E f \in [0..N -> S] : f[0] = none /\ \A n \in 1..N : f[n] = step[n][f[n - 1]]
    <3> HIDE DEF step, N, none, S
    <3> QED BY <2>1, RecursiveFunction
  <2> QED BY <2>2
<1>5. Keeps(list, ids, f)
  <2>1. ASSUME NEW n \in 1..N PROVE step[n][f[n - 1]] = KeptWith(list, ids, n, f[n - 1])
    <3>1. f[n - 1] \in Seq(T)
      BY <1>1
    <3> QED BY <3>1
  <2> HIDE DEF step
  <2>2. f = [n \in 0..N |-> IF n = 0 THEN <<>> ELSE KeptWith(list, ids, n, f[n - 1])]
    BY <1>1, <1>4, <2>1
  <2> QED BY <2>2 DEF Keeps
<1>6. Keeps(list, ids, kept)
  BY <1>5
<1>7. Without(list, ids) = kept[N]
  BY Zenon DEF Without, Keeps, KeptWith
<1> DEFINE P == {k \in 0..N : kept[k] \in Seq(T) /\ InOrder(kept[k], list, k)}
<1> HIDE DEF kept, N
<1>8. 0 \in P
  <2>1. kept[0] = none
    BY <1>1, <1>6 DEF Keeps, N
  <2>2. InOrder(kept[0], list, 0)
    BY <2>1 DEF InOrder
  <2> HIDE DEF none
  <2> QED BY <1>1, <2>1, <2>2
<1>9. ASSUME NEW k \in 1..N, k - 1 \in P PROVE k \in P
  <2>1. kept[k - 1] \in Seq(T) /\ InOrder(kept[k - 1], list, k - 1)
    BY <1>1, <1>9
  <2>2. kept[k] = KeptWith(list, ids, k, kept[k - 1])
    BY <1>1, <1>6 DEF Keeps, N
  <2>3. kept[k] \in Seq(T) /\ InOrder(kept[k], list, k)
    BY <2>1, <2>2, KeptInOrder DEF N
  <2> QED BY <1>1, <2>3
<1>10. N \in P
  <2>1. 0..N \subseteq P
    <3> HIDE DEF P
    <3> QED BY <1>1, <1>8, <1>9, UpTo
  <2> QED BY <1>1, <2>1
<1> QED BY <1>1, <1>7, <1>10 DEF N

LEMMA WithoutDeletes ==
  ASSUME NEW list \in Seq(Entry), DeletesLast(list), NEW ids
  PROVE  Without(list, ids) \in Seq(Entry) /\ DeletesLast(Without(list, ids))
<1>1. Without(list, ids) \in Seq(Entry) /\ InOrder(Without(list, ids), list, Len(list))
  BY WithoutEffect
<1>2. DOMAIN list = 1..Len(list)
  OBVIOUS
<1> QED BY <1>1, <1>2 DEF DeletesLast, InOrder

\* An entry is appended behind those of other rows, or behind updates.
LEMMA AppendDeletes ==
  ASSUME NEW list \in Seq(Entry), DeletesLast(list), NEW e \in Entry,
         \A i \in DOMAIN list : list[i].row = e.row => list[i].col # Delete
  PROVE  Append(list, e) \in Seq(Entry) /\ DeletesLast(Append(list, e))
<1> DEFINE r == Append(list, e)
<1>1. /\ r \in Seq(Entry) /\ Len(r) = Len(list) + 1 /\ r[Len(r)] = e
      /\ \A i \in DOMAIN list : r[i] = list[i]
  OBVIOUS
<1> HIDE DEF r
<1>2. \A i, j \in DOMAIN r : i < j => i \in DOMAIN list /\ (j \in DOMAIN list \/ j = Len(r))
  BY <1>1
<1>3. DeletesLast(r)
  BY <1>1, <1>2 DEF DeletesLast
<1> QED BY <1>1, <1>3 DEF r

\* A value replaced in place.
LEMMA ReplaceDeletes ==
  ASSUME NEW list \in Seq(Entry), DeletesLast(list), NEW i \in DOMAIN list, NEW val \in Values
  PROVE  [list EXCEPT ![i].val = val] \in Seq(Entry) /\ DeletesLast([list EXCEPT ![i].val = val])
<1> DEFINE e == [list[i] EXCEPT !.val = val]
           r == [list EXCEPT ![i] = e]
<1>1. list[i] \in Entry
  OBVIOUS
<1>2. e \in Entry /\ e.row = list[i].row /\ e.col = list[i].col
  BY <1>1 DEF Entry
<1> HIDE DEF e
<1>3. /\ r \in Seq(Entry) /\ DOMAIN r = DOMAIN list
      /\ \A j \in DOMAIN list : r[j] = IF j = i THEN e ELSE list[j]
  BY <1>2
<1> HIDE DEF r
<1>4. DeletesLast(r)
  BY <1>2, <1>3 DEF DeletesLast
<1> QED BY <1>3, <1>4 DEF r, e

\* Every step keeps the queue in that order.
LEMMA QueueInvNext == QueueInv /\ [Next]_vars => QueueInv'
<1> SUFFICES ASSUME QueueInv, [Next]_vars PROVE QueueInv'
  OBVIOUS
<1>1. CASE window' \in Windows /\ UNCHANGED <<queue, nextId>> /\ (editor' = editor \/ editor' = None)
  BY <1>1 DEF QueueInv
<1>2. CASE UNCHANGED vars
  BY <1>1, <1>2 DEF vars, viewVars, queueVars, QueueInv
<1>3. CASE SessionChanges \/ \E rel \in fetches : Described(rel)
  BY <1>1, <1>3 DEF SessionChanges, Described, queueVars, QueueInv
<1>4. ASSUME UNCHANGED <<window, editor>>, nextId' \in Nat, queue' \in Seq(Entry), DeletesLast(queue')
      PROVE  QueueInv'
  BY <1>4 DEF QueueInv
<1>5. ASSUME NEW w \in Windows, ShowWindow(w) PROVE QueueInv'
  BY <1>1, <1>5 DEF ShowWindow, queueVars
<1>6. ASSUME Discarded PROVE queue' \in Seq(Entry) /\ DeletesLast(queue')
  <2>1. CASE queue' = queue
    BY <2>1 DEF QueueInv
  <2>2. CASE queue' = <<>>
    BY <2>2 DEF DeletesLast
  <2> QED BY <1>6, <2>1, <2>2 DEF Discarded
<1>7. ASSUME NEW w \in Windows, ShowOther(w) PROVE QueueInv'
  BY <1>6, <1>7 DEF ShowOther, QueueInv
<1>8. CASE DiscardAll
  BY <1>4, <1>6, <1>8 DEF DiscardAll, viewVars, QueueInv
<1>9. ASSUME NEW ids, queue' = Without(queue, ids) PROVE queue' \in Seq(Entry) /\ DeletesLast(queue')
  BY <1>9, WithoutDeletes DEF QueueInv
<1>10. ASSUME NEW i \in DOMAIN queue, Unstage(i) PROVE QueueInv'
  BY <1>4, <1>9, <1>10 DEF Unstage, viewVars, QueueInv
<1>11. ASSUME NEW i \in DOMAIN RowsOf[window], StageOrRestore(i) PROVE QueueInv'
  <2> DEFINE row == RowsOf[window][i]
             e == [id |-> nextId, row |-> row, col |-> Delete, val |-> None]
  <2>1. UNCHANGED <<window, editor>>
    BY <1>11 DEF StageOrRestore, viewVars
  <2>2. CASE queue' = Without(queue, {queue[k].id : k \in StagedDelete(row)}) /\ UNCHANGED nextId
    BY <1>4, <1>9, <2>1, <2>2 DEF QueueInv
  <2>3. CASE StagedDelete(row) = {} /\ queue' = Append(queue, e) /\ nextId' = nextId + 1
    <3>1. e \in Entry
      BY DEF Entry, Rows, QueueInv
    <3>2. \A k \in DOMAIN queue : queue[k].row = e.row => queue[k].col # Delete
      BY <2>3 DEF StagedDelete
    <3> HIDE DEF e
    <3>3. queue' \in Seq(Entry) /\ DeletesLast(queue')
      BY <2>3, <3>1, <3>2, AppendDeletes DEF QueueInv
    <3> QED BY <1>4, <2>1, <2>3, <3>3 DEF QueueInv
  <2> QED BY <1>11, <2>2, <2>3 DEF StageOrRestore
<1>12. ASSUME NEW i \in DOMAIN RowsOf[window], NEW col \in Columns, OpenEditor(i, col) PROVE QueueInv'
  BY <1>12 DEF OpenEditor, viewVars, queueVars, QueueInv
<1>13. CASE CloseEditor \/ Apply
  BY <1>1, <1>13 DEF CloseEditor, Apply, viewVars, queueVars, QueueInv
<1>14. ASSUME NEW val \in Values, ConfirmEdit(val) PROVE QueueInv'
  <2>1. window' = window /\ editor' = None /\ editor # None
    BY <1>14 DEF ConfirmEdit, viewVars
  <2>2. ASSUME nextId' \in Nat, queue' \in Seq(Entry), DeletesLast(queue') PROVE QueueInv'
    BY <2>1, <2>2 DEF QueueInv
  <2>3. CASE UNCHANGED queueVars
    BY <2>2, <2>3 DEF queueVars, QueueInv
  <2>4. CASE Nameable(editor.index)
             /\ StageUpdate(RowsOf[window][editor.index], editor.col, val)
             /\ StagedDelete(RowsOf[window][editor.index]) = {}
    <3> DEFINE row == RowsOf[window][editor.index]
               e == [id |-> nextId, row |-> row, col |-> editor.col, val |-> val]
    <3>1. CASE \E i \in DOMAIN queue : queue' = [queue EXCEPT ![i].val = val] /\ UNCHANGED nextId
      <4>1. PICK i \in DOMAIN queue : queue' = [queue EXCEPT ![i].val = val] /\ nextId' = nextId
        BY <3>1
      <4>2. queue \in Seq(Entry) /\ DeletesLast(queue) /\ nextId \in Nat
        BY DEF QueueInv
      <4>3. [queue EXCEPT ![i].val = val] \in Seq(Entry)
            /\ DeletesLast([queue EXCEPT ![i].val = val])
        BY <4>2, ReplaceDeletes
      <4> QED BY <2>2, <4>1, <4>2, <4>3
    <3>2. CASE queue' = Append(queue, e) /\ nextId' = nextId + 1
      <4>1. e \in Entry
        BY <2>1, <2>4 DEF Entry, Rows, Nameable, QueueInv
      <4>2. \A k \in DOMAIN queue : queue[k].row = e.row => queue[k].col # Delete
        BY <2>4 DEF StagedDelete
      <4> HIDE DEF e
      <4>3. queue' \in Seq(Entry) /\ DeletesLast(queue')
        BY <3>2, <4>1, <4>2, AppendDeletes DEF QueueInv
      <4> QED BY <2>2, <3>2, <4>3 DEF QueueInv
    <3> QED BY <2>4, <3>1, <3>2 DEF StageUpdate
  <2> QED BY <1>14, <2>3, <2>4 DEF ConfirmEdit, StageUpdate
<1>15. ASSUME NEW b \in batches, Applied(b) PROVE QueueInv'
  BY <1>4, <1>9, <1>15 DEF Applied, viewVars, QueueInv
<1>16. ASSUME NEW b \in batches, ApplyFailed(b) PROVE QueueInv'
  BY <1>1, <1>16 DEF ApplyFailed, viewVars, QueueInv
<1> QED BY <1>2, <1>3, <1>5, <1>7, <1>8, <1>10, <1>11, <1>12, <1>13, <1>14, <1>15, <1>16 DEF Next

\* A success takes out entries that the database has now, or whose row an
\* earlier batch took away.
LEMMA SuccessStep ==
  ASSUME Key \notin Columns, QueueInv, SubmissionInv, disturbed = FALSE,
         NEW b \in batches, Applied(b), NEW e \in ToSet(queue)
  PROVE  e \in written' \/ e.row \in gone
<1>1. queue = b.entries
  BY DEF SubmissionInv
<1>2. PICK i \in DOMAIN queue : e = queue[i]
  BY DEF ToSet
<1>3. CASE queue[i].row \notin gone
  <2>1. ASSUME NEW j \in 1..i - 1, queue[j].row = queue[i].row PROVE ~ Takes(queue[j])
    <3>1. j \in DOMAIN queue /\ j < i /\ queue[j] \in Entry
      BY <2>1 DEF QueueInv
    <3>2. queue[j].col # Delete /\ queue[j].col \in Columns \cup {Delete}
      BY <2>1, <3>1 DEF QueueInv, DeletesLast, Entry
    <3> QED BY <3>2 DEF Takes
  <2>2. Hits(b.entries, i)
    BY <1>1, <1>3, <2>1 DEF Hits
  <2> QED BY <1>1, <1>2, <2>2 DEF Applied, Committed
<1> QED BY <1>2, <1>3

(* A change leaves the queue by a success only when the database has it, or  *)
(* when an earlier batch had taken its row away, unless an edit was          *)
(* confirmed during an Apply: for any rows, edits and batches, as long as no *)
(* column of the key is edited.                                              *)
THEOREM SuccessAlways ==
  ASSUME Key \notin Columns
  PROVE  Spec => SuccessWroteIt
<1> DEFINE Step == \A b \in batches : \A e \in ToSet(queue) :
                     Leaves(e, b) => disturbed \/ e \in written' \/ e.row \in gone
<1>1. Init => QueueInv
  BY DEF Init, QueueInv, DeletesLast
<1>2. ASSUME QueueInv, SubmissionInv, [Next]_vars PROVE [Step]_vars
  <2> SUFFICES ASSUME Next, NEW b \in batches, NEW e \in ToSet(queue), Leaves(e, b),
                      disturbed = FALSE
               PROVE  e \in written' \/ e.row \in gone
    BY <1>2 DEF SubmissionInv
  <2>1. b \notin batches' /\ queue' # queue
    BY DEF Leaves
  <2>2. CASE \E a \in batches : Applied(a)
    <3>1. PICK a \in batches : Applied(a)
      BY <2>2
    <3> QED BY <1>2, <3>1, SuccessStep
  <2>3. ~ UNCHANGED batches /\ ~ UNCHANGED queue
    BY <2>1
  <2>4. ~ Apply
    BY <2>3 DEF Apply
  <2>5. ~ \E a \in batches : ApplyFailed(a)
    BY <2>3 DEF ApplyFailed
  <2>6. ~ \E i \in DOMAIN RowsOf[window] : StageOrRestore(i) \/ \E col \in Columns : OpenEditor(i, col)
    BY <2>3 DEF StageOrRestore, OpenEditor, dbVars
  <2>7. ~ \E i \in DOMAIN queue : Unstage(i)
    BY <2>3 DEF Unstage, dbVars
  <2>8. ~ (DiscardAll \/ CloseEditor \/ \E val \in Values : ConfirmEdit(val))
    BY <2>3 DEF DiscardAll, CloseEditor, ConfirmEdit, dbVars
  <2>9. ~ (SessionChanges \/ (\E rel \in fetches : Described(rel))
           \/ \E w \in Windows : ShowWindow(w) \/ ShowOther(w))
    BY <2>3 DEF SessionChanges, Described, ShowWindow, ShowOther, dbVars
  <2> QED BY <2>2, <2>4, <2>5, <2>6, <2>7, <2>8, <2>9 DEF Next
<1>3. QueueInv /\ SubmissionInv /\ [Next]_vars => [Step]_vars
  BY <1>2
<1> QED BY <1>1, <1>3, QueueInvNext, SubmissionKept, PTL DEF Spec, SuccessWroteIt

-----------------------------------------------------------------------------
(* Previews                                                                  *)

Target == [relation : Relations, filter : Filters \cup {Nothing}]

Count == [exact : BOOLEAN, rows : Nat]

Total == [of : Target, count : Count]

Sort == [column : SortColumns, asc : BOOLEAN]

Window == [relation : Relations, filter : Filters \cup {Nothing},
           sort : Sort \cup {Nothing}, page : Nat \ {0}, size : PageSizes]

Preview == [window : Window, total : Total \cup {Nothing}, base : Total \cup {Nothing}]

LastRun == [run : Nat, tab : Nat \cup {Nothing}, done : BOOLEAN, by : Nat]

Tab == [kind : {"script", "generated", "schema"}, preview : Preview \cup {Nothing},
        last : LastRun \cup {Nothing}]

\* What holds of the tabs alone is stated of any tabs ts, for the ones on the
\* way of an action as well: Generated is the previews among them.
Generated(ts) == {i \in DOMAIN ts : ts[i].kind = "generated"}

WellFormed(ts) ==
  /\ ts \in [DOMAIN ts -> Tab]
  /\ \A i \in Generated(ts) : ts[i].preview \in Preview

\* generated_by_relation: a relation has one preview.
OnePreviewEach(ts) ==
  \A i, k \in Generated(ts) :
    ts[i].preview.window.relation = ts[k].preview.window.relation => i = k

\* A count of t is a count of what the preview of its relation shows.
Fits(ts, t) ==
  \A i \in Generated(ts) :
    LET w == ts[i].preview.window
    IN  w.relation = t.relation => w.filter = t.filter

PageFits(p) == IsExact(p.total) => p.window.page <= LastPageNumber(p.total, p.window.size)

\* A total of p's own relation is one of those rows.
IsOwn(p, t) == t # Nothing /\ t.of.relation = p.window.relation
TotalFits(p) == IsOwn(p, p.total) => p.total.of.filter = p.window.filter
BaseFits(p) == IsOwn(p, p.base) => p.base.of.filter = Nothing
PreviewFits(p) == PageFits(p) /\ TotalFits(p) /\ BaseFits(p)

OwnLast(ts) == \A i \in DOMAIN ts : ts[i].last # Nothing => ts[i].last.tab = i

Types ==
  /\ next_id \in Nat \ {0}
  /\ DOMAIN tabs \subseteq 1..next_id - 1
  /\ WellFormed(tabs)
  /\ active \in DOMAIN tabs \cup {Nothing}
  /\ live_owner \in DOMAIN tabs \cup {Nothing}
  /\ generation \in Nat
  /\ result \in [run : Nat, tab : Nat \cup {Nothing}, window : Window \cup {Nothing},
                 done : BOOLEAN]
  /\ row_count \in Total \cup {Nothing}
  /\ counts \subseteq [generation : Nat, of : Target]
  /\ \A k \in counts : k.generation <= generation

\* The count shown, and the one that is to come, are of what is shown.
CountsFit ==
  /\ row_count # Nothing => Fits(tabs, row_count.of)
  /\ \A k \in counts : IsNewest(k) => Fits(tabs, k.of)

\* The active tab follows the session while the session runs for it.
LiveIsFollowed ==
  active # Nothing /\ active = live_owner /\ tabs[active].kind # "schema" => shown.live

ShownIsActive ==
  active # Nothing /\ tabs[active].kind # "schema" /\ ~ shown.live =>
    shown.tab = active /\ shown.last = tabs[active].last

\* A live preview's run is of a window, its own but for the page.
RunHasWindow ==
  live_owner # Nothing /\ IsGenerated(live_owner) => result.window \in Window

TasksTyped == tasks \subseteq [run : Nat, tab : Nat]

\* The inductive invariant, with TasksTyped and ViewInv below.
PreviewsInv ==
  /\ Types /\ OnePreviewEach(tabs) /\ CountsFit /\ OwnLast(tabs)
  /\ \A i \in Generated(tabs) : PreviewFits(tabs[i].preview)
  /\ live_owner # Nothing => result.tab = live_owner
  /\ LiveIsFollowed /\ ShownIsActive /\ ResultIsOfWindow /\ RunHasWindow

-----------------------------------------------------------------------------
(* Pages.                                                                    *)

LEMMA DivBounds ==
  ASSUME NEW a \in Nat, NEW b \in Nat \ {0}
  PROVE  /\ a \div b \in Nat
         /\ (a \div b) * b <= a
         /\ a < (a \div b) * b + b
BY SMT

LEMMA DivMonotonic ==
  ASSUME NEW a \in Nat, NEW c \in Nat, NEW b \in Nat \ {0}, a <= c
  PROVE  a \div b <= c \div b
BY SMT

\* There is a last page, the first one at least.
LEMMA LastPageType ==
  ASSUME NEW total \in Total, NEW size \in Nat \ {0}
  PROVE  LastPageNumber(total, size) \in Nat \ {0}
<1>1. total.count.rows \in Nat
  BY DEF Total, Count
<1>2. CASE total.count.rows = 0
  BY <1>2 DEF LastPageNumber
<1>3. CASE total.count.rows # 0
  BY <1>1, <1>3, DivBounds, total.count.rows - 1 \in Nat DEF LastPageNumber
<1> QED BY <1>2, <1>3

\* set_page_size: another size keeps the first row on the page, and the page
\* within what was known to be there.
LEMMA ResizedPage ==
  ASSUME NEW w \in Window, NEW size \in Nat \ {0}, PreviewLimit \in Nat,
         PageSizes \subseteq Nat \ {0}
  PROVE  LET v == Resized(w, size)
         IN  /\ v.page \in Nat \ {0}
             /\ Offset(v) <= Offset(w)
             /\ Offset(w) < Offset(v) + v.size
             /\ \A total \in Total :
                  w.page <= LastPageNumber(total, w.size) =>
                    v.page <= LastPageNumber(total, v.size)
<1> DEFINE v == Resized(w, size)
           o == Offset(w)
<1>1. w.page \in Nat \ {0} /\ w.size \in Nat \ {0}
  BY DEF Window
<1>2. o \in Nat
  BY <1>1 DEF Offset
<1>3. v.page = (o \div size) + 1 /\ v.size = size
  BY DEF Resized, Window
<1>4. o \div size \in Nat /\ (o \div size) * size <= o /\ o < (o \div size) * size + size
  BY <1>2, DivBounds
<1>5. Offset(v) = (o \div size) * size
  BY <1>3, <1>4 DEF Offset
<1>6. ASSUME NEW total \in Total, w.page <= LastPageNumber(total, w.size)
      PROVE  v.page <= LastPageNumber(total, size)
  <2> DEFINE n == total.count.rows
  <2>1. n \in Nat
    BY DEF Total, Count
  <2>2. CASE n = 0
    <3>1. w.page = 1
      BY <1>1, <1>6, <2>2 DEF LastPageNumber
    <3>2. o = 0
      BY <1>1, <3>1 DEF Offset
    <3>3. o \div size = 0
      BY <3>2
    <3> QED BY <1>3, <2>2, <3>3 DEF LastPageNumber
  <2>3. CASE n # 0
    <3> DEFINE q == (n - 1) \div w.size
    <3>1. n - 1 \in Nat
      BY <2>1, <2>3
    <3>2. q \in Nat /\ q * w.size <= n - 1
      BY <1>1, <3>1, DivBounds
    <3>3. w.page - 1 <= q /\ w.page - 1 \in Nat
      BY <1>1, <1>6, <2>3, <3>2 DEF LastPageNumber
    <3>4. o <= q * w.size
      BY <1>1, <3>2, <3>3 DEF Offset
    <3>5. o <= n - 1
      BY <1>1, <1>2, <3>1, <3>2, <3>4
    <3>6. o \div size <= (n - 1) \div size
      BY <1>2, <3>1, <3>5, DivMonotonic
    <3>7. (n - 1) \div size \in Nat
      BY <3>1, DivBounds
    <3> QED BY <1>3, <1>4, <2>3, <3>6, <3>7 DEF LastPageNumber
  <2> QED BY <2>2, <2>3
<1> QED BY <1>3, <1>4, <1>5, <1>6

-----------------------------------------------------------------------------
(* Totals.                                                                   *)

\* set_total_rows: a total of what p shows leaves p on a page that is there.
LEMMA SetTotalFits ==
  ASSUME NEW p \in Preview, NEW total \in Total \cup {Nothing}, BaseFits(p),
         IsOwn(p, total) => p.window.filter = total.of.filter,
         PageSizes \subseteq Nat \ {0}
  PROVE  LET q == SetTotal(p, total)
         IN  /\ q \in Preview
             /\ q.window = ToPage(p.window, q.window.page)
             /\ q.window.page <= p.window.page
             /\ PreviewFits(q)
<1> DEFINE q == SetTotal(p, total)
           last == LastPageNumber(total, p.window.size)
<1>1. p.window \in Window /\ p.total \in Total \cup {Nothing} /\ p.base \in Total \cup {Nothing}
  BY DEF Preview
<1>2. p.window.page \in Nat \ {0} /\ p.window.size \in Nat \ {0}
  BY <1>1 DEF Window
<1>3. IsExact(total) => last \in Nat \ {0}
  BY <1>2, LastPageType DEF IsExact
<1>4. /\ q.total = total
      /\ q.base = IF p.window.filter = Nothing THEN total ELSE p.base
      /\ q.window = IF IsExact(total) /\ p.window.page > last
                    THEN [p.window EXCEPT !.page = last] ELSE p.window
      /\ q = [window |-> q.window, total |-> q.total, base |-> q.base]
  BY DEF SetTotal
<1> HIDE DEF q, last
<1>5. /\ q.window \in Window
      /\ q.window.relation = p.window.relation
      /\ q.window.filter = p.window.filter
      /\ q.window.size = p.window.size
      /\ q.window.page <= p.window.page
      /\ q.window = ToPage(p.window, q.window.page)
      /\ IsExact(total) => q.window.page <= last
  <2>1. CASE IsExact(total) /\ p.window.page > last
    <3>1. q.window = [p.window EXCEPT !.page = last]
      BY <1>4, <2>1
    <3> QED BY <1>1, <1>2, <1>3, <2>1, <3>1 DEF Window, ToPage
  <2>2. CASE ~ (IsExact(total) /\ p.window.page > last)
    <3>1. q.window = p.window
      BY <1>4, <2>2
    <3>2. p.window = [p.window EXCEPT !.page = p.window.page]
      BY <1>1 DEF Window
    <3> QED BY <1>1, <1>2, <1>3, <2>2, <3>1, <3>2 DEF ToPage
  <2> QED BY <2>1, <2>2
<1>6. q \in Preview
  BY <1>1, <1>4, <1>5 DEF Preview
<1>7. PageFits(q)
  BY <1>4, <1>5 DEF PageFits, last
<1>8. TotalFits(q)
  BY <1>4, <1>5 DEF TotalFits, IsOwn
<1>9. BaseFits(q)
  BY <1>4, <1>5 DEF BaseFits, IsOwn
<1> QED BY <1>5, <1>6, <1>7, <1>8, <1>9 DEF PreviewFits, q

\* The observer of the session changes the total and the page of the live
\* preview and nothing else of any tab.
LEMMA ObservedFits ==
  ASSUME NEW ts, NEW owner, NEW total \in Total \cup {Nothing},
         PageSizes \subseteq Nat \ {0}, WellFormed(ts),
         total # Nothing => Fits(ts, total.of),
         \A i \in Generated(ts) :
           /\ BaseFits(ts[i].preview)
           /\ (i = owner /\ total = Nothing) \/ PreviewFits(ts[i].preview)
  PROVE  LET us == Observed(ts, owner, total)
         IN  /\ WellFormed(us)
             /\ DOMAIN us = DOMAIN ts
             /\ \A i \in DOMAIN ts : us[i].kind = ts[i].kind /\ us[i].last = ts[i].last
             /\ \A i \in Generated(ts) :
                  LET w == ts[i].preview.window
                      v == us[i].preview.window
                  IN  v = ToPage(w, v.page) /\ v.page <= w.page
             /\ \A i \in Generated(ts) : PreviewFits(us[i].preview)
             /\ \A i \in DOMAIN ts : us[i] = ts[i] \/ us[i].preview.total = total
<1> DEFINE us == Observed(ts, owner, total)
<1>1. DOMAIN us = DOMAIN ts /\ us = [i \in DOMAIN ts |-> us[i]]
  BY DEF Observed
<1>2. ASSUME NEW i \in Generated(ts)
      PROVE  /\ us[i] \in Tab /\ us[i].preview \in Preview
             /\ us[i].kind = ts[i].kind /\ us[i].last = ts[i].last
             /\ us[i].preview.window = ToPage(ts[i].preview.window, us[i].preview.window.page)
             /\ us[i].preview.window.page <= ts[i].preview.window.page
             /\ PreviewFits(us[i].preview)
             /\ us[i] = ts[i] \/ us[i].preview.total = total
  <2> DEFINE p == ts[i].preview
  <2>1. i \in DOMAIN ts /\ ts[i] \in Tab /\ p \in Preview /\ ts[i].kind = "generated"
    BY DEF WellFormed, Generated
  <2>2. p.window \in Window /\ p.window.page \in Nat
    BY <2>1 DEF Preview, Window
  <2>3. CASE i = owner /\ ~ SameTotal(p.total, total)
    <3>1. us[i] = [ts[i] EXCEPT !.preview = SetTotal(p, total)]
      BY <2>1, <2>3 DEF Observed
    <3>2. IsOwn(p, total) => p.window.filter = total.of.filter
      BY DEF IsOwn, Fits
    <3>3. LET q == SetTotal(p, total)
          IN  /\ q \in Preview /\ q.window = ToPage(p.window, q.window.page)
              /\ q.window.page <= p.window.page /\ PreviewFits(q)
      BY <2>1, <3>2, SetTotalFits
    <3>4. SetTotal(p, total).total = total
      BY DEF SetTotal
    <3> HIDE DEF p, us
    <3>5. us[i].preview = SetTotal(p, total) /\ us[i].kind = ts[i].kind /\ us[i].last = ts[i].last
      BY <2>1, <3>1 DEF Tab
    <3>6. us[i] \in Tab
      BY <2>1, <3>1, <3>3 DEF Tab
    <3> QED BY <3>3, <3>4, <3>5, <3>6 DEF p
  <2>4. CASE ~ (i = owner /\ ~ SameTotal(p.total, total))
    <3>1. us[i] = ts[i]
      BY <2>1, <2>4 DEF Observed
    <3>2. p.window = ToPage(p.window, p.window.page)
      BY <2>2 DEF ToPage, Window
    <3>3. PreviewFits(p)
      <4>1. CASE i = owner /\ total = Nothing
        <5>1. p.total = Nothing
          BY <2>4, <4>1 DEF SameTotal
        <5> QED BY <5>1 DEF PreviewFits, PageFits, TotalFits, IsExact, IsOwn
      <4> QED BY <4>1
    <3> QED BY <2>1, <2>2, <3>1, <3>2, <3>3
  <2> QED BY <2>3, <2>4
<1>3. ASSUME NEW i \in DOMAIN ts \ Generated(ts)
      PROVE  us[i] = ts[i] /\ us[i] \in Tab
  BY DEF Observed, Generated, WellFormed
<1>4. \A i \in DOMAIN us : us[i] \in Tab
  BY <1>1, <1>2, <1>3
<1>5. Generated(us) = Generated(ts)
  BY <1>1, <1>2, <1>3 DEF Generated
<1> HIDE DEF us
<1>6. WellFormed(us)
  BY <1>1, <1>2, <1>4, <1>5 DEF WellFormed
<1> QED BY <1>1, <1>2, <1>3, <1>6 DEF us

\* Tabs with the same previews, but for their pages and totals, hold what
\* OnePreviewEach and Fits say of their windows.
LEMMA SameWindows ==
  ASSUME NEW ts, NEW us, Generated(us) \subseteq Generated(ts),
         \A i \in Generated(us) :
           /\ us[i].preview.window.relation = ts[i].preview.window.relation
           /\ us[i].preview.window.filter = ts[i].preview.window.filter
  PROVE  /\ OnePreviewEach(ts) => OnePreviewEach(us)
         /\ \A t : Fits(ts, t) => Fits(us, t)
BY DEF OnePreviewEach, Fits

-----------------------------------------------------------------------------
(* Steps.                                                                    *)

\* A run of tab id, with the window its preview shows if it is one: whatever
\* became of the tabs ts before, the session and they agree after it.
LEMMA DispatchKeeps ==
  ASSUME PreviewsInv, PageSizes \subseteq Nat \ {0}, Nothing \notin Nat,
         NEW ts, NEW id \in DOMAIN ts, NEW shows \in Window \cup {Nothing},
         NEW count \in SUBSET Target, NEW kept \in Total \cup {Nothing},
         RunQuery(id, shows, count, kept), DispatchRun(ts, id), active' = id,
         next_id' \in Nat \ {0}, DOMAIN ts \subseteq 1..next_id' - 1,
         WellFormed(ts), OnePreviewEach(ts), OwnLast(ts),
         kept # Nothing => Fits(ts, kept.of),
         \A t \in count : Fits(ts, t),
         \A i \in Generated(ts) :
           /\ BaseFits(ts[i].preview)
           /\ (i = id /\ kept = Nothing) \/ PreviewFits(ts[i].preview),
         id \in Generated(ts) => shows = ts[id].preview.window
  PROVE  PreviewsInv'
<1>1. /\ generation' = generation + 1 /\ row_count' = kept
      /\ result' = [run |-> generation + 1, tab |-> id, window |-> shows, done |-> FALSE]
      /\ counts' = counts \cup {[generation |-> generation + 1, of |-> t] : t \in count}
  BY DEF RunQuery
<1>2. live_owner' = id /\ tabs' = Observed(ts, id, kept) /\ shown'.live = TRUE
  BY <1>1 DEF DispatchRun
<1>3. /\ WellFormed(tabs') /\ DOMAIN tabs' = DOMAIN ts
      /\ \A i \in DOMAIN ts : tabs'[i].kind = ts[i].kind /\ tabs'[i].last = ts[i].last
      /\ \A i \in Generated(ts) :
           LET w == ts[i].preview.window
               v == tabs'[i].preview.window
           IN  v = ToPage(w, v.page) /\ v.page <= w.page
      /\ \A i \in Generated(ts) : PreviewFits(tabs'[i].preview)
  BY <1>2, ObservedFits
<1>4. Generated(tabs') = Generated(ts)
  BY <1>3 DEF Generated
<1>5. \A i \in Generated(ts) :
        /\ ts[i].preview.window \in Window
        /\ tabs'[i].preview.window.relation = ts[i].preview.window.relation
        /\ tabs'[i].preview.window.filter = ts[i].preview.window.filter
  <2> SUFFICES ASSUME NEW i \in Generated(ts)
               PROVE  /\ ts[i].preview.window \in Window
                      /\ tabs'[i].preview.window.relation = ts[i].preview.window.relation
                      /\ tabs'[i].preview.window.filter = ts[i].preview.window.filter
    OBVIOUS
  <2>1. ts[i].preview.window \in Window
    BY DEF WellFormed, Preview
  <2>2. tabs'[i].preview.window = ToPage(ts[i].preview.window, tabs'[i].preview.window.page)
    BY <1>3
  <2> QED BY <2>1, <2>2 DEF ToPage, Window
<1>6. OnePreviewEach(tabs') /\ \A t : Fits(ts, t) => Fits(tabs', t)
  BY <1>4, <1>5, SameWindows
<1>7. Types'
  <2>1. generation \in Nat /\ counts \subseteq [generation : Nat, of : Target]
        /\ \A k \in counts : k.generation <= generation
    BY DEF PreviewsInv, Types
  <2>2. counts' \subseteq [generation : Nat, of : Target]
        /\ \A k \in counts' : k.generation <= generation'
    BY <1>1, <2>1
  <2>3. id \in Nat
    OBVIOUS
  <2>4. result' \in [run : Nat, tab : Nat \cup {Nothing}, window : Window \cup {Nothing},
                     done : BOOLEAN]
    BY <1>1, <2>1, <2>3
  <2> QED BY <1>1, <1>2, <1>3, <2>1, <2>2, <2>4 DEF Types
<1>8. CountsFit'
  <2>1. row_count' # Nothing => Fits(tabs', row_count'.of)
    BY <1>1, <1>6
  <2>2. ASSUME NEW k \in counts', k.generation = generation' PROVE Fits(tabs', k.of)
    <3>1. k \notin counts
      BY <1>1, <2>2 DEF PreviewsInv, Types
    <3>2. k.of \in count
      BY <1>1, <3>1
    <3> QED BY <1>6, <3>2
  <2> QED BY <2>1, <2>2 DEF CountsFit, IsNewest
<1>9. OwnLast(tabs')
  BY <1>3 DEF OwnLast
<1>10. ResultIsOfWindow' /\ RunHasWindow'
  <2> SUFFICES ASSUME id \in DOMAIN tabs', tabs'[id].kind = "generated"
               PROVE  LET w == tabs'[id].preview.window
                      IN  /\ result'.window = ToPage(w, result'.window.page)
                          /\ w.page <= result'.window.page
                          /\ result'.window \in Window
    BY <1>2, <1>3 DEF ResultIsOfWindow, RunHasWindow, IsGenerated
  <2> DEFINE w == tabs'[id].preview.window
  <2>1. id \in Generated(ts)
    BY <1>4 DEF Generated
  <2>2. result'.window = shows /\ shows = ts[id].preview.window /\ shows \in Window
    BY <1>1, <1>5, <2>1
  <2>3. w = ToPage(shows, w.page) /\ w.page <= shows.page
    BY <1>3, <2>1, <2>2
  <2>4. shows = ToPage(ToPage(shows, w.page), shows.page)
    BY <2>2 DEF ToPage, Window
  <2> QED BY <2>2, <2>3, <2>4
<1> QED BY <1>1, <1>2, <1>3, <1>4, <1>6, <1>7, <1>8, <1>9, <1>10
       DEF PreviewsInv, LiveIsFollowed, ShownIsActive

\* sync_results_to_active, for an active tab there is: the view follows the
\* session, or shows what the tab has.
LEMMA SyncedShows ==
  ASSUME NEW ts, NEW act, NEW owner, act # Nothing, ts[act].kind # "schema"
  PROVE  LET s == Synced(ts, act, owner)
         IN  /\ act = owner => s.live
             /\ ~ s.live => s.tab = act /\ s.last = ts[act].last
BY DEF Synced

\* A workspace opens with nothing counted and nothing live.
LEMMA PreviewsInvInit == PreviewsInit => PreviewsInv
<1> SUFFICES ASSUME PreviewsInit PROVE PreviewsInv
  OBVIOUS
<1>1. /\ tabs = [i \in {1} |-> [kind |-> "script", preview |-> Nothing, last |-> Nothing]]
      /\ DOMAIN tabs = {1} /\ next_id = 2 /\ active = 1 /\ live_owner = Nothing
      /\ generation = 0 /\ row_count = Nothing /\ counts = {}
      /\ result = [run |-> 0, tab |-> Nothing, window |-> Nothing, done |-> TRUE]
      /\ shown = [tab |-> 1, live |-> FALSE, last |-> Nothing]
  BY DEF PreviewsInit
<1>2. Generated(tabs) = {}
  BY <1>1 DEF Generated
<1>3. tabs[1] = [kind |-> "script", preview |-> Nothing, last |-> Nothing] /\ tabs[1] \in Tab
  BY <1>1 DEF Tab
<1>4. WellFormed(tabs)
  BY <1>1, <1>2, <1>3 DEF WellFormed
<1>5. Types
  BY <1>1, <1>4 DEF Types
<1>6. OnePreviewEach(tabs) /\ CountsFit /\ OwnLast(tabs)
  BY <1>1, <1>2, <1>3 DEF OnePreviewEach, CountsFit, OwnLast
<1>7. LiveIsFollowed /\ ShownIsActive /\ ResultIsOfWindow /\ RunHasWindow
  BY <1>1, <1>3, PreviewsAssumption DEF LiveIsFollowed, ShownIsActive, ResultIsOfWindow, RunHasWindow
<1> QED BY <1>1, <1>2, <1>5, <1>6, <1>7 DEF PreviewsInv

\* SetActive
LEMMA SetActiveKeeps ==
  ASSUME PreviewsInv, NEW i \in DOMAIN tabs, SetActive(i)
  PROVE  PreviewsInv'
<1>1. active' = i /\ shown' = Synced(tabs, i, live_owner) /\ i # Nothing
      /\ tabs' = tabs /\ live_owner' = live_owner /\ next_id' = next_id
      /\ result' = result /\ generation' = generation /\ row_count' = row_count
      /\ counts' = counts
  BY PreviewsAssumption DEF SetActive, sessionVars, PreviewsInv, Types
<1>2. Types' /\ CountsFit' /\ ResultIsOfWindow' /\ RunHasWindow'
  BY <1>1 DEF PreviewsInv, Types, CountsFit, IsNewest, ResultIsOfWindow, RunHasWindow, IsGenerated
<1>3. LiveIsFollowed' /\ ShownIsActive'
  <2> SUFFICES ASSUME tabs[i].kind # "schema"
               PROVE  /\ i = live_owner => shown'.live
                      /\ ~ shown'.live => shown'.tab = i /\ shown'.last = tabs[i].last
    BY <1>1 DEF LiveIsFollowed, ShownIsActive
  <2> QED BY <1>1, SyncedShows
<1> QED BY <1>1, <1>2, <1>3 DEF PreviewsInv

\* One more tab, a preview of a relation that has none or no preview at all,
\* is well-formed with the ones there are.
LEMMA WithTabFits ==
  ASSUME PreviewsInv, NEW kind \in {"script", "generated", "schema"},
         NEW preview \in Preview \cup {Nothing},
         kind = "generated" =>
           /\ preview \in Preview /\ PreviewFits(preview)
           /\ \A i \in Generated(tabs) :
                tabs[i].preview.window.relation # preview.window.relation
  PROVE  LET ts == WithTab(kind, preview)
         IN  /\ DOMAIN ts = DOMAIN tabs \cup {next_id}
             /\ DOMAIN ts \subseteq 1..next_id
             /\ next_id \notin DOMAIN tabs
             /\ \A i \in DOMAIN tabs : ts[i] = tabs[i]
             /\ ts[next_id] = [kind |-> kind, preview |-> preview, last |-> Nothing]
             /\ WellFormed(ts) /\ OnePreviewEach(ts) /\ OwnLast(ts)
             /\ \A i \in Generated(ts) : PreviewFits(ts[i].preview)
             /\ Generated(ts) = Generated(tabs)
                                  \cup (IF kind = "generated" THEN {next_id} ELSE {})
<1> DEFINE ts == WithTab(kind, preview)
           new == [kind |-> kind, preview |-> preview, last |-> Nothing]
<1>1. next_id \in Nat \ {0} /\ DOMAIN tabs \subseteq 1..next_id - 1 /\ WellFormed(tabs)
      /\ OnePreviewEach(tabs) /\ OwnLast(tabs)
      /\ \A i \in Generated(tabs) : PreviewFits(tabs[i].preview)
  BY DEF PreviewsInv, Types
<1>2. next_id \notin DOMAIN tabs
  BY <1>1
<1>3. /\ DOMAIN ts = DOMAIN tabs \cup {next_id} /\ ts[next_id] = new
      /\ \A i \in DOMAIN tabs : ts[i] = tabs[i]
      /\ ts = [i \in DOMAIN ts |-> ts[i]]
  BY <1>2 DEF WithTab
<1>4. new \in Tab /\ new.kind = kind /\ new.preview = preview /\ new.last = Nothing
  BY DEF Tab
<1> HIDE DEF ts, new
<1>5. Generated(ts) = Generated(tabs) \cup (IF kind = "generated" THEN {next_id} ELSE {})
  BY <1>2, <1>3, <1>4 DEF Generated
<1>6. \A i \in Generated(tabs) : i \in DOMAIN tabs /\ ts[i] = tabs[i]
  BY <1>3 DEF Generated
<1>7. WellFormed(ts)
  <2>1. \A i \in DOMAIN ts : ts[i] \in Tab
    BY <1>1, <1>3, <1>4 DEF WellFormed
  <2>2. \A i \in Generated(ts) : ts[i].preview \in Preview
    BY <1>1, <1>3, <1>4, <1>5, <1>6 DEF WellFormed
  <2> QED BY <1>3, <2>1, <2>2 DEF WellFormed
<1>8. OnePreviewEach(ts)
  BY <1>1, <1>2, <1>3, <1>4, <1>5, <1>6 DEF OnePreviewEach
<1>9. OwnLast(ts)
  BY <1>1, <1>3, <1>4 DEF OwnLast
<1>10. \A i \in Generated(ts) : PreviewFits(ts[i].preview)
  BY <1>1, <1>3, <1>4, <1>5, <1>6
<1>11. DOMAIN ts \subseteq 1..next_id
  BY <1>1, <1>3
<1> QED BY <1>2, <1>3, <1>5, <1>7, <1>8, <1>9, <1>10, <1>11 DEF ts, new

\* new_script_tab, open_or_reuse_schema
LEMMA OpenTabKeeps ==
  ASSUME PreviewsInv, NEW kind \in {"script", "schema"}, OpenTab(kind)
  PROVE  PreviewsInv'
<1> DEFINE ts == WithTab(kind, Nothing)
<1>1. /\ tabs' = ts /\ active' = next_id /\ next_id' = next_id + 1
      /\ live_owner' = live_owner /\ result' = result /\ generation' = generation
      /\ row_count' = row_count /\ counts' = counts
      /\ shown' = Synced(ts, next_id, live_owner)
  BY DEF OpenTab, sessionVars
<1>2. /\ DOMAIN ts = DOMAIN tabs \cup {next_id}
      /\ DOMAIN ts \subseteq 1..next_id
      /\ next_id \notin DOMAIN tabs
      /\ \A i \in DOMAIN tabs : ts[i] = tabs[i]
      /\ ts[next_id] = [kind |-> kind, preview |-> Nothing, last |-> Nothing]
      /\ WellFormed(ts) /\ OnePreviewEach(ts) /\ OwnLast(ts)
      /\ \A i \in Generated(ts) : PreviewFits(ts[i].preview)
      /\ Generated(ts) = Generated(tabs)
  BY WithTabFits
<1> HIDE DEF ts
<1>3. next_id \in Nat \ {0} /\ live_owner \in DOMAIN tabs \cup {Nothing}
  BY DEF PreviewsInv, Types
<1>4. next_id # Nothing /\ next_id # live_owner /\ next_id' = next_id + 1
      /\ DOMAIN ts \subseteq 1..next_id' - 1
  BY <1>1, <1>2, <1>3, PreviewsAssumption
<1>5. Types'
  BY <1>1, <1>2, <1>3, <1>4 DEF PreviewsInv, Types
<1>6. \A t : Fits(tabs, t) => Fits(ts, t)
  BY <1>2 DEF Fits, Generated
<1>7. CountsFit'
  BY <1>1, <1>6 DEF PreviewsInv, CountsFit, IsNewest
<1>8. LiveIsFollowed' /\ ShownIsActive'
  BY <1>1, <1>4, SyncedShows DEF LiveIsFollowed, ShownIsActive
<1>9. ResultIsOfWindow' /\ RunHasWindow'
  BY <1>1, <1>2, <1>3 DEF PreviewsInv, ResultIsOfWindow, RunHasWindow, IsGenerated
<1> QED BY <1>1, <1>2, <1>5, <1>7, <1>8, <1>9 DEF PreviewsInv

\* open_or_reuse_generated
LEMMA OpenGeneratedKeeps ==
  ASSUME PreviewsInv, NEW relation \in Relations, OpenGenerated(relation)
  PROVE  PreviewsInv'
<1> DEFINE open == {i \in DOMAIN tabs :
                      IsGenerated(i) /\ tabs[i].preview.window.relation = relation}
           new == NewPreview(relation)
           ts == WithTab("generated", new)
           target == TargetOf(new.window)
<1>1. CASE open # {}
  BY <1>1, SetActiveKeeps DEF OpenGenerated
<1>2. CASE open = {}
  <2>1. /\ active' = next_id /\ next_id' = next_id + 1
        /\ RunQuery(next_id, new.window, {target}, Nothing)
        /\ DispatchRun(ts, next_id)
    BY <1>2 DEF OpenGenerated
  <2>2. new \in Preview /\ new.window \in Window /\ target \in Target
        /\ target.relation = relation /\ target.filter = Nothing
        /\ new.window.relation = relation /\ new.window.filter = Nothing
        /\ new.total = Nothing /\ new.base = Nothing
    BY PreviewsAssumption DEF NewPreview, Preview, Window, TargetOf, Target
  <2>3. PreviewFits(new)
    BY <2>2 DEF PreviewFits, PageFits, TotalFits, BaseFits, IsOwn, IsExact
  <2>4. \A i \in Generated(tabs) : tabs[i].preview.window.relation # relation
    BY <1>2 DEF Generated, IsGenerated
  <2> HIDE DEF new, target
  <2>5. /\ DOMAIN ts = DOMAIN tabs \cup {next_id}
        /\ DOMAIN ts \subseteq 1..next_id
        /\ next_id \notin DOMAIN tabs
        /\ \A i \in DOMAIN tabs : ts[i] = tabs[i]
        /\ ts[next_id] = [kind |-> "generated", preview |-> new, last |-> Nothing]
        /\ WellFormed(ts) /\ OnePreviewEach(ts) /\ OwnLast(ts)
        /\ \A i \in Generated(ts) : PreviewFits(ts[i].preview)
        /\ Generated(ts) = Generated(tabs) \cup {next_id}
    BY <2>2, <2>3, <2>4, WithTabFits
  <2> HIDE DEF ts
  <2>6. next_id \in Nat \ {0}
    BY DEF PreviewsInv, Types
  <2>7. Fits(ts, target)
    BY <2>2, <2>4, <2>5 DEF Fits, Generated
  <2>8. next_id' \in Nat \ {0} /\ DOMAIN ts \subseteq 1..next_id' - 1
    BY <2>1, <2>5, <2>6
  <2>9. ts[next_id].preview = new
    BY <2>5
  <2> QED BY <2>1, <2>2, <2>5, <2>7, <2>8, <2>9, DispatchKeeps, PreviewsAssumption
          DEF PreviewFits
<1> QED BY <1>1, <1>2

\* mark_edited
LEMMA MarkEditedKeeps ==
  ASSUME PreviewsInv, MarkEdited
  PROVE  PreviewsInv'
<1> DEFINE ts == [tabs EXCEPT ![active].kind = "script", ![active].preview = Nothing]
<1>1. /\ active # Nothing /\ tabs[active].kind = "generated" /\ tabs' = ts
      /\ active' = active /\ live_owner' = live_owner /\ next_id' = next_id /\ shown' = shown
      /\ result' = result /\ generation' = generation
      /\ row_count' = row_count /\ counts' = counts
  BY DEF MarkEdited, sessionVars, IsGenerated
<1>2. active \in DOMAIN tabs /\ WellFormed(tabs) /\ tabs \in [DOMAIN tabs -> Tab]
  BY <1>1 DEF PreviewsInv, Types, WellFormed
<1>3. DOMAIN ts = DOMAIN tabs
      /\ \A i \in DOMAIN tabs \ {active} : ts[i] = tabs[i]
  BY <1>2
<1>4. ts[active] = [tabs[active] EXCEPT !.kind = "script", !.preview = Nothing]
  BY <1>2
<1>5. tabs[active] \in Tab
  BY <1>2
<1>6. ts[active] \in Tab /\ ts[active].kind = "script" /\ ts[active].last = tabs[active].last
  BY <1>4, <1>5 DEF Tab
<1>7. ts = [i \in DOMAIN tabs |-> ts[i]]
  BY <1>2
<1> HIDE DEF ts
<1>8. Generated(ts) = Generated(tabs) \ {active}
  BY <1>2, <1>3, <1>6 DEF Generated
<1>9. \A i \in Generated(ts) : ts[i] = tabs[i] /\ i \in Generated(tabs)
  BY <1>3, <1>8 DEF Generated
<1>10. ts \in [DOMAIN ts -> Tab]
  BY <1>2, <1>3, <1>6, <1>7
<1>11. WellFormed(ts)
  BY <1>2, <1>9, <1>10 DEF WellFormed
<1>12. OnePreviewEach(ts) /\ \A t : Fits(tabs, t) => Fits(ts, t)
  BY <1>8, <1>9, SameWindows DEF PreviewsInv
<1>13. Types'
  BY <1>1, <1>3, <1>11 DEF PreviewsInv, Types
<1>14. CountsFit'
  BY <1>1, <1>12 DEF PreviewsInv, CountsFit, IsNewest
<1>15. OwnLast(ts)
  BY <1>3, <1>6 DEF PreviewsInv, OwnLast
<1>16. LiveIsFollowed' /\ ShownIsActive'
  BY <1>1, <1>6 DEF PreviewsInv, LiveIsFollowed, ShownIsActive
<1>17. ResultIsOfWindow' /\ RunHasWindow'
  <2> SUFFICES ASSUME live_owner # Nothing, ts[live_owner].kind = "generated"
               PROVE  LET w == ts[live_owner].preview.window
                      IN  /\ result.window = ToPage(w, result.window.page)
                          /\ w.page <= result.window.page
                          /\ result.window \in Window
    BY <1>1 DEF ResultIsOfWindow, RunHasWindow, IsGenerated
  <2>1. live_owner \in Generated(ts)
    BY <1>3 DEF Generated, PreviewsInv, Types
  <2> QED BY <1>9, <2>1 DEF PreviewsInv, ResultIsOfWindow, RunHasWindow, IsGenerated, Generated
<1> QED BY <1>1, <1>9, <1>12, <1>13, <1>14, <1>15, <1>16, <1>17 DEF PreviewsInv

\* Closing a tab: what is left, and a neighbour to make active.
LEMMA CloseTabKeeps ==
  ASSUME PreviewsInv, NEW i \in DOMAIN tabs, CloseTab(i)
  PROVE  PreviewsInv'
<1> DEFINE rest == [k \in DOMAIN tabs \ {i} |-> tabs[k]]
           after == {k \in DOMAIN rest : k > i}
           neighbour == IF DOMAIN rest = {} THEN Nothing
                        ELSE IF after # {} THEN CHOOSE k \in after : \A m \in after : k <= m
                        ELSE CHOOSE k \in DOMAIN rest : \A m \in DOMAIN rest : m <= k
<1>1. /\ tabs' = rest /\ next_id' = next_id
      /\ live_owner' = (IF live_owner = i THEN Nothing ELSE live_owner)
      /\ active' = (IF active = i THEN neighbour ELSE active)
      /\ shown' = (IF active = i THEN Synced(rest, active', live_owner') ELSE shown)
      /\ result' = result /\ generation' = generation
      /\ row_count' = row_count /\ counts' = counts
  BY Zenon DEF CloseTab, sessionVars
<1>2. /\ DOMAIN rest = DOMAIN tabs \ {i}
      /\ \A k \in DOMAIN rest : rest[k] = tabs[k]
      /\ rest = [k \in DOMAIN rest |-> rest[k]]
  OBVIOUS
<1>3. /\ next_id \in Nat \ {0} /\ DOMAIN tabs \subseteq 1..next_id - 1 /\ WellFormed(tabs)
      /\ active \in DOMAIN tabs \cup {Nothing} /\ live_owner \in DOMAIN tabs \cup {Nothing}
  BY DEF PreviewsInv, Types
<1> HIDE DEF rest
<1>4. neighbour \in DOMAIN rest \cup {Nothing}
  <2>1. CASE DOMAIN rest = {}
    BY <2>1
  <2>2. CASE DOMAIN rest # {} /\ after # {}
    <3>1. after \subseteq Nat
      BY <1>2, <1>3
    <3>2. \E k \in after : \A m \in after : k <= m
      <4> HIDE DEF after
      <4> QED BY <2>2, <3>1, LeastNumber
    <3>3. (CHOOSE k \in after : \A m \in after : k <= m) \in after
      <4> HIDE DEF after
      <4> QED BY <3>2
    <3> QED BY <2>2, <3>3
  <2>3. CASE DOMAIN rest # {} /\ after = {}
    <3>1. DOMAIN rest \subseteq 0..next_id - 1 /\ next_id - 1 \in Nat
      BY <1>2, <1>3
    <3>2. \E k \in DOMAIN rest : \A m \in DOMAIN rest : m <= k
      BY <2>3, <3>1, GreatestNumber
    <3>3. (CHOOSE k \in DOMAIN rest : \A m \in DOMAIN rest : m <= k) \in DOMAIN rest
      BY <3>2
    <3> QED BY <2>3, <3>3
  <2> QED BY <2>1, <2>2, <2>3
<1> HIDE DEF neighbour
<1>5. active' \in DOMAIN rest \cup {Nothing}
  BY <1>1, <1>2, <1>3, <1>4
<1>6. live_owner' \in DOMAIN rest \cup {Nothing}
  BY <1>1, <1>2, <1>3
<1>7. Generated(rest) \subseteq Generated(tabs) /\ \A k \in Generated(rest) : rest[k] = tabs[k]
  BY <1>2 DEF Generated
<1>8. WellFormed(rest)
  <2>1. \A k \in DOMAIN rest : rest[k] \in Tab
    BY <1>2, <1>3 DEF WellFormed
  <2>2. rest \in [DOMAIN tabs \ {i} -> Tab]
    BY <1>2, <2>1 DEF rest
  <2> QED BY <1>2, <1>3, <1>7, <2>2 DEF WellFormed
<1>9. OnePreviewEach(rest) /\ \A t : Fits(tabs, t) => Fits(rest, t)
  BY <1>7, SameWindows DEF PreviewsInv
<1>10. Types'
  BY <1>1, <1>2, <1>3, <1>5, <1>6, <1>8 DEF PreviewsInv, Types
<1>11. CountsFit'
  BY <1>1, <1>9 DEF PreviewsInv, CountsFit, IsNewest
<1>12. OwnLast(rest)
  BY <1>2 DEF PreviewsInv, OwnLast
<1>13. LiveIsFollowed' /\ ShownIsActive'
  <2>1. CASE active = i
    <3>1. shown' = Synced(rest, active', live_owner')
      BY <1>1, <2>1
    <3> QED BY <1>1, <3>1, SyncedShows DEF LiveIsFollowed, ShownIsActive
  <2>2. CASE active # i
    <3>1. active' = active /\ shown' = shown
      BY <1>1, <2>2
    <3>2. active # Nothing => rest[active] = tabs[active]
      BY <1>2, <1>3, <2>2
    <3> QED BY <1>1, <1>3, <3>1, <3>2 DEF PreviewsInv, LiveIsFollowed, ShownIsActive
  <2> QED BY <2>1, <2>2
<1>14. ResultIsOfWindow' /\ RunHasWindow'
  BY <1>1, <1>2, <1>6 DEF PreviewsInv, ResultIsOfWindow, RunHasWindow, IsGenerated
<1>15. live_owner' # Nothing => result'.tab = live_owner'
  BY <1>1 DEF PreviewsInv
<1> QED BY <1>1, <1>7, <1>9, <1>10, <1>11, <1>12, <1>13, <1>14, <1>15 DEF PreviewsInv

\* run_for_tab, of a script
LEMMA RunScriptKeeps ==
  ASSUME PreviewsInv, RunScript
  PROVE  PreviewsInv'
<1>1. /\ active # Nothing /\ tabs[active].kind = "script"
      /\ RunQuery(active, Nothing, {}, Nothing) /\ DispatchRun(tabs, active)
      /\ active' = active /\ next_id' = next_id
  BY DEF RunScript
<1>2. /\ active \in DOMAIN tabs /\ active \notin Generated(tabs)
      /\ next_id \in Nat \ {0} /\ DOMAIN tabs \subseteq 1..next_id - 1
      /\ WellFormed(tabs) /\ OnePreviewEach(tabs) /\ OwnLast(tabs)
      /\ \A i \in Generated(tabs) : PreviewFits(tabs[i].preview)
  BY <1>1 DEF PreviewsInv, Types, Generated
<1> QED BY <1>1, <1>2, DispatchKeeps, PreviewsAssumption DEF PreviewFits

\* rerun_active_generated_tab: the window it is left with is of the same
\* relation, and of the same filter and on a page that is there unless all of
\* it is counted again.
LEMMA RerunKeeps ==
  ASSUME PreviewsInv, active # Nothing, IsGenerated(active),
         NEW w \in Window, NEW refetch \in BOOLEAN, Rerun(w, refetch),
         w.relation = tabs[active].preview.window.relation,
         ~ refetch =>
           /\ w.filter = tabs[active].preview.window.filter
           /\ IsExact(tabs[active].preview.total) =>
                w.page <= LastPageNumber(tabs[active].preview.total, w.size)
  PROVE  PreviewsInv'
<1> DEFINE p == tabs[active].preview
           q == [p EXCEPT !.window = w]
           ts == [tabs EXCEPT ![active].preview.window = w]
           count == IF refetch THEN {TargetOf(w)} ELSE {}
           kept == IF refetch THEN Nothing ELSE row_count
<1>1. /\ RunQuery(active, w, count, kept) /\ DispatchRun(ts, active)
      /\ active' = active /\ next_id' = next_id
  BY DEF Rerun
<1>2. /\ active \in Generated(tabs) /\ active \in DOMAIN tabs
      /\ tabs \in [DOMAIN tabs -> Tab] /\ WellFormed(tabs)
      /\ next_id \in Nat \ {0} /\ DOMAIN tabs \subseteq 1..next_id - 1
      /\ OnePreviewEach(tabs) /\ OwnLast(tabs) /\ CountsFit
      /\ row_count \in Total \cup {Nothing}
      /\ \A i \in Generated(tabs) : PreviewFits(tabs[i].preview)
  BY DEF PreviewsInv, Types, WellFormed, Generated, IsGenerated
<1>3. p \in Preview /\ tabs[active] \in Tab /\ tabs[active].kind = "generated"
  BY <1>2 DEF WellFormed, Generated
<1>4. /\ ts = [i \in DOMAIN tabs |-> ts[i]] /\ DOMAIN ts = DOMAIN tabs
      /\ \A i \in DOMAIN tabs \ {active} : ts[i] = tabs[i]
      /\ ts[active] = [tabs[active] EXCEPT !.preview = q]
  BY <1>2, <1>3 DEF Tab
<1>5. q \in Preview /\ q.window = w /\ q.total = p.total /\ q.base = p.base
  BY <1>3 DEF Preview
<1> HIDE DEF ts, q, p
<1>6. ts[active] \in Tab /\ ts[active].preview = q
      /\ ts[active].kind = "generated" /\ ts[active].last = tabs[active].last
  BY <1>3, <1>4, <1>5 DEF Tab
<1>7. Generated(ts) = Generated(tabs)
  BY <1>2, <1>3, <1>4, <1>6 DEF Generated
<1>8. WellFormed(ts)
  <2>1. \A i \in DOMAIN ts : ts[i] \in Tab
    BY <1>2, <1>4, <1>6
  <2>2. ts \in [DOMAIN ts -> Tab]
    BY <1>4, <2>1
  <2>3. \A i \in Generated(ts) : ts[i].preview \in Preview
    BY <1>2, <1>4, <1>5, <1>6, <1>7 DEF WellFormed, Generated
  <2> QED BY <2>2, <2>3 DEF WellFormed
<1>9. \A i \in Generated(ts) :
        ts[i].preview.window.relation = tabs[i].preview.window.relation
  BY <1>4, <1>5, <1>6, <1>7 DEF Generated, p
<1>10. OnePreviewEach(ts)
  BY <1>2, <1>7, <1>9 DEF OnePreviewEach
<1>11. OwnLast(ts)
  BY <1>2, <1>4, <1>6 DEF OwnLast
<1>12. kept # Nothing => Fits(ts, kept.of)
  <2> SUFFICES ASSUME ~ refetch, row_count # Nothing PROVE Fits(ts, row_count.of)
    OBVIOUS
  <2>1. \A i \in Generated(ts) :
          ts[i].preview.window.filter = tabs[i].preview.window.filter
    BY <1>4, <1>5, <1>6, <1>7 DEF Generated, p
  <2> QED BY <1>2, <1>7, <1>9, <2>1, SameWindows DEF CountsFit
<1>13. \A t \in count : Fits(ts, t)
  <2> SUFFICES ASSUME NEW i \in Generated(ts), ts[i].preview.window.relation = w.relation
               PROVE  ts[i].preview.window.filter = w.filter
    BY DEF Fits, TargetOf
  <2>1. i = active
    BY <1>2, <1>5, <1>6, <1>7, <1>10 DEF OnePreviewEach
  <2> QED BY <1>5, <1>6, <2>1
<1>14. ASSUME NEW i \in Generated(ts)
       PROVE  /\ BaseFits(ts[i].preview)
              /\ (i = active /\ kept = Nothing) \/ PreviewFits(ts[i].preview)
  <2>1. CASE i # active
    BY <1>2, <1>4, <1>7, <2>1 DEF Generated, PreviewFits
  <2>2. CASE i = active
    <3>1. PreviewFits(p)
      BY <1>2 DEF p
    <3>2. BaseFits(q)
      BY <1>5, <3>1 DEF PreviewFits, BaseFits, IsOwn, p
    <3>3. ~ refetch => PreviewFits(q)
      BY <1>5, <3>1, <3>2 DEF PreviewFits, PageFits, TotalFits, IsOwn, p
    <3> QED BY <1>6, <2>2, <3>2, <3>3
  <2> QED BY <2>1, <2>2
<1>15. count \in SUBSET Target /\ kept \in Total \cup {Nothing}
  BY <1>2 DEF TargetOf, Target, Window
<1>16. active \in Generated(ts) => w = ts[active].preview.window
  BY <1>5, <1>6
<1>17. active \in DOMAIN ts /\ DOMAIN ts \subseteq 1..next_id' - 1 /\ next_id' \in Nat \ {0}
  BY <1>1, <1>2, <1>4
<1> HIDE DEF count, kept
<1>18. PageSizes \subseteq Nat \ {0} /\ Nothing \notin Nat
  BY PreviewsAssumption
<1> QED BY <1>1, <1>8, <1>10, <1>11, <1>12, <1>13, <1>14, <1>15, <1>16, <1>17, <1>18,
           DispatchKeeps

\* dispatch_preview_action
LEMMA PreviewActionKeeps ==
  ASSUME PreviewsInv, PreviewAction
  PROVE  PreviewsInv'
<1> DEFINE p == tabs[active].preview
           w == p.window
           last == LastPageNumber(p.total, w.size)
<1>1. active # Nothing /\ IsGenerated(active)
  BY DEF PreviewAction
<1>2. active \in Generated(tabs)
  BY <1>1 DEF PreviewsInv, Types, Generated, IsGenerated
<1>3. p \in Preview /\ w \in Window /\ p.total \in Total \cup {Nothing} /\ PageFits(p)
  BY <1>2 DEF PreviewsInv, Types, WellFormed, Preview, PreviewFits
<1>4. w.page \in Nat \ {0} /\ w.size \in Nat \ {0} /\ w.size \in PageSizes
  BY <1>3, PreviewsAssumption DEF Window
<1>5. p.total # Nothing => last \in Nat \ {0}
  BY <1>3, <1>4, LastPageType
<1>6. \A page \in Nat \ {0} :
        ToPage(w, page) \in Window /\ ToPage(w, page).page = page
        /\ ToPage(w, page).relation = w.relation /\ ToPage(w, page).filter = w.filter
        /\ ToPage(w, page).size = w.size
  BY <1>3 DEF ToPage, Window
<1>7. ASSUME NEW page \in Nat \ {0}, Rerun(ToPage(w, page), FALSE),
             IsExact(p.total) => page <= last
      PROVE  PreviewsInv'
  <2> DEFINE v == ToPage(w, page)
  <2>1. v \in Window /\ v.relation = w.relation /\ v.filter = w.filter
        /\ (IsExact(p.total) => v.page <= LastPageNumber(p.total, v.size))
        /\ Rerun(v, FALSE)
    BY <1>6, <1>7
  <2> HIDE DEF v
  <2> QED BY <1>1, <2>1, RerunKeeps
<1>8. ASSUME NEW column \in SortColumns, Rerun(Sorted(w, column), FALSE)
      PROVE  PreviewsInv'
  <2> DEFINE v == Sorted(w, column)
  <2>1. v \in Window /\ v.relation = w.relation /\ v.filter = w.filter
        /\ v.page = 1 /\ v.size = w.size
    <3>1. \E asc \in BOOLEAN :
            v = [w EXCEPT !.sort = [column |-> column, asc |-> asc], !.page = 1]
      BY DEF Sorted
    <3>2. PICK asc \in BOOLEAN :
            v = [w EXCEPT !.sort = [column |-> column, asc |-> asc], !.page = 1]
      BY <3>1
    <3> DEFINE sort == [column |-> column, asc |-> asc]
    <3>3. sort \in Sort \cup {Nothing}
      BY DEF Sort
    <3> HIDE DEF p, w, v, sort
    <3>4. PICK first \in Nat \ {0} : first = 1
      OBVIOUS
    <3>5. v = [w EXCEPT !.sort = sort, !.page = first]
      BY <3>2, <3>4 DEF sort
    <3> QED BY <1>3, <3>3, <3>4, <3>5 DEF Window
  <2>2. IsExact(p.total) => v.page <= LastPageNumber(p.total, v.size)
    BY <1>5, <2>1 DEF IsExact
  <2> HIDE DEF v
  <2> QED BY <1>1, <1>8, <2>1, <2>2, RerunKeeps DEF v
<1>9. ASSUME ~ IsLastPage(p), Rerun(ToPage(w, w.page + 1), FALSE)
      PROVE  PreviewsInv'
  <2>1. IsExact(p.total) => w.page + 1 <= last
    BY <1>4, <1>5, <1>9 DEF IsLastPage, IsExact
  <2>2. w.page + 1 \in Nat \ {0}
    BY <1>4
  <2> HIDE DEF p, w, last
  <2> QED BY <1>7, <1>9, <2>1, <2>2
<1>10. ASSUME w.page > 1, NEW page \in {1, w.page - 1}, Rerun(ToPage(w, page), FALSE)
       PROVE  PreviewsInv'
  <2>1. page \in Nat \ {0} /\ page <= w.page
    BY <1>4, <1>10
  <2>2. IsExact(p.total) => page <= last
    BY <1>3, <1>4, <1>5, <2>1 DEF PageFits, IsExact
  <2> QED BY <1>7, <1>10, <2>1, <2>2
<1>11. ASSUME p.total # Nothing, Rerun(ToPage(w, last), FALSE)
       PROVE  PreviewsInv'
  <2>1. last \in Nat \ {0} /\ last <= last
    BY <1>5, <1>11
  <2> HIDE DEF p, w, last
  <2> QED BY <1>7, <1>11, <2>1
<1>12. ASSUME NEW size \in PageSizes, Rerun(Resized(w, size), FALSE)
       PROVE  PreviewsInv'
  <2> DEFINE v == Resized(w, size)
  <2>1. size \in Nat \ {0} /\ PreviewLimit \in Nat
    BY PreviewsAssumption
  <2>2. v.page \in Nat \ {0} /\ \A total \in Total :
          w.page <= LastPageNumber(total, w.size) => v.page <= LastPageNumber(total, v.size)
    BY <1>3, <2>1, ResizedPage, PreviewsAssumption
  <2>3. v \in Window /\ v.relation = w.relation /\ v.filter = w.filter
    <3>1. v = [w EXCEPT !.size = size, !.page = v.page]
      BY <1>3 DEF Resized, Window
    <3> HIDE DEF v
    <3> QED BY <1>3, <2>2, <3>1 DEF Window
  <2>4. IsExact(p.total) => v.page <= LastPageNumber(p.total, v.size)
    BY <1>3, <2>2 DEF PageFits, IsExact
  <2> HIDE DEF v
  <2> QED BY <1>1, <1>12, <2>3, <2>4, RerunKeeps DEF v
<1>13. ASSUME NEW f \in Filters \cup {Nothing}, Rerun(Filtered(w, f), TRUE)
       PROVE  PreviewsInv'
  <2> DEFINE v == Filtered(w, f)
  <2>1. v \in Window /\ v.relation = w.relation
    <3> HIDE DEF p, w
    <3>1. PICK first \in Nat \ {0} : first = 1
      OBVIOUS
    <3>2. v = [w EXCEPT !.filter = f, !.page = first]
      BY <3>1 DEF Filtered
    <3> QED BY <1>3, <3>2 DEF Window
  <2> HIDE DEF v
  <2> QED BY <1>1, <1>13, <2>1, RerunKeeps DEF v
<1>14. ASSUME Rerun(w, TRUE)
       PROVE  PreviewsInv'
  BY <1>1, <1>3, <1>14, RerunKeeps
<1> HIDE DEF p, w, last
<1>15. \/ \E column \in SortColumns : Rerun(Sorted(w, column), FALSE)
       \/ ~ IsLastPage(p) /\ Rerun(ToPage(w, w.page + 1), FALSE)
       \/ w.page > 1 /\ \E page \in {1, w.page - 1} : Rerun(ToPage(w, page), FALSE)
       \/ p.total # Nothing /\ Rerun(ToPage(w, last), FALSE)
       \/ \E size \in PageSizes : Rerun(Resized(w, size), FALSE)
       \/ \E f \in Filters \cup {Nothing} : Rerun(Filtered(w, f), TRUE)
       \/ Rerun(w, TRUE)
  BY DEF PreviewAction, p, w, last
<1> QED BY <1>8, <1>9, <1>10, <1>11, <1>12, <1>13, <1>14, <1>15

\* Events of the newest query, and its cancellation.
LEMMA QueryKeeps ==
  ASSUME PreviewsInv, CancelQuery \/ \E done \in BOOLEAN : QueryRuns(done)
  PROVE  PreviewsInv'
<1>1. /\ tabs' = tabs /\ active' = active /\ live_owner' = live_owner
      /\ next_id' = next_id /\ shown' = shown
      /\ row_count' = row_count /\ counts' = counts
  BY DEF CancelQuery, QueryRuns, tabVars
<1>2. PICK done \in BOOLEAN : result' = [result EXCEPT !.done = done]
  BY DEF CancelQuery, QueryRuns
<1>3. generation' \in {generation, generation + 1}
  BY DEF CancelQuery, QueryRuns
<1>4. Types /\ CountsFit
  BY DEF PreviewsInv
<1>5. result'.tab = result.tab /\ result'.window = result.window
  BY <1>2, <1>4 DEF Types
<1>6. Types'
  <2>1. result' \in [run : Nat, tab : Nat \cup {Nothing}, window : Window \cup {Nothing},
                     done : BOOLEAN]
    BY <1>2, <1>4 DEF Types
  <2>2. generation' \in Nat /\ \A k \in counts' : k.generation <= generation'
    <3>1. generation \in Nat /\ \A k \in counts : k.generation \in Nat
                                                /\ k.generation <= generation
      BY <1>4 DEF Types
    <3> QED BY <1>1, <1>3, <3>1
  <2> QED BY <1>1, <1>4, <2>1, <2>2 DEF Types
<1>7. CountsFit'
  <2>1. ASSUME NEW k \in counts, k.generation = generation'
        PROVE  k.generation = generation
    BY <1>3, <1>4, <2>1 DEF Types
  <2> QED BY <1>1, <1>4, <2>1 DEF CountsFit, IsNewest
<1>8. LiveIsFollowed' /\ ShownIsActive' /\ ResultIsOfWindow' /\ RunHasWindow'
  BY <1>1, <1>5 DEF PreviewsInv, LiveIsFollowed, ShownIsActive, ResultIsOfWindow, RunHasWindow, IsGenerated
<1> QED BY <1>1, <1>5, <1>6, <1>7, <1>8 DEF PreviewsInv

\* A count answers: it is passed to the live tab, if it is the newest.
LEMMA CountResolvesKeeps ==
  ASSUME PreviewsInv, NEW k \in counts, CountResolves(k)
  PROVE  PreviewsInv'
<1>1. /\ active' = active /\ live_owner' = live_owner
      /\ next_id' = next_id /\ shown' = shown /\ result' = result
      /\ generation' = generation /\ counts' = counts \ {k}
  BY DEF CountResolves
<1>2. /\ Types /\ OnePreviewEach(tabs) /\ CountsFit /\ OwnLast(tabs)
      /\ \A i \in Generated(tabs) : PreviewFits(tabs[i].preview)
      /\ k \in [generation : Nat, of : Target]
  BY DEF PreviewsInv, Types
<1>3. CASE ~ IsNewest(k)
  <2>1. row_count' = row_count /\ tabs' = tabs
    BY <1>3 DEF CountResolves
  <2>2. Types'
    BY <1>1, <1>2, <2>1 DEF Types
  <2>3. CountsFit'
    BY <1>1, <1>2, <2>1 DEF CountsFit, IsNewest
  <2>4. LiveIsFollowed' /\ ShownIsActive' /\ ResultIsOfWindow' /\ RunHasWindow'
    BY <1>1, <2>1 DEF PreviewsInv, LiveIsFollowed, ShownIsActive, ResultIsOfWindow, RunHasWindow, IsGenerated
  <2> QED BY <1>1, <1>2, <2>1, <2>2, <2>3, <2>4 DEF PreviewsInv
<1>4. CASE IsNewest(k)
  <2>1. /\ row_count' \in {[of |-> k.of, count |-> c] : c \in Counts} \cup {row_count}
        /\ tabs' = Observed(tabs, live_owner, row_count')
    BY <1>4 DEF CountResolves
  <2>2. row_count' \in Total \cup {Nothing}
        /\ (row_count' # Nothing => Fits(tabs, row_count'.of))
    <3>1. CASE row_count' = row_count
      BY <1>2, <3>1 DEF Types, CountsFit
    <3>2. ASSUME NEW c \in Counts, row_count' = [of |-> k.of, count |-> c]
          PROVE  row_count' \in Total /\ row_count'.of = k.of
      BY <1>2, <3>2, PreviewsAssumption DEF Total, Count
    <3> QED BY <1>2, <1>4, <2>1, <3>1, <3>2 DEF CountsFit
  <2>3. \A i \in Generated(tabs) : BaseFits(tabs[i].preview)
    BY <1>2 DEF PreviewFits
  <2>4. /\ WellFormed(tabs') /\ DOMAIN tabs' = DOMAIN tabs
        /\ \A i \in DOMAIN tabs : tabs'[i].kind = tabs[i].kind /\ tabs'[i].last = tabs[i].last
        /\ \A i \in Generated(tabs) :
             LET w == tabs[i].preview.window
                 v == tabs'[i].preview.window
             IN  v = ToPage(w, v.page) /\ v.page <= w.page
        /\ \A i \in Generated(tabs) : PreviewFits(tabs'[i].preview)
    <3>1. WellFormed(tabs) /\ PageSizes \subseteq Nat \ {0}
      BY <1>2, PreviewsAssumption DEF Types
    <3> QED BY <1>2, <2>1, <2>2, <2>3, <3>1, ObservedFits
  <2>5. Generated(tabs') = Generated(tabs)
    BY <2>4 DEF Generated
  <2>6. ASSUME NEW i \in Generated(tabs)
        PROVE  /\ tabs[i].preview.window \in Window
               /\ tabs'[i].preview.window.relation = tabs[i].preview.window.relation
               /\ tabs'[i].preview.window.filter = tabs[i].preview.window.filter
    <3>1. tabs[i].preview.window \in Window
      BY <1>2 DEF Types, WellFormed, Preview
    <3>2. tabs'[i].preview.window = ToPage(tabs[i].preview.window, tabs'[i].preview.window.page)
      BY <2>4
    <3> QED BY <3>1, <3>2 DEF ToPage, Window
  <2>7. OnePreviewEach(tabs') /\ \A t : Fits(tabs, t) => Fits(tabs', t)
    BY <1>2, <2>5, <2>6, SameWindows
  <2>8. Types'
    BY <1>1, <1>2, <2>2, <2>4 DEF Types
  <2>9. CountsFit'
    BY <1>1, <1>2, <2>2, <2>7 DEF CountsFit, IsNewest
  <2>10. OwnLast(tabs')
    BY <1>2, <2>4 DEF OwnLast
  <2>11. LiveIsFollowed' /\ ShownIsActive'
    BY <1>1, <1>2, <2>4 DEF PreviewsInv, LiveIsFollowed, ShownIsActive, Types
  <2>12. ResultIsOfWindow' /\ RunHasWindow'
    <3> SUFFICES ASSUME live_owner # Nothing, tabs'[live_owner].kind = "generated"
                 PROVE  LET v == tabs'[live_owner].preview.window
                        IN  /\ result.window = ToPage(v, result.window.page)
                            /\ v.page <= result.window.page
                            /\ result.window \in Window
      BY <1>1 DEF ResultIsOfWindow, RunHasWindow, IsGenerated
    <3> DEFINE v == tabs'[live_owner].preview.window
               w == tabs[live_owner].preview.window
    <3>1. live_owner \in Generated(tabs)
      BY <1>2, <2>4 DEF Generated, Types
    <3>2. /\ result.window = ToPage(w, result.window.page) /\ w.page <= result.window.page
          /\ result.window \in Window
      BY <3>1 DEF PreviewsInv, ResultIsOfWindow, RunHasWindow, IsGenerated, Generated
    <3>3. v = ToPage(w, v.page) /\ v.page <= w.page /\ w \in Window
      BY <2>4, <2>6, <3>1
    <3>4. v \in Window
      BY <2>4, <2>5, <3>1 DEF WellFormed, Preview
    <3> HIDE DEF v, w
    <3>5. ToPage(w, result.window.page) = ToPage(v, result.window.page)
      BY <3>3 DEF ToPage, Window
    <3>6. v.page \in Nat /\ w.page \in Nat /\ result.window.page \in Nat
      BY <3>2, <3>3, <3>4 DEF Window
    <3> QED BY <3>2, <3>3, <3>5, <3>6 DEF v
  <2> QED BY <1>1, <2>4, <2>5, <2>7, <2>8, <2>9, <2>10, <2>11, <2>12 DEF PreviewsInv
<1> QED BY <1>3, <1>4

\* A run's task leaves the live tab, if that is still its own, the snapshot of
\* the query that is the session's now.
LEMMA FinishRunKeeps ==
  ASSUME PreviewsInv, NEW t \in tasks, t.run \in Nat, FinishRun(t)
  PROVE  PreviewsInv'
<1> DEFINE last == [run |-> result.run, tab |-> result.tab, done |-> result.done,
                    by |-> t.run]
<1>1. /\ active' = active /\ live_owner' = live_owner
      /\ next_id' = next_id /\ shown' = shown /\ result' = result
      /\ generation' = generation /\ row_count' = row_count /\ counts' = counts
  BY DEF FinishRun, sessionVars
<1>2. /\ Types /\ WellFormed(tabs) /\ OnePreviewEach(tabs) /\ CountsFit /\ OwnLast(tabs)
      /\ \A i \in Generated(tabs) : PreviewFits(tabs[i].preview)
  BY DEF PreviewsInv, Types
<1>3. CASE Owns(t) /\ t.tab \in DOMAIN tabs
  <2>1. live_owner \in DOMAIN tabs /\ tabs' = [tabs EXCEPT ![live_owner].last = last]
    BY <1>3 DEF FinishRun, Owns
  <2>2. live_owner # Nothing
    BY <1>2, <2>1, PreviewsAssumption DEF Types
  <2>3. last \in LastRun /\ last.tab = live_owner
    BY <1>2, <2>2 DEF PreviewsInv, Types, LastRun
  <2> HIDE DEF last
  <2>4. tabs \in [DOMAIN tabs -> Tab] /\ tabs[live_owner] \in Tab
    BY <1>2, <2>1 DEF WellFormed
  <2>5. /\ DOMAIN tabs' = DOMAIN tabs
        /\ \A i \in DOMAIN tabs \ {live_owner} : tabs'[i] = tabs[i]
        /\ tabs'[live_owner] = [tabs[live_owner] EXCEPT !.last = last]
        /\ tabs' = [i \in DOMAIN tabs |-> tabs'[i]]
    BY <2>1, <2>4
  <2>6. tabs'[live_owner] \in Tab /\ tabs'[live_owner].kind = tabs[live_owner].kind
        /\ tabs'[live_owner].preview = tabs[live_owner].preview
        /\ tabs'[live_owner].last = last
    BY <2>3, <2>4, <2>5 DEF Tab
  <2>7. \A i \in DOMAIN tabs : /\ tabs'[i] \in Tab /\ tabs'[i].kind = tabs[i].kind
                               /\ tabs'[i].preview = tabs[i].preview
    BY <2>4, <2>5, <2>6
  <2>8. Generated(tabs') = Generated(tabs)
    BY <2>5, <2>7 DEF Generated
  <2>9. \A i \in Generated(tabs) : tabs'[i].preview = tabs[i].preview
    BY <2>7 DEF Generated
  <2>10. WellFormed(tabs')
    <3>1. tabs' \in [DOMAIN tabs' -> Tab]
      BY <2>5, <2>7
    <3> QED BY <1>2, <2>8, <2>9, <3>1 DEF WellFormed
  <2>11. OnePreviewEach(tabs') /\ \A u : Fits(tabs, u) => Fits(tabs', u)
    BY <1>2, <2>8, <2>9, SameWindows
  <2>12. Types'
    BY <1>1, <1>2, <2>5, <2>10 DEF Types
  <2>13. CountsFit'
    BY <1>1, <1>2, <2>11 DEF CountsFit, IsNewest
  <2>14. OwnLast(tabs')
    <3>1. tabs'[live_owner].last.tab = live_owner
      BY <2>3, <2>6
    <3>2. \A i \in DOMAIN tabs \ {live_owner} : tabs'[i].last = tabs[i].last
      BY <2>5
    <3> QED BY <1>2, <2>5, <3>1, <3>2 DEF OwnLast
  <2>15. LiveIsFollowed' /\ ShownIsActive'
    BY <1>1, <1>2, <2>5, <2>6, <2>7 DEF PreviewsInv, LiveIsFollowed, ShownIsActive, Types
  <2>16. ResultIsOfWindow' /\ RunHasWindow'
    BY <1>1, <2>1, <2>7 DEF PreviewsInv, ResultIsOfWindow, RunHasWindow, IsGenerated
  <2> QED BY <1>1, <1>2, <2>8, <2>9, <2>11, <2>12, <2>13, <2>14, <2>15, <2>16 DEF PreviewsInv
<1>4. CASE ~ (Owns(t) /\ t.tab \in DOMAIN tabs)
  <2>1. tabs' = tabs
    BY <1>4 DEF FinishRun
  <2>2. Types' /\ CountsFit'
    BY <1>1, <1>2, <2>1 DEF Types, CountsFit, IsNewest
  <2>3. LiveIsFollowed' /\ ShownIsActive' /\ ResultIsOfWindow' /\ RunHasWindow'
    BY <1>1, <2>1 DEF PreviewsInv, LiveIsFollowed, ShownIsActive, ResultIsOfWindow,
                      RunHasWindow, IsGenerated
  <2> QED BY <1>1, <1>2, <2>1, <2>2, <2>3 DEF PreviewsInv
<1> QED BY <1>3, <1>4

\* Another connection's tabs are those there were under new ids, with nothing
\* counted.
LEMMA RestoredFits ==
  ASSUME PreviewsInv
  PROVE  LET R == Restored
         IN  /\ Cardinality(DOMAIN R) \in Nat
             /\ DOMAIN R \subseteq next_id..next_id + Cardinality(DOMAIN R) - 1
             /\ WellFormed(R) /\ OnePreviewEach(R) /\ OwnLast(R)
             /\ \A k \in Generated(R) : PreviewFits(R[k].preview)
             /\ \A t : Fits(tabs, t) => Fits(R, t)
             /\ \A k \in DOMAIN R : R[k].last = Nothing
<1> DEFINE saved == {i \in DOMAIN tabs : tabs[i].kind # "schema"}
           id(i) == next_id + Cardinality({k \in saved : k < i})
           blank == [kind |-> "script", preview |-> Nothing, last |-> Nothing]
           ids == {id(i) : i \in saved}
           blanked(p) == IF p = Nothing THEN Nothing
                         ELSE [p EXCEPT !.total = Nothing, !.base = Nothing]
           reopened(old) == [old EXCEPT !.last = Nothing, !.preview = blanked(old.preview)]
           from(k) == CHOOSE i \in saved : id(i) = k
           R == Restored
<1>1. next_id \in Nat \ {0} /\ DOMAIN tabs \subseteq 1..next_id - 1 /\ WellFormed(tabs)
      /\ OnePreviewEach(tabs)
  BY DEF PreviewsInv, Types
<1>2. CASE saved = {}
  <2>1. R = [i \in {next_id} |-> blank]
    BY <1>2 DEF Restored
  <2> HIDE DEF R
  <2>2. DOMAIN R = {next_id} /\ R[next_id] = blank
    BY <2>1
  <2>3. Cardinality(DOMAIN R) = 1
    BY <2>2, FS_Singleton
  <2>4. Generated(R) = {}
    BY <2>2 DEF Generated
  <2>5. blank \in Tab
    BY DEF Tab
  <2>6. R \in [DOMAIN R -> Tab]
    BY <2>1, <2>2, <2>5
  <2>7. WellFormed(R)
    BY <2>4, <2>6 DEF WellFormed
  <2>8. OnePreviewEach(R) /\ OwnLast(R)
    BY <2>2, <2>4 DEF OnePreviewEach, OwnLast
  <2>9. \A t : Fits(R, t)
    BY <2>4 DEF Fits
  <2>10. next_id \in next_id..next_id + 1 - 1
    BY <1>1
  <2>11. \A k \in DOMAIN R : R[k].last = Nothing
    BY <2>2
  <2> QED BY <2>2, <2>3, <2>4, <2>7, <2>8, <2>9, <2>10, <2>11 DEF R
<1>3. CASE saved # {}
  <2>1. R = [k \in ids |-> reopened(tabs[from(k)])]
    BY <1>3, Zenon DEF Restored
  <2>2. saved \subseteq DOMAIN tabs /\ saved \subseteq Nat /\ IsFiniteSet(saved)
    <3>1. IsFiniteSet(1..next_id - 1)
      BY <1>1, FS_Interval
    <3>2. saved \subseteq 1..next_id - 1 /\ saved \subseteq DOMAIN tabs
      BY <1>1
    <3> HIDE DEF saved
    <3>3. IsFiniteSet(saved)
      BY <3>1, <3>2, FS_Subset
    <3> QED BY <1>1, <3>2, <3>3
  <2> HIDE DEF saved, R
  <2>3. ASSUME NEW i \in saved
        PROVE  /\ IsFiniteSet({k \in saved : k < i})
               /\ Cardinality({k \in saved : k < i}) \in Nat /\ id(i) \in Nat
               /\ id(i) \in next_id..next_id + Cardinality(saved) - 1
    <3> DEFINE below == {k \in saved : k < i}
    <3>1. below \in SUBSET saved /\ i \in saved /\ i \notin below
      BY <2>2
    <3> HIDE DEF below
    <3>2. /\ IsFiniteSet(below) /\ Cardinality(below) <= Cardinality(saved)
          /\ Cardinality(below) # Cardinality(saved)
      BY <2>2, <3>1, FS_Subset
    <3>3. Cardinality(below) \in Nat /\ Cardinality(saved) \in Nat
      BY <2>2, <3>2, FS_CardinalityType
    <3> QED BY <1>1, <3>2, <3>3 DEF below
  <2>4. ASSUME NEW i \in saved, NEW j \in saved, i < j
        PROVE  id(i) < id(j)
    <3> DEFINE a == {k \in saved : k < i}
               b == {k \in saved : k < j}
    <3>1. i \in Nat /\ j \in Nat /\ \A k \in saved : k \in Nat
      BY <2>2
    <3>2. i \in b /\ i \notin a
      BY <2>4, <3>1
    <3>3. a \in SUBSET b
      <4>1. ASSUME NEW k \in a PROVE k \in b
        BY <2>4, <3>1
      <4> QED BY <4>1
    <3>4. IsFiniteSet(b) /\ Cardinality(a) \in Nat /\ Cardinality(b) \in Nat
      BY <2>3
    <3> HIDE DEF a, b
    <3>5. Cardinality(a) <= Cardinality(b) /\ Cardinality(a) # Cardinality(b)
      BY <3>2, <3>3, <3>4, FS_Subset
    <3>6. next_id + Cardinality(a) < next_id + Cardinality(b)
      BY <1>1, <3>4, <3>5
    <3> QED BY <3>6 DEF a, b
  <2>5. ids \subseteq next_id..next_id + Cardinality(saved) - 1
    BY <2>3
  <2>6. IsFiniteSet(ids) /\ Cardinality(ids) \in Nat
    <3>1. Cardinality(saved) \in Nat
      BY <2>2, FS_CardinalityType
    <3>2. IsFiniteSet(next_id..next_id + Cardinality(saved) - 1)
      BY <1>1, <3>1, FS_Interval
    <3> QED BY <2>5, <3>2, FS_Subset, FS_CardinalityType
  <2>7. Cardinality(saved) <= Cardinality(ids)
    <3> DEFINE f == [i \in saved |-> id(i)]
    <3>1. f \in [saved -> ids]
      OBVIOUS
    <3>2. \A i, j \in saved : f[i] = f[j] => i = j
      <4>1. \A i, j \in saved : i # j => i < j \/ j < i
        BY <2>2
      <4>2. \A i \in saved : id(i) \in Nat
        BY <1>1, <2>3
      <4> QED BY <2>4, <4>1, <4>2
    <3> HIDE DEF f, ids
    <3>3. f \in Injection(saved, ids)
      BY <3>1, <3>2 DEF Injection, IsInjective
    <3> QED BY <2>6, <3>3, FS_Injection
  <2>8. DOMAIN R = ids
    BY <2>1
  <2>9. DOMAIN R \subseteq next_id..next_id + Cardinality(DOMAIN R) - 1
    <3>1. Cardinality(saved) \in Nat
      BY <2>2, FS_CardinalityType
    <3> HIDE DEF ids
    <3> QED BY <1>1, <2>5, <2>6, <2>7, <2>8, <3>1
  <2>10. ASSUME NEW k \in ids
         PROVE  from(k) \in saved /\ id(from(k)) = k
    OBVIOUS
  <2>11. ASSUME NEW k \in ids
         PROVE  /\ from(k) \in DOMAIN tabs
                /\ R[k].kind = tabs[from(k)].kind /\ R[k].last = Nothing /\ R[k] \in Tab
                /\ R[k].kind = "generated" =>
                     /\ from(k) \in Generated(tabs)
                     /\ R[k].preview \in Preview
                     /\ R[k].preview.window = tabs[from(k)].preview.window
                     /\ PreviewFits(R[k].preview)
    <3> DEFINE old == tabs[from(k)]
               p == old.preview
    <3>1. from(k) \in DOMAIN tabs /\ old \in Tab
      BY <1>1, <2>2, <2>10 DEF WellFormed
    <3>2. R[k] = reopened(old)
      BY <2>1
    <3> HIDE DEF old
    <3>3. p \in Preview =>
            /\ blanked(p) \in Preview /\ blanked(p).window = p.window
            /\ PreviewFits(p) => PreviewFits(blanked(p))
      <4>1. CASE p = Nothing
        <5>1. blanked(p) = p
          BY <4>1
        <5> HIDE DEF blanked, p
        <5> QED BY <5>1
      <4>2. CASE p # Nothing
        <5>1. blanked(p) = [p EXCEPT !.total = Nothing, !.base = Nothing]
          BY <4>2
        <5> HIDE DEF blanked, p
        <5>2. p \in Preview =>
                /\ blanked(p) \in Preview /\ blanked(p).window = p.window
                /\ blanked(p).total = Nothing /\ blanked(p).base = Nothing
          BY <5>1 DEF Preview
        <5> QED BY <5>2 DEF PreviewFits, PageFits, TotalFits, BaseFits, IsOwn, IsExact
      <4> QED BY <4>1, <4>2
    <3>4. blanked(p) \in Preview \cup {Nothing}
      BY <3>1, <3>3 DEF Tab
    <3> HIDE DEF blanked
    <3>5. /\ R[k].kind = old.kind /\ R[k].last = Nothing /\ R[k] \in Tab
          /\ R[k].preview = blanked(p)
      BY <3>1, <3>2, <3>4 DEF Tab
    <3>6. old.kind = "generated" =>
            from(k) \in Generated(tabs) /\ p \in Preview /\ PreviewFits(p)
      BY <1>1, <3>1 DEF Generated, WellFormed, PreviewsInv, old
    <3> QED BY <3>1, <3>3, <3>5, <3>6 DEF old
  <2> HIDE DEF from, id, reopened
  <2>12. WellFormed(R)
    <3>1. \A k \in DOMAIN R : R[k] \in Tab
      BY <2>8, <2>11
    <3>2. R \in [ids -> Tab]
      BY <2>1, <2>8, <3>1
    <3> QED BY <2>8, <2>11, <3>2 DEF WellFormed, Generated
  <2>13. \A k \in Generated(R) :
           /\ k \in ids /\ from(k) \in Generated(tabs)
           /\ R[k].preview.window = tabs[from(k)].preview.window
           /\ PreviewFits(R[k].preview)
    BY <2>8, <2>11 DEF Generated
  <2>14. OnePreviewEach(R)
    <3> SUFFICES ASSUME NEW k \in Generated(R), NEW m \in Generated(R),
                        R[k].preview.window.relation = R[m].preview.window.relation
                 PROVE  k = m
      BY DEF OnePreviewEach
    <3>1. from(k) = from(m)
      BY <1>1, <2>13 DEF OnePreviewEach
    <3> QED BY <2>10, <2>13, <3>1
  <2>15. \A t : Fits(tabs, t) => Fits(R, t)
    BY <2>13 DEF Fits
  <2>16. OwnLast(R)
    BY <2>8, <2>11 DEF OwnLast
  <2>17. \A k \in DOMAIN R : R[k].last = Nothing
    BY <2>8, <2>11
  <2> QED BY <2>6, <2>8, <2>9, <2>12, <2>13, <2>14, <2>15, <2>16, <2>17 DEF R
<1> QED BY <1>2, <1>3

\* ConnectionManagerView::connect
LEMMA SwitchConnectionKeeps ==
  ASSUME PreviewsInv, SwitchConnection
  PROVE  PreviewsInv'
<1> DEFINE R == Restored
           n == Cardinality(DOMAIN R)
<1>1. /\ tabs' = R /\ next_id' = next_id + n /\ active' \in DOMAIN R
      /\ live_owner' = Nothing /\ shown'.live = TRUE
      /\ result' = result /\ generation' = generation
      /\ row_count' = row_count /\ counts' = counts
  BY DEF SwitchConnection
<1>2. /\ n \in Nat /\ DOMAIN R \subseteq next_id..next_id + n - 1
      /\ WellFormed(R) /\ OnePreviewEach(R) /\ OwnLast(R)
      /\ \A k \in Generated(R) : PreviewFits(R[k].preview)
      /\ \A t : Fits(tabs, t) => Fits(R, t)
  BY RestoredFits
<1> HIDE DEF R, n
<1>3. Types /\ CountsFit
  BY DEF PreviewsInv
<1>4. Types'
  <2>1. next_id' \in Nat \ {0} /\ DOMAIN R \subseteq 1..next_id' - 1
    BY <1>1, <1>2, <1>3 DEF Types
  <2> QED BY <1>1, <1>2, <1>3, <2>1 DEF Types
<1>5. CountsFit'
  BY <1>1, <1>2, <1>3 DEF CountsFit, IsNewest
<1>6. LiveIsFollowed' /\ ShownIsActive' /\ ResultIsOfWindow' /\ RunHasWindow'
  BY <1>1 DEF LiveIsFollowed, ShownIsActive, ResultIsOfWindow, RunHasWindow
<1> QED BY <1>1, <1>2, <1>4, <1>5, <1>6 DEF PreviewsInv

\* A connection is made, or nothing happens.
LEMMA ConnectsKeeps ==
  ASSUME PreviewsInv, Connects \/ UNCHANGED previewVars
  PROVE  PreviewsInv'
<1>1. /\ tabs' = tabs /\ active' = active /\ live_owner' = live_owner
      /\ next_id' = next_id /\ shown' = shown /\ result' = result
      /\ generation' = generation /\ row_count' = row_count /\ counts' = counts
  BY DEF Connects, previewVars, tabVars, sessionVars
<1>2. Types' /\ CountsFit'
  BY <1>1 DEF PreviewsInv, Types, CountsFit, IsNewest
<1>3. LiveIsFollowed' /\ ShownIsActive' /\ ResultIsOfWindow' /\ RunHasWindow'
  BY <1>1 DEF PreviewsInv, LiveIsFollowed, ShownIsActive, ResultIsOfWindow, RunHasWindow,
              IsGenerated
<1> QED BY <1>1, <1>2, <1>3 DEF PreviewsInv

\* Every step keeps the invariant.
LEMMA PreviewsInvNext ==
  PreviewsInv /\ TasksTyped /\ [PreviewsNext]_previewVars => PreviewsInv'
<1> SUFFICES ASSUME PreviewsInv, TasksTyped, [PreviewsNext]_previewVars PROVE PreviewsInv'
  OBVIOUS
<1>1. CASE TabStep
  <2>1. CASE \E i \in DOMAIN tabs : SetActive(i) \/ CloseTab(i)
    BY <2>1, SetActiveKeeps, CloseTabKeeps
  <2>2. CASE OpenTab("script") \/ OpenTab("schema")
    BY <2>2, OpenTabKeeps
  <2>3. CASE \E relation \in Relations : OpenGenerated(relation)
    BY <2>3, OpenGeneratedKeeps
  <2>4. CASE MarkEdited
    BY <2>4, MarkEditedKeeps
  <2> QED BY <1>1, <2>1, <2>2, <2>3, <2>4 DEF TabStep
<1>2. CASE RunStep
  BY <1>2, RunScriptKeeps, PreviewActionKeeps DEF RunStep
<1>3. CASE SessionStep
  <2>1. CASE CancelQuery \/ \E done \in BOOLEAN : QueryRuns(done)
    BY <2>1, QueryKeeps
  <2>2. CASE \E k \in counts : CountResolves(k)
    BY <2>2, CountResolvesKeeps
  <2>3. CASE \E t \in tasks : FinishRun(t)
    BY <2>3, FinishRunKeeps DEF TasksTyped
  <2>4. CASE Connects
    BY <2>4, ConnectsKeeps
  <2> QED BY <1>3, <2>1, <2>2, <2>3, <2>4 DEF SessionStep
<1>4. CASE SwitchConnection
  BY <1>4, SwitchConnectionKeeps
<1>5. CASE UNCHANGED previewVars
  BY <1>5, ConnectsKeeps
<1> QED BY <1>1, <1>2, <1>3, <1>4, <1>5 DEF PreviewsNext

-----------------------------------------------------------------------------
(* What the view shows.                                                      *)

\* What is still running is the newest run, and no task is of a later one.
NewestRuns ==
  /\ ~ result.done => result.run = generation
  /\ \A t \in tasks : t.run <= generation

\* The result is of a tab there has been; when a connection is being made, of
\* one that is gone.
ResultOfATab ==
  /\ result.tab # Nothing => result.tab < next_id
  /\ state = "Connecting" => live_owner = Nothing /\ result.tab \notin DOMAIN tabs

KeptIsOver(ts) ==
  \A i \in DOMAIN ts :
    ts[i].last # Nothing => ts[i].last.done \/ ts[i].last.by < ts[i].last.run

ViewFollows ==
  active # Nothing /\ tabs[active].kind # "schema" =>
    /\ shown.tab = active
    /\ shown.live => live_owner = active \/ LeftFollowing

ViewInv == NewestRuns /\ ResultOfATab /\ KeptIsOver(tabs) /\ ViewFollows

\* The view of a tab there is, once it has been synced.
LEMMA SyncedView ==
  ASSUME NEW ts, NEW act, NEW owner, act # Nothing, ts[act].kind # "schema",
         state = "Connecting" => owner = Nothing
  PROVE  LET s == Synced(ts, act, owner)
         IN  /\ s.tab = act
             /\ s.live => \/ owner = act
                          \/ owner = Nothing /\ ts[act].last = Nothing /\ state = "Connecting"
BY DEF Synced

\* The session's count changes nothing of a tab but its preview.
LEMMA ObservedLast ==
  ASSUME NEW ts, WellFormed(ts), NEW owner, NEW total
  PROVE  LET us == Observed(ts, owner, total)
         IN  /\ DOMAIN us = DOMAIN ts
             /\ \A i \in DOMAIN ts : us[i].kind = ts[i].kind /\ us[i].last = ts[i].last
<1> DEFINE us == Observed(ts, owner, total)
<1>1. DOMAIN us = DOMAIN ts
  BY DEF Observed
<1>2. ASSUME NEW i \in DOMAIN ts
      PROVE  us[i].kind = ts[i].kind /\ us[i].last = ts[i].last
  <2>1. us[i] = ts[i] \/ us[i] = [ts[i] EXCEPT !.preview = SetTotal(ts[i].preview, total)]
    BY DEF Observed
  <2>2. ts[i] \in Tab
    BY DEF WellFormed
  <2> HIDE DEF us
  <2> QED BY <2>1, <2>2 DEF Tab
<1> QED BY <1>1, <1>2

\* A run of the tab id, among tabs ts that have kept what they had.
LEMMA DispatchView ==
  ASSUME PreviewsInv, TasksTyped, ViewInv, NEW ts, NEW id \in Nat, NEW shows, NEW count, NEW kept,
         RunQuery(id, shows, count, kept), DispatchRun(ts, id), active' = id,
         id < next_id', DOMAIN tabs' = DOMAIN ts, KeptIsOver(ts),
         \A i \in DOMAIN ts : tabs'[i].last = ts[i].last
  PROVE  TasksTyped' /\ ViewInv'
<1>1. /\ generation' = generation + 1 /\ generation \in Nat /\ state' = "Running"
      /\ result' = [run |-> generation + 1, tab |-> id, window |-> shows, done |-> FALSE]
      /\ tasks' = tasks \cup {[run |-> generation + 1, tab |-> id]}
      /\ live_owner' = id /\ shown' = [tab |-> id, live |-> TRUE, last |-> Nothing]
  BY DEF RunQuery, DispatchRun, PreviewsInv, Types
<1>2. TasksTyped'
  BY <1>1 DEF TasksTyped
<1>3. NewestRuns'
  <2>1. \A t \in tasks : t.run \in Nat /\ t.run <= generation
    BY DEF TasksTyped, ViewInv, NewestRuns
  <2> QED BY <1>1, <2>1 DEF NewestRuns
<1>4. ResultOfATab' /\ ViewFollows'
  BY <1>1 DEF ResultOfATab, ViewFollows
<1>5. KeptIsOver(tabs')
  BY DEF KeptIsOver
<1> QED BY <1>2, <1>3, <1>4, <1>5 DEF ViewInv

\* Opening, activating and closing tabs, when nothing is run.
LEMMA SyncView ==
  ASSUME PreviewsInv, TasksTyped, ViewInv, UNCHANGED <<sessionVars, tasks>>,
         KeptIsOver(tabs'), next_id' \in Nat, next_id <= next_id',
         DOMAIN tabs' \subseteq DOMAIN tabs \cup {next_id},
         live_owner' \in {live_owner, Nothing},
         active' # Nothing => shown' = Synced(tabs', active', live_owner')
  PROVE  TasksTyped' /\ ViewInv'
<1>1. /\ result' = result /\ state' = state /\ tasks' = tasks /\ generation' = generation
      /\ next_id \in Nat /\ result.tab \in Nat \cup {Nothing}
  BY DEF sessionVars, PreviewsInv, Types
<1>2. TasksTyped' /\ NewestRuns'
  BY <1>1 DEF TasksTyped, ViewInv, NewestRuns
<1>3. ResultOfATab'
  BY <1>1, PreviewsAssumption DEF ViewInv, ResultOfATab
<1>4. ViewFollows'
  <2> SUFFICES ASSUME active' # Nothing, tabs'[active'].kind # "schema"
               PROVE  /\ shown'.tab = active'
                      /\ shown'.live => live_owner' = active' \/ LeftFollowing'
    BY DEF ViewFollows
  <2>1. state = "Connecting" => live_owner' = Nothing
    BY DEF ViewInv, ResultOfATab
  <2>2. /\ shown'.tab = active'
        /\ shown'.live =>
             \/ live_owner' = active'
             \/ live_owner' = Nothing /\ tabs'[active'].last = Nothing /\ state = "Connecting"
    BY <2>1, SyncedView
  <2>3. state = "Connecting" => result'.tab \notin DOMAIN tabs'
    BY <1>1, <1>3 DEF ResultOfATab
  <2> QED BY <2>2, <2>3 DEF LeftFollowing
<1> QED BY <1>2, <1>3, <1>4 DEF ViewInv

\* A step of the tabs.
LEMMA TabStepView ==
  ASSUME PreviewsInv, TasksTyped, ViewInv, TabStep
  PROVE  TasksTyped' /\ ViewInv'
<1>1. /\ next_id \in Nat \ {0} /\ DOMAIN tabs \subseteq 1..next_id - 1 /\ WellFormed(tabs)
      /\ active \in DOMAIN tabs \cup {Nothing} /\ KeptIsOver(tabs)
  BY DEF PreviewsInv, Types, ViewInv
<1>2. ASSUME NEW i \in DOMAIN tabs, SetActive(i) PROVE TasksTyped' /\ ViewInv'
  <2>1. /\ UNCHANGED <<tabs, live_owner, next_id, sessionVars, tasks>>
        /\ shown' = Synced(tabs, i, live_owner) /\ active' = i
    BY <1>2 DEF SetActive
  <2> QED BY <1>1, <2>1, SyncView
<1>3. ASSUME NEW i \in DOMAIN tabs, CloseTab(i) PROVE TasksTyped' /\ ViewInv'
  <2> DEFINE rest == [k \in DOMAIN tabs \ {i} |-> tabs[k]]
  <2>1. /\ tabs' = rest /\ UNCHANGED <<next_id, sessionVars, tasks>>
        /\ live_owner' = (IF live_owner = i THEN Nothing ELSE live_owner)
        /\ active # i => active' = active /\ shown' = shown
        /\ active = i => shown' = Synced(rest, active', live_owner')
    BY <1>3, Zenon DEF CloseTab
  <2>2. /\ DOMAIN rest = DOMAIN tabs \ {i}
        /\ \A k \in DOMAIN rest : rest[k] = tabs[k]
    OBVIOUS
  <2> HIDE DEF rest
  <2>3. KeptIsOver(rest)
    BY <1>1, <2>2 DEF KeptIsOver
  <2>4. CASE active = i
    <3>1. /\ DOMAIN tabs' \subseteq DOMAIN tabs \cup {next_id} /\ KeptIsOver(tabs')
          /\ live_owner' \in {live_owner, Nothing} /\ next_id' \in Nat /\ next_id <= next_id'
          /\ shown' = Synced(tabs', active', live_owner')
      BY <1>1, <2>1, <2>2, <2>3, <2>4
    <3> QED BY <2>1, <3>1, SyncView
  <2>5. CASE active # i
    <3>1. /\ result' = result /\ state' = state /\ tasks' = tasks /\ generation' = generation
          /\ active' = active /\ shown' = shown /\ next_id' = next_id
      BY <2>1, <2>5 DEF sessionVars
    <3>2. active # Nothing => active \in DOMAIN rest /\ rest[active] = tabs[active]
      BY <1>1, <2>2, <2>5
    <3>3. TasksTyped' /\ NewestRuns' /\ ResultOfATab'
      BY <2>1, <2>2, <3>1 DEF TasksTyped, ViewInv, NewestRuns, ResultOfATab
    <3>4. ViewFollows'
      BY <2>1, <2>2, <2>5, <3>1, <3>2 DEF ViewInv, ViewFollows, LeftFollowing
    <3> QED BY <2>1, <2>3, <3>3, <3>4 DEF ViewInv
  <2> QED BY <2>4, <2>5
<1>4. ASSUME NEW kind \in {"script", "schema"}, OpenTab(kind) PROVE TasksTyped' /\ ViewInv'
  <2> DEFINE ts == WithTab(kind, Nothing)
  <2>1. /\ tabs' = ts /\ active' = next_id /\ next_id' = next_id + 1
        /\ UNCHANGED <<live_owner, sessionVars, tasks>>
        /\ shown' = Synced(tabs', active', live_owner')
    BY <1>4 DEF OpenTab
  <2>2. /\ DOMAIN ts = DOMAIN tabs \cup {next_id}
        /\ \A i \in DOMAIN tabs : ts[i] = tabs[i]
        /\ ts[next_id] = [kind |-> kind, preview |-> Nothing, last |-> Nothing]
    BY WithTabFits
  <2> HIDE DEF ts
  <2>3. KeptIsOver(ts)
    <3>1. ts[next_id].last = Nothing
      BY <2>2
    <3> QED BY <1>1, <2>2, <3>1 DEF KeptIsOver
  <2>4. next_id' \in Nat /\ next_id <= next_id'
    BY <1>1, <2>1
  <2> QED BY <2>1, <2>2, <2>3, <2>4, SyncView
<1>5. ASSUME NEW relation \in Relations, OpenGenerated(relation)
      PROVE  TasksTyped' /\ ViewInv'
  <2> DEFINE new == NewPreview(relation)
             ts == WithTab("generated", new)
             open == {i \in DOMAIN tabs :
                        IsGenerated(i) /\ tabs[i].preview.window.relation = relation}
  <2>1. CASE open # {}
    BY <1>2, <1>5, <2>1 DEF OpenGenerated
  <2>2. CASE open = {}
    <3>1. /\ active' = next_id /\ next_id' = next_id + 1
          /\ RunQuery(next_id, new.window, {TargetOf(new.window)}, Nothing)
          /\ DispatchRun(ts, next_id)
      BY <1>5, <2>2 DEF OpenGenerated
    <3>2. new \in Preview /\ new.window.relation = relation /\ new.total = Nothing
          /\ new.base = Nothing
      BY PreviewsAssumption DEF NewPreview, Preview, Window
    <3>3. PreviewFits(new)
      BY <3>2 DEF PreviewFits, PageFits, TotalFits, BaseFits, IsOwn, IsExact
    <3>4. \A i \in Generated(tabs) : tabs[i].preview.window.relation # relation
      BY <2>2 DEF Generated, IsGenerated
    <3> HIDE DEF new
    <3>5. /\ DOMAIN ts = DOMAIN tabs \cup {next_id} /\ WellFormed(ts)
          /\ \A i \in DOMAIN tabs : ts[i] = tabs[i]
          /\ ts[next_id] = [kind |-> "generated", preview |-> new, last |-> Nothing]
      BY <3>2, <3>3, <3>4, WithTabFits
    <3> HIDE DEF ts
    <3>6. ts[next_id].last = Nothing
      BY <3>5
    <3>7. KeptIsOver(ts)
      BY <1>1, <3>5, <3>6 DEF KeptIsOver
    <3>8. tabs' = Observed(ts, next_id, row_count')
      BY <3>1 DEF DispatchRun
    <3>9. DOMAIN tabs' = DOMAIN ts /\ \A i \in DOMAIN ts : tabs'[i].last = ts[i].last
      BY <3>5, <3>8, ObservedLast
    <3>10. next_id \in Nat /\ next_id < next_id'
      BY <1>1, <3>1
    <3> QED BY <3>1, <3>7, <3>9, <3>10, DispatchView
  <2> QED BY <2>1, <2>2
<1>6. CASE MarkEdited
  <2> DEFINE ts == [tabs EXCEPT ![active].kind = "script", ![active].preview = Nothing]
  <2>1. /\ active # Nothing /\ tabs[active].kind = "generated" /\ tabs' = ts
        /\ UNCHANGED <<active, live_owner, next_id, shown, sessionVars, tasks>>
    BY <1>6 DEF MarkEdited, IsGenerated
  <2>2. active \in DOMAIN tabs /\ tabs[active] \in Tab /\ tabs \in [DOMAIN tabs -> Tab]
    BY <1>1, <2>1 DEF WellFormed
  <2>3. /\ DOMAIN ts = DOMAIN tabs /\ \A i \in DOMAIN tabs \ {active} : ts[i] = tabs[i]
        /\ ts[active] = [tabs[active] EXCEPT !.kind = "script", !.preview = Nothing]
    BY <2>2
  <2> HIDE DEF ts
  <2>4. \A i \in DOMAIN tabs : ts[i].last = tabs[i].last
    BY <2>2, <2>3 DEF Tab
  <2>5. KeptIsOver(ts)
    BY <1>1, <2>3, <2>4 DEF KeptIsOver
  <2>6. result' = result /\ state' = state /\ tasks' = tasks /\ generation' = generation
    BY <2>1 DEF sessionVars
  <2>7. TasksTyped' /\ NewestRuns' /\ ResultOfATab'
    BY <2>1, <2>3, <2>6 DEF TasksTyped, ViewInv, NewestRuns, ResultOfATab
  <2>8. ViewFollows'
    BY <2>1, <2>2, <2>3, <2>4, <2>6 DEF ViewInv, ViewFollows, LeftFollowing
  <2> QED BY <2>1, <2>5, <2>7, <2>8 DEF ViewInv
<1> QED BY <1>2, <1>3, <1>4, <1>5, <1>6 DEF TabStep

\* A run of the active tab.
LEMMA RunStepView ==
  ASSUME PreviewsInv, TasksTyped, ViewInv, RunStep
  PROVE  TasksTyped' /\ ViewInv'
<1>1. /\ next_id \in Nat \ {0} /\ DOMAIN tabs \subseteq 1..next_id - 1 /\ WellFormed(tabs)
      /\ active \in DOMAIN tabs \cup {Nothing} /\ KeptIsOver(tabs)
  BY DEF PreviewsInv, Types, ViewInv
<1>2. CASE RunScript
  <2>1. /\ active # Nothing /\ RunQuery(active, Nothing, {}, Nothing)
        /\ DispatchRun(tabs, active) /\ active' = active /\ next_id' = next_id
    BY <1>2 DEF RunScript
  <2>2. tabs' = Observed(tabs, active, row_count')
    BY <2>1 DEF DispatchRun
  <2>3. DOMAIN tabs' = DOMAIN tabs /\ \A i \in DOMAIN tabs : tabs'[i].last = tabs[i].last
    BY <1>1, <2>2, ObservedLast
  <2>4. active \in Nat /\ active < next_id'
    BY <1>1, <2>1
  <2> QED BY <1>1, <2>1, <2>3, <2>4, DispatchView
<1>3. ASSUME active # Nothing, IsGenerated(active), NEW w, NEW refetch \in BOOLEAN,
             Rerun(w, refetch)
      PROVE  TasksTyped' /\ ViewInv'
  <2> DEFINE ts == [tabs EXCEPT ![active].preview.window = w]
             us == Observed(ts, active, row_count')
  <2>1. /\ \E count, kept : RunQuery(active, w, count, kept)
        /\ DispatchRun(ts, active) /\ active' = active /\ next_id' = next_id
    BY <1>3 DEF Rerun
  <2>2. active \in DOMAIN tabs /\ tabs[active] \in Tab /\ tabs \in [DOMAIN tabs -> Tab]
        /\ tabs[active].preview \in Preview
    BY <1>1, <1>3 DEF WellFormed, Generated, IsGenerated
  <2>3. /\ DOMAIN ts = DOMAIN tabs /\ \A i \in DOMAIN tabs \ {active} : ts[i] = tabs[i]
        /\ \E q : ts[active] = [tabs[active] EXCEPT !.preview = q]
    BY <2>2
  <2> HIDE DEF ts
  <2>4. \A i \in DOMAIN tabs : /\ ts[i].last = tabs[i].last
                               /\ ts[i] = tabs[i] \/ i = active
    BY <2>2, <2>3 DEF Tab
  <2>5. KeptIsOver(ts)
    BY <1>1, <2>3, <2>4 DEF KeptIsOver
  <2>6. tabs' = us /\ DOMAIN us = DOMAIN ts
    BY <2>1 DEF DispatchRun, Observed
  <2>7. \A i \in DOMAIN ts : us[i].last = ts[i].last
    <3> SUFFICES ASSUME NEW i \in DOMAIN ts PROVE us[i].last = ts[i].last
      OBVIOUS
    <3>1. us[i] = ts[i] \/ \E q : us[i] = [ts[i] EXCEPT !.preview = q]
      BY DEF Observed
    <3>2. tabs[i] \in Tab /\ (ts[i] = tabs[i] \/ \E q : ts[i] = [tabs[i] EXCEPT !.preview = q])
      BY <2>2, <2>3
    <3> HIDE DEF us
    <3> QED BY <3>1, <3>2 DEF Tab
  <2>8. active \in Nat /\ active < next_id'
    BY <1>1, <2>1, <2>2
  <2> HIDE DEF us
  <2> QED BY <2>1, <2>5, <2>6, <2>7, <2>8, DispatchView
<1>4. CASE PreviewAction
  <2>1. /\ active # Nothing /\ IsGenerated(active)
        /\ \E w : \E refetch \in BOOLEAN : Rerun(w, refetch)
    BY <1>4, Zenon DEF PreviewAction
  <2> QED BY <1>3, <2>1
<1> QED BY <1>2, <1>4 DEF RunStep

\* A step of the session.
LEMMA SessionStepView ==
  ASSUME PreviewsInv, TasksTyped, ViewInv, SessionStep
  PROVE  TasksTyped' /\ ViewInv'
<1>1. /\ generation \in Nat /\ WellFormed(tabs) /\ KeptIsOver(tabs)
      /\ result \in [run : Nat, tab : Nat \cup {Nothing}, window : Window \cup {Nothing},
                     done : BOOLEAN]
      /\ live_owner \in DOMAIN tabs \cup {Nothing}
      /\ active \in DOMAIN tabs \cup {Nothing}
      /\ \A t \in tasks : t.run \in Nat /\ t.run <= generation
  BY DEF PreviewsInv, Types, ViewInv, NewestRuns, TasksTyped
<1>2. CASE CancelQuery \/ \E done \in BOOLEAN : QueryRuns(done)
  <2>1. /\ UNCHANGED <<tabs, active, live_owner, next_id, shown, tasks>>
        /\ state' # "Connecting"
        /\ \E done \in BOOLEAN : result' = [result EXCEPT !.done = done]
        /\ \/ generation' = generation + 1 /\ result' = [result EXCEPT !.done = TRUE]
           \/ generation' = generation /\ result.run = generation
    BY <1>2 DEF CancelQuery, QueryRuns, tabVars
  <2>2. result'.tab = result.tab /\ result'.run = result.run
        /\ (generation' = generation + 1 => result'.done)
    BY <1>1, <2>1
  <2>3. TasksTyped' /\ NewestRuns'
    BY <1>1, <2>1, <2>2 DEF TasksTyped, NewestRuns
  <2>4. ResultOfATab' /\ KeptIsOver(tabs') /\ ViewFollows'
    BY <2>1, <2>2 DEF ViewInv, ResultOfATab, KeptIsOver, ViewFollows, LeftFollowing
  <2> QED BY <2>3, <2>4 DEF ViewInv
<1>3. ASSUME NEW k \in counts, CountResolves(k) PROVE TasksTyped' /\ ViewInv'
  <2>1. /\ UNCHANGED <<active, live_owner, next_id, shown, state, result, generation, tasks>>
        /\ tabs' = tabs \/ tabs' = Observed(tabs, live_owner, row_count')
    BY <1>3 DEF CountResolves
  <2>2. /\ DOMAIN tabs' = DOMAIN tabs
        /\ \A i \in DOMAIN tabs : tabs'[i].kind = tabs[i].kind /\ tabs'[i].last = tabs[i].last
    BY <1>1, <2>1, ObservedLast
  <2>3. KeptIsOver(tabs')
    BY <1>1, <2>2 DEF KeptIsOver
  <2>4. TasksTyped' /\ NewestRuns' /\ ResultOfATab'
    BY <2>1, <2>2 DEF TasksTyped, ViewInv, NewestRuns, ResultOfATab
  <2>5. ViewFollows'
    BY <1>1, <2>1, <2>2 DEF ViewInv, ViewFollows, LeftFollowing
  <2> QED BY <2>3, <2>4, <2>5 DEF ViewInv
<1>4. ASSUME NEW t \in tasks, FinishRun(t) PROVE TasksTyped' /\ ViewInv'
  <2> DEFINE last == [run |-> result.run, tab |-> result.tab, done |-> result.done,
                      by |-> t.run]
  <2>1. /\ UNCHANGED <<active, live_owner, next_id, shown, state, result, generation>>
        /\ tasks' \subseteq tasks /\ (t.run # generation \/ result.done)
    BY <1>4 DEF FinishRun, sessionVars
  <2>2. TasksTyped' /\ NewestRuns'
    BY <2>1 DEF TasksTyped, ViewInv, NewestRuns
  <2>3. CASE ~ (Owns(t) /\ t.tab \in DOMAIN tabs)
    <3>1. tabs' = tabs
      BY <1>4, <2>3 DEF FinishRun
    <3> QED BY <2>1, <2>2, <3>1
            DEF ViewInv, ResultOfATab, KeptIsOver, ViewFollows, LeftFollowing
  <2>4. CASE Owns(t) /\ t.tab \in DOMAIN tabs
    <3>1. live_owner \in DOMAIN tabs /\ tabs' = [tabs EXCEPT ![live_owner].last = last]
      BY <1>4, <2>4 DEF FinishRun, Owns
    <3>2. last.done \/ last.by < last.run
      <4>1. ~ result.done => result.run = generation /\ t.run # generation
        BY <2>1 DEF ViewInv, NewestRuns
      <4> QED BY <1>1, <4>1
    <3> HIDE DEF last
    <3>3. tabs \in [DOMAIN tabs -> Tab] /\ tabs[live_owner] \in Tab
      BY <1>1, <3>1 DEF WellFormed
    <3>4. /\ DOMAIN tabs' = DOMAIN tabs
          /\ \A i \in DOMAIN tabs \ {live_owner} : tabs'[i] = tabs[i]
          /\ tabs'[live_owner] = [tabs[live_owner] EXCEPT !.last = last]
      BY <3>1, <3>3
    <3>5. tabs'[live_owner].last = last /\ tabs'[live_owner].kind = tabs[live_owner].kind
      BY <3>3, <3>4 DEF Tab
    <3>6. KeptIsOver(tabs')
      BY <1>1, <3>2, <3>4, <3>5 DEF KeptIsOver
    <3>7. live_owner # Nothing
      BY <3>1, PreviewsAssumption DEF PreviewsInv, Types
    <3>8. ResultOfATab'
      BY <2>1, <3>4 DEF ViewInv, ResultOfATab
    <3>9. ViewFollows'
      BY <1>1, <2>1, <3>4, <3>5, <3>7 DEF ViewInv, ViewFollows, LeftFollowing
    <3> QED BY <2>2, <3>6, <3>8, <3>9 DEF ViewInv
  <2> QED BY <2>3, <2>4
<1>5. CASE Connects
  <2>1. /\ UNCHANGED <<tabs, active, live_owner, next_id, shown, result, generation, tasks>>
        /\ state' # "Connecting"
    BY <1>5 DEF Connects, tabVars
  <2> QED BY <2>1 DEF TasksTyped, ViewInv, NewestRuns, ResultOfATab, KeptIsOver, ViewFollows,
                      LeftFollowing
<1> QED BY <1>2, <1>3, <1>4, <1>5 DEF SessionStep

\* The view keeps to its tab.
LEMMA ViewInvNext ==
  ASSUME PreviewsInv, TasksTyped, ViewInv, [PreviewsNext]_previewVars
  PROVE  TasksTyped' /\ ViewInv'
<1>1. CASE SwitchConnection
  <2> DEFINE R == Restored
  <2>1. /\ tabs' = R /\ next_id' = next_id + Cardinality(DOMAIN R) /\ active' \in DOMAIN R
        /\ live_owner' = Nothing /\ shown' = [tab |-> active', live |-> TRUE, last |-> Nothing]
        /\ UNCHANGED <<result, generation, tasks>>
    BY <1>1 DEF SwitchConnection
  <2>2. /\ Cardinality(DOMAIN R) \in Nat
        /\ DOMAIN R \subseteq next_id..next_id + Cardinality(DOMAIN R) - 1
        /\ \A k \in DOMAIN R : R[k].last = Nothing
    BY RestoredFits
  <2> HIDE DEF R
  <2>3. next_id \in Nat /\ result.tab \in Nat \cup {Nothing}
        /\ (result.tab # Nothing => result.tab < next_id)
    BY DEF PreviewsInv, Types, ViewInv, ResultOfATab
  <2>4. result.tab \notin DOMAIN R
    BY <2>2, <2>3, PreviewsAssumption
  <2>5. ResultOfATab'
    BY <2>1, <2>2, <2>3, <2>4 DEF ResultOfATab
  <2>6. KeptIsOver(tabs') /\ ViewFollows'
    BY <2>1, <2>2, <2>4 DEF KeptIsOver, ViewFollows, LeftFollowing
  <2> QED BY <2>1, <2>5, <2>6 DEF TasksTyped, ViewInv, NewestRuns
<1>2. CASE UNCHANGED previewVars
  <2>1. UNCHANGED <<tabs, active, live_owner, next_id, shown, state, result, generation, tasks>>
    BY <1>2 DEF previewVars, tabVars, sessionVars
  <2> QED BY <2>1 DEF TasksTyped, ViewInv, NewestRuns, ResultOfATab, KeptIsOver, ViewFollows,
                      LeftFollowing
<1> QED BY <1>1, <1>2, TabStepView, RunStepView, SessionStepView DEF PreviewsNext

\* Nothing has run yet.
LEMMA ViewInvInit == PreviewsInit => TasksTyped /\ ViewInv
<1> SUFFICES ASSUME PreviewsInit PROVE TasksTyped /\ ViewInv
  OBVIOUS
<1>1. /\ DOMAIN tabs = {1} /\ tabs[1].last = Nothing /\ active = 1 /\ tasks = {}
      /\ result.done /\ result.tab = Nothing /\ state = "Connected"
      /\ shown = [tab |-> 1, live |-> FALSE, last |-> Nothing]
  BY DEF PreviewsInit
<1> QED BY <1>1 DEF TasksTyped, ViewInv, NewestRuns, ResultOfATab, KeptIsOver, ViewFollows

\* Tabs, session and view agree throughout.
THEOREM PreviewsInvariant == PreviewsSpec => [](PreviewsInv /\ TasksTyped /\ ViewInv)
<1>1. PreviewsInit => PreviewsInv /\ TasksTyped /\ ViewInv
  BY PreviewsInvInit, ViewInvInit
<1>2. /\ PreviewsInv /\ TasksTyped /\ ViewInv /\ [PreviewsNext]_previewVars
      => PreviewsInv' /\ TasksTyped' /\ ViewInv'
  BY PreviewsInvNext, ViewInvNext
<1> QED BY <1>1, <1>2, PTL DEF PreviewsSpec

\* The session is the live tab's, a snapshot its own tab's and of a run that
\* was over unless another run of that tab had superseded its own, and the view
\* shows the active tab's, or follows the session a switch of connections left.
THEOREM RunsKept == PreviewsSpec => []RunsStayWithTheirTab
<1>1. PreviewsInv /\ ViewInv => RunsStayWithTheirTab
  <2> SUFFICES ASSUME PreviewsInv, ViewInv PROVE RunsStayWithTheirTab
    OBVIOUS
  <2>1. active # Nothing /\ tabs[active].kind # "schema" =>
          /\ shown.tab = active
          /\ shown.live => live_owner = active \/ LeftFollowing
          /\ ~ shown.live => live_owner # active /\ shown.last = tabs[active].last
    BY DEF PreviewsInv, LiveIsFollowed, ShownIsActive, ViewInv, ViewFollows
  <2>2. \A i \in DOMAIN tabs : tabs[i].last # Nothing =>
          tabs[i].last.tab = i /\ (tabs[i].last.done \/ tabs[i].last.by < tabs[i].last.run)
    BY DEF PreviewsInv, OwnLast, ViewInv, KeptIsOver
  <2> QED BY <2>1, <2>2 DEF PreviewsInv, RunsStayWithTheirTab
<1> QED BY <1>1, PreviewsInvariant, PTL

\* The rows shown are of the window the pager shows.
THEOREM WindowShown == PreviewsSpec => []ResultIsOfWindow
<1>1. PreviewsInv => ResultIsOfWindow
  BY DEF PreviewsInv
<1> QED BY <1>1, PreviewsInvariant, PTL

\* No preview is on a page past the last.
THEOREM PagesWithin == PreviewsSpec => []PageWithinTotal
<1>1. PreviewsInv => PageWithinTotal
  BY DEF PreviewsInv, Generated, IsGenerated, PreviewFits, PageFits, PageWithinTotal
<1> QED BY <1>1, PreviewsInvariant, PTL

\* A preview's totals were counted with its filter, and with none.
THEOREM TotalsFit == PreviewsSpec => []TotalFitsFilter
<1>1. PreviewsInv => TotalFitsFilter
  BY DEF PreviewsInv, Generated, IsGenerated, PreviewFits, TotalFits, BaseFits, IsOwn,
         TotalFitsFilter
<1> QED BY <1>1, PreviewsInvariant, PTL

-----------------------------------------------------------------------------
(* Page sizes.                                                               *)

SameSize(a, b) ==
  a.kind = "generated" /\ b.kind = "generated" =>
    b.preview.window.size = a.preview.window.size

KeepsFirstRow(a, b) ==
  a.kind = "generated" /\ b.kind = "generated" =>
    LET w == a.preview.window
        v == b.preview.window
    IN  v.size # w.size /\ b.preview.total = a.preview.total =>
          Offset(v) <= Offset(w) /\ Offset(w) < Offset(v) + v.size

\* A tab that takes the session's count keeps its size, and has another total.
LEMMA ObservedSize ==
  ASSUME NEW ts, WellFormed(ts), NEW owner, NEW total, NEW i \in DOMAIN ts
  PROVE  LET us == Observed(ts, owner, total)
         IN  /\ i \in DOMAIN us /\ SameSize(ts[i], us[i])
             /\ us[i] = ts[i] \/ us[i].preview.total # ts[i].preview.total
<1> DEFINE us == Observed(ts, owner, total)
           p == ts[i].preview
<1>1. DOMAIN us = DOMAIN ts
  BY DEF Observed
<1>2. CASE i = owner /\ ts[i].kind = "generated" /\ ~ SameTotal(p.total, total)
  <2>1. us[i] = [ts[i] EXCEPT !.preview = SetTotal(p, total)]
    BY <1>2 DEF Observed
  <2>2. ts[i] \in Tab /\ p \in Preview /\ p.window \in Window
    BY <1>2 DEF WellFormed, Generated, Preview
  <2>3. SetTotal(p, total).total = total /\ SetTotal(p, total).window.size = p.window.size
    BY <2>2 DEF SetTotal, Window
  <2>4. p.total # total
    BY <1>2 DEF SameTotal
  <2> HIDE DEF us, p
  <2>5. us[i].preview = SetTotal(p, total)
    BY <2>1, <2>2 DEF Tab
  <2> QED BY <1>1, <2>3, <2>4, <2>5 DEF SameSize, us, p
<1>3. CASE ~ (i = owner /\ ts[i].kind = "generated" /\ ~ SameTotal(p.total, total))
  <2>1. us[i] = ts[i]
    BY <1>3 DEF Observed
  <2> QED BY <1>1, <2>1 DEF SameSize
<1> QED BY <1>2, <1>3

\* Running a preview again with the window w changes its size to w's and no
\* other's.
LEMMA RerunSize ==
  ASSUME PreviewsInv, active # Nothing, IsGenerated(active),
         NEW w, NEW refetch, Rerun(w, refetch), NEW i \in DOMAIN tabs,
         w \in Window
  PROVE  /\ i # active => SameSize(tabs[i], tabs'[i])
         /\ tabs'[active].preview.window.size = w.size
         /\ tabs'[active].preview.total = tabs[active].preview.total =>
              tabs'[active].preview.window = w
<1> DEFINE p == tabs[active].preview
           q == [p EXCEPT !.window = w]
           ts == [tabs EXCEPT ![active].preview.window = w]
<1>1. tabs' = Observed(ts, active, row_count')
  BY DEF Rerun, DispatchRun
<1>2. /\ active \in DOMAIN tabs /\ tabs \in [DOMAIN tabs -> Tab]
      /\ tabs[active].kind = "generated" /\ p \in Preview /\ tabs[active] \in Tab
  BY DEF PreviewsInv, Types, WellFormed, Generated, IsGenerated
<1>3. q \in Preview /\ q.window = w /\ q.total = p.total
  BY <1>2 DEF Preview
<1>4. /\ ts = [k \in DOMAIN tabs |-> ts[k]] /\ DOMAIN ts = DOMAIN tabs
      /\ \A k \in DOMAIN tabs \ {active} : ts[k] = tabs[k]
      /\ ts[active] = [tabs[active] EXCEPT !.preview = q]
  BY <1>2 DEF Tab
<1> HIDE DEF ts, q, p
<1>5. ts[active] \in Tab /\ ts[active].preview = q /\ ts[active].kind = "generated"
  BY <1>2, <1>3, <1>4 DEF Tab
<1>6. WellFormed(ts)
  <2>1. \A k \in DOMAIN ts : ts[k] \in Tab
    BY <1>2, <1>4, <1>5
  <2>2. ts \in [DOMAIN ts -> Tab]
    BY <1>4, <2>1
  <2>3. \A k \in Generated(ts) : ts[k].preview \in Preview
    BY <1>3, <1>4, <1>5 DEF Generated, PreviewsInv, Types, WellFormed
  <2> QED BY <2>2, <2>3 DEF WellFormed
<1>7. \A k \in DOMAIN tabs :
        /\ SameSize(ts[k], tabs'[k])
        /\ tabs'[k] = ts[k] \/ tabs'[k].preview.total # ts[k].preview.total
        /\ tabs'[k].kind = ts[k].kind
  <2>1. \A k \in DOMAIN tabs :
        /\ SameSize(ts[k], tabs'[k])
        /\ tabs'[k] = ts[k] \/ tabs'[k].preview.total # ts[k].preview.total
    BY <1>1, <1>4, <1>6, ObservedSize
  <2>2. \A k \in DOMAIN ts : tabs'[k].kind = ts[k].kind
    <3> SUFFICES ASSUME NEW k \in DOMAIN ts PROVE tabs'[k].kind = ts[k].kind
      OBVIOUS
    <3>1. ts[k] \in Tab
      BY <1>6 DEF WellFormed
    <3> QED BY <1>1, <3>1 DEF Observed, Tab
  <2> QED BY <1>4, <2>1, <2>2
<1> QED BY <1>2, <1>3, <1>4, <1>5, <1>7 DEF SameSize, p

\* Only Resized changes a size.
LEMMA StepKeepsFirstRow ==
  ASSUME PreviewsInv, [PreviewsNext]_previewVars,
         NEW i \in DOMAIN tabs \cap DOMAIN tabs'
  PROVE  KeepsFirstRow(tabs[i], tabs'[i])
<1>1. i \in DOMAIN tabs /\ i \in DOMAIN tabs' /\ WellFormed(tabs) /\ next_id \in Nat \ {0}
      /\ DOMAIN tabs \subseteq 1..next_id - 1
  BY DEF PreviewsInv, Types
<1>2. SameSize(tabs[i], tabs'[i]) => KeepsFirstRow(tabs[i], tabs'[i])
  BY DEF SameSize, KeepsFirstRow
<1>3. CASE tabs' = tabs
  BY <1>2, <1>3 DEF SameSize
<1>4. ASSUME NEW k \in DOMAIN tabs, CloseTab(k)
      PROVE  KeepsFirstRow(tabs[i], tabs'[i])
  <2>1. tabs' = [m \in DOMAIN tabs \ {k} |-> tabs[m]]
    BY <1>4 DEF CloseTab
  <2> QED BY <1>1, <1>2, <2>1 DEF SameSize
<1>5. ASSUME NEW kind, OpenTab(kind)
      PROVE  KeepsFirstRow(tabs[i], tabs'[i])
  <2>1. tabs' = WithTab(kind, Nothing)
    BY <1>5 DEF OpenTab
  <2>2. i # next_id
    BY <1>1
  <2> QED BY <1>1, <1>2, <2>1, <2>2 DEF SameSize, WithTab
<1>6. ASSUME NEW relation \in Relations, OpenGenerated(relation)
      PROVE  KeepsFirstRow(tabs[i], tabs'[i])
  <2> DEFINE new == NewPreview(relation)
             ts == WithTab("generated", new)
             open == {k \in DOMAIN tabs :
                        IsGenerated(k) /\ tabs[k].preview.window.relation = relation}
  <2>1. CASE open # {}
    BY <1>3, <1>6, <2>1 DEF OpenGenerated, SetActive
  <2>2. CASE open = {}
    <3>1. tabs' = Observed(ts, next_id, row_count')
      BY <1>6, <2>2 DEF OpenGenerated, DispatchRun
    <3>2. i # next_id /\ i \in DOMAIN ts /\ ts[i] = tabs[i]
      BY <1>1 DEF WithTab
    <3>3. tabs'[i] = ts[i]
      BY <3>1, <3>2 DEF Observed
    <3> QED BY <1>2, <3>2, <3>3 DEF SameSize
  <2> QED BY <2>1, <2>2
<1>7. CASE MarkEdited
  <2>1. active \in DOMAIN tabs
    BY <1>7 DEF MarkEdited, PreviewsInv, Types
  <2>2. tabs' = [tabs EXCEPT ![active].kind = "script", ![active].preview = Nothing]
    BY <1>7 DEF MarkEdited
  <2>3. tabs[i] \in Tab
    BY <1>1 DEF WellFormed
  <2>4. CASE i = active
    <3>1. tabs'[i] = [tabs[i] EXCEPT !.kind = "script", !.preview = Nothing]
      BY <1>1, <2>2, <2>4
    <3>2. tabs'[i].kind = "script"
      BY <2>3, <3>1 DEF Tab
    <3> QED BY <3>2 DEF KeepsFirstRow
  <2>5. CASE i # active
    BY <1>1, <1>2, <2>2, <2>5 DEF SameSize
  <2> QED BY <2>4, <2>5
<1>8. CASE RunScript
  <2>1. tabs' = Observed(tabs, active, row_count')
    BY <1>8 DEF RunScript, DispatchRun
  <2> QED BY <1>1, <1>2, <2>1, ObservedSize
<1>9. CASE PreviewAction
  <2> DEFINE p == tabs[active].preview
             w == p.window
             last == LastPageNumber(p.total, w.size)
  <2>1. active # Nothing /\ IsGenerated(active)
    BY <1>9 DEF PreviewAction
  <2>2. active \in Generated(tabs)
    BY <2>1 DEF PreviewsInv, Types, Generated, IsGenerated
  <2>3. p \in Preview /\ w \in Window /\ p.total \in Total \cup {Nothing}
        /\ w.page \in Nat \ {0} /\ w.size \in Nat \ {0}
    BY <2>2, PreviewsAssumption DEF PreviewsInv, Types, WellFormed, Preview, Window
  <2>4. ASSUME NEW v \in Window, v.size = w.size, NEW refetch \in BOOLEAN, Rerun(v, refetch)
        PROVE  KeepsFirstRow(tabs[i], tabs'[i])
    <3>1. SameSize(tabs[i], tabs'[i])
      BY <1>1, <2>1, <2>4, RerunSize DEF SameSize
    <3> QED BY <1>2, <3>1
  <2>5. ASSUME NEW size \in PageSizes, Rerun(Resized(w, size), FALSE)
        PROVE  KeepsFirstRow(tabs[i], tabs'[i])
    <3> DEFINE v == Resized(w, size)
    <3>1. size \in Nat \ {0} /\ PreviewLimit \in Nat /\ PageSizes \subseteq Nat \ {0}
      BY PreviewsAssumption
    <3>2. v.page \in Nat \ {0} /\ Offset(v) <= Offset(w) /\ Offset(w) < Offset(v) + v.size
      BY <2>3, <3>1, ResizedPage
    <3>3. v \in Window
      <4>1. v = [w EXCEPT !.size = size, !.page = v.page]
        BY <2>3 DEF Resized, Window
      <4> HIDE DEF v, w, p
      <4> QED BY <2>3, <3>2, <4>1 DEF Window
    <3> HIDE DEF v
    <3>4. /\ i # active => SameSize(tabs[i], tabs'[i])
          /\ tabs'[active].preview.total = p.total => tabs'[active].preview.window = v
      BY <1>1, <2>1, <2>5, <3>3, RerunSize DEF v
    <3> QED BY <1>2, <3>2, <3>4 DEF KeepsFirstRow
  <2> HIDE DEF p, w, last
  <2>6. \A page \in Nat \ {0} : ToPage(w, page) \in Window /\ ToPage(w, page).size = w.size
    BY <2>3 DEF ToPage, Window
  <2>7. PICK first \in Nat \ {0} : first = 1
    OBVIOUS
  <2>8. \A column \in SortColumns :
          Sorted(w, column) \in Window /\ Sorted(w, column).size = w.size
    <3> SUFFICES ASSUME NEW column \in SortColumns
                 PROVE  Sorted(w, column) \in Window /\ Sorted(w, column).size = w.size
      OBVIOUS
    <3>1. PICK asc \in BOOLEAN : Sorted(w, column) =
            [w EXCEPT !.sort = [column |-> column, asc |-> asc], !.page = first]
      BY <2>7 DEF Sorted
    <3> DEFINE sort == [column |-> column, asc |-> asc]
    <3>2. sort \in Sort \cup {Nothing}
      BY DEF Sort
    <3> HIDE DEF sort
    <3>3. Sorted(w, column) = [w EXCEPT !.sort = sort, !.page = first]
      BY <3>1 DEF sort
    <3> QED BY <2>3, <3>2, <3>3 DEF Window
  <2>9. \A f \in Filters \cup {Nothing} :
          Filtered(w, f) \in Window /\ Filtered(w, f).size = w.size
    <3> SUFFICES ASSUME NEW f \in Filters \cup {Nothing}
                 PROVE  Filtered(w, f) \in Window /\ Filtered(w, f).size = w.size
      OBVIOUS
    <3>1. Filtered(w, f) = [w EXCEPT !.filter = f, !.page = first]
      BY <2>7 DEF Filtered
    <3> QED BY <2>3, <3>1 DEF Window
  <2>10. \/ \E column \in SortColumns : Rerun(Sorted(w, column), FALSE)
         \/ Rerun(ToPage(w, w.page + 1), FALSE)
         \/ w.page > 1 /\ \E page \in {1, w.page - 1} : Rerun(ToPage(w, page), FALSE)
         \/ p.total # Nothing /\ Rerun(ToPage(w, last), FALSE)
         \/ \E size \in PageSizes : Rerun(Resized(w, size), FALSE)
         \/ \E f \in Filters \cup {Nothing} : Rerun(Filtered(w, f), TRUE)
         \/ Rerun(w, TRUE)
    BY <1>9 DEF PreviewAction, p, w, last
  <2>11. /\ w.page + 1 \in Nat \ {0}
         /\ w.page > 1 => \A page \in {1, w.page - 1} : page \in Nat \ {0}
         /\ p.total # Nothing => last \in Nat \ {0}
    BY <2>3, LastPageType DEF last
  <2>12. ASSUME NEW page \in Nat \ {0}, Rerun(ToPage(w, page), FALSE)
         PROVE  KeepsFirstRow(tabs[i], tabs'[i])
    BY <2>4, <2>6, <2>12
  <2> QED BY <2>3, <2>4, <2>5, <2>8, <2>9, <2>10, <2>11, <2>12
<1>10. ASSUME NEW k \in counts, CountResolves(k)
       PROVE  KeepsFirstRow(tabs[i], tabs'[i])
  <2>1. tabs' = tabs \/ tabs' = Observed(tabs, live_owner, row_count')
    BY <1>10 DEF CountResolves
  <2> QED BY <1>1, <1>2, <1>3, <2>1, ObservedSize
<1>11. ASSUME NEW t \in tasks, FinishRun(t)
       PROVE  KeepsFirstRow(tabs[i], tabs'[i])
  <2>1. CASE tabs' = tabs
    BY <1>3, <2>1
  <2>2. CASE tabs' # tabs
    <3>1. tabs' = [tabs EXCEPT ![t.tab].last =
                     [run |-> result.run, tab |-> result.tab, done |-> result.done,
                      by |-> t.run]]
      BY <1>11, <2>2 DEF FinishRun
    <3>2. tabs[i] \in Tab
      BY <1>1 DEF WellFormed
    <3>3. tabs'[i].preview = tabs[i].preview
      BY <1>1, <3>1, <3>2 DEF Tab
    <3> QED BY <1>2, <3>3 DEF SameSize
  <2> QED BY <2>1, <2>2
<1>12. CASE SwitchConnection
  <2>1. tabs' = Restored
    BY <1>12 DEF SwitchConnection
  <2>2. /\ Cardinality(DOMAIN Restored) \in Nat
        /\ DOMAIN Restored \subseteq next_id..next_id + Cardinality(DOMAIN Restored) - 1
    BY RestoredFits
  <2>3. i \in 1..next_id - 1 /\ i \in next_id..next_id + Cardinality(DOMAIN Restored) - 1
    BY <1>1, <2>1, <2>2
  <2> QED BY <1>1, <2>2, <2>3
<1>13. CASE (\E k \in DOMAIN tabs : SetActive(k)) \/ CancelQuery \/ Connects
            \/ (\E done \in BOOLEAN : QueryRuns(done)) \/ UNCHANGED previewVars
  BY <1>3, <1>13 DEF SetActive, CancelQuery, Connects, QueryRuns, previewVars, tabVars
<1> QED BY <1>4, <1>5, <1>6, <1>7, <1>8, <1>9, <1>10, <1>11, <1>12, <1>13
           DEF PreviewsNext, TabStep, RunStep, SessionStep

\* Another page size keeps the row that was first in view.
THEOREM FirstRowKept == PreviewsSpec => ResizeKeepsFirstRow
<1>1. PreviewsInv /\ [PreviewsNext]_previewVars =>
        \A i \in DOMAIN tabs \cap DOMAIN tabs' :
          IsGenerated(i) /\ tabs'[i].kind = "generated" =>
            LET w == tabs[i].preview.window
                v == tabs'[i].preview.window
            IN  v.size # w.size /\ tabs'[i].preview.total = tabs[i].preview.total =>
                  Offset(v) <= Offset(w) /\ Offset(w) < Offset(v) + v.size
  BY StepKeepsFirstRow DEF KeepsFirstRow, IsGenerated
<1> QED BY <1>1, PreviewsInvariant, PTL DEF PreviewsSpec, ResizeKeepsFirstRow

=============================================================================
