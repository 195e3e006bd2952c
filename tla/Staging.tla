------------------------------ MODULE Staging ------------------------------
(* staging.rs, ui/results/staging.rs, cell_edit.rs and snapshot.rs: changes  *)
(* to rows of a preview, staged in a queue and applied as one batch.         *)
(*                                                                           *)
(* The results view shows the rows of one window of a relation. A change     *)
(* names its row by the primary key, which is known once the relation's      *)
(* description has been fetched for the relation shown. The popover edits    *)
(* the cell at a row INDEX of the window; the row is looked up again when    *)
(* the edit is confirmed. Apply hands the queue's statements to a background *)
(* transaction (modules Transactions and AtomicBatch) and takes the entries  *)
(* it submitted out of the queue when that succeeds.                         *)
(*                                                                           *)
(* Definitions named Mut... are faulty variants of the definition they       *)
(* precede, for checking that the properties can fail.                       *)
EXTENDS Naturals, Sequences, SequencesExt, FiniteSets

CONSTANTS Windows,     \* what the view can show
          RelOf,       \* window -> its relation
          RowsOf,      \* window -> the sequence of its rows
          Keyed,       \* the relations with a usable primary key
          Columns, Values,
          Key,         \* the primary key's column, when it is in Columns
          Delete,      \* stands for the column of a staged delete
          None,
          MaxId, MaxApplies  \* bounds: entries staged, Applies

VARIABLES window,      \* what the view shows
          connected,   \* Session::is_connected
          schemaKey,   \* relation_schema_key: the relation fetched or being so
          schema,      \* relation_schema: the relation described, None if not
          fetches,     \* describe_relation tasks in flight
          editor,      \* the popover's cell, or None; .row is the row it showed
          queue, nextId,
          applyState,  \* [mode, entry]: Idle, Applying or Failed at an entry
          batches,     \* transactions in flight: [no, entries]
          applies,     \* Applies so far
          written,     \* entries whose statement changed a row, committed
          gone,        \* rows no statement finds any more under their old key
          disturbed    \* an edit has been confirmed during an Apply

viewVars == <<window, connected, schemaKey, schema, fetches>>
queueVars == <<queue, nextId, applyState>>
dbVars == <<batches, applies, written, gone>>
vars == <<viewVars, editor, queueVars, dbVars, disturbed>>

Idle == [mode |-> "Idle", entry |-> None]
Applying == applyState.mode = "Applying"

Init ==
  /\ window \in Windows
  /\ connected = TRUE
  /\ schemaKey = None /\ schema = None /\ fetches = {}
  /\ editor = None
  /\ queue = <<>> /\ nextId = 1 /\ applyState = Idle
  /\ batches = {} /\ applies = 0 /\ written = {} /\ gone = {}
  /\ disturbed = FALSE

-----------------------------------------------------------------------------
(* The relation's description.                                               *)

\* sync_relation, for a relation shown and a session that is connected or not.
Sync(rel, live) ==
  IF ~ live
  THEN schemaKey' = None /\ schema' = None /\ UNCHANGED fetches
  ELSE IF schemaKey = rel THEN UNCHANGED <<schemaKey, schema, fetches>>
  ELSE /\ schemaKey' = rel
       /\ schema' = None
       /\ fetches' = fetches \cup {rel}

\* A late answer is taken whatever is shown.
MutDescribed(rel) ==
  /\ rel \in fetches
  /\ fetches' = fetches \ {rel}
  /\ schema' = rel
  /\ UNCHANGED <<window, connected, schemaKey, editor, queueVars, dbVars, disturbed>>

\* The answer of describe_relation, a failure included; dropped when another
\* relation is shown by now.
Described(rel) ==
  /\ rel \in fetches
  /\ fetches' = fetches \ {rel}
  /\ IF schemaKey = rel THEN schema' \in {rel, None} ELSE UNCHANGED schema
  /\ UNCHANGED <<window, connected, schemaKey, editor, queueVars, dbVars, disturbed>>

\* The session's observer syncs again whenever the session changes.
SessionChanges ==
  /\ connected' \in BOOLEAN
  /\ Sync(RelOf[window], connected')
  /\ UNCHANGED <<window, editor, queueVars, dbVars, disturbed>>

-----------------------------------------------------------------------------
(* The queue.                                                                *)

\* staging_available and row_identity_for: the rows that can be named.
Nameable(i) == i \in DOMAIN RowsOf[window] /\ schema \in Keyed

StagedDelete(row) == {i \in DOMAIN queue : queue[i].row = row /\ queue[i].col = Delete}

\* unstage of each of the ids.
Without(list, ids) ==
  LET kept[n \in 0..Len(list)] ==
        IF n = 0 THEN <<>>
        ELSE IF list[n].id \in ids THEN kept[n - 1] ELSE Append(kept[n - 1], list[n])
  IN kept[Len(list)]

\* stage_or_restore_row: toggles the delete of a row.
StageOrRestore(i) ==
  /\ Nameable(i)
  /\ ~ Applying
  /\ LET row == RowsOf[window][i] IN
       \/ /\ StagedDelete(row) # {}
          /\ queue' = Without(queue, {queue[k].id : k \in StagedDelete(row)})
          /\ UNCHANGED nextId
       \/ /\ StagedDelete(row) = {}
          /\ nextId <= MaxId
          /\ queue' = Append(queue, [id |-> nextId, row |-> row, col |-> Delete, val |-> None])
          /\ nextId' = nextId + 1
  /\ applyState' = Idle
  /\ UNCHANGED <<viewVars, editor, dbVars, disturbed>>

\* A delete staged since the popover opened is not looked for.
MutUpdateBehind(row, col, val) ==
  /\ nextId <= MaxId
  /\ {i \in DOMAIN queue : queue[i].row = row /\ queue[i].col = col} = {}
  /\ queue' = Append(queue, [id |-> nextId, row |-> row, col |-> col, val |-> val])
  /\ nextId' = nextId + 1
  /\ applyState' = Idle

\* stage_update: refused behind a delete of the row, in place for a cell that
\* is staged already, appended otherwise.
StageUpdate(row, col, val) ==
  IF StagedDelete(row) # {} THEN UNCHANGED queueVars
  ELSE LET same == {i \in DOMAIN queue : queue[i].row = row /\ queue[i].col = col} IN
    /\ \/ \E i \in same : /\ queue' = [queue EXCEPT ![i].val = val]
                          /\ UNCHANGED nextId
       \/ /\ same = {} /\ nextId <= MaxId
          /\ queue' = Append(queue, [id |-> nextId, row |-> row, col |-> col, val |-> val])
          /\ nextId' = nextId + 1
    /\ applyState' = Idle

\* The ledger's control on one entry.
Unstage(i) ==
  /\ ~ Applying
  /\ i \in DOMAIN queue
  /\ queue' = Without(queue, {queue[i].id})
  /\ applyState' = Idle
  /\ UNCHANGED <<viewVars, editor, nextId, dbVars, disturbed>>

\* discard_all, as a part of another action.
Discarded == IF queue = <<>> \/ Applying
             THEN UNCHANGED <<queue, applyState>>
             ELSE queue' = <<>> /\ applyState' = Idle

DiscardAll ==
  /\ queue # <<>>
  /\ Discarded
  /\ UNCHANGED <<viewVars, editor, nextId, dbVars, disturbed>>

-----------------------------------------------------------------------------
(* The popover and the view.                                                 *)

\* open_cell_edit, on an eligible cell.
OpenEditor(i, col) ==
  /\ Nameable(i)
  /\ StagedDelete(RowsOf[window][i]) = {}
  /\ editor' = [index |-> i, col |-> col, row |-> RowsOf[window][i]]
  /\ UNCHANGED <<viewVars, queueVars, dbVars, disturbed>>

CloseEditor ==
  /\ editor # None
  /\ editor' = None
  /\ UNCHANGED <<viewVars, queueVars, dbVars, disturbed>>

\* Enter: the row is looked up by its index in what is shown now.
ConfirmEdit(val) ==
  /\ editor # None
  /\ editor' = None
  /\ disturbed' = (disturbed \/ Applying)
  /\ IF Nameable(editor.index)
     THEN StageUpdate(RowsOf[window][editor.index], editor.col, val)
     ELSE UNCHANGED queueVars
  /\ UNCHANGED <<viewVars, dbVars>>

\* The popover stays open over the next window.
MutShowWindow(w) ==
  /\ w # window /\ RelOf[w] = RelOf[window]
  /\ window' = w
  /\ Sync(RelOf[w], connected)
  /\ UNCHANGED <<connected, editor, queueVars, dbVars, disturbed>>

\* show_live_window: another window of the same relation keeps the queue.
ShowWindow(w) ==
  /\ w # window /\ RelOf[w] = RelOf[window]
  /\ window' = w
  /\ editor' = None
  /\ Sync(RelOf[w], connected)
  /\ UNCHANGED <<connected, queueVars, dbVars, disturbed>>

\* show_live and show_snapshot: anything else is a new result.
ShowOther(w) ==
  /\ w # window /\ RelOf[w] # RelOf[window]
  /\ window' = w
  /\ editor' = None
  /\ Discarded
  /\ Sync(RelOf[w], connected)
  /\ UNCHANGED <<connected, nextId, dbVars, disturbed>>

-----------------------------------------------------------------------------
(* Apply.                                                                    *)

\* A second Apply may start while the first runs.
MutApply ==
  /\ queue # <<>>
  /\ applies < MaxApplies
  /\ applies' = applies + 1
  /\ batches' = batches \cup {[no |-> applies', entries |-> queue]}
  /\ applyState' = [mode |-> "Applying", entry |-> None]
  /\ UNCHANGED <<viewVars, editor, queue, nextId, written, gone, disturbed>>

Apply ==
  /\ queue # <<>> /\ ~ Applying
  /\ applies < MaxApplies
  /\ applies' = applies + 1
  /\ batches' = batches \cup {[no |-> applies', entries |-> queue]}
  /\ applyState' = [mode |-> "Applying", entry |-> None]
  /\ UNCHANGED <<viewVars, editor, queue, nextId, written, gone, disturbed>>

\* The batch is committed: each statement changes its row if an earlier one
\* has not deleted it or given it another key.
Takes(e) == e.col \in {Delete, Key}
Hits(entries, i) == /\ entries[i].row \notin gone
                    /\ \A j \in 1..i - 1 : ~ (entries[j].row = entries[i].row /\ Takes(entries[j]))
Committed(entries) ==
  /\ written' = written \cup {entries[i] : i \in {k \in DOMAIN entries : Hits(entries, k)}}
  /\ gone' = gone \cup {entries[i].row : i \in {k \in DOMAIN entries : Takes(entries[k])}}

\* Success: the entries submitted leave the queue (and the preview reloads).
Applied(b) ==
  /\ b \in batches
  /\ batches' = batches \ {b}
  /\ Committed(b.entries)
  /\ queue' = Without(queue, {b.entries[i].id : i \in DOMAIN b.entries})
  /\ applyState' = Idle
  /\ UNCHANGED <<viewVars, editor, nextId, applies, disturbed>>

\* The batch failed at a statement, or outside of any; when the answer to the
\* COMMIT is lost the database may have it all the same.
ApplyFailed(b) ==
  /\ b \in batches
  /\ batches' = batches \ {b}
  /\ \/ /\ \E i \in DOMAIN b.entries :
             applyState' = [mode |-> "Failed", entry |-> b.entries[i].id]
        /\ UNCHANGED <<written, gone>>
     \/ /\ applyState' = [mode |-> "Failed", entry |-> None]
        /\ Committed(b.entries) \/ UNCHANGED <<written, gone>>
  /\ UNCHANGED <<viewVars, editor, queue, nextId, applies, disturbed>>

Next ==
  \/ SessionChanges
  \/ \E rel \in fetches : Described(rel)
  \/ \E w \in Windows : ShowWindow(w) \/ ShowOther(w)
  \/ \E i \in DOMAIN RowsOf[window] :
        StageOrRestore(i) \/ \E col \in Columns : OpenEditor(i, col)
  \/ \E i \in DOMAIN queue : Unstage(i)
  \/ DiscardAll \/ CloseEditor
  \/ \E val \in Values : ConfirmEdit(val)
  \/ Apply
  \/ \E b \in batches : Applied(b) \/ ApplyFailed(b)

Spec == Init /\ [][Next]_vars

-----------------------------------------------------------------------------

(* A row's identity is built from the key of its own relation, however the   *)
(* answers of describe_relation are ordered.                                 *)
SchemaOfShownRelation == schema # None => schema = RelOf[window]

(* A confirmed edit changes the row the popover was opened on: the index it  *)
(* holds is never resolved against another window's rows.                    *)
EditHitsItsRow == editor # None => editor.row = RowsOf[window][editor.index]

(* During an Apply the queue is what was submitted, and one batch is in      *)
(* flight ("the queue submitted here is exactly what completes",             *)
(* ui/results/staging.rs:220): no other way to change the queue is open.     *)
QueueIsSubmission ==
  disturbed \/ /\ Cardinality(batches) <= 1
               /\ \A b \in batches : Applying /\ queue = b.entries

Leaves(e, b) == b \in batches \ batches' /\ e \in ToSet(queue) \ ToSet(queue')

(* A change leaves the queue by a success only when the database has it, or  *)
(* when an earlier batch had taken the row away before, as long as no edit   *)
(* was confirmed during an Apply.                                            *)
SuccessWroteIt ==
  [][\A b \in batches : \A e \in ToSet(queue) :
        Leaves(e, b) => disturbed \/ e \in written' \/ e.row \in gone]_vars

(* "The queue submitted here is exactly what completes": the same, whatever  *)
(* the user does during an Apply.                                            *)
SubmittedIsCompleted ==
  [][\A b \in batches : \A e \in ToSet(queue) :
        Leaves(e, b) => e \in written' \/ e.row \in gone]_vars

=============================================================================
