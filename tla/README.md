# A verification of zsql

zsql is a desktop SQL client: a gpui application (`crates/zsql`) over a driver-neutral core
(`crates/zsql-core`), drivers for PostgreSQL, MySQL, SQLite and SQL Server, SSH tunnels, and an
editor of its own (`crates/zsql-editor`). This directory holds TLA+ models of the parts of it
that are hard to test: everything that goes on while a connection attempt, a query, an autosave, a
rename, a transaction or a migration is under way and the user keeps going, or the process ends. TLC
checks the models on small instances, and TLAPS proves the central invariants of twelve of them for
all instances.

To run: `tlc -config MCResults.cfg MCResults` (and so on, see "Runs"), and `tlapm M.tla` for each of
`Recursion`, `SessionProof`, `StoresProof`, `ResultsProof`, `ParametersProof`, `ScriptStoreProof`,
`DriverProof`, `EditorProof`.

## 1. Inventory

### How the program runs

All state that matters is owned by gpui entities on one UI thread. A method of an entity
runs to completion; what takes time is spawned, as a task of the foreground executor that
awaits (and re-enters the entity through `update`), or on the background executor, whose
threads run tasks in any order. So the unit of interleaving is: one handler; one re-entry of a
task; one background job, under whatever lock it holds. That is what the actions of the
modules are. A notification (`cx.notify`) reaches its observers when the outermost update
ends, so an observer is part of the action that notifies it.

### Components

| Part | State | Operations | Hard because | Correct when |
|---|---|---|---|---|
| **Session** (`session.rs`, `session/*.rs`) | connection, URL, tunnel, schema, result, count, liveness; three generation counters | connect, switch database, introspect, query, preview, count, cancel, probe | every one finishes later, in any order, perhaps after a reconnect | connections are neither leaked nor closed in use; what is shown belongs to the current connection and query; Connecting ends |
| **Save claims** (`session_store/save_claim.rs`) | per path: minted and spent claims | mint, write if current, fence | writes run in any order, fail, are cut off | an older snapshot never replaces a newer one |
| **Session directory, backings, library** (`session_store/`) | script files, drafts, `tabs.toml`, the cache of inactive connections | persist, prune, load, rename, promote, reclaim | several files change one after the other, under names computed earlier | no text once saved is lost; what is loaded is what was last seen |
| **Tabs** (`ui/tabs.rs`, `ui/tabs/*.rs`) | tabs, which is active, which the session runs for, last results | open, edit, run, page, save, close, restore | tasks come back to tabs that have been edited, closed, or swapped with the connection | two tabs never share a file; results stay with their tab |
| **Preview state** (`preview_state.rs`) | window, page, totals | page, sort, filter, resize, take a total | totals come late, may be estimates | the page is inside the total; resizing keeps its place |
| **Workspace** (`ui/workspace*`) | debounce, modals | autosave, switch tab sets, save and rename flows | wires the tabs, the session and the store together | see the store and the tabs |
| **Connection manager** (`ui/connections.rs`, `ui/connections/password_prompt.rs`) | rows, active connection, view, prompt | connect, save, delete, prompt | an attempt's outcome arrives after another was started, or after its prompt was cancelled | the connection called active is the one asked for last; no password is kept that no server accepted |
| **Staging** (`staging.rs`, `ui/results/staging.rs`, `cell_edit.rs`) | queue of changes, popover, description of the relation | stage, restore, edit, discard, apply | window, description and connection change meanwhile | a change hits the row it was made on and leaves the queue when the database has it |
| **Transactions** (`session/transaction.rs`, `zsql-core/src/transaction.rs`) | where the batch is | begin, execute, commit, roll back | statements are separate queries of a pool | all or nothing |
| **Connection store, keyring** (`connections/`) | a list, its file, two keyring entries per connection | add, update, remove, save, load | file and keyring change one after the other, each may fail, the process may end | what is in the file can be connected to; a failure leaves what was there |
| **Legacy migration** (`session_store/migration.rs`) | one old file, session directories | migrate at start, retry | a crash or failure part way, users at work between retries | nothing of either is lost |
| **Drivers** (`zsql-sqlx`, the three sqlx drivers, `zsql-mssql`) | pools, streams, cancel handles | open, stream, cancel, close | cancellation, limits of the pool, statements of one text | the stream keeps its protocol and ends |
| **Tunnels** (`zsql-ssh`) | a task, its clients | open, forward, drop | callers give up at any time | what is dropped ends |
| **Editor** (`zsql-editor`, `zsql-ui/src/text_input`) | lines, caret, selection, undo stacks, composition, find bar | type, delete, select, undo, redo, compose, find | edits merge into steps, and many things keep offsets of a text that changes | it behaves as one text with a history |
| **Parameters** (`zsql-core/src/sql/params.rs`, `ui/parameters_modal`, `ui/workspace/parameters_flow.rs`, `session_store/param_history.rs`) | the modal, what it was opened for, the values remembered, in memory and on disk | find, ask, substitute, remember | SQL is scanned without a parser, per dialect; the connection may be replaced under the modal; writes overtake each other | the query sent is the one typed; what is remembered is what was typed |
| **Pure parts** | none | filters to SQL, key bindings, scrolling | boundaries | agreement with a reference |
| **The rest** | widgets, themes, formatting, start-up | | | |

`PROJECT.json` lists all the parts with their files and what is modelled of each, and under
"hazards" what can go wrong where.

They interact so: the connection manager calls the session (`connect_to_with_ssh`) and the
workspace reacts to its active connection by swapping the tabs; the tab model calls the
session to run queries, observes it for counts, and emits what the results view is to show;
edits in a tab reach the workspace through the debounce, which hands a snapshot and a claim
to the session store on the background executor; saves and renames do their disk work there
and come back to the tab model.

## 2. Plan

Order of work, most important behaviour first; what is done is marked.

1. **Session** (done, proved): connection, query, schema, probes.
2. **SaveClaims** refining **NewestWins** (done, proved): the ordering of writes, with its abstract
   specification.
3. **ScriptStore** (done, proved where section 5 says): tabs, autosaves, renames, library, crash and restart. It uses the
   claims of 2 in the setting they were made for.
4. **Previews** (done, proved): who runs in the session, which results and totals belong to which
   tab, and the arithmetic of paging. It is the caller of 1.
5. **ConnectionManager** (done, proved): rows, prompts and the attempts they make of 1.
6. **Driver**, **Transactions** refining **AtomicBatch** (done, proved, the refinement too), **Tunnel** (done), and
   **Staging** (done, proved), which hands batches to Transactions.
7. **Migration** and **ConnectionStore** (done, proved): crashes and failures between steps.
8. **Editor** refining **TextHistory** (done, proved, the refinement too): the buffer, its history, and what keeps offsets of it.
9. **Parameters** against **SqlTokens** (done, the history proved): finding and substituting parameters,
   the modal, the history over save claims.
10. Left: filters, key bindings and the splitting of statements as operators against references; the
   order of tabs and the active index.
11. Left to prove: AutosavedTextSurvives where one named script is renamed alone, and OneTabPerFile there. Where several are,
    the one fails if writes do, the other even if not; the properties exclude that themselves, by MovesApart and NamesApart.

Runs are few, each for one part of the system or several that share no state. A deviation settled
by a description in section 6 gives up its run to a question that is open.

## 3. Modules

Each `X.tla` models the code named; `MC...` instantiate for TLC. Proofs have modules of their own: `SessionProof`,
`ParametersProof`, `ScriptStoreProof` and `EditorProof` for the module they are named after, `StoresProof` for SaveClaims,
Migration, ConnectionManager and ConnectionStore, `ResultsProof` for Staging and Previews, `DriverProof` for Driver and
Transactions. `Recursion` has what they need to know of numbers and recursive functions.

### Session

`Session.tla` is the Session entity. Its variables are the struct's fields under their own
names, and one set for each kind of thing a method spawns: `attempts` (connect_url,
switch_database), `introspections`, `streams` (query events), `counts`, `loops` (probe
loops) and `probes`; `opened` and `discarded` record what happened to connections. A method is
an action, an element of a set resolves in an action (AttemptResolves, IntrospectionResolves,
StreamEvent, CountResolves, ProbeTick, ...), in any order and with either outcome.

The generation counters are modelled as they are: a job carries the generation it was started
under, and each resolving action compares, or does not compare, exactly where the code does.
`Silent` are the servers that accept a connection and then answer nothing: an attempt to one of them need never end.
Data is reduced to identity: a connection is its number, URL and tunnel; a schema is the
connection it was read from; a total is what was counted; the rows of a result are how many
there are and of which queries. That is all the properties speak of.

`Next` lets a caller ask for any query at any time but has the session carry over a total
only between windows of one relation, which is the contract `preview_relation_windowed`
documents. Whether its caller honours that is the subject of Previews (it does not,
see `previews_other_total`).

### SaveClaims, NewestWins

`NewestWins.tla` says what a reader of the directory is promised: snapshots are formed one
after the other, and the one on disk is only ever replaced by a later one. `SaveClaims.tla`
has the counters `minted` and `written` of each path, the claims handed to background tasks,
and `disk`. WriteIfCurrent raises the mark before it writes and may then fail, RecordWritten
is the fence of a rename, Restart loses counters and tasks. `formed <- minted`,
`shown <- disk` maps the one to the other.

### ScriptStore

`ScriptStore.tla` is one connection's script tabs with everything that moves their text:
the tab model's saving half, the workspace's flows, and the files. A text is a document and a
number of edits. `disk` holds the script files (scratch, named, shared), the drafts and
`tabs.toml`; `jobs` the background tasks, each with the snapshot and the names it was given
when it was dispatched; `here` whether this connection's tabs are the open ones, `cache` what
the session store keeps of them when they are not.

`Persisted` is one autosave: script files, then `tabs.toml`, then the pruning of files nothing
names. `Torn` stops it after any part of it; `Crash` ends the process, and `SwitchHere`
restores. A rename is RequestRename (mint, new name chosen), RenameFences, RenameMoves or
RenameFails, RenameApplied, each a step, as the fence, the move and the return to the tab are.
Promotion and explicit saves of shared scripts are RequestPromotion / RequestSave /
RequestSharedRename, SharedWritten or SharedMoves, SharedCleaned, SharedApplied.

An explicit save of a shared script is modelled one at a time and with its tab not swapped
out under it: what happens otherwise is listed in section 6. `Ops` selects the operations a
configuration explores.

Two properties hold of some sets of operations and not of others, and name which. `NamesApart`, of OneTabPerFile: no relation is
called query-N, a script is renamed once saved only if there is one document, and nothing is reopened while scripts are named.
`MovesApart`, of AutosavedTextSurvives: where scripts are named, nothing is reopened, and writes fail only if there is one document; where
shared scripts are saved, promoted or renamed, no write fails, nothing is opened, no two such tasks overlap, and nothing vanishes or
ends meanwhile. Each clause stands for a collision or a loss of section 6, and one has a run (`scripts_minted`).

### Previews

`Previews.tla` is the tab model's running half. `tabs` are their kind, preview and last
captured run; `shown` is what the results view follows; the session is reduced to what a tab
sees of it: `state`, the `result` and the query it is of, `generation`, `row_count`, the counts in
flight. `tasks` are the runs whose task is to come back to the tab model. A snapshot carries, as a ghost, the run whose task took
it (`by`), which `finish_run` does not look at.

PreviewQueryState is, in a tab's `preview`, a record with one operator per method (SetTotal, Resized, Sorted,
Filtered, ToPage, LastPageNumber...) and actual numbers, since its arithmetic is the point.
A total carries, as a ghost, what it was counted for; the comparison the code makes before
storing one (SameTotal) does not see it.

DispatchRun applies the observer of the session (`Observed`) to the tab that is then live,
as the notification does. SwitchConnection is the moment the workspace restores the tabs
while the session is Connecting; the tab ids are fresh, the query in flight runs on, and a view that has nothing to freeze follows
it (LeftFollowing).

### Staging

`Staging.tla` is the results view's staging half. A window is a sequence of rows of a relation; a
change names its row by primary key, which needs the description of the relation
(`fetches`, `schemaKey`, `schema`: asked for when the relation shown changes, stored if it is still
the key asked for). The popover (`editor`) holds an index; ConfirmEdit looks the row up again. The
queue keeps the code's order and its merging: an edit of a staged cell replaces it in place, a
delete takes the row's edits out, restoring takes entries out. `Apply` submits the queue as a batch;
the batch (Transactions and AtomicBatch, here one step with its outcomes) comes back to
Applied or ApplyFailed. `written` and `gone` are ghosts of the database:
which entries changed a row, and which rows no longer answer to their old key.

### Driver, Transactions, AtomicBatch

`Driver.tla` is `stream_query` and its task over a pool of sqlx (the pool and the database are external,
modelled from their use): acquire or time out, run statement after statement, batch rows, describe
a query without columns on *another* connection of the pool, end. Describing is two steps: the acquire, which has a time-out
(Describe, DescribeGivesUp), and the server's answer to the prepare, which has none (Described) and never comes for a query that is
`Stalled`. Cancel is a flag seen between rows
and, for network drivers, a kill that lands whenever it does. Closing the pool, a connection that breaks
and its replacement are actions too. `inTx`, `pending`, `committed` are the database's.

`Transactions.tla` EXTENDS it with the batch of `session/transaction.rs`: BEGIN, statements, COMMIT or
ROLLBACK, each a query of its own, among queries of the user's. `AtomicBatch.tla` is what the
comments promise of it. Over one connection that lasts (`OneConnection`) a batch of distinct writes (`BatchIsPlain`) implements
it (`PromiseKept`: checked as `BatchIsAtomic`, proved as `BatchKept`); over the pool the code really uses for a network
database it does not (`transactions_pooled`).

### Tunnel

`Tunnel.tla` is `open_tunnel` and its task: establishing under a time-out, the `select!` of shutdown,
clients, keepalive and ended forwards, and the wait for a channel, during which it selects nothing.

### ConnectionStore

`ConnectionStore.tla` is the list of connections, its file and the keyring. An operation (`op`) is
the sequence of its steps as the code has them, with the undoing after a failed one; each step may fail
in the ways of `Faults`, and the process may end between any two and start again. `fs::write` is two steps, Truncate and Fill: one cut
short leaves what cannot be parsed, nothing, or the first of the connections (`CutShort`).

### ConnectionManager

`ConnectionManager.tla` is the modal and its attempts. An attempt is started (Session's generation),
settles in the session, reads the session's state as its outcome (ReadConnected, ReadError), introspects, and only then
tells the manager (Settled); a prompt is an entity of its own with the attempt it waits for.
The session is reduced to its state and the newest attempt's URL.

### Migration

`Migration.tla` is `migrate_legacy_sessions` at every start (the ghosts `fate` and `renamed` remember which entries failed or were
moved, and whether a connection was renamed): entries in any order, each resolved to a directory by the
names of the saved connections, skipped if that has a session, else written (scripts, then `tabs.toml`); then the legacy file
renamed away if none failed. Between starts the user saves sessions and renames connections. It
may crash at every step.

### Editor, TextHistory

`Editor.tla` has TextBuffer as a record of its fields with an operator for each method (moves, edits,
undo and redo with their merging of edits into steps and the cap on them), the view's handlers as actions,
the marked range of an input method, and the find bar with its matches. `TextHistory.tla` is
what that amounts to for a user: one text, an edit replaces exactly what it was asked to replace, undo and redo
walk a line of texts. Mapping: `past` the texts of the undo stack, `text` the lines joined,
`future` those of the redo stack, `lo`, `hi` the selection's offsets. The ghost `request` says what
the last edit was asked to replace, and is None as soon as something else happened; the actions set it without
looking at the buffer's own undo group, so that the refinement says when edits may merge. Offsets count
characters: conversions to bytes and UTF-16 are left out.

### Parameters, SqlTokens

`SqlTokens.tla` is a lexer of SQL as the server of a dialect has it, stated declaratively: what is a
string, a quoted name, a comment, a name, and that the longest token is taken. In MySQL a backslash escapes any character of a string, and
`--` begins a comment only before a space or a line's end; comments nest but in MySQL. PostgreSQL's `$$` and `E''` strings, MySQL's
`#` comments and back quotes and T-SQL's brackets are left out, as no text checked has their characters. `Parameters.tla` has
the scan of `params.rs` as it is, region by region (`Pieces`: the scans for parameters and for DECLAREd names cut
a text at the same places, so they are one), the list of declared names as a fold, grouping and substitution;
and the state around them: `active`, `held` and `target` are the connection whose tabs are shown, the one the session holds, and
the one being opened; `modal` what was asked and the fields; `history_cache`, `histories`, `mark` and `writes` the history and its
writes. A confirmed run's number in its file stands for its claim. `sent` and `log` are ghosts: the query sent, from what text
and values, and the runs confirmed. While the modal is open it covers the workspace, so only Resolves and Write
interleave with it. A character is a string; a word that nothing else tells apart is one character.

### The MC modules

Parts that share no state are composed into one module and checked by one run: a behaviour is of one part, or *scenario*, chosen at first,
while the others rest in an initial state, so the states add up rather than multiply. The parts are EXTENDed, so that TLC evaluates their
assumptions, but the batch and the session's queries, which are instances; `BatchInstance` has TLC evaluate the hypotheses of the
theorems on batches.

- `MCComponents`: claims, batch, connection store, manager, migration, and the session's queries (*querying* of `MCSession`).
- `MCResults`: staging and pages (`MCPreviews`).
- `MCConnection`: the driver and the tunnel (`MCDriver`: *crowd*, *long*, *tunnel*) and the session that connects (*connecting* of `MCSession`).
  `MCSession` restricts what is begun, never how it ends.
- `MCScripts`: four scenarios of the editor, four of the parameters (`MCParameters`: a text is run in each of three dialects, and the
  history), five of the store. The module EXTENDed is one of the scenarios; the others are instances of it over the same variables, with other
  bounds and operations. KeepsHistory, evaluated at every step, would cost the store's scenarios dear, so the run checks
  TextKeepsHistory, which is KeepsHistory with its steps restricted to those of the editor's scenarios.

The other MC modules only give a module its constants, for the runs that must fail.

## 4. Runs

Passing runs (distinct states, in thousands):

| Run | Config | States | Question |
|---|---|---|---|
| `components` | MCComponents | 3,975 | Newest wins (and implements NewestWins); a batch over a lasting connection is atomic; file and keyring agree; prompts and the active connection belong to their attempts; the migration loses nothing but what its property names; rows, totals and the cancel handle are the newest query's |
| `results` | MCResults | 3,504 | Staged changes hit their rows, once; results stay with their tab, pages inside totals |
| `connection` | MCConnection | 588 | Streams keep their protocol and end; a tunnel given up ends; connections are accounted for, watched, judged by their own probes, and Connecting ends |
| `scripts` | MCScripts | 1,918 | The editor implements TextHistory; caret and matches are of the text shown; a query is sent with the values typed in their places, and they are remembered; autosaved texts survive, one tab per file, a shared script's text is in its file or its draft, the directory at rest gives the tabs back |

Runs that must fail, each with the one property a comment of the code states:

| Run | Comment | What TLC shows |
|---|---|---|
| `session_stale_schema` | session/connect.rs:62 | an introspection of the old connection, answered after the reconnect, is stored |
| `previews_other_total` | ui/tabs.rs:306 | turning a page after another tab ran takes the other relation's total |
| `transactions_pooled` | zsql-core/transaction.rs:8 | statements of a batch land on different connections and commit by themselves |
| `connections_failed_add` | connections/store.rs:120 | an add that fails early takes an older connection out of the list |
| `staging_late_edit` | ui/results/staging.rs:219 | a cell edited during Apply leaves the queue with the older value's success |
| `parameters_late_dialect` | ui/parameters_modal/mod.rs:49 | a run asked for while another connection is being opened goes to it with parameters found and values escaped for the old one |
| `scripts_minted` | ui/tabs/constructors.rs:78 | a new script is given the file of an edited preview of the relation `query-2` |
| `migration_failed_entry` | session_store/migration.rs:199 | an entry that failed is dropped with the legacy file once the user has worked under its connection |

**Bounds.** Every bound is a constant whose name begins with Max (or HistoryCap, BatchSize, MaxRows, which are
the code's own limits made small), and caps a counter the code leaves free. The instances:

- `components`: 2 paths, 3 claims each; a batch of 2 statements and a user's write over 1 connection; 2 different
  connections to save (1 tunnelled), 3 ids, 2 kinds of failure in a behaviour; manager of 1 network and 1 file connection, 1 password, 2
  attempts, 2 prompts; 2 display names, 2 saved connections. *querying*: 1 server, 1 database, 2 previews, 2 attempts, 2 queries, 1 row kept, so that
  truncation happens.
- `results`: 3 windows, 2 of them of one relation, 1 column, 1 value, 3 entries, 2 Applies; 2 relations, 1 column, 1 filter, page
  sizes 2 and 3 (neither divides the other), totals of 0, 3 and about 3, 2 tabs, 3 runs: a tab runs, another
  takes over, the first comes back. `staging_late_edit` has 2 values.
- `connection`, *connecting*: 2 servers, 1 of them tunnelled and silent, 2 databases, 3 attempts, 1 introspection. Three attempts are a
  current one, one it superseded and one that one had superseded. Generations are compared for equality only: the proofs confirm that
  more add nothing. *crowd*: a select and 2 writes over 2 connections that may break, 2 rows, 1 statement each; *long*: the select and a
  write, up to 3 rows and 3 statements, batches of 2; one write is stalled. *tunnel*: 2 clients. `transactions_pooled`: 2
  connections that do not break.
- `scripts`, the editor: 2 undo steps. *writing*: "a" and a break, 3 edits, 3 characters; *selecting*: a word and punctuation, one edit
  of several lines, 4 characters; *composing*: 2 inputs, 2 edits, 3 characters; *finding*: "aa", an input in the other case, 2
  queries, 2 edits. *postgres*, *mysql*, *mssql*: the texts of up to 4 chunks out of parameters, quotes, comment marks, casts, in
  MySQL backslashes, and, after a DECLARE, commas, parentheses, types and names in either case; values with a quote and with a backslash: every
  region opens, closes and is left open around a parameter. *remembering*: 2 connections, 3 runs, 2 values, lists of 2.
- `scripts`, the store: *naming*: 2 tabs, 2 documents, 1 name, 5 claims, 3 tasks (a rename and an autosave on either side), crash, closing;
  *renaming*: 2 tabs, 1 document renamed between 2 names, 4 claims, 3 tasks, torn and failed writes, crash; *tearing*: 2 tabs, a script on disk, an edited
  preview, torn and failed writes, crash, closing; *sharing*: 2 tabs promoted, saved and renamed in the library under 2 names,
  closed, 4 tasks and 5 claims; *settling*: 2 tabs, a named and a library script on disk, 6 claims, library files that vanish. The operations of each are
  ones NamesApart and MovesApart allow together, so that the two properties are said of all of them; the combinations these exclude are in
  section 6 and not cut off by the bounds. SettledIsCurrent holds of the scenarios its definition names. Larger instances were
  searched once: *renaming* with more claims and tasks (14 million states, and simulation), *naming* with 4 tasks and 6 claims, *sharing* with 5 tasks and 5 claims,
  *tearing* with vanishing files and 3 tasks and 5 claims.

The wrap-around of the u64 counters and the overflow of `page * page_size` need more steps than a process takes and are
not modelled.

**Deadlock** is checked where a user can always do something within the bounds (`session_stale_schema`, `parameters_late_dialect`). In the other
runs some bound runs out (attempts, documents, claims, tabs, queries, edits) and a behaviour may stop for that reason alone;
what must not wait for ever has properties of its own (NoEndlessWait, ConnectingResolves, DroppedTunnelEnds).

**Symmetry**: the two names of `scripts` stand for one another. Each scenario has both or only foo, and every property checked is a safety property,
so taking them for the same loses nothing. Elsewhere none is used.

**Fairness.**
- Session: weak fairness of AttemptEnds, for each attempt: that it resolves, if its server is not `Silent`. The dial and the pool's acquire have
  time-outs; the `SELECT 1` after them (pool.rs:88, and the SQL Server driver's, driver.rs:95) and the list of databases (connect.rs:346) have none, so
  that these are answered is an assumption about the server, not something the code provides. An attempt to a silent server may last
  for ever, and ConnectingResolves does not say that Connecting ends then, but that it ends however many attempts were made, superseded or left hanging, once the
  newest is to a server that answers. Nothing is assumed of the user, of introspections, streams, counts or probes.
- Driver: weak fairness of Asking (a task that waits for a connection gets one, or gives up after the acquire's time-out) and of a connection that is let go of
  returning to the pool; and of Answered for the queries not `Stalled`: that the server answers a running statement or a describe, and the
  consumer takes what is sent, is assumed, as nothing in the code bounds either. A stalled query may hold its connection for ever; NoEndlessWait says that
  the others come to their end nevertheless.
- Tunnel: weak fairness of Established (CONNECT_TIMEOUT) and of a channel request being answered or given up as unanswered;
  strong fairness of StopServing, since tokio's `select!` polls its branches in random order, so that clients
  cannot keep a shutdown waiting for ever.

**Mutants.** Each property of each passing run is shown to be able to fail: definitions named
`Mut...` are faulty variants of the one after them (a guard dropped, a clamp forgotten, a number
reset), and with the variant in place TLC finds the property violated.

## 5. Proofs

For any servers, databases, previews, paths, connections, windows, rows and bounds:

| Theorem | Module | Says |
|---|---|---|
| Typing | SessionProof | `Spec => []TypeOK` |
| Owned | SessionProof | every connection opened is the session's or closed, never both; the URL is the connection's |
| WatchedAlways | SessionProof | the connection is watched, by one probe at a time, judged by its own; Connecting has its attempt |
| AttributedAlways | SessionProof | rows, cancel handle and total are of the newest query |
| OrderedAlways | StoresProof | claims pending are unspent; the mark covers the disk |
| ClaimsKeepPromise | StoresProof | SaveClaims implements NewestWins |
| SchemaAlways | ResultsProof | the description in use is of the relation shown |
| EditorAlways | ResultsProof | the popover's index resolves to the row it was opened on |
| SubmissionAlways | ResultsProof | if no edit is confirmed during an Apply, the queue is what was submitted |
| SuccessAlways | ResultsProof | if moreover no key column is edited, a change leaves the queue by a success only when the database has it |
| ClosedAlways | StoresProof | a prompt closes of itself only over a session connected to the prompt's own connection |
| PromptAlways | StoresProof | a prompt is connecting exactly while an attempt of its own is under way |
| AcceptedAlways | StoresProof | a prompted password reaches the keyring only when accepted |
| MigratedAlways | StoresProof | a directory taken for migrated is whole |
| UserSessionAlways | StoresProof | no step overwrites a session the user saved |
| GoneAlways | StoresProof | the legacy file goes only when every entry with a connection was moved whole, or a session of the user's, or after a renaming another's, is there |
| RunsKept | ResultsProof | the session is the live tab's, a kept result its own tab's and over, and the view shows the active tab's, with the two exceptions RunsStayWithTheirTab names |
| WindowShown | ResultsProof | the rows shown are of the window the pager shows, but for a page moved by a late total |
| PagesWithin, TotalsFit | ResultsProof | no preview is past the last page of its total; its totals have its filter, and none |
| FirstRowKept | ResultsProof | a change of page size goes to the page that has the first row in view |
| FileIsCovered | StoresProof | each connection in the file has its URL in the keyring, through any failures and crashes |
| RollbackIsItsOwn | StoresProof | a failed update or removal puts back what it took where it took it from; no id is listed twice |
| FieldsAreTheKeyrings | StoresProof | at rest, the listed fields are those of the keyring, if only the file system has failed |
| StreamInvariant, ProtocolKept | DriverProof | every stream keeps its protocol: columns before their batches, one terminal event and at the end |
| BatchInvariant, BatchAtomic | DriverProof | over one connection that lasts, all of a batch is committed or nothing |
| BatchKept | DriverProof | over one connection that lasts, Transactions implements AtomicBatch |
| EditorInvariant | EditorProof | the buffer, its undo and redo entries and the matches are of the texts they are kept with |
| CaretAlways | EditorProof | caret, anchor and every state that can be put back are within their text |
| HistoryInvariant | EditorProof | an undo group that may grow has the caret at its last edit's end; no more states are kept than the cap |
| HistoryKept | EditorProof | Editor implements TextHistory |
| OneTabPerFileHolds | ScriptStoreProof | if the names are apart and saved scripts are not renamed again, no two tabs are saved to one file of the directory |
| SettledDiskIsCurrentHolds | ScriptStoreProof | with nothing under way, opening the directory gives the tabs and texts last seen |
| SharedTextIsSavedHolds | ScriptStoreProof | with nothing under way, a shared tab's text is in its file or its draft |
| AutosavedTextSurvivesHolds | ScriptStoreProof | a text an autosave has put on the disk stays there, or a later one, through failed writes and crashes |
| NamedTextSurvivesHolds | ScriptStoreProof | so it does where scripts are saved under names, with crashes, if writes do not fail |
| RemembersRunsHolds | ParametersProof | the values remembered, in memory and on disk, are the histories of the runs confirmed |
| FindAlways | EditorProof | the matches are of the text shown: every occurrence meets one, and no two overlap |

*Assumptions*: only the named ones of the modules (tunnelled servers are servers, None is none of the values, at least
one row is kept, page sizes are positive and PREVIEW_LIMIT one of them, a kind of each query, what a form can submit, and the like); in
StoresProof `Told`, in ParametersProof and ScriptStoreProof `Apart`: the constants that stand for different things differ, and bounds are
natural numbers; in ScriptStoreProof, as below, `NamesKept`, `Undisturbed`, `Autosaving` and `Naming`; and for the three theorems on
batches `BatchIsPlain` and `OneConnection`. The first says that a batch is of distinct writes and that the user's queries neither open nor
end a transaction; the second that the pool has one connection and does not lose it. Only an SQLite pool is like that, which is why
BatchKept is the counterpart of the run that must fail, and not a guarantee for the servers.

*Session.* The inductive invariant is Typing with three groups that hardly touch: Ownership (connections, URL, `discarded`), Watched (attempts,
loops, probes, liveness, Connecting), Attributed (queries, streams, counts). What they add to the properties is why
these hold. GenerationsHandedOut and QueriesHandedOut: no job has a generation from the future, and
no two attempts share one, so that "equal to the current one" means "the newest".
UndecidedIsUnwatched: while the newest attempt is undecided there is no loop and no probe of
its generation, so no verdict can land; without it ConnectionIsWatched and LivenessOfConnection
are not inductive, as an attempt that resolves would meet a probe of its own generation.
ProbesOfConnection: a current probe asks the connection held. NewestFeedsAccumulator: streams
and counts of the newest generation are those of the result set being filled. Each group has a lemma per
kind of step, a frame lemma for the steps that leave its variables alone, and rests on Typing.

*SaveClaims.* Ordered is PendingIsUnspent, MarkCoversDisk, and that pending claims are handed
out; each action preserves it. The refinement then needs only that a write that runs has a claim
greater than the one on disk: it is at least the mark, differs from it as it is unspent, and the
mark covers the disk. A restart maps to a restart.

*Staging.* SchemaInv: the key fetched is the relation shown, or None; so a description stored under an equal key is of
the relation shown. EditorAlways needs only that every change of window closes the popover. SubmissionInv: while applying there is one batch, and its entries are the
queue, unless an edit was confirmed; in the other modes there is none. SuccessAlways needs of the queue that a row's delete is the last
of its changes (QueueInv): otherwise a batch would take the row away before a later change finds it. Unstaging keeps that because what is left stays in
order (WithoutEffect, by induction on the queue). Its hypothesis, `Key \notin Columns`, is that of the instance MCResults checks: an edit of a key column
does lose a later change of the same row (section 6).

*ConnectionManager.* ManagerInv adds to the properties: generations are handed out in order and once (Numbered, AttemptsDistinct),
the newest attempt is of the session's target (OwnIsNewest), a prompt that is connecting has exactly one attempt
of its number and no other prompt's attempt has it (ConnectingHasOwn), and rows save only file connections (RowsSaveFiles), so
that a keyring write can only come from an attempt of a prompt or the form that has read Connected. ClosedAlways needs of it that the attempt which
closes a prompt is the prompt's own and still the newest when it reads Connected, so that what it read is its own connection's outcome.

*Migration.* MigrationInv: what is being written is of an entry still to do, into a directory without a session (Underway); a user's
`tabs.toml` stands over the user's scripts (UserWhole); an entry that was moved has its session where it resolved to, unless a connection has been renamed since or the
user has saved over it (AtHome); every entry this start is done with, unless one failed, is found there (AllProvided). A name resolves to the first connection that has it: the well-foundedness of `<` on
the naturals gives its existence (Recursion's LeastNumber).

*Previews.* PreviewsInv adds to the properties what makes totals arrive where they belong. A total is stored with a preview when its *window*
equals the one asked about, which says nothing of what was counted. So: a relation has one preview (OnePreviewEach); the count shown, and any count of the newest
generation that is still to come, is of what its relation's preview now shows (CountsFit: every change of a filter begins a new
generation); and the result is the live owner's, and has a window if that is a preview. RunsStayWithTheirTab needs ViewInv: no task is of a run from the future and a
result not over is of the newest (NewestRuns), while a connection is made the result is of a tab that is gone (ResultOfATab), a snapshot is over or of a newer run than its
task's (KeptIsOver), and the view follows the session only for the live tab or after a switch (ViewFollows). The step that carries most is
DispatchRun, since the session's observer stores what the *previous* owner is shown before the new one is live (ObservedFits,
DispatchKeeps). DivBounds and DivMonotonic are what the pages rest on (ResizedPage: the page of the first row, whatever the sizes);
that a tab to move to exists is LeastNumber and GreatestNumber.

*ConnectionStore.* StoreInv follows an operation through its steps (Progress): the lists stay without duplicates and apart, an update's index is its
connection's, a removed connection is out of the list and out of the keyring only once the file is without it (Deleting) and every id listed,
in memory or in the file, has a URL in the keyring (Known). That is what has to hold *between* the steps for a failure or a crash to be harmless: a keyring entry is made
before, and deleted after, the file names its connection. Agreement says which one connection may disagree with the keyring meanwhile, and at which steps, so
that FieldsMatchKeyring follows when the operation ends.

*Driver.* StreamInv relates a stream to its task. The protocol alone is not inductive: a task about to send a batch must know that its columns were
sent, which the code keeps in `columns_sent` (`latched`); so Announced says the latch is of the current statement, rows are kept only
under it, and a stream that is not over has no terminal event (Silent), whatever was cancelled, killed or broken in between.

*Transactions.* BatchInv is StreamInv with Order and Whole. Order: the script's calls run one after the other, each after the `done` of the
one before (Calls), and the outcome is what the awaited call's stream says (Verdict). Whole: of the batch, the writes are committed if the server
ran the COMMIT and none is otherwise; and between BEGIN and COMMIT, unless a ROLLBACK was sent or the pool was closed, the connection is in a transaction and every write the
server ran is pending in it. A pool closed between two calls rolls back what is pending, and no later call of the batch can run (Cut); without
that exception Whole is false, and without saying that no call of the batch is then on the connection it is not inductive.
For the refinement, a step that commits a write of the batch is the server's run of its COMMIT, which commits all of them: AtomicBatch's
Commit; the batch's return is Succeed or Fail; everything else stutters.

*Editor.* EditorInv has the caret and the anchor of the buffer, and of every entry of its undo and redo stacks, in the lines they were
taken with, so that RestoredTo, which clamps nothing, is safe. The
marked range of a composition is only a pair of numbers: undo and other documents leave it beyond the text, and it is clamped when it is used
(section 6), which is why ReplaceTextInRange keeps carets in the text all the same. The find bar's matches are the search's result for the
lines now shown (Searched): each handler that changes the lines searches again. What the search computes, and what splitting and joining lines
give, are inductions on a text (LinesEffect, TextOfType, MatchesInLineEffect, FlattenSeqEffect), done with Recursion's lemmas, one per function.
The assumptions are that the texts given are of characters that Fold knows and line breaks, and that None is none of the records it stands
in for (NoneAssumption).

The refinement rests on three things. *Lines are a text*: cut at any position, lines are two texts whose concatenation is the text of all (Until,
Beyond, Halved), lines sewn together at a seam are those texts put together (Seam, TextOfFused), and joining undoes splitting and splitting joining
(TextOfLines, LinesOfText). So the offset of a position is the length of the text before it, and PositionAt is its inverse
(OffsetIsLength, PositionThere, PositionBack). *Edits are splices*: deleting, inserting over a selection and typing over a range leave the
text before it, the new text and the text behind it, with the caret after the new text (Rewrites, with DeletedEffect,
PastedEffect, ErasedEffect, InsertedImplEffect and ReplacedEffect). *Groups and stacks*: EditorInv says nothing of when two edits may share a
step. HistoryInv adds that while the buffer's group is open the last request is still the last thing that happened, with the caret at
its end and nothing selected, and of the group's kind; then an edit at the caret continues it (EditIsEdit). And undo and redo together hold at most
HistoryCap states, so that a redo, whose push could evict the oldest step as an edit's does, never does (RedoIsRedo). Where there is nothing to
change, a replacement moves the selection or does nothing, and closes the group only if it moved (NothingReplaced).

*Parameters.* A history is, for a log of runs, the last Cap distinct values of each parameter (IsHistoryOf). The invariant: what is cached is the
history of all runs, or nothing is cached and the file is that of all runs, so that reading it loses nothing (Cached); a file is the history of
the first so many runs (Stored), a write that the mark lets pass is of more runs than the file (Writing), and the newest write is under
way or done unless the file is current (Marked). That a history of a longer log comes from one more push, whatever the cap, is RecordedRun,
which rests on what removing a value from a list and putting it first does to it (OthersEffect, RecordedList, RecordedRecent).

*ScriptStore.* OneTabPerFile is stated under `NamesApart`, and its theorem assumes `NamesKept`, which is NamesApart without renaming a script once saved, even of a
single document: that much is left to *renaming*. OneTabPerFile is not inductive
without knowing where the next tab's name comes from: Orderly adds that numbers in use are behind `next` (Numbered), that
a cache and a directory to restore from hold each ref once (SingleEntries), that without tabs here nothing is under way unless there is a
cache (Away), that an open named script has its file (Filed), so that nothing is renamed to it, and that a script renamed on disk, whose tab does not
know yet, has its new name to itself (Renaming).

`Undisturbed` says moreover that no write fails and no script is named, and that if shared scripts are saved, promoted or renamed, one
such task is done before the next is asked for, and nothing meanwhile is opened from the sidebar, converted, removed outside the program or ended. Each exclusion
is of something in section 6; *sharing* and *settling* are instances of it, and without shared saves crashes and reopening are in. Current adds to Orderly: the newest
claim is of the cache (Claimed), and is under way or landed, and then the listing and the files agree with it, save what a
task has just cleaned away and will return to tell (Saved, Landed, Cleaned); a save of an older snapshot is refused. A task's file has its text, and its
tab is the only one of its ref (Returning); an open shared tab has its file where tasks may rename it (Present) and for base what that file holds, or is
about to (Based); and a text other than the base has been in a snapshot, or waits for the timer (Typed). The last is why a task's return
must keep the base of what it *wrote*, not of what the tab then shows (SharedTab).

`Autosaving` leaves the operations on scripts of the directory, *tearing* being an instance: they are opened, converted, edited, closed and reopened,
autosaves fail or are cut short after any of their files, and the process ends at any time; none is named, promoted or in the library. A text survives for two
reasons that are at odds: an autosave may still be under way that knows the document by an older text, or not at all, and pruning deletes what
it does not list. Safekept adds to Orderly that every document is in one place, whatever text of it is about in tabs, cache, tasks and files
(Placed); that tasks are saves, of claims minted (Queued); that a save that may still write and has a document now open is followed only by saves that have it
there too, no older, as the tabs do (Forward); and that a text to survive is listed and in its file, or a later one is, and is in every save that may still
write, in whatever order they do (Secured, Surviving). The saves that would lack a reopened script are those OpenNamed fences off: without its claim, Forward
fails. A save cut short has then replaced files only by later texts of what they held, and listed no less (WrittenBy, SecuredWritten).

`Naming` admits scripts saved under names, or reopened by them, crashes, closing and library scripts opened and vanishing, with no limit on the tasks
under way, and excludes writes that fail and all that saves to the library; *naming* and *settling* are instances. What the tabs show matters less here, as a save
that lands writes all it lists: Filedkept adds to Orderly that tabs, cache and saves list each script once, that what is listed
on the disk is too, the named ones with their files, and that each text to survive is in one of those places or in a named file, listed or not. A landed save's
entries are what loads (FiledLanded), and a rename moves one file to a name no file has (FiledMoved), so nothing is replaced. Both exclusions are sharp, and
MovesApart names them: section 6 has a text lost to each.

*Model-checked only*: ConnectingResolves, NoEndlessWait and DroppedTunnelEnds (liveness and ENABLED are beyond the prover); AutosavedTextSurvives of
*renaming* and *sharing*, and OneTabPerFile of *renaming*; SettledIsCurrent, which is SettledDiskIsCurrent of the two instances that
meet its theorem's assumptions, and SharedTextIsSaved of the other instances; SentAsTyped, which says what a scan over any text computes (induction
over data is beyond the prover). No module declares a RECURSIVE operator.

## 6. Known deviations

Where the code does something other than its comments say, or than a user would expect. Those with a run
are in section 4; the others were found the same way, and the models are faithful to them or leave them
out as stated.

Session:
- A switch that fails puts back the schema it found, which may be Loading with nothing left
  to end it (connect.rs:309, against state.rs:40 "Introspection is in flight").
- `switch_database` drops the handle of the running query but not its generation: an event
  already queued sets the state back to Running, and Cancel finds nothing (connect.rs:158).
- A `switch_database` that supersedes a pending connect goes through that connect's tunnel configuration, as the
  configuration is stored at once and the URL only on success (connect.rs:84, against session.rs:59).
- `connect_url`, unlike `switch_database`, leaves the running query alone (connect.rs:60, against
  connect.rs:110 "performs the same cancel/reconnect/reset sequence").

- After the dial and the acquire, an attempt asks `SELECT 1` and for the list of databases without a time-out: a server that accepts and
  does not answer leaves the session Connecting until another attempt is made (pool.rs:88, connect.rs:346). ConnectingResolves excepts it.

Store:
- A rename's claim is minted when it is asked for and recorded when it runs; an autosave
  dispatched in between is newer, passes the fence and writes the old name again (backing.rs:301, against
  backing.rs:298).
- The fence stands when the rename then fails; an autosave it refused is not tried again until
  the tabs change (tabs.rs:729).
- `new_script_tab` takes `query-N.sql` to be free; an edited preview of a relation named `query-2`
  has that file already (constructors.rs:78: `scripts_minted`). So does a script reopened between a rename on disk and
  its return to the tab (constructors.rs:114), and a promotion to the name of a library file
  that vanished while a tab is open on it.
- Writing a library script deletes its draft, which may by then hold a newer edit; it is off the
  disk until the next autosave (backing.rs:248, against tabs.rs:730).
- Two explicit saves of one script are not ordered (save_flow.rs:211, against backing.rs:106). Nor are two promotions to one name of the library, which replace one
  another: whether the name is taken is asked before either has written.
- A crash in the middle of a library rename restores a tab whose file has moved: the script is then in the library under its new name and,
  if it has a draft, in a tab under the old one. A file removed by others between an explicit save and the deletion of the draft takes the text with it.
- The move of an older layout's scripts, cut short by a crash, loses them at the next save (disk.rs:178).
- A draft whose library file is gone becomes its own baseline and is then pruned
  (restore.rs:213 and 134, against backing.rs:111).
- A shared tab closed and reopened, or switched away and back, during its explicit save shows
  or keeps the older text, while the draft is deleted.
- A saved script renamed from foo to bar on disk, whose tab has not been told, and another script saved under foo meanwhile: if the second
  comes back first, two tabs are saved to foo, and the next autosave overwrites one text with the other (save_flow.rs:346). OneTabPerFile
  excludes this, as the first two collisions above, by name (NamesApart).
- A library script that a promotion or a library rename has written can be opened from the sidebar before the task comes back: two tabs of
  one script, whose drafts overwrite one another (save_flow.rs:403).
- What is typed and autosaved during a promotion is deleted with the scratch file and is on the disk nowhere until the next autosave
  (save_flow.rs:392). AutosavedTextSurvives excepts just that: what such a cleanup deletes is no longer `kept`.
- AutosavedTextSurvives excludes by name (MovesApart) that scripts are named while writes fail, but for a single one. A script is renamed from query-1 to foo, and an autosave of before, with its latest text, lands
  after the file has moved and writes query-1 anew. Switching away and back starts the numbers again, so a new script may be query-1 too, and its first
  autosave, failing part way, replaces that file; foo has only the older text until the next save (constructors.rs:78).
  This takes four tasks at once and six claims.
- The same exception is needed with promotions, even one task at a time. A library script foo with a draft is renamed to bar and another is promoted to foo; an autosave
  of before the rename writes the first one's draft as foo's, and saving the new foo deletes it (backing.rs:248). The next autosave restores it. Two such
  tasks at once, and failing writes, reopening, crashes and vanishing files beside them, are excluded by name.
- `perform_save_as` drops its save task; a library rename in flight while switching opens an
  empty tab.

Previews:
- `finish_run` checks that its tab is live, not that the run is the one it waited for: a
  superseded run of the same tab captures its successor part way, as Running, and shows it so for
  ever if another tab runs next (tabs.rs:661, "Capture tab `id`'s just-finished run"). RunsStayWithTheirTab names this exception, and the last one here.
- A late exact total moves the page back without running the query of that page, so the pager names
  a page whose rows are not shown (preview_state.rs:121); ResultIsOfWindow allows for it.
- A sort or page change that supersedes a count in flight carries over an unknown total, and nothing
  counts again until a reload (session.rs:520).
- After a switch of connections, until something is run, the view of a tab that has run nothing follows the session, where a query of
  the old connection may be running on (tabs.rs:493, against tabs.rs:450).

Transactions and drivers:
- An SQLite pool's single connection that breaks and is replaced in the middle of a batch breaks its atomicity too.
- If the acquires of a statement and of its ROLLBACK both time out, the transaction stays open on its connection, and later
  queries join it; a query of the user's between two statements of a batch joins it as well.
- The prepare that describes a query has no time-out once it has its connection (zsql-sqlx/src/lib.rs:317), nor has a statement: a server that
  does not answer holds both.
- A server-side cancel that comes late kills the connection's next query (zsql-sqlx/src/lib.rs:347).
- The SQL Server driver opens a client per operation, so that its BEGIN opens nothing (by reading; not modelled).

Tunnels:
- The accept loop awaits each channel without a time-out; a request the server leaves unanswered holds up shutdown and
  keepalives for ever. DroppedTunnelEnds excludes it by name.
- A ready message nobody receives ends the task without a disconnect.

Staging:
- Changing a key column before another column of the same row makes the second statement miss its row: the run
  has no key among its columns.
- Switching tabs during an Apply that fails leaves the queue under the other tab.
- A description fetched over another connection is taken if the relation's key is the same.

Parameters:
- A script without parameters run while another connection is being opened goes to the old one, though the new one's
  tabs are shown; and a confirmed run whose connection is gone is remembered as if it had run (parameters_flow.rs:106).
- A parameter that touches a string literal or another parameter (`'a':b`, `:a:b`) makes one literal with it; SentAsTyped excludes it.
- "Skips a token inside a single-quoted string literal" (params.rs:443): not after a backslash-escaped quote of MySQL. There and in nested comments the
  scan takes one token for another, and `--` begins a comment for it in MySQL without the space the server wants: texts with such tokens are
  checked, and SentAsTyped excludes what they send by name (Misread). So it would be in the dollar-quoted and escape strings of PostgreSQL, which no text checked has.
- A DECLARE list ends at a second identifier, so `DECLARE @a AS INT, @b INT` asks for @b; an array slice `[1:n]` is asked for n.
- The history is kept by file name: a new script under an old name shows the old one's values (backing.rs:194, "never shows
  another script's history"), and a rename leaves them behind. A history file that cannot be read is taken for empty and replaced.

Connection store:
- Setting the URL and then failing to set the tunnel's secret leaves the new URL beside the old fields (update).
- `fs::write` is not atomic, and `main` refuses to start on a torn file (main.rs:141).
- If the directory cannot be made, what is pending is kept and added again at a later save.
- An end of the process leaves keyring entries without a connection; `remove` may report a failure after the file has changed;
  a connection whose keyring entry is gone cannot be updated; display kind and host are not updated.
- A failure of the keyring for a tunnel's secret is swallowed (`.ok()`).

Connection manager:
- A superseded attempt reports the session's state, another attempt's outcome, as its own in the status; a Test has no guard at all.
- A superseded attempt for a file connection may store its URL.

Migration:
- "a failed entry is left for the next startup to retry ... rather than being silently dropped forever" (migration.rs:199): not
  if the user works under that connection first, as the directory then counts as migrated (`migration_failed_entry`; GoneIsComplete names it).
  Scripts the user saved just before a crash, without `tabs.toml`, are overwritten by the retry; renaming connections between retries can drop an entry.

Editor:
- Undo and redo restore caret and selection "exactly as they were" (buffer.rs:544), but the snapshot is taken when undo or redo is asked
  for: a caret moved in between comes back moved.
- The marked range of a composition is not ended by an undo, a cut or another document; the commit then replaces other text. The
  editor clamps the range; the one-line field takes it as it is.

## 7. Not modelled

Of the modelled parts: elapsed times and messages; save-as copies and exports; external
files apart from library scripts; generated and schema tabs in the store; the order of tabs and the
active index; a `tabs.toml` that cannot be read; the flush on quitting (an autosave that is awaited);
the guess of a parameter's type; several windows of several connections (a session has one); the status line and the Test button of
the manager; the SQL of a staged change; the conversion of a legacy entry; pings, counts and introspection in the drivers; authentication and host
keys of tunnels; the editor's compact mode, highlighting and scrolling.

Of the rest, by design: drawing and widgets, text formatting, themes and configuration parsing, catalogue queries and value
decoding of the drivers, the SSH handshake, and wiring at start-up: no state that outlives a call, or nothing but
the state of a library.
