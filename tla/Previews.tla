------------------------------ MODULE Previews ------------------------------
(* Tabs that run queries and page through relations: the running half of     *)
(* ui/tabs.rs, ui/tabs/preview_actions.rs and constructors.rs, the state of  *)
(* a preview (zsql-core preview_state.rs), what the results view follows     *)
(* (ui/results/snapshot.rs), and as much of session.rs as they call: one     *)
(* query at a time, whose number is its generation, and a count beside it.   *)
(*                                                                           *)
(* Session models the session itself, for any caller that keeps to its       *)
(* contract; this module models the one caller it has. The text of queries,  *)
(* saving (ScriptStore), and the modal that asks for parameters are left     *)
(* out; the session always has a connection.                                 *)
EXTENDS Naturals, FiniteSets

CONSTANTS
  Relations, SortColumns,
  Filters,        \* filters, other than that of no conditions
  PageSizes, PreviewLimit,
  Counts,         \* what a count may find: rows, exact or estimated
  MaxPage,        \* bound: pages a preview is turned to
  MaxTabs,        \* bound: tabs at one time
  MaxTabId,     \* bound: tabs ever opened
  MaxRuns,        \* bound: generations of queries
  Ops,            \* what is explored besides paging and running
  Nothing

VARIABLES
  tabs,         \* TabModel.tabs: id -> kind, preview and last_run
  active,       \* TabModel.active
  live_owner,   \* TabModel.live_owner
  next_id,      \* TabModel.next_id
  shown,        \* ResultsView: following the session for a tab, or frozen
  state,        \* Session.state
  connecting,   \* a connection attempt is in flight
  result,       \* Session.accumulator: the query it is the result of
  generation,   \* Session.query_generation
  row_count,    \* Session.row_count
  counts,       \* counts in flight
  tasks         \* runs whose task has not come back to the tab model

tabVars == <<tabs, active, live_owner, next_id, shown>>
sessionVars == <<state, connecting, result, generation, row_count, counts>>
previewVars == <<tabVars, sessionVars, tasks>>

ASSUME PreviewsAssumption ==
  /\ PreviewLimit \in PageSizes
  /\ PageSizes \subseteq Nat \ {0}
  /\ Counts \subseteq [exact : BOOLEAN, rows : Nat]
  /\ MaxPage \in Nat /\ MaxTabs \in Nat /\ MaxTabId \in Nat /\ MaxRuns \in Nat
  /\ Nothing \notin Filters \cup Nat

-----------------------------------------------------------------------------
(* PreviewQueryState *)

\* A window is [relation, filter, sort, page, size], a sort [column, asc]; a
\* preview is [window, total, base]: the window, and the totals known with its
\* filter and without. A total is [of, count]: what was counted (a relation
\* and a filter), and what was found.
NewPreview(relation) ==
  [window |-> [relation |-> relation, filter |-> Nothing, sort |-> Nothing,
               page |-> 1, size |-> PreviewLimit],
   total |-> Nothing, base |-> Nothing]

TargetOf(w) == [relation |-> w.relation, filter |-> w.filter]

Offset(w) == (w.page - 1) * w.size

LastPageNumber(total, size) ==
  IF total.count.rows = 0 THEN 1 ELSE (total.count.rows - 1) \div size + 1

IsExact(total) == total # Nothing /\ total.count.exact

IsLastPage(p) == IsExact(p.total) /\ p.window.page >= LastPageNumber(p.total, p.window.size)

\* Definitions named Mut... are faulty variants of the one after them.

\* set_total_rows without the clamp.
MutSetTotal(p, total) ==
  [p EXCEPT !.total = total,
            !.base = IF p.window.filter = Nothing THEN total ELSE @]

\* set_total_rows: a page past the end of an exact total becomes the last.
SetTotal(p, total) ==
  [window |-> IF IsExact(total) /\ p.window.page > LastPageNumber(total, p.window.size)
              THEN [p.window EXCEPT !.page = LastPageNumber(total, p.window.size)]
              ELSE p.window,
   total |-> total,
   base |-> IF p.window.filter = Nothing THEN total ELSE p.base]

ToPage(w, page) == [w EXCEPT !.page = page]

\* toggle_sort
Sorted(w, column) ==
  LET again == w.sort # Nothing /\ w.sort.column = column
  IN  [w EXCEPT !.sort = [column |-> column, asc |-> ~ (again /\ w.sort.asc)],
                !.page = 1]

\* The page keeps its number.
MutResized(w, size) == [w EXCEPT !.size = size]

\* set_page_size: to the page that holds the row that was first.
Resized(w, size) == [w EXCEPT !.size = size, !.page = Offset(w) \div size + 1]

\* add_filter and its kin.
Filtered(w, filter) == [w EXCEPT !.filter = filter, !.page = 1]

-----------------------------------------------------------------------------

\* A tab is [kind, preview, last]; its last_run [run, tab, done, by] is the
\* query its snapshot is of, whose that was, whether it was over, and (for the
\* properties) the run whose task took it. The session is "Connecting",
\* "Connected", "Running" or shows "Results".

\* A workspace opens with one script tab.
PreviewsInit ==
  /\ tabs = [i \in {1} |-> [kind |-> "script", preview |-> Nothing, last |-> Nothing]]
  /\ active = 1 /\ live_owner = Nothing /\ next_id = 2
  /\ shown = [tab |-> 1, live |-> FALSE, last |-> Nothing]
  /\ state = "Connected" /\ connecting = FALSE
  /\ result = [run |-> 0, tab |-> Nothing, window |-> Nothing, done |-> TRUE]
  /\ generation = 0 /\ row_count = Nothing /\ counts = {} /\ tasks = {}

IsGenerated(i) == tabs[i].kind = "generated"

-----------------------------------------------------------------------------
(* What tabs and session tell one another *)

\* sync_results_to_active
Synced(ts, act, owner) ==
  IF act = Nothing \/ ts[act].kind = "schema" THEN shown
  ELSE IF owner = act \/ (ts[act].last = Nothing /\ state = "Connecting")
  THEN [tab |-> act, live |-> TRUE, last |-> Nothing]
  ELSE [tab |-> act, live |-> FALSE, last |-> ts[act].last]

SameTotal(a, b) ==
  IF a = Nothing \/ b = Nothing THEN a = b ELSE a.count = b.count

\* The tab model's observer of the session: the live tab's preview takes the
\* session's count.
Observed(ts, owner, total) ==
  [i \in DOMAIN ts |->
     IF i = owner /\ ts[i].kind = "generated" /\ ~ SameTotal(ts[i].preview.total, total)
     THEN [ts[i] EXCEPT !.preview = SetTotal(@, total)] ELSE ts[i]]

\* preview_relation_windowed and run_query, for the tab id: count is what is
\* counted beside the query, and kept the count the session goes on showing.
RunQuery(id, window, count, kept) ==
  /\ generation < MaxRuns
  /\ generation' = generation + 1
  /\ state' = "Running"
  /\ result' = [run |-> generation + 1, tab |-> id, window |-> window, done |-> FALSE]
  /\ row_count' = kept
  /\ counts' = counts \cup {[generation |-> generation + 1, of |-> t] : t \in count}
  /\ UNCHANGED connecting

\* dispatch_run, for the tab id among tabs ts, once its query has started. The
\* session's notice of that reaches the tab model when id is the live one.
DispatchRun(ts, id) ==
  /\ tasks' = tasks \cup {[run |-> generation', tab |-> id]}
  /\ live_owner' = id
  /\ tabs' = Observed(ts, id, row_count')
  /\ shown' = [tab |-> id, live |-> TRUE, last |-> Nothing]

-----------------------------------------------------------------------------
(* Opening, activating, editing and closing tabs *)

SetActive(i) ==
  /\ active' = i
  /\ shown' = Synced(tabs, i, live_owner)
  /\ UNCHANGED <<tabs, live_owner, next_id, sessionVars, tasks>>

CanOpen == Cardinality(DOMAIN tabs) < MaxTabs /\ next_id <= MaxTabId

WithTab(kind, preview) ==
  [i \in DOMAIN tabs \cup {next_id} |->
     IF i = next_id THEN [kind |-> kind, preview |-> preview, last |-> Nothing]
                    ELSE tabs[i]]

\* new_script_tab; open_or_reuse_schema, not open yet.
OpenTab(kind) ==
  /\ CanOpen
  /\ tabs' = WithTab(kind, Nothing)
  /\ active' = next_id
  /\ next_id' = next_id + 1
  /\ shown' = Synced(tabs', active', live_owner)
  /\ UNCHANGED <<live_owner, sessionVars, tasks>>

\* open_or_reuse_generated. generated_by_relation is the generated tab there
\* is of a relation.
OpenGenerated(relation) ==
  LET open == {i \in DOMAIN tabs :
                 IsGenerated(i) /\ tabs[i].preview.window.relation = relation}
      new == NewPreview(relation)
  IN  IF open # {}
      THEN \E i \in open : SetActive(i)
      ELSE /\ CanOpen
           /\ active' = next_id
           /\ next_id' = next_id + 1
           /\ RunQuery(next_id, new.window, {TargetOf(new.window)}, Nothing)
           /\ DispatchRun(WithTab("generated", new), next_id)

\* mark_edited: an edited preview is a script from then on.
MarkEdited ==
  /\ active # Nothing /\ IsGenerated(active)
  /\ tabs' = [tabs EXCEPT ![active].kind = "script", ![active].preview = Nothing]
  /\ UNCHANGED <<active, live_owner, next_id, shown, sessionVars, tasks>>

CloseTab(i) ==
  LET rest == [k \in DOMAIN tabs \ {i} |-> tabs[k]]
      after == {k \in DOMAIN rest : k > i}
      neighbour == IF DOMAIN rest = {} THEN Nothing
                   ELSE IF after # {} THEN CHOOSE k \in after : \A m \in after : k <= m
                   ELSE CHOOSE k \in DOMAIN rest : \A m \in DOMAIN rest : m <= k
  IN  /\ tabs' = rest
      /\ live_owner' = IF live_owner = i THEN Nothing ELSE live_owner
      /\ active' = IF active = i THEN neighbour ELSE active
      /\ shown' = IF active = i THEN Synced(rest, active', live_owner') ELSE shown
      /\ UNCHANGED <<next_id, sessionVars, tasks>>

-----------------------------------------------------------------------------
(* Running, paging and sorting *)

\* run_for_tab, of a script.
RunScript ==
  /\ active # Nothing /\ tabs[active].kind = "script"
  /\ RunQuery(active, Nothing, {}, Nothing)
  /\ DispatchRun(tabs, active)
  /\ UNCHANGED <<active, next_id>>

\* The window is read before it is changed.
MutRerun(w, refetch) ==
  /\ w.page <= MaxPage
  /\ RunQuery(active, tabs[active].preview.window, IF refetch THEN {TargetOf(w)} ELSE {},
              IF refetch THEN Nothing ELSE row_count)
  /\ DispatchRun([tabs EXCEPT ![active].preview.window = w], active)
  /\ UNCHANGED <<active, next_id>>

\* rerun_active_generated_tab with the window w: counted again only when other
\* rows may be there, the session's count being kept otherwise.
Rerun(w, refetch) ==
  /\ w.page <= MaxPage
  /\ RunQuery(active, w, IF refetch THEN {TargetOf(w)} ELSE {},
              IF refetch THEN Nothing ELSE row_count)
  /\ DispatchRun([tabs EXCEPT ![active].preview.window = w], active)
  /\ UNCHANGED <<active, next_id>>

\* dispatch_preview_action
PreviewAction ==
  /\ active # Nothing /\ IsGenerated(active)
  /\ LET p == tabs[active].preview
         w == p.window
     IN  \/ \E column \in SortColumns : Rerun(Sorted(w, column), FALSE)
         \/ ~ IsLastPage(p) /\ Rerun(ToPage(w, w.page + 1), FALSE)
         \/ w.page > 1 /\ \E page \in {1, w.page - 1} : Rerun(ToPage(w, page), FALSE)
         \/ /\ p.total # Nothing /\ w.page # LastPageNumber(p.total, w.size)
            /\ Rerun(ToPage(w, LastPageNumber(p.total, w.size)), FALSE)
         \/ \E size \in PageSizes : Rerun(Resized(w, size), FALSE)
         \/ \E f \in Filters \cup {Nothing} :
              (f # Nothing \/ w.filter # Nothing) /\ Rerun(Filtered(w, f), TRUE)
         \/ Rerun(w, TRUE)

-----------------------------------------------------------------------------
(* The session *)

\* Events of the newest query: rows, and at last the end of it.
QueryRuns(done) ==
  /\ result.run = generation /\ ~ result.done
  /\ state' = IF done THEN "Results" ELSE "Running"
  /\ result' = [result EXCEPT !.done = done]
  /\ UNCHANGED <<tabVars, connecting, generation, row_count, counts, tasks>>

\* cancel_query
CancelQuery ==
  /\ result.run = generation /\ ~ result.done /\ generation < MaxRuns
  /\ generation' = generation + 1
  /\ state' = "Results"
  /\ result' = [result EXCEPT !.done = TRUE]
  /\ UNCHANGED <<tabVars, connecting, row_count, counts, tasks>>

\* A count is taken whatever has been run since.
MutIsNewest(k) == TRUE

IsNewest(k) == k.generation = generation

CountResolves(k) ==
  /\ counts' = counts \ {k}
  /\ IF IsNewest(k)
     THEN /\ row_count' \in {[of |-> k.of, count |-> c] : c \in Counts} \cup {row_count}
          /\ tabs' = Observed(tabs, live_owner, row_count')
     ELSE UNCHANGED <<row_count, tabs>>
  /\ UNCHANGED <<active, live_owner, next_id, shown, state, connecting, result,
                 generation, tasks>>

\* Whoever is live by now.
MutOwns(t) == TRUE

Owns(t) == live_owner = t.tab

\* finish_run: the task of a run comes back when its query is over, or has
\* been superseded.
FinishRun(t) ==
  /\ t.run # generation \/ result.done
  /\ tasks' = tasks \ {t}
  /\ IF Owns(t) /\ t.tab \in DOMAIN tabs
     THEN tabs' = [tabs EXCEPT ![t.tab].last =
                     [run |-> result.run, tab |-> result.tab, done |-> result.done,
                      by |-> t.run]]
     ELSE UNCHANGED tabs
  /\ UNCHANGED <<active, live_owner, next_id, shown, sessionVars>>

-----------------------------------------------------------------------------
(* Another connection *)

\* load_for_connection, for a connection that has the tabs there were: those
\* but the schema tabs are opened anew, with nothing known of their rows.
Restored ==
  LET saved == {i \in DOMAIN tabs : tabs[i].kind # "schema"}
      id(i) == next_id + Cardinality({k \in saved : k < i})
      blank == [kind |-> "script", preview |-> Nothing, last |-> Nothing]
  IN  IF saved = {}
      THEN [i \in {next_id} |-> blank]
      ELSE [k \in {id(i) : i \in saved} |->
              LET old == tabs[CHOOSE i \in saved : id(i) = k]
              IN  [old EXCEPT !.last = Nothing,
                              !.preview =
                                IF @ = Nothing THEN Nothing
                                ELSE [@ EXCEPT !.total = Nothing, !.base = Nothing]]]

\* ConnectionManagerView::connect: the session is Connecting by the time the
\* workspace swaps the tabs. A query in flight runs on.
SwitchConnection ==
  /\ "switch" \in Ops
  /\ next_id + Cardinality(DOMAIN Restored) <= MaxTabId + 1
  /\ connecting' = TRUE
  /\ state' = "Connecting"
  /\ tabs' = Restored
  /\ next_id' = next_id + Cardinality(DOMAIN Restored)
  /\ active' \in DOMAIN Restored
  /\ live_owner' = Nothing
  /\ shown' = [tab |-> active', live |-> TRUE, last |-> Nothing]
  /\ UNCHANGED <<result, generation, row_count, counts, tasks>>

Connects ==
  /\ connecting
  /\ connecting' = FALSE
  /\ state' = "Connected"
  /\ UNCHANGED <<tabVars, result, generation, row_count, counts, tasks>>

-----------------------------------------------------------------------------

TabStep ==
  \/ \E i \in DOMAIN tabs : SetActive(i) \/ CloseTab(i)
  \/ OpenTab("script")
  \/ "schema" \in Ops /\ OpenTab("schema")
  \/ \E relation \in Relations : OpenGenerated(relation)
  \/ MarkEdited

RunStep == RunScript \/ PreviewAction

SessionStep ==
  \/ \E done \in BOOLEAN : QueryRuns(done)
  \/ CancelQuery
  \/ \E k \in counts : CountResolves(k)
  \/ \E t \in tasks : FinishRun(t)
  \/ Connects

PreviewsNext == TabStep \/ RunStep \/ SessionStep \/ SwitchConnection

PreviewsSpec == PreviewsInit /\ [][PreviewsNext]_previewVars

-----------------------------------------------------------------------------
(* Properties *)

\* The view a switch of connections leaves: it follows the session although no
\* tab of the new connection has run anything.
LeftFollowing == /\ live_owner = Nothing /\ tabs[active].last = Nothing
                 /\ result.tab \notin DOMAIN tabs

(* Each tab keeps what its own runs produced, and the view shows the active  *)
(* tab's, whichever runs superseded which and in whichever order their tasks *)
(* come back: the session is the live tab's; a snapshot is of a run of the   *)
(* tab that has it, and of one that was over; and the view follows the       *)
(* session for the tab that runs in it, else shows the active tab's own      *)
(* snapshot. With two exceptions, in which the code does not do what the     *)
(* comments at tabs.rs:449 and 507 say. A run superseded by another one of   *)
(* the same tab takes that one's rows part way (finish_run compares the tab, *)
(* not the run): such a snapshot is of a newer run than the one it was taken *)
(* for. And after a switch of connections, until something is run, the view  *)
(* of a tab that has run nothing follows the session (tabs.rs:493), where a  *)
(* query of a former tab may be running on.                                  *)
RunsStayWithTheirTab ==
  /\ live_owner # Nothing => result.tab = live_owner
  /\ \A i \in DOMAIN tabs :
       LET kept == tabs[i].last
       IN  kept # Nothing => kept.tab = i /\ (kept.done \/ kept.by < kept.run)
  /\ active # Nothing /\ tabs[active].kind # "schema" =>
       /\ shown.tab = active
       /\ IF shown.live THEN live_owner = active \/ LeftFollowing
                        ELSE live_owner # active /\ shown.last = tabs[active].last

(* The rows shown are what the pager says is shown, unless the rows turned   *)
(* out to end before that page.                                              *)
ResultIsOfWindow ==
  live_owner # Nothing /\ IsGenerated(live_owner) =>
    LET w == tabs[live_owner].preview.window
    IN  /\ result.window = ToPage(w, result.window.page)
        /\ w.page <= result.window.page

(* A preview is never left on a page past the last of a total known exactly, *)
(* whatever order pages, page sizes, filters and counts come in.             *)
PageWithinTotal ==
  \A i \in DOMAIN tabs :
    IsGenerated(i) =>
      LET p == tabs[i].preview
      IN  IsExact(p.total) => p.window.page <= LastPageNumber(p.total, p.window.size)

(* A total of the tab's own relation was counted with the tab's own filter,  *)
(* and the total beside it with none.                                        *)
TotalFitsFilter ==
  \A i \in DOMAIN tabs :
    IsGenerated(i) =>
      LET p == tabs[i].preview
          own(t) == t # Nothing /\ t.of.relation = p.window.relation
      IN  /\ own(p.total) => p.total.of.filter = p.window.filter
          /\ own(p.base) => p.base.of.filter = Nothing

(* When the page size is changed the row that was first stays in view.       *)
ResizeKeepsFirstRow ==
  [][\A i \in DOMAIN tabs \cap DOMAIN tabs' :
       IsGenerated(i) /\ tabs'[i].kind = "generated" =>
         LET w == tabs[i].preview.window
             v == tabs'[i].preview.window
         IN  v.size # w.size /\ tabs'[i].preview.total = tabs[i].preview.total =>
               Offset(v) <= Offset(w) /\ Offset(w) < Offset(v) + v.size]_previewVars

\* tabs.rs:306: a sort or page change "previews the same relation the tab's
\* initial preview_relation call already counted, so its total is still valid".
TotalOfOwnRelation ==
  \A i \in DOMAIN tabs :
    IsGenerated(i) =>
      LET p == tabs[i].preview
      IN  p.total # Nothing => p.total.of.relation = p.window.relation

=============================================================================
