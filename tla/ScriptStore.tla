---------------------------- MODULE ScriptStore ----------------------------
(* The script tabs of one connection and the session directory they are      *)
(* kept in: session_store/, ui/workspace.rs, ui/workspace/save_flow.rs and   *)
(* the parts of ui/tabs that save and restore.                               *)
(*                                                                           *)
(* The tabs live on the UI thread, whose handlers are one action each. Every *)
(* change dispatches an autosave of all tabs to a background executor, which *)
(* runs tasks in any order; a save, a rename and a promotion to the library  *)
(* do their disk work there too and then come back to the UI thread, where   *)
(* the tab may have been edited, closed or swapped out meanwhile. IO_LOCK is *)
(* held for each disk operation, so each is one step, except that it may     *)
(* fail or the process end between the files it writes.                      *)
(*                                                                           *)
(* The tabs of all the other connections are abstracted to their being open  *)
(* instead of this connection's. A library script and an external file are   *)
(* both "shared" here, restored as a library script is. A text is known by   *)
(* the document it is a version of and by the number of edits made to it.    *)
EXTENDS Naturals, FiniteSets

CONSTANTS
  MaxTabs,     \* bound: tabs at one time; an id is reused once nothing
               \* refers to it
  UserNames,   \* the names a user gives to a saved script
  Relations,   \* numbers N for which a relation is named query-N
  Ops,         \* the operations of the user and of the system explored
  OnDisk,      \* what is there at first: a file of the first user name at
               \* "named", at "shared", or none
  MaxDocs,     \* bound: documents created
  MaxEdits,    \* bound: edits of one document
  MaxJobs,     \* bound: background tasks at one time
  MaxClaims,   \* bound: claims minted in one process
  NoText, NoCache

VARIABLES
  tabs,      \* TabModel.tabs: tab id -> where it is saved, its text, ...
  next,      \* TabModel.next_script_number
  due,       \* an edit waits for the debounce timer
  here,      \* SessionStore.active_key is this connection's
  cache,     \* SessionStore.session_cache of this connection
  minted,    \* SaveClaimFactory: claims minted for the directory
  written,   \* SaveClaimFactory: the newest claim spent
  jobs,      \* background tasks
  disk,      \* the files of the directory and of the library
  docs,      \* documents created
  kept       \* the texts of the last snapshot that reached the disk, less
             \* those of tabs closed since and those an explicit save deleted

tabVars == <<tabs, next, due, here, docs>>
vars == <<tabVars, cache, minted, written, jobs, disk, kept>>

-----------------------------------------------------------------------------
(* Data *)

TabIds == 1..MaxTabs

Scratch(name) == [at |-> "scratch", name |-> name]
Named(name) == [at |-> "named", name |-> name]
Shared(name) == [at |-> "shared", name |-> name]

\* query-N.sql, and the file of a preview that was edited.
ScratchNames == (1..MaxDocs) \cup Relations

Ref == {Scratch(name) : name \in ScratchNames}
         \cup {Named(name) : name \in UserNames}
         \cup {Shared(name) : name \in UserNames}

\* A text is the document it was first of and how often it has been edited. A
\* tab is [ref, text, base, dirty]: its ScriptBacking, its buffer, saved_text,
\* or NoText where that is not kept, and its dirty flag. An entry of a snapshot
\* is [ref, text], where a shared script has a text only while it diverges. The
\* disk is [file, draft, tabs]: files and drafts are texts or NoText, and the
\* entries of tabs.toml are [ref, draft].
Empty == [of |-> 0, n |-> 0]

Diverged(tab) == tab.ref.at = "shared" /\ tab.base # tab.text

EntryOf(tab) ==
  [ref |-> tab.ref,
   text |-> IF tab.ref.at = "shared" /\ ~ Diverged(tab) THEN NoText ELSE tab.text]

Snapshot(ts) == {EntryOf(ts[i]) : i \in DOMAIN ts}

TextsOf(entries) == {e.text : e \in entries} \ {NoText}

\* load_snapshot: the entries of tabs.toml whose files are there.
Loaded(d) ==
  LET textOf(e) == IF e.ref.at # "shared" THEN d.file[e.ref]
                   ELSE IF e.draft THEN d.draft[e.ref.name] ELSE NoText
  IN  {[ref |-> e.ref, text |-> textOf(e)] :
         e \in {x \in d.tabs : (x.ref.at # "shared" \/ x.draft) => textOf(x) # NoText}}

\* restore_tabs: an entry as a tab. A draft is kept when the file it is a
\* draft of is missing, and is then its own baseline.
Restored(e, d) ==
  LET lib == d.file[e.ref]
      text == IF e.text # NoText THEN e.text ELSE IF lib # NoText THEN lib ELSE Empty
      base == IF e.ref.at # "shared" THEN NoText ELSE IF lib # NoText THEN lib ELSE text
  IN  [ref |-> e.ref, text |-> text, base |-> base, dirty |-> FALSE]

\* persist: the entries written so far, a subset of the snapshot.
WithFiles(d, entries) ==
  LET fileOf(e) == e.ref.at # "shared" \/ e.text # NoText
      owns(r) == {e \in entries : e.ref = r /\ fileOf(e)}
  IN  [d EXCEPT
        !.file = [r \in Ref |-> IF r.at # "shared" /\ owns(r) # {}
                                THEN (CHOOSE e \in owns(r) : TRUE).text ELSE @[r]],
        !.draft = [n \in UserNames |-> IF owns(Shared(n)) # {}
                                   THEN (CHOOSE e \in owns(Shared(n)) : TRUE).text ELSE @[n]]]

\* persist: tabs.toml replaced.
WithTabs(d, entries) ==
  [d EXCEPT !.tabs = {[ref |-> e.ref, draft |-> e.ref.at = "shared" /\ e.text # NoText] :
                        e \in entries}]

\* prune_after_save: scratch files and drafts of no entry are deleted.
Pruned(d) ==
  [d EXCEPT
    !.file = [r \in Ref |-> IF r.at = "scratch" /\ ~ \E e \in d.tabs : e.ref = r
                            THEN NoText ELSE @[r]],
    !.draft = [n \in UserNames |-> IF [ref |-> Shared(n), draft |-> TRUE] \in d.tabs
                               THEN @[n] ELSE NoText]]

Persisted(d, entries) == Pruned(WithTabs(WithFiles(d, entries), entries))

-----------------------------------------------------------------------------
(* Claims and autosaves *)

\* A script saved in an earlier run and closed.
AtFirst == {[at |-> place, name |-> CHOOSE name \in UserNames : TRUE] : place \in OnDisk}

NoTabs == [i \in {} |-> NoText]

Init ==
  /\ tabs = NoTabs /\ next = 1 /\ due = FALSE /\ here = FALSE /\ docs = 0
  /\ cache = NoCache /\ minted = 0 /\ written = 0 /\ jobs = {}
  /\ disk = [file |-> [r \in Ref |-> IF r \in AtFirst THEN Empty ELSE NoText],
             draft |-> [n \in UserNames |-> NoText],
             tabs |-> {}]
  /\ kept = {}

Room(n) == /\ Cardinality(jobs) + n <= MaxJobs
           /\ minted + n <= MaxClaims

SaveJob(claim, entries) == [kind |-> "save", claim |-> claim, entries |-> entries]

\* dispatch_tab_session_save, of the tabs as they become, after skip claims
\* minted by the same handler: the cache is replaced before anything is
\* written.
Autosave(skip) ==
  /\ minted' = minted + skip + 1
  /\ jobs' = jobs \cup {SaveJob(minted + skip + 1, Snapshot(tabs'))}
  /\ cache' = Snapshot(tabs')

\* The tabs' observer: an autosave after any change of them.
Notify == Room(1) /\ Autosave(0)

FreeIds == TabIds \ (DOMAIN tabs \cup {j.tab : j \in {k \in jobs : k.kind # "save"}})

\* allocate_id, and the tab pushed.
WithTab(ref, text, base, dirty) ==
  LET id == CHOOSE i \in FreeIds : \A k \in FreeIds : i <= k
  IN  [i \in DOMAIN tabs \cup {id} |->
         IF i = id THEN [ref |-> ref, text |-> text, base |-> base, dirty |-> dirty]
                   ELSE tabs[i]]

IsOpen(ref) == \E i \in DOMAIN tabs : tabs[i].ref = ref

-----------------------------------------------------------------------------
(* The user's actions on the tabs *)

\* new_script_tab
NewScript ==
  /\ here /\ FreeIds # {} /\ docs < MaxDocs /\ next <= MaxDocs
  /\ tabs' = WithTab(Scratch(next), [of |-> docs + 1, n |-> 0], NoText, FALSE)
  /\ next' = next + 1
  /\ docs' = docs + 1
  /\ Notify
  /\ UNCHANGED <<due, here, written, disk, kept>>

\* mark_edited, of a generated tab: it becomes a script, saved under the
\* name of its relation; not one that a scratch tab open has, when the code
\* adds a suffix.
ConvertGenerated(name) ==
  /\ here /\ FreeIds # {} /\ docs < MaxDocs
  /\ ~ IsOpen(Scratch(name))
  /\ tabs' = WithTab(Scratch(name), [of |-> docs + 1, n |-> 0], NoText, TRUE)
  /\ docs' = docs + 1
  /\ Notify
  /\ UNCHANGED <<next, due, here, written, disk, kept>>

\* mark_edited, of a script: the first edit notifies, a later one waits for
\* the timer.
Edit(i) ==
  /\ tabs[i].text.n < MaxEdits
  /\ tabs' = [tabs EXCEPT ![i].text.n = @ + 1, ![i].dirty = TRUE]
  /\ IF tabs[i].dirty
     THEN due' = TRUE /\ UNCHANGED <<minted, jobs, cache>>
     ELSE Notify /\ UNCHANGED due
  /\ UNCHANGED <<next, here, docs, written, disk, kept>>

\* schedule_debounced_edit_notify, the last timer.
DebounceFires ==
  /\ due
  /\ due' = FALSE
  /\ UNCHANGED <<tabs, next, here, docs, written, disk, kept>>
  /\ IF here THEN Notify ELSE UNCHANGED <<minted, jobs, cache>>

\* close_tab
CloseTab(i) ==
  /\ "close" \in Ops
  /\ tabs' = [k \in DOMAIN tabs \ {i} |-> tabs[k]]
  /\ kept' = {t \in kept : t.of # tabs[i].text.of}
  /\ Notify
  /\ UNCHANGED <<next, due, here, docs, written, disk>>

\* open_or_focus_session_script, not open yet: the file is read, older saves
\* are fenced off, and tabs.toml lists it at once.
OpenNamed(name) ==
  /\ "reopen" \in Ops
  /\ here /\ FreeIds # {} /\ Room(2)
  /\ disk.file[Named(name)] # NoText
  /\ ~ IsOpen(Named(name))
  /\ tabs' = WithTab(Named(name), disk.file[Named(name)], NoText, FALSE)
  /\ disk' = [disk EXCEPT !.tabs = @ \cup {[ref |-> Named(name), draft |-> FALSE]}]
  /\ written' = minted + 1
  /\ Autosave(1)
  /\ UNCHANGED <<next, due, here, docs, kept>>

\* open_or_focus_library, not open yet.
OpenShared(name) ==
  /\ "reopen" \in Ops
  /\ here /\ FreeIds # {}
  /\ ~ IsOpen(Shared(name))
  /\ disk.file[Shared(name)] # NoText
  /\ LET text == disk.file[Shared(name)]
     IN  tabs' = WithTab(Shared(name), text, text, FALSE)
  /\ Notify
  /\ UNCHANGED <<next, due, here, docs, written, disk, kept>>

-----------------------------------------------------------------------------
(* Autosaves in the background *)

(* Definitions named Mut... are faulty variants of the definition they       *)
(* precede, for checking that the properties can fail.                       *)

\* A write cut short, by an error or the end of the process: some of the
\* files, or all of them and tabs.toml.
Partial(d, entries) ==
  {WithFiles(d, some) : some \in SUBSET entries}
    \cup {WithTabs(WithFiles(d, entries), entries)}

\* save_snapshot_if_current, refused.
SaveRefused(j) ==
  /\ j.kind = "save" /\ j.claim < written
  /\ jobs' = jobs \ {j}
  /\ UNCHANGED <<tabVars, cache, minted, written, disk, kept>>

\* The mark is not raised.
MutSaveLands(j) ==
  /\ j.kind = "save" /\ j.claim >= written
  /\ disk' = Persisted(disk, j.entries)
  /\ kept' = {t \in TextsOf(j.entries) : \E u \in TextsOf(cache) : u.of = t.of}
  /\ jobs' = jobs \ {j}
  /\ UNCHANGED <<tabVars, cache, minted, written>>

\* save_snapshot_if_current
SaveLands(j) ==
  /\ j.kind = "save" /\ j.claim >= written
  /\ written' = j.claim
  /\ disk' = Persisted(disk, j.entries)
  /\ kept' = {t \in TextsOf(j.entries) : \E u \in TextsOf(cache) : u.of = t.of}
  /\ jobs' = jobs \ {j}
  /\ UNCHANGED <<tabVars, cache, minted>>

SaveFails(j) ==
  /\ "torn" \in Ops
  /\ j.kind = "save" /\ j.claim >= written
  /\ written' = j.claim
  /\ disk' \in Partial(disk, j.entries)
  /\ jobs' = jobs \ {j}
  /\ UNCHANGED <<tabVars, cache, minted, kept>>

-----------------------------------------------------------------------------
(* Saving a scratch script under a name, and renaming a named one *)

\* spawn_session_rename, dispatch.
RequestRename(i, name) ==
  /\ (IF tabs[i].ref.at = "scratch" THEN "name" ELSE "rename") \in Ops
  /\ Room(1)
  /\ tabs[i].ref.at # "shared" /\ tabs[i].ref # Named(name)
  /\ disk.file[Named(name)] = NoText
  /\ minted' = minted + 1
  /\ jobs' = jobs \cup {[kind |-> "rename", claim |-> minted + 1, stage |-> "fence",
                         tab |-> i, from |-> tabs[i].ref, to |-> Named(name)]}
  /\ UNCHANGED <<tabVars, cache, written, disk, kept>>

\* ScriptBacking::rename, the claim recorded, whatever becomes of the rename.
RenameFences(j) ==
  /\ j.kind = "rename" /\ j.stage = "fence"
  /\ written' = IF written > j.claim THEN written ELSE j.claim
  /\ jobs' = (jobs \ {j}) \cup {[j EXCEPT !.stage = "move"]}
  /\ UNCHANGED <<tabVars, cache, minted, disk, kept>>

Moved(d, from, to) == [d EXCEPT !.file = [@ EXCEPT ![to] = d.file[from], ![from] = NoText]]

\* retarget_ref
Retargeted(d, from, to) ==
  [d EXCEPT !.tabs = {IF e.ref = from THEN [e EXCEPT !.ref = to] ELSE e : e \in @}]

\* The target was free when the rename was asked for.
MutCanMove(j) == disk.file[j.from] # NoText

CanMove(j) == disk.file[j.to] = NoText /\ disk.file[j.from] # NoText

\* LockedSessionDir::rename_script: the file is moved and tabs.toml rewritten,
\* the latter as well as it goes.
RenameMoves(j) ==
  /\ j.kind = "rename" /\ j.stage = "move"
  /\ CanMove(j)
  /\ LET moved == Moved(disk, j.from, j.to)
     IN  \/ disk' = Retargeted(moved, j.from, j.to)
         \/ "torn" \in Ops /\ disk' = moved
  /\ jobs' = (jobs \ {j}) \cup {[j EXCEPT !.stage = "apply"]}
  /\ UNCHANGED <<tabVars, cache, minted, written, kept>>

\* The target exists by now, the file is not there to be moved, or moving it
\* fails.
RenameFails(j) ==
  /\ j.kind = "rename" /\ j.stage = "move"
  /\ jobs' = jobs \ {j}
  /\ UNCHANGED <<tabVars, cache, minted, written, disk, kept>>

\* apply_renamed_title
RenameApplied(j) ==
  /\ j.kind = "rename" /\ j.stage = "apply"
  /\ IF j.tab \in DOMAIN tabs
     THEN /\ minted < MaxClaims
          /\ tabs' = [tabs EXCEPT ![j.tab].ref = j.to, ![j.tab].base = NoText]
          /\ minted' = minted + 1
          /\ jobs' = (jobs \ {j}) \cup {SaveJob(minted + 1, Snapshot(tabs'))}
          /\ cache' = Snapshot(tabs')
     ELSE jobs' = jobs \ {j} /\ UNCHANGED <<tabs, minted, cache>>
  /\ UNCHANGED <<next, due, here, docs, written, disk, kept>>

-----------------------------------------------------------------------------
(* The library, and files saved to explicitly *)

\* Each of these tasks does its disk work in one or two steps, then returns
\* to the UI thread. text is the buffer when the task was dispatched. With
\* "overlap" another may be asked for, and the connection left, before it is
\* done.
SharedJob(kind, i, name) ==
  [kind |-> kind, claim |-> 0, stage |-> "write",
   tab |-> i, from |-> tabs[i].ref, to |-> Shared(name), text |-> tabs[i].text]

SavingShared == \E j \in jobs : j.kind \in {"promote", "save shared", "rename shared"}

Request(kind, i, name) ==
  /\ kind \in Ops /\ Room(1)
  /\ "overlap" \in Ops \/ ~ SavingShared
  /\ jobs' = jobs \cup {SharedJob(kind, i, name)}
  /\ UNCHANGED <<tabVars, cache, minted, written, disk, kept>>

\* perform_save_to_library
RequestPromotion(i, name) ==
  /\ tabs[i].ref.at = "scratch"
  /\ disk.file[Shared(name)] = NoText
  /\ Request("promote", i, name)

\* write_backing_direct
RequestSave(i) ==
  /\ tabs[i].ref.at = "shared"
  /\ Request("save shared", i, tabs[i].ref.name)

\* perform_rename of a library script
RequestSharedRename(i, name) ==
  /\ tabs[i].ref.at = "shared"
  /\ disk.file[Shared(name)] = NoText
  /\ Request("rename shared", i, name)

Advance(j, stage) == jobs' = (jobs \ {j}) \cup {[j EXCEPT !.stage = stage]}

\* LibraryDir::save, or external::save.
SharedWritten(j) ==
  /\ j.kind \in {"promote", "save shared"} /\ j.stage = "write"
  /\ \/ disk' = [disk EXCEPT !.file[j.to] = j.text] /\ Advance(j, "clean")
     \/ "torn" \in Ops /\ jobs' = jobs \ {j} /\ UNCHANGED disk
  /\ UNCHANGED <<tabVars, cache, minted, written, kept>>

\* LibraryDir::rename, which fails as rename_script does.
SharedMoves(j) ==
  /\ j.kind = "rename shared" /\ j.stage = "write"
  /\ \/ CanMove(j) /\ disk' = Moved(disk, j.from, j.to) /\ Advance(j, "apply")
     \/ jobs' = jobs \ {j} /\ UNCHANGED disk
  /\ UNCHANGED <<tabVars, cache, minted, written, kept>>

\* What the cleanup deletes: the scratch file, or the draft.
Leftover(j) == IF j.kind = "promote" THEN disk.file[j.from] ELSE disk.draft[j.from.name]

\* A text of which no version but an older one is left.
Lost(j, t) ==
  /\ Leftover(j) # NoText /\ t.of = Leftover(j).of
  /\ t.of = j.text.of => t.n > j.text.n

\* delete_scratch, or delete_stale_draft: what is now saved elsewhere goes,
\* whatever has been written to it meanwhile. A failure is only logged.
SharedCleaned(j) ==
  /\ j.kind \in {"promote", "save shared"} /\ j.stage = "clean"
  /\ \/ /\ disk' = IF j.kind = "promote" THEN [disk EXCEPT !.file[j.from] = NoText]
                   ELSE [disk EXCEPT !.draft[j.from.name] = NoText]
        /\ kept' = {t \in kept : ~ Lost(j, t)}
     \/ "torn" \in Ops /\ UNCHANGED <<disk, kept>>
  /\ Advance(j, "apply")
  /\ UNCHANGED <<tabVars, cache, minted, written>>

\* What is typed during the write counts as saved.
MutSharedTab(j) ==
  [tabs[j.tab] EXCEPT !.ref = j.to, !.base = tabs[j.tab].text]

\* convert_to_library_backed, mark_backing_saved, apply_library_rename
SharedTab(j) ==
  CASE j.kind = "promote" -> [tabs[j.tab] EXCEPT !.ref = j.to, !.base = j.text]
    [] j.kind = "save shared" -> [tabs[j.tab] EXCEPT !.base = j.text]
    [] OTHER -> [tabs[j.tab] EXCEPT !.ref = j.to]

SharedApplied(j) ==
  /\ j.kind \in {"promote", "save shared", "rename shared"} /\ j.stage = "apply"
  /\ IF j.tab \in DOMAIN tabs /\ (j.kind = "promote" \/ tabs[j.tab].ref.at = "shared")
     THEN /\ minted < MaxClaims
          /\ tabs' = [tabs EXCEPT ![j.tab] = SharedTab(j)]
          /\ minted' = minted + 1
          /\ jobs' = (jobs \ {j}) \cup {SaveJob(minted + 1, Snapshot(tabs'))}
          /\ cache' = Snapshot(tabs')
     ELSE jobs' = jobs \ {j} /\ UNCHANGED <<tabs, minted, cache>>
  /\ UNCHANGED <<next, due, here, docs, written, disk, kept>>

\* The library script is renamed from another connection's tab, or the file
\* is deleted outside the program, while a draft of it is kept here.
SharedGone(name) ==
  /\ "gone" \in Ops
  /\ disk.file[Shared(name)] # NoText /\ disk.draft[name] # NoText
  /\ disk' = [disk EXCEPT !.file[Shared(name)] = NoText]
  /\ UNCHANGED <<tabVars, cache, minted, written, jobs, kept>>

-----------------------------------------------------------------------------
(* Another connection becoming active, and the process ending *)

\* handle_active_connection_changed, to another connection.
SwitchAway ==
  /\ here
  /\ "overlap" \in Ops \/ ~ SavingShared
  /\ Room(1)
  /\ minted' = minted + 1
  /\ jobs' = jobs \cup {SaveJob(minted + 1, Snapshot(tabs))}
  /\ cache' = Snapshot(tabs)
  /\ tabs' = NoTabs
  /\ here' = FALSE
  /\ UNCHANGED <<next, due, docs, written, disk, kept>>

\* restore_tabs: each entry a tab, with an id of its own.
RestoredTabs(entries) ==
  LET ids == CHOOSE f \in [entries -> FreeIds] : \A e, x \in entries : f[e] = f[x] => e = x
  IN  [i \in {ids[e] : e \in entries} |-> Restored(CHOOSE e \in entries : ids[e] = i, disk)]

\* Numbering starts again.
MutNextNumber(entries) == 1

\* restore_tabs: new scripts are numbered after those restored, a script named
\* after a relation not counting: its title need not be its file's name.
NextNumber(entries) ==
  LET numbers == {e.ref.name : e \in {x \in entries : /\ x.ref.at = "scratch"
                                                    /\ x.ref.name \in 1..MaxDocs}}
  IN  IF numbers = {} THEN 1
      ELSE 1 + CHOOSE n \in numbers : \A m \in numbers : m <= n

\* handle_active_connection_changed, to this one: its tabs come from the
\* cache when it has them, and are not saved for having been loaded. With
\* none to load there is one empty script.
SwitchHere ==
  /\ ~ here
  /\ here' = TRUE
  /\ LET entries == IF cache # NoCache THEN cache ELSE Loaded(disk)
     IN  IF entries = {}
         THEN /\ FreeIds # {} /\ docs < MaxDocs
              /\ tabs' = WithTab(Scratch(1), [of |-> docs + 1, n |-> 0], NoText, FALSE)
              /\ docs' = docs + 1
              /\ next' = 2
         ELSE /\ Cardinality(entries) <= Cardinality(FreeIds)
              /\ tabs' = RestoredTabs(entries)
              /\ next' = NextNumber(entries)
              /\ UNCHANGED docs
  /\ UNCHANGED <<due, cache, minted, written, jobs, disk, kept>>

Torn(j) ==
  CASE j.kind = "save" /\ j.claim >= written -> Partial(disk, j.entries)
    [] j.kind = "rename" /\ j.stage = "move" /\ CanMove(j) -> {Moved(disk, j.from, j.to)}
    [] OTHER -> {}

\* The process ends, in the middle of a disk operation or not, and another
\* starts with nothing but the disk.
Crash ==
  /\ "crash" \in Ops
  /\ \/ UNCHANGED disk
     \/ "torn" \in Ops /\ \E j \in jobs : disk' \in Torn(j)
  /\ tabs' = NoTabs /\ next' = 1 /\ due' = FALSE /\ here' = FALSE
  /\ cache' = NoCache /\ minted' = 0 /\ written' = 0 /\ jobs' = {}
  /\ UNCHANGED <<docs, kept>>

-----------------------------------------------------------------------------

UserStep ==
  \/ NewScript
  \/ \E name \in Relations : ConvertGenerated(name)
  \/ \E i \in DOMAIN tabs : Edit(i) \/ CloseTab(i)
  \/ \E name \in UserNames : OpenNamed(name) \/ OpenShared(name)
  \/ \E i \in DOMAIN tabs, name \in UserNames :
       \/ RequestRename(i, name)
       \/ RequestPromotion(i, name)
       \/ RequestSharedRename(i, name)
  \/ \E i \in DOMAIN tabs : RequestSave(i)
  \/ SwitchAway
  \/ SwitchHere

TaskStep ==
  \/ DebounceFires
  \/ \E j \in jobs : SaveRefused(j) \/ SaveLands(j) \/ SaveFails(j)
  \/ \E j \in jobs : RenameFences(j) \/ RenameMoves(j) \/ RenameFails(j) \/ RenameApplied(j)
  \/ \E j \in jobs : SharedWritten(j) \/ SharedMoves(j) \/ SharedCleaned(j) \/ SharedApplied(j)

Next == UserStep \/ TaskStep \/ (\E name \in UserNames : SharedGone(name)) \/ Crash

Spec == Init /\ [][Next]_vars

-----------------------------------------------------------------------------
(* Properties *)

\* The file names that the code keeps apart. Not so those of a preview of a
\* relation called query-N and of a new script (constructors.rs:78), of a saved
\* script being renamed and of another that is given its old name before its
\* tab is told (save_flow.rs:346), and of a script reopened under the name that
\* a rename, not back at its tab, has just given it (constructors.rs:114).
NamesApart ==
  /\ Relations \cap (1..MaxDocs) = {}
  /\ "rename" \in Ops => MaxDocs = 1
  /\ "reopen" \in Ops => Ops \cap {"name", "rename"} = {}

(* Except for these three collisions (NamesApart), no two tabs are saved to  *)
(* the same file of the directory, where each would overwrite the other's    *)
(* text on every autosave: whatever is created, saved under a name, closed,  *)
(* restored or promoted.                                                     *)
OneTabPerFile ==
  NamesApart =>
    \A i, k \in DOMAIN tabs :
      tabs[i].ref = tabs[k].ref /\ tabs[i].ref.at # "shared" => i = k

(* A freshly minted query-N.sql is the file of no other tab, as              *)
(* new_script_tab takes it to be (constructors.rs:78).                       *)
MintedNameIsFree ==
  \A i, k \in DOMAIN tabs :
    tabs[i].ref = tabs[k].ref /\ tabs[i].ref.at = "scratch" => i = k

(* When nothing is under way, opening the directory gives the tabs and the   *)
(* texts the connection was last seen with.                                  *)
SettledDiskIsCurrent ==
  jobs = {} /\ cache # NoCache => Loaded(disk) = cache

\* What a user can find on the disk: the tabs that would open, the named
\* scripts and the library.
Findable ==
  TextsOf(Loaded(disk)) \cup {disk.file[r] : r \in {x \in DOMAIN disk.file : x.at # "scratch"}}

\* The tasks of shared scripts.
SharedKinds == {"promote", "save shared", "rename shared"}

\* What may go with renames: not opening scripts from the sidebar, and writes
\* that fail or are cut short only of a single document. And with the tasks of
\* shared scripts: no failing write, nothing opened, the next such task not
\* asked for before one is done, the process not ending, no file removed by
\* others.
MovesApart ==
  /\ Ops \cap {"name", "rename"} # {} =>
       "reopen" \notin Ops /\ ("torn" \in Ops => MaxDocs = 1)
  /\ Ops \cap SharedKinds # {} =>
       Ops \cap {"torn", "reopen", "overlap", "crash", "gone"} = {}

(* Once an autosave has put a text on the disk, that text or a later version *)
(* of the document stays there, until its tab is closed, or a promotion or   *)
(* an explicit save deletes the file it is in. So it is through autosaves    *)
(* refused, landing late, failing or cut short, renames that fail or come    *)
(* late and the end of the process at any point, but not through all of them *)
(* together: NamesApart and MovesApart say which go with which.              *)
AutosavedTextSurvives ==
  NamesApart /\ MovesApart =>
    \A t \in kept : \E u \in Findable \ {NoText} : u.of = t.of /\ u.n >= t.n

(* When nothing is under way, the text of a shared tab is in its file or in   *)
(* its draft: what is edited while it is saved, promoted or renamed is not    *)
(* taken for saved.                                                           *)
SharedTextIsSaved ==
  jobs = {} /\ ~ due =>
    \A i \in DOMAIN tabs :
      LET ref == tabs[i].ref
      IN  ref.at = "shared" /\ disk.file[ref] # NoText =>
            tabs[i].text \in {disk.file[ref], disk.draft[ref.name]}

=============================================================================
