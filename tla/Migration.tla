------------------------------ MODULE Migration ------------------------------
(* session_store/migration.rs: at every start, main moves the tab sessions   *)
(* of the one legacy file, keyed by a connection's display name, into the    *)
(* session directories, keyed by its uuid, and renames the file away once no *)
(* entry failed. Between starts the user works in the same directories, and  *)
(* may rename connections. The process may end between any two steps.        *)
(*                                                                           *)
(* A session directory is reduced to whose tabs.toml and whose script files  *)
(* it holds: those of a legacy entry, or the user's.                         *)
(*                                                                           *)
(* Definitions named Mut... are faulty variants of the definition they       *)
(* precede, for checking that the properties can fail.                       *)
EXTENDS Naturals, FiniteSetsExt

CONSTANTS Names,       \* display names
          LastSaved,   \* saved connections, 1..LastSaved in the list's order
          UnsavedKey,  \* ConnectionKey::Unsaved, and its legacy key
          User,        \* what the user's own saves leave in a directory
          Nothing

Entries == Names \cup {UnsavedKey}
Saved == 1..LastSaved
Keys == Saved \cup {UnsavedKey}

VARIABLES phase,       \* "stopped", "migrating" or "running"
          legacy,      \* tab_sessions.json is there
          backup,      \* tab_sessions.json.bak is there
          names,       \* the display name of each saved connection
          tabs,        \* directory -> whose tabs.toml, or Nothing
          scripts,     \* directory -> whose script files, or Nothing
          todo,        \* entries this start has still to look at
          writing,     \* the entry or the user's save whose scripts are written
          target,      \* the directory it is written to
          any_failure,
          fate,        \* history: an entry is "waiting", "failed" or "moved"
          renamed      \* history: a saved connection has been renamed

files == <<legacy, backup, tabs, scripts>>
loop == <<todo, writing, target, any_failure>>
history == <<fate, renamed>>
migrationVars == <<phase, files, names, loop, history>>

\* A backup may be left of an earlier migration, followed by a downgrade.
MigrationInit ==
  /\ phase = "stopped"
  /\ legacy = TRUE /\ backup \in BOOLEAN
  /\ names \in [Saved -> Names]
  /\ tabs = [k \in Keys |-> Nothing] /\ scripts = [k \in Keys |-> Nothing]
  /\ todo = {} /\ writing = Nothing /\ target = Nothing /\ any_failure = FALSE
  /\ fate = [e \in Entries |-> "waiting"] /\ renamed = FALSE

\* resolve_legacy_key: the first of the connections with the name.
Resolve(e) ==
  IF e = UnsavedKey THEN UnsavedKey
  ELSE LET matches == {i \in Saved : names[i] = e}
       IN IF matches = {} THEN Nothing ELSE Min(matches)

\* Nothing is taken for migrated.
MutNeverMigrated(k) == FALSE

AlreadyMigrated(k) == tabs[k] # Nothing

\* main's call: a missing file, or one that cannot be read, migrates nothing.
StartUp ==
  /\ phase = "stopped"
  /\ \/ legacy /\ phase' = "migrating" /\ todo' = Entries
     \/ phase' = "running" /\ UNCHANGED todo
  /\ any_failure' = FALSE
  /\ UNCHANGED <<files, names, writing, target, history>>

Migrating == phase = "migrating" /\ writing = Nothing

\* An entry of no connection, or already migrated.
SkipEntry(e) ==
  /\ Migrating
  /\ Resolve(e) # Nothing => AlreadyMigrated(Resolve(e))
  /\ todo' = todo \ {e}
  /\ UNCHANGED <<phase, files, names, writing, target, any_failure, history>>

\* A script file that cannot be written does not stop the save.
MutWriteScripts(e) ==
  LET k == Resolve(e) IN
  /\ Migrating
  /\ k # Nothing /\ ~ AlreadyMigrated(k)
  /\ todo' = todo \ {e}
  /\ scripts' = scripts \/ scripts' = [scripts EXCEPT ![k] = e]
  /\ writing' = e /\ target' = k
  /\ UNCHANGED <<phase, legacy, backup, tabs, names, any_failure, history>>

\* save_snapshot of an entry, up to its script files; or it fails before or
\* after writing some of them.
WriteScripts(e) ==
  LET k == Resolve(e) IN
  /\ Migrating
  /\ k # Nothing /\ ~ AlreadyMigrated(k)
  /\ todo' = todo \ {e}
  /\ \/ /\ scripts' = [scripts EXCEPT ![k] = e]
        /\ writing' = e /\ target' = k
        /\ UNCHANGED <<any_failure, fate>>
     \/ /\ any_failure' = TRUE
        /\ fate' = [fate EXCEPT ![e] = "failed"]
        /\ scripts' = scripts \/ scripts' = [scripts EXCEPT ![k] = e]
        /\ UNCHANGED <<writing, target>>
  /\ UNCHANGED <<phase, legacy, backup, tabs, names, renamed>>

\* The rest of save_snapshot, the user's or an entry's: tabs.toml replaced,
\* then the pruning; either may fail.
WriteTabs ==
  /\ writing # Nothing
  /\ any_failure' \in {any_failure, TRUE}
  /\ \E whole \in BOOLEAN :
       /\ tabs' = IF whole THEN [tabs EXCEPT ![target] = writing] ELSE tabs
       /\ fate' = IF writing = User THEN fate
                  ELSE [fate EXCEPT ![writing] = IF whole THEN "moved" ELSE "failed"]
       /\ ~ whole => any_failure'
  /\ writing' = Nothing /\ target' = Nothing
  /\ UNCHANGED <<phase, legacy, backup, scripts, names, todo, renamed>>

\* The file is renamed away whatever failed.
MutFinish ==
  /\ Migrating /\ todo = {}
  /\ phase' = "running"
  /\ legacy' = FALSE /\ backup' = TRUE
  /\ UNCHANGED <<tabs, scripts, names, loop, history>>

\* The end of migrate_legacy_sessions: the rename, which may fail too.
Finish ==
  /\ Migrating /\ todo = {}
  /\ phase' = "running"
  /\ \/ ~ any_failure /\ ~ backup /\ legacy' = FALSE /\ backup' = TRUE
     \/ UNCHANGED <<legacy, backup>>
  /\ UNCHANGED <<tabs, scripts, names, loop, history>>

\* The user opens a connection and works: an autosave begins, its script
\* files written.
UserSaves(k) ==
  /\ phase = "running" /\ writing = Nothing
  /\ scripts' = [scripts EXCEPT ![k] = User]
  /\ writing' = User /\ target' = k
  /\ UNCHANGED <<phase, legacy, backup, tabs, names, todo, any_failure, history>>

RenameConnection(i, n) ==
  /\ phase = "running" /\ writing = Nothing
  /\ names' = [names EXCEPT ![i] = n]
  /\ renamed' = TRUE
  /\ UNCHANGED <<phase, files, loop, fate>>

\* The process ends, between any two steps.
Stop ==
  /\ phase # "stopped"
  /\ phase' = "stopped"
  /\ todo' = {} /\ writing' = Nothing /\ target' = Nothing /\ any_failure' = FALSE
  /\ UNCHANGED <<files, names, history>>

MigrationNext ==
  \/ StartUp \/ WriteTabs \/ Finish \/ Stop
  \/ \E e \in todo : SkipEntry(e) \/ WriteScripts(e)
  \/ \E k \in Keys : UserSaves(k)
  \/ \E i \in Saved, n \in Names : RenameConnection(i, n)

MigrationSpec == MigrationInit /\ [][MigrationNext]_migrationVars

-----------------------------------------------------------------------------

(* "Sessions the user may have edited in the meantime are never overwritten  *)
(* with the stale legacy snapshot" (migration.rs:192): neither the tabs nor  *)
(* the scripts of a session the user has saved, however often migration runs *)
(* again, after renames, failures and crashes.                               *)
UserSessionKept ==
  [][\A k \in Keys : tabs[k] = User => tabs'[k] = User /\ scripts'[k] = User]_<<tabs, scripts>>

(* A directory taken for migrated holds a whole session: the tabs of an      *)
(* entry come with that entry's scripts, or with what the user made of them. *)
MigratedWhole ==
  \A k \in Keys : tabs[k] \in Entries => scripts[k] \in {tabs[k], User}

(* The legacy file goes only when each entry that has a connection to go to  *)
(* was moved there whole: one that failed, or that a crash cut short, is     *)
(* tried again first (migration.rs:198). Except, for such an entry may then  *)
(* be lost: when the user has saved a session of his own under its           *)
(* connection by then, or once connections have been renamed, another's      *)
(* session may be what is found there.                                       *)
GoneIsComplete ==
  [][legacy /\ ~ legacy' =>
       \A e \in Entries :
         \/ Resolve(e) = Nothing
         \/ fate[e] = "moved"
         \/ tabs[Resolve(e)] = User
         \/ renamed /\ tabs[Resolve(e)] # Nothing]_<<legacy>>

(* "A failed entry is left for the next startup to retry against the still-  *)
(* present legacy file, rather than being silently dropped forever"          *)
(* (migration.rs:199): the file does not go while an entry that failed has   *)
(* its connection still and was never moved.                                 *)
FailedIsRetried ==
  [][legacy /\ ~ legacy' =>
       \A e \in Entries : fate[e] = "failed" => Resolve(e) = Nothing \/ renamed]_<<legacy>>

=============================================================================
