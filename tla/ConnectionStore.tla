-------------------------- MODULE ConnectionStore --------------------------
(* connections.rs, connections/store.rs and connections/secrets.rs: the list *)
(* of saved connections, in memory and in one TOML file, and the two keyring *)
(* entries of each connection: its URL and the secret of its SSH tunnel.     *)
(*                                                                           *)
(* An operation runs on the UI thread from start to end, so only the end of  *)
(* the process comes between two of its steps; each step that reaches the    *)
(* file system or the keyring may fail. A connection's stored fields are     *)
(* reduced to the URL it was saved with (what sanitized_url keeps of it) and *)
(* whether it has a tunnel.                                                  *)
(*                                                                           *)
(* Definitions named Mut... are faulty variants of the definition they       *)
(* precede, for checking that the properties can fail.                       *)
EXTENDS Naturals, Sequences, SequencesExt, FiniteSets

CONSTANTS Args,        \* ConnectionArgs: [url, ssh, secret], no secret without ssh
          Absent,
          Faults,      \* what may fail: "dir", "keyring", "write", "mode", "crash"
          MaxIds,      \* bound: connections ever created
          MaxFaults    \* bound: kinds of failure in one behaviour

Ids == 1..MaxIds

Urls == {a.url : a \in Args}

Secrets == {a.secret : a \in Args} \cup {Absent}

\* SavedConnection, and what update keeps to roll back.
Stored == [id : Ids, url : Urls, ssh : BOOLEAN]
Prior == [url : Urls, stored : Stored, secret : Secrets]

\* An operation, what it has done, and the list it found.
Op == [kind : {"add", "update", "remove"},
       step : {"dir", "drain", "write", "fill", "mode", "undo", "set url", "set secret",
               "restore secret", "delete url", "delete secret"},
       id : Nat, index : Nat, args : Args \cup {Absent},
       prior : Prior \cup Stored \cup {Absent}, added : Seq(Stored), before : Seq(Stored)]

ASSUME StoreAssumption ==
  /\ \A a \in Args : /\ a \in [url : {a.url}, ssh : BOOLEAN, secret : {a.secret}]
                     /\ a.url # Absent
                     /\ ~ a.ssh => a.secret = Absent
  /\ Absent \notin Op
  /\ MaxIds \in Nat /\ MaxFaults \in Nat

\* A file that cannot be parsed.
Torn == <<[id |-> 0]>>

\* What is left of a file of list when writing it fails or is interrupted: some
\* of the connections, or what cannot be parsed. (That one cut in two may be
\* read without its last fields, which have defaults, is left out.)
CutShort(list) == {Torn, <<>>} \cup {SubSeq(list, 1, n) : n \in DOMAIN list}

VARIABLES running,     \* the program runs
          connections, pending,   \* ConnectionStore's fields
          file,        \* the file: a sequence of [id, url, ssh], or Torn
          urls,        \* the keyring: id -> URL or Absent
          secrets,     \* the keyring: id -> tunnel secret or Absent
          nextId,      \* a fresh uuid
          op,          \* the operation under way, or Absent
          failed       \* the kinds of failure so far

memoryVars == <<running, connections, pending>>
keyringVars == <<urls, secrets>>
storeVars == <<memoryVars, file, keyringVars, nextId, op, failed>>

IdsOf(list) == {c.id : c \in ToSet(list)}

StoreInit ==
  /\ running = TRUE
  /\ connections = <<>> /\ pending = <<>>
  /\ file = <<>>
  /\ urls = [i \in Ids |-> Absent] /\ secrets = [i \in Ids |-> Absent]
  /\ nextId = 1
  /\ op = Absent
  /\ failed = {}

At(step) == op # Absent /\ op.step = step
Goto(step) == op' = [op EXCEPT !.step = step]
Return == op' = Absent

\* A failure of a kind that can happen, as a conjunct.
Fails(kind) ==
  /\ kind \in Faults
  /\ kind \in failed \/ Cardinality(failed) < MaxFaults
  /\ failed' = failed \cup {kind}

-----------------------------------------------------------------------------
(* The operations' first steps.                                              *)

\* prior is what rolling back restores; before, for the properties, the list.
Operation(kind, step, id, index, args, prior) ==
  [kind |-> kind, step |-> step, id |-> id, index |-> index, args |-> args,
   prior |-> prior, added |-> <<>>, before |-> connections]

\* ConnectionStore::add.
Add(args) ==
  /\ running /\ op = Absent
  /\ nextId + Len(pending) <= MaxIds
  /\ pending' = Append(pending, args)
  /\ op' = Operation("add", "dir", 0, 0, args, Absent)
  /\ UNCHANGED <<running, connections, file, keyringVars, nextId, failed>>

\* ConnectionStore::update: refused when the URL cannot be read; a tunnel
\* secret that cannot be read counts as absent.
Update(index, args) ==
  /\ running /\ op = Absent
  /\ LET c == connections[index]
         Begin(secret) == op' = Operation("update", "set url", c.id, index, args,
                                  [url |-> urls[c.id], stored |-> c, secret |-> secret])
     IN
     /\ urls[c.id] # Absent
     /\ \/ Begin(IF c.ssh THEN secrets[c.id] ELSE Absent) /\ UNCHANGED failed
        \/ c.ssh /\ Fails("keyring") /\ Begin(Absent)
  /\ UNCHANGED <<memoryVars, file, keyringVars, nextId>>

\* The keyring forgets first, the file last.
MutRemoveConnection(index) ==
  /\ running /\ op = Absent
  /\ op' = Operation("remove", "dir", connections[index].id, index, Absent, connections[index])
  /\ connections' = RemoveAt(connections, index)
  /\ urls' = [urls EXCEPT ![connections[index].id] = Absent]
  /\ UNCHANGED <<running, pending, file, secrets, nextId, failed>>

\* ConnectionStore::remove.
RemoveConnection(index) ==
  /\ running /\ op = Absent
  /\ op' = Operation("remove", "dir", connections[index].id, index, Absent, connections[index])
  /\ connections' = RemoveAt(connections, index)
  /\ UNCHANGED <<running, pending, file, keyringVars, nextId, failed>>

-----------------------------------------------------------------------------
(* update's own steps, before and after save.                                *)

\* set_url; a failure returns with nothing changed.
SetUrl ==
  /\ At("set url")
  /\ \/ /\ urls' = [urls EXCEPT ![op.id] = op.args.url]
        /\ Goto("set secret")
        /\ UNCHANGED failed
     \/ Fails("keyring") /\ Return /\ UNCHANGED urls
  /\ UNCHANGED <<memoryVars, file, secrets, nextId>>

\* set_ssh_secret or delete_ssh_secret, then the fields; a failure returns with
\* the new URL in the keyring.
SetSecret ==
  /\ At("set secret")
  /\ \/ /\ secrets' = [secrets EXCEPT ![op.id] = op.args.secret]
        /\ connections' = [connections EXCEPT ![op.index].url = op.args.url,
                                              ![op.index].ssh = op.args.ssh]
        /\ Goto("dir")
        /\ UNCHANGED failed
     \/ Fails("keyring") /\ Return /\ UNCHANGED <<secrets, connections>>
  /\ UNCHANGED <<running, pending, file, urls, nextId>>

\* Rolling back forgets the URL.
MutRestoreUrl ==
  /\ At("undo") /\ op.kind = "update"
  /\ Goto("restore secret")
  /\ UNCHANGED <<memoryVars, file, keyringVars, nextId, failed>>

RestoreUrl ==
  /\ At("undo") /\ op.kind = "update"
  /\ \/ /\ urls' = [urls EXCEPT ![op.id] = op.prior.url]
        /\ Goto("restore secret")
        /\ UNCHANGED failed
     \/ Fails("keyring") /\ Return /\ UNCHANGED urls
  /\ UNCHANGED <<memoryVars, file, secrets, nextId>>

RestoreSecret ==
  /\ At("restore secret")
  /\ Return
  /\ \/ /\ secrets' = [secrets EXCEPT ![op.id] = op.prior.secret]
        /\ connections' = [connections EXCEPT ![op.index] = op.prior.stored]
        /\ UNCHANGED failed
     \/ Fails("keyring") /\ UNCHANGED <<secrets, connections>>
  /\ UNCHANGED <<running, pending, file, urls, nextId>>

-----------------------------------------------------------------------------
(* save, and what follows it.                                                *)

\* create_dir_all.
CreateDir ==
  /\ At("dir")
  /\ \/ Goto("drain") /\ UNCHANGED failed
     \/ Fails("dir") /\ Goto("undo")
  /\ UNCHANGED <<memoryVars, file, keyringVars, nextId>>

\* ConnectionArgs::into_stored of the next pending connection. Its failure
\* drops every pending connection, those already converted included.
IntoStored ==
  /\ At("drain") /\ pending # <<>>
  /\ LET a == Head(pending)
         c == [id |-> nextId, url |-> a.url, ssh |-> a.ssh]
     IN
     /\ nextId' = nextId + 1
     /\ \/ /\ urls' = [urls EXCEPT ![nextId] = a.url]
           /\ secrets' = [secrets EXCEPT ![nextId] = a.secret]
           /\ pending' = Tail(pending)
           /\ op' = [op EXCEPT !.added = Append(@, c)]
           /\ UNCHANGED failed
        \/ /\ Fails("keyring")
           /\ urls' = urls \/ urls' = [urls EXCEPT ![nextId] = a.url]
           /\ pending' = <<>>
           /\ op' = [op EXCEPT !.step = "undo", !.added = <<>>]
           /\ UNCHANGED secrets
  /\ UNCHANGED <<running, connections, file>>

\* Converted connections go to the front of the list.
MutExtend ==
  /\ At("drain") /\ pending = <<>>
  /\ connections' = op.added \o connections
  /\ Goto("write")
  /\ UNCHANGED <<running, pending, file, keyringVars, nextId, failed>>

Extend ==
  /\ At("drain") /\ pending = <<>>
  /\ connections' = connections \o op.added
  /\ Goto("write")
  /\ UNCHANGED <<running, pending, file, keyringVars, nextId, failed>>

\* fs::write empties the file before it fills it: an empty file is a list of
\* no connections.
Truncate ==
  /\ At("write")
  /\ \/ file' = <<>> /\ Goto("fill") /\ UNCHANGED failed
     \/ Fails("write") /\ Goto("undo") /\ UNCHANGED file
  /\ UNCHANGED <<memoryVars, keyringVars, nextId>>

Fill ==
  /\ At("fill")
  /\ \/ file' = connections /\ Goto("mode") /\ UNCHANGED failed
     \/ Fails("write") /\ Goto("undo") /\ file' \in CutShort(connections)
  /\ UNCHANGED <<memoryVars, keyringVars, nextId>>

\* set_owner_only_permissions, the end of save.
SetMode ==
  /\ At("mode")
  /\ \/ /\ IF op.kind = "remove" THEN Goto("delete url") ELSE Return
        /\ UNCHANGED failed
     \/ Fails("mode") /\ Goto("undo")
  /\ UNCHANGED <<memoryVars, file, keyringVars, nextId>>

\* add rolls back with Vec::pop, whatever the last connection is.
UndoAdd ==
  /\ At("undo") /\ op.kind = "add"
  /\ connections' = IF connections = <<>> THEN <<>> ELSE Front(connections)
  /\ Return
  /\ UNCHANGED <<running, pending, file, keyringVars, nextId, failed>>

UndoRemove ==
  /\ At("undo") /\ op.kind = "remove"
  /\ connections' = InsertAt(connections, op.index, op.prior)
  /\ Return
  /\ UNCHANGED <<running, pending, file, keyringVars, nextId, failed>>

\* delete_url and delete_ssh_secret, after the file.
DeleteUrl ==
  /\ At("delete url")
  /\ \/ /\ urls' = [urls EXCEPT ![op.id] = Absent]
        /\ Goto("delete secret")
        /\ UNCHANGED failed
     \/ Fails("keyring") /\ Return /\ UNCHANGED urls
  /\ UNCHANGED <<memoryVars, file, secrets, nextId>>

DeleteSecret ==
  /\ At("delete secret")
  /\ \/ secrets' = [secrets EXCEPT ![op.id] = Absent] /\ UNCHANGED failed
     \/ Fails("keyring") /\ UNCHANGED secrets
  /\ Return
  /\ UNCHANGED <<memoryVars, file, urls, nextId>>

-----------------------------------------------------------------------------
(* The process.                                                              *)

Crash ==
  /\ running
  /\ Fails("crash")
  /\ running' = FALSE
  /\ connections' = <<>> /\ pending' = <<>>
  /\ file' \in IF At("fill") THEN CutShort(connections) ELSE {file}
  /\ Return
  /\ UNCHANGED <<keyringVars, nextId>>

\* ConnectionStore::load; main returns its error, so a torn file keeps the
\* program from starting.
Load ==
  /\ ~ running
  /\ file # Torn
  /\ running' = TRUE
  /\ connections' = file
  /\ UNCHANGED <<pending, file, keyringVars, nextId, op, failed>>

StoreNext ==
  \/ \E a \in Args : Add(a) \/ \E i \in DOMAIN connections : Update(i, a)
  \/ \E i \in DOMAIN connections : RemoveConnection(i)
  \/ SetUrl \/ SetSecret \/ RestoreUrl \/ RestoreSecret
  \/ CreateDir \/ IntoStored \/ Extend \/ Truncate \/ Fill \/ SetMode
  \/ UndoAdd \/ UndoRemove \/ DeleteUrl \/ DeleteSecret
  \/ Crash \/ Load

StoreSpec == StoreInit /\ [][StoreNext]_storeVars

-----------------------------------------------------------------------------

(* Every connection in the file can be connected to: its URL is in the       *)
(* keyring, whichever step the process ends or fails at ("Attempt to update  *)
(* the keyring first", "first removing from the disk, then keyring").        *)
SecretsCoverFile == file # Torn => \A c \in ToSet(file) : urls[c.id] # Absent

(* The index taken before save still is the connection's own when rolling    *)
(* back ("index must still be valid", store.rs:182), though save may add     *)
(* connections an earlier add left pending; and no connection is listed      *)
(* twice.                                                                    *)
RollbackFindsItsOwn ==
  /\ \A i, j \in DOMAIN connections : i # j => connections[i].id # connections[j].id
  /\ op # Absent => /\ op.kind = "update" => connections[op.index].id = op.id
                    /\ op.kind = "remove" => /\ op.id \notin IdsOf(connections)
                                             /\ op.index <= Len(connections) + 1

(* Between operations a connection's fields describe the URL in its keyring  *)
(* entry, as long as only the file system has failed: an update that cannot  *)
(* be saved takes its keyring writes back (store.rs:3).                      *)
FieldsMatchKeyring ==
  running /\ op = Absent /\ failed \cap {"keyring", "crash"} = {} =>
    \A c \in ToSet(connections) :
      /\ urls[c.id] = c.url
      /\ ~ c.ssh => secrets[c.id] = Absent

(* An add that fails leaves the list as it found it ("the connection is      *)
(* rolled back out of memory", store.rs:126), one that succeeds adds one.    *)
FailedAddLeavesNothing ==
  [][op # Absent /\ op.kind = "add" /\ op' = Absent /\ running' =>
       connections' = op.before \/ Front(connections') = op.before]_storeVars

=============================================================================
