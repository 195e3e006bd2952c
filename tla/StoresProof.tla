----------------------------- MODULE StoresProof -----------------------------
(* What is proved of what the program keeps on disk and of connections: of   *)
(* the claims of the saves of a session's directory, of the migration of the *)
(* older layout, of the attempts to connect, and of the store that keeps the *)
(* connections and their secrets.                                            *)
EXTENDS SaveClaims, Migration, ConnectionManager, ConnectionStore, TLAPS,
        FiniteSetTheorems, Recursion

-----------------------------------------------------------------------------
(* SaveClaims: the claims keep their promise, for any paths and any number   *)
(* of claims.                                                                *)

(* The invariant: the two properties and the types they need.               *)
Ordered == TypeOK /\ PendingIsUnspent /\ MarkCoversDisk

(* Initially nothing is minted, spent or written.                            *)
LEMMA OrderedInit == Init => Ordered
  BY DEF Init, Ordered, TypeOK, PendingIsUnspent, MarkCoversDisk

(* Minting: the new claim is one above every other of its path, those        *)
(* recorded included.                                                        *)
LEMMA OrderedMint ==
  ASSUME Ordered, NEW d \in Dirs, Mint(d)
  PROVE  Ordered'
<1> USE DEF Ordered, TypeOK, PendingIsUnspent, MarkCoversDisk
<1> DEFINE new == [dir |-> d, value |-> minted[d] + 1]
<1>1. /\ minted' \in [Dirs -> Nat]
      /\ minted'[d] = minted[d] + 1
      /\ \A e \in Dirs : minted'[e] >= minted[e]
  BY DEF Mint
<1>2. new \in Claim
  BY DEF Claim
<1>3. claims' = claims \cup {new} /\ claims' \subseteq Claim
  BY <1>2 DEF Mint
<1>4. ASSUME NEW c \in claims'
      PROVE  c.value <= minted'[c.dir] /\ c.value # written'[c.dir]
  <2>1. CASE c = new
    BY <1>1, <2>1 DEF Mint
  <2>2. CASE c \in claims
    <3>1. c.dir \in Dirs /\ c.value \in Nat
      BY <2>2 DEF Claim
    <3> QED BY <1>1, <2>2, <3>1 DEF Mint
  <2> QED BY <1>3, <2>1, <2>2
<1>5. MarkCoversDisk'
  BY <1>1 DEF Mint
<1> QED BY <1>1, <1>3, <1>4, <1>5 DEF Mint

(* Spending a claim, by a write or as a fence, takes it out of the pending   *)
(* ones and raises the mark to it or leaves the mark above it.               *)
LEMMA OrderedSpend ==
  ASSUME Ordered, NEW c \in claims,
         WriteRefused(c) \/ WriteIfCurrent(c) \/ RecordWritten(c)
  PROVE  Ordered'
<1> USE DEF Ordered, TypeOK, PendingIsUnspent, MarkCoversDisk
<1>1. c \in Claim /\ c.dir \in Dirs /\ c.value \in Nat /\ c.value <= minted[c.dir]
  BY DEF Claim
<1>2. minted' = minted /\ claims' = claims \ {c}
  BY DEF WriteRefused, WriteIfCurrent, RecordWritten
<1>3. /\ written' \in [Dirs -> Nat]
      /\ \A d \in Dirs : \/ written'[d] = written[d]
                         \/ d = c.dir /\ written'[d] = c.value /\ c.value >= written[d]
  BY <1>1 DEF WriteRefused, WriteIfCurrent, RecordWritten, Superseded
<1>4. /\ disk' \in [Dirs -> Nat]
      /\ \A d \in Dirs : disk'[d] = disk[d] \/ disk'[d] = written'[d]
  BY <1>1 DEF WriteRefused, WriteIfCurrent, RecordWritten
<1>5. ASSUME NEW e \in claims'
      PROVE  e.value <= minted'[e.dir] /\ e.value # written'[e.dir]
  <2>1. e \in claims /\ e # c /\ e \in Claim /\ e.dir \in Dirs
    BY <1>2 DEF Claim
  <2>2. e.dir # c.dir \/ e.value # c.value
    BY <1>1, <2>1 DEF Claim
  <2> QED BY <1>2, <1>3, <2>1, <2>2
<1>6. MarkCoversDisk'
  BY <1>1, <1>2, <1>3, <1>4
<1> QED BY <1>2, <1>3, <1>4, <1>5, <1>6

(* The invariant is inductive: a restart leaves nothing pending and nothing  *)
(* counted.                                                                  *)
LEMMA OrderedNext == Ordered /\ [Next]_vars => Ordered'
<1> SUFFICES ASSUME Ordered, [Next]_vars PROVE Ordered'
  OBVIOUS
<1>1. CASE \E d \in Dirs : Mint(d)
  BY <1>1, OrderedMint
<1>2. CASE \E c \in claims : WriteRefused(c) \/ WriteIfCurrent(c) \/ RecordWritten(c)
  BY <1>2, OrderedSpend
<1>3. CASE Restart
  BY <1>3 DEF Restart, Ordered, TypeOK, PendingIsUnspent, MarkCoversDisk
<1>4. CASE UNCHANGED vars
  BY <1>4 DEF vars, Ordered, TypeOK, PendingIsUnspent, MarkCoversDisk
<1> QED BY <1>1, <1>2, <1>3, <1>4 DEF Next

(* A pending claim was never the one recorded, and what is on disk never     *)
(* passes the mark: in every reachable state, for any paths and bound.       *)
THEOREM OrderedAlways == Spec => [](PendingIsUnspent /\ MarkCoversDisk)
<1>1. Ordered => PendingIsUnspent /\ MarkCoversDisk
  BY DEF Ordered
<1> QED BY <1>1, OrderedInit, OrderedNext, PTL DEF Spec

(* A step of the claims is a step of the promise: minting forms a snapshot,  *)
(* a write that runs shows a newer one, and the rest stutters.               *)
LEMMA StepKeepsPromise == Ordered /\ [Next]_vars => [Promise!Next]_(Promise!vars)
<1> SUFFICES ASSUME Ordered, [Next]_vars PROVE [Promise!Next]_(Promise!vars)
  OBVIOUS
<1> USE DEF Promise!vars, Promise!Next
<1>1. ASSUME NEW d \in Dirs, Mint(d) PROVE Promise!Form(d)
  BY <1>1 DEF Mint, Promise!Form
<1>2. ASSUME NEW c \in claims, WriteIfCurrent(c), disk' # disk
      PROVE  Promise!Show(c.dir)
  <2>1. /\ c.dir \in Dirs
        /\ c.value \in Nat
        /\ c.value > written[c.dir]
        /\ c.value <= minted[c.dir]
    BY <1>2 DEF Ordered, TypeOK, Claim, PendingIsUnspent, WriteIfCurrent, Superseded
  <2>2. disk[c.dir] \in Nat /\ minted[c.dir] \in Nat /\ disk[c.dir] <= written[c.dir]
        /\ written[c.dir] \in Nat
    BY <2>1 DEF Ordered, TypeOK, MarkCoversDisk
  <2>3. c.value \in (disk[c.dir] + 1)..minted[c.dir]
    BY <2>1, <2>2
  <2>4. disk' = [disk EXCEPT ![c.dir] = c.value] /\ minted' = minted
    BY <1>2 DEF WriteIfCurrent
  <2> QED BY <2>3, <2>4 DEF Promise!Show
<1>3. ASSUME NEW c \in claims,
             WriteRefused(c) \/ RecordWritten(c) \/ (WriteIfCurrent(c) /\ disk' = disk)
      PROVE  UNCHANGED <<minted, disk>>
  BY <1>3 DEF WriteRefused, RecordWritten, WriteIfCurrent
<1>4. CASE Restart
  BY <1>4 DEF Restart, Promise!Restart
<1>5. CASE UNCHANGED vars
  BY <1>5 DEF vars
<1>6. ASSUME NEW c \in claims PROVE c.dir \in Dirs
  BY <1>6 DEF Ordered, TypeOK, Claim
<1> QED BY <1>1, <1>2, <1>3, <1>4, <1>5, <1>6 DEF Next

(* The claims implement the promise of NewestWins: within a process, no      *)
(* write to a path ever puts back an older snapshot, whatever order the      *)
(* background executor runs the writes in and whichever of them fail.        *)
THEOREM ClaimsKeepPromise == Spec => PromiseKept
<1>1. Init => Promise!Init
  BY DEF Init, Promise!Init
<1> QED BY <1>1, OrderedInit, OrderedNext, StepKeepsPromise, PTL
        DEF Spec, PromiseKept, Promise!Spec

-----------------------------------------------------------------------------
(* Migration: for any number of connections and any names.                  *)

\* What the constants stand for is told apart.
Told == /\ LastSaved \in Nat
        /\ User \notin Entries /\ Nothing \notin Entries \cup {User}
        /\ Nothing \notin Keys /\ UnsavedKey \notin Saved

\* The first connection of a name is a connection.
LEMMA ResolveType ==
  ASSUME Told, NEW e \in Entries
  PROVE  Resolve(e) \in Keys \cup {Nothing}
<1> DEFINE matches == {i \in Saved : names[i] = e}
<1>1. CASE matches # {}
  <2>1. matches \subseteq Nat
    BY DEF Told, Saved
  <2>2. PICK x \in matches : \A y \in matches : x <= y
    BY <1>1, <2>1, LeastNumber
  <2>3. Min(matches) \in matches
    BY <2>1, <2>2 DEF Min
  <2> QED BY <2>3 DEF Resolve, Keys
<1>2. CASE matches = {}
  BY <1>2 DEF Resolve, Keys
<1> QED BY <1>1, <1>2

\* No two entries go to one connection.
LEMMA ResolveInjective ==
  ASSUME Told, NEW d \in Entries, NEW e \in Entries,
         Resolve(d) = Resolve(e), Resolve(e) # Nothing
  PROVE  d = e
<1>1. ASSUME NEW x \in Entries, x # UnsavedKey, Resolve(x) # Nothing
      PROVE  Resolve(x) \in Saved /\ names[Resolve(x)] = x
  <2> DEFINE matches == {i \in Saved : names[i] = x}
  <2>1. matches # {} /\ Resolve(x) = Min(matches)
    BY <1>1 DEF Resolve
  <2>2. matches \subseteq Nat
    BY DEF Told, Saved
  <2>3. PICK y \in matches : \A z \in matches : y <= z
    BY <2>1, <2>2, LeastNumber
  <2>4. Min(matches) \in matches
    BY <2>2, <2>3 DEF Min
  <2> QED BY <2>1, <2>4
<1>2. CASE e = UnsavedKey
  <2>1. Resolve(d) = UnsavedKey
    BY <1>2 DEF Resolve
  <2> QED BY <1>1, <1>2, <2>1 DEF Told
<1>3. CASE d = UnsavedKey
  <2>1. Resolve(e) = UnsavedKey
    BY <1>3 DEF Resolve
  <2> QED BY <1>1, <1>3, <2>1 DEF Told
<1> QED BY <1>1, <1>2, <1>3

Owners == Entries \cup {User, Nothing}

MigrationTypes ==
  /\ tabs \in [Keys -> Owners] /\ scripts \in [Keys -> Owners]
  /\ todo \subseteq Entries /\ any_failure \in BOOLEAN
  /\ phase # "migrating" => todo = {}
  /\ fate \in [Entries -> {"waiting", "failed", "moved"}] /\ renamed \in BOOLEAN

\* What is being written: its script files are there, and an entry is only
\* written over a directory that was not migrated.
Underway ==
  /\ writing # Nothing => /\ writing \in Entries \cup {User}
                       /\ target \in Keys
                       /\ scripts[target] = writing
  /\ writing \in Entries => /\ phase = "migrating" /\ tabs[target] = Nothing
                          /\ Resolve(writing) = target
  /\ writing = User => phase = "running"

\* The user's tabs come with the user's scripts.
UserWhole == \A k \in Keys : tabs[k] = User => scripts[k] = User

\* As long as no connection is renamed, an entry's session is in its directory.
AtHome ==
  ~ renamed => \A k \in Keys : tabs[k] \in Entries =>
                 fate[tabs[k]] = "moved" /\ Resolve(tabs[k]) = k

\* While nothing has failed, the entries looked at are provided for.
Found(e) ==
  \/ Resolve(e) = Nothing
  \/ fate[e] = "moved"
  \/ tabs[Resolve(e)] = User
  \/ renamed /\ tabs[Resolve(e)] # Nothing
Provided(e) ==
  \/ Found(e)
  \/ writing = e /\ target = Resolve(e)
AllProvided ==
  phase = "migrating" /\ any_failure = FALSE => \A e \in Entries \ todo : Provided(e)

\* The inductive invariant.
MigrationInv ==
  MigrationTypes /\ Underway /\ UserWhole /\ MigratedWhole /\ AtHome /\ AllProvided

LEMMA MigrationInitial == ASSUME Told, MigrationInit PROVE MigrationInv
BY DEF Told, MigrationInit, MigrationInv, MigrationTypes, Owners, Underway, UserWhole, MigratedWhole, AtHome, AllProvided

\* A step that leaves the directories alone, or what it would do to them.
LEMMA StartStep == ASSUME Told, MigrationInv, StartUp PROVE MigrationInv'
<1> USE DEF MigrationInv
<1>1. UNCHANGED <<tabs, scripts, names, writing, target, fate, renamed>> /\ phase = "stopped"
  BY DEF StartUp, files, history
<1>2. writing = Nothing
  BY <1>1 DEF Underway
<1>3. MigrationTypes' /\ Underway' /\ UserWhole' /\ MigratedWhole'
  BY <1>1, <1>2 DEF StartUp, Told, MigrationTypes, Underway, UserWhole, MigratedWhole
<1>4. AtHome'
  BY <1>1 DEF AtHome, Resolve
<1>5. AllProvided'
  BY DEF StartUp, AllProvided, MigrationTypes
<1> QED BY <1>3, <1>4, <1>5

LEMMA SkipStep == ASSUME Told, MigrationInv, NEW e \in todo, SkipEntry(e) PROVE MigrationInv'
<1> USE DEF MigrationInv
<1>1. /\ UNCHANGED <<phase, tabs, scripts, names, writing, target, any_failure, fate, renamed>>
      /\ todo' = todo \ {e} /\ phase = "migrating" /\ e \in Entries
  BY DEF SkipEntry, files, history, Migrating, MigrationTypes
<1>2. \A x \in Entries : Resolve(x)' = Resolve(x)
  BY <1>1 DEF Resolve
<1>3. MigrationTypes' /\ UserWhole' /\ MigratedWhole'
  BY <1>1 DEF MigrationTypes, UserWhole, MigratedWhole
<1>4. Underway' /\ AtHome'
  BY <1>1, <1>2 DEF Underway, AtHome
<1>5. Provided(e)
  <2>1. CASE Resolve(e) # Nothing
    <3> DEFINE k == Resolve(e)
    <3>1. k \in Keys /\ tabs[k] # Nothing
      BY <1>1, <2>1, ResolveType DEF SkipEntry, AlreadyMigrated
    <3>2. tabs[k] \in Owners /\ renamed \in BOOLEAN
      BY <3>1 DEF MigrationTypes
    <3>3. CASE tabs[k] \in Entries /\ ~ renamed
      <4>1. fate[tabs[k]] = "moved" /\ Resolve(tabs[k]) = Resolve(e)
        BY <3>1, <3>3 DEF AtHome
      <4>2. tabs[k] = e
        BY <1>1, <2>1, <3>3, <4>1, ResolveInjective
      <4> QED BY <4>1, <4>2 DEF Provided, Found
    <3> QED BY <3>1, <3>2, <3>3 DEF Provided, Found, Owners
  <2> QED BY <2>1 DEF Provided, Found
<1>6. ASSUME NEW x \in Entries, Provided(x) PROVE Provided(x)'
  BY <1>1, <1>2, <1>6 DEF Provided, Found
<1>7. AllProvided'
  BY <1>1, <1>5, <1>6 DEF AllProvided, MigrationTypes
<1> QED BY <1>3, <1>4, <1>7

LEMMA ScriptsStep == ASSUME Told, MigrationInv, NEW e \in todo, WriteScripts(e) PROVE MigrationInv'
<1> USE DEF MigrationInv
<1> DEFINE k == Resolve(e)
<1>1. e \in Entries /\ e # Nothing /\ e # User
  BY DEF MigrationTypes, Told
<1>2. /\ writing = Nothing /\ phase = "migrating" /\ k # Nothing /\ tabs[k] = Nothing
      /\ todo' = todo \ {e}
      /\ UNCHANGED <<phase, tabs, names, renamed>>
      /\ any_failure' = TRUE \/ UNCHANGED any_failure
      /\ fate' \in {fate, [fate EXCEPT ![e] = "failed"]}
      /\ scripts' = scripts \/ scripts' = [scripts EXCEPT ![k] = e]
  BY DEF WriteScripts, Migrating, AlreadyMigrated
<1>3. k \in Keys
  BY <1>1, <1>2, ResolveType
<1>4. \A x \in Entries : Resolve(x)' = Resolve(x)
  BY <1>2 DEF Resolve
<1>5. AtHome'
  <2> SUFFICES ASSUME ~ renamed, NEW d \in Keys, tabs[d] \in Entries
               PROVE  fate'[tabs[d]] = "moved" /\ Resolve(tabs[d]) = d
    BY <1>2, <1>4 DEF AtHome
  <2>1. fate[tabs[d]] = "moved" /\ Resolve(tabs[d]) = d
    BY DEF AtHome
  <2>2. tabs[d] # e
    BY <1>2, <2>1 DEF Told
  <2> QED BY <1>1, <1>2, <2>1, <2>2 DEF MigrationTypes
<1>6. k = Resolve(e)
  OBVIOUS
<1> HIDE DEF k
<1>7. MigrationTypes'
  BY <1>1, <1>2, <1>3 DEF MigrationTypes, Owners
<1>8. UserWhole' /\ MigratedWhole'
  BY <1>1, <1>2, <1>3 DEF Told, MigrationTypes, UserWhole, MigratedWhole
<1>9. CASE /\ scripts' = [scripts EXCEPT ![k] = e]
           /\ writing' = e /\ target' = k
           /\ UNCHANGED <<any_failure, fate>>
  <2>1. Underway'
    BY <1>1, <1>2, <1>3, <1>4, <1>6, <1>9 DEF Underway, MigrationTypes
  <2>2. ASSUME NEW x \in Entries, Provided(x) PROVE Provided(x)'
    BY <1>2, <1>4, <1>9, <2>2 DEF Provided, Found, Told
  <2>3. Provided(e)'
    BY <1>1, <1>4, <1>6, <1>9 DEF Provided
  <2>4. AllProvided'
    BY <1>2, <1>9, <2>2, <2>3 DEF AllProvided
  <2> QED BY <1>5, <1>7, <1>8, <2>1, <2>4
<1>10. CASE any_failure' = TRUE /\ UNCHANGED <<writing, target>>
  BY <1>2, <1>5, <1>7, <1>8, <1>10 DEF Underway, AllProvided, Told
<1> QED BY <1>6, <1>9, <1>10 DEF WriteScripts

LEMMA TabsStep == ASSUME Told, MigrationInv, WriteTabs PROVE MigrationInv'
<1> USE DEF MigrationInv
<1>1. PICK whole \in BOOLEAN :
        /\ tabs' = IF whole THEN [tabs EXCEPT ![target] = writing] ELSE tabs
        /\ fate' = IF writing = User THEN fate
                   ELSE [fate EXCEPT ![writing] = IF whole THEN "moved" ELSE "failed"]
        /\ ~ whole => any_failure'
  BY DEF WriteTabs
<1>2. /\ writing \in Entries \cup {User} /\ target \in Keys
      /\ scripts[target] = writing
      /\ writing' = Nothing
      /\ UNCHANGED <<phase, scripts, names, todo, renamed>>
      /\ any_failure' \in {any_failure, TRUE}
  BY DEF WriteTabs, Underway
<1>3. MigrationTypes'
  BY <1>1, <1>2 DEF MigrationTypes, Owners
<1>4. Underway'
  BY <1>2 DEF Underway, Told
<1>5. UserWhole' /\ MigratedWhole'
  BY <1>1, <1>2 DEF Told, MigrationTypes, UserWhole, MigratedWhole
<1>6. \A x \in Entries : Resolve(x)' = Resolve(x) /\ Resolve(x) \in Keys \cup {Nothing}
  BY <1>2, ResolveType DEF Resolve
<1>7. AtHome'
  <2> SUFFICES ASSUME ~ renamed, NEW d \in Keys, tabs'[d] \in Entries
               PROVE  fate'[tabs'[d]] = "moved" /\ Resolve(tabs'[d]) = d
    BY <1>2, <1>6 DEF AtHome
  <2>1. CASE whole /\ d = target
    <3>1. tabs'[d] = writing /\ writing # User
      BY <1>1, <1>2, <2>1 DEF MigrationTypes, Told
    <3>2. writing \in Entries /\ Resolve(writing) = target
      BY <1>2, <3>1 DEF Underway
    <3> QED BY <1>1, <2>1, <3>1, <3>2 DEF MigrationTypes
  <2>2. CASE ~ (whole /\ d = target)
    <3>1. tabs'[d] = tabs[d]
      BY <1>1, <2>2 DEF MigrationTypes
    <3>2. fate[tabs[d]] = "moved" /\ Resolve(tabs[d]) = d
      BY <3>1 DEF AtHome
    <3>3. writing # User => writing # tabs[d] \/ whole
      BY <1>2, <3>1, <3>2 DEF Underway, Told
    <3> QED BY <1>1, <1>2, <3>1, <3>2, <3>3 DEF MigrationTypes
  <2> QED BY <2>1, <2>2
<1>8. CASE any_failure' = TRUE
  BY <1>3, <1>4, <1>5, <1>7, <1>8 DEF AllProvided
<1>9. CASE any_failure' = FALSE
  <2>0. whole /\ any_failure = FALSE /\ tabs' = [tabs EXCEPT ![target] = writing]
    BY <1>1, <1>2, <1>9
  <2>1. ASSUME NEW x \in Entries, Found(x) PROVE Found(x)'
    <3>1. fate[x] = "moved" => fate'[x] = "moved"
      BY <1>1, <1>2, <2>0 DEF MigrationTypes
    <3>2. CASE Resolve(x) = Nothing
      BY <1>6, <3>2 DEF Found
    <3>3. CASE Resolve(x) # Nothing
      <4>1. Resolve(x) \in Keys
        BY <1>6, <3>3
      <4>2. CASE Resolve(x) = target
        <5>1. tabs'[target] = writing /\ writing # Nothing
          BY <1>2, <2>0 DEF MigrationTypes, Told
        <5>2. CASE writing = User
          BY <1>6, <4>2, <5>1, <5>2 DEF Found
        <5>3. CASE writing \in Entries
          <6>1. tabs[target] = Nothing
            BY <5>3 DEF Underway
          <6>2. fate[x] = "moved"
            BY <2>1, <3>3, <4>2, <6>1 DEF Found, Told
          <6> QED BY <3>1, <6>2 DEF Found
        <5> QED BY <1>2, <5>2, <5>3
      <4>3. CASE Resolve(x) # target
        <5>1. tabs'[Resolve(x)] = tabs[Resolve(x)]
          BY <2>0, <4>1, <4>3 DEF MigrationTypes
        <5> QED BY <1>2, <1>6, <2>1, <3>1, <5>1 DEF Found
      <4> QED BY <4>2, <4>3
    <3> QED BY <3>2, <3>3
  <2>2. ASSUME NEW x \in Entries, Provided(x) PROVE Provided(x)'
    <3>1. CASE Found(x)
      BY <2>1, <3>1 DEF Provided
    <3>2. CASE writing = x
      <4>1. writing # User
        BY <3>2 DEF Told
      <4>2. fate'[x] = "moved"
        BY <1>1, <2>0, <3>2, <4>1 DEF MigrationTypes
      <4> QED BY <4>2 DEF Provided, Found
    <3> QED BY <2>2, <3>1, <3>2 DEF Provided
  <2>3. AllProvided'
    BY <1>2, <2>0, <2>2 DEF AllProvided
  <2> QED BY <1>3, <1>4, <1>5, <1>7, <2>3
<1> QED BY <1>2, <1>8, <1>9, <1>3 DEF MigrationTypes

LEMMA OtherSteps ==
  ASSUME Told, MigrationInv,
         \/ Finish \/ Stop \/ UNCHANGED migrationVars
         \/ \E k \in Keys : UserSaves(k)
         \/ \E i \in Saved, n \in Names : RenameConnection(i, n)
  PROVE  MigrationInv'
<1> USE DEF MigrationInv
<1>0. ASSUME UNCHANGED <<tabs, names, fate, renamed>> PROVE AtHome'
  BY <1>0 DEF AtHome, Resolve
<1>1. CASE Finish
  <2>1. AtHome'
    BY <1>0, <1>1 DEF Finish, loop, history
  <2> QED BY <1>1, <2>1 DEF Finish, Migrating, loop, history, Told, MigrationTypes, Underway, UserWhole, MigratedWhole, AllProvided
<1>2. CASE Stop
  <2>1. AtHome'
    BY <1>0, <1>2 DEF Stop, files, history
  <2> QED BY <1>2, <2>1 DEF Stop, files, history, Told, MigrationTypes, Underway, UserWhole, MigratedWhole, AllProvided
<1>3. ASSUME NEW k \in Keys, UserSaves(k) PROVE MigrationInv'
  <2>1. /\ phase = "running" /\ scripts' = [scripts EXCEPT ![k] = User]
        /\ writing' = User /\ target' = k
        /\ UNCHANGED <<phase, tabs, names, todo, any_failure, fate, renamed>>
    BY <1>3 DEF UserSaves, history
  <2>2. User \notin Entries /\ User # Nothing
    BY DEF Told
  <2>3. MigrationTypes'
    BY <2>1 DEF MigrationTypes, Owners
  <2>4. Underway'
    BY <2>1, <2>2 DEF Underway, MigrationTypes
  <2>5. UserWhole' /\ MigratedWhole'
    BY <2>1, <2>2 DEF UserWhole, MigratedWhole, MigrationTypes
  <2>6. AllProvided' /\ AtHome'
    BY <1>0, <2>1 DEF AllProvided
  <2> QED BY <2>3, <2>4, <2>5, <2>6
<1>4. ASSUME NEW i \in Saved, NEW n \in Names, RenameConnection(i, n) PROVE MigrationInv'
  BY <1>4 DEF RenameConnection, files, loop, MigrationTypes, Underway, UserWhole, MigratedWhole, AtHome, AllProvided
<1>5. CASE UNCHANGED migrationVars
  <2>1. MigrationTypes' /\ UserWhole' /\ MigratedWhole' /\ AtHome'
    BY <1>0, <1>5 DEF migrationVars, files, loop, history, MigrationTypes, UserWhole, MigratedWhole
  <2>2. AllProvided' /\ Underway'
    BY <1>5 DEF migrationVars, files, loop, history, AllProvided, Provided, Found, Resolve, Underway
  <2> QED BY <2>1, <2>2
<1> QED BY <1>1, <1>2, <1>3, <1>4, <1>5

LEMMA MigrationStep == ASSUME Told, MigrationInv, [MigrationNext]_migrationVars PROVE MigrationInv'
BY StartStep, SkipStep, ScriptsStep, TabsStep, OtherSteps DEF MigrationNext

(* A directory taken for migrated holds a whole session.                     *)
THEOREM MigratedAlways == ASSUME Told PROVE MigrationSpec => []MigratedWhole
<1>1. MigrationInit => MigrationInv
  BY MigrationInitial
<1>2. MigrationInv /\ [MigrationNext]_migrationVars => MigrationInv'
  BY MigrationStep
<1>3. MigrationInv => MigratedWhole
  BY DEF MigrationInv
<1> QED BY <1>1, <1>2, <1>3, PTL DEF MigrationSpec

(* "Sessions the user may have edited in the meantime are never overwritten  *)
(* with the stale legacy snapshot".                                          *)
THEOREM UserSessionAlways == ASSUME Told PROVE MigrationSpec => UserSessionKept
<1> DEFINE Kept == \A k \in Keys : tabs[k] = User => tabs'[k] = User /\ scripts'[k] = User
<1>1. MigrationInit => MigrationInv
  BY MigrationInitial
<1>2. MigrationInv /\ [MigrationNext]_migrationVars => MigrationInv'
  BY MigrationStep
<1>3. ASSUME MigrationInv, [MigrationNext]_migrationVars PROVE [Kept]_<<tabs, scripts>>
  <2>1. ASSUME NEW k \in Keys, tabs[k] = User PROVE tabs'[k] = User
    <3>1. CASE WriteTabs
      <4>1. tabs' = tabs \/ tabs' = [tabs EXCEPT ![target] = writing]
        BY <3>1 DEF WriteTabs
      <4> QED BY <1>3, <2>1, <3>1, <4>1 DEF WriteTabs, MigrationInv, MigrationTypes, Underway, Told
    <3>2. CASE ~ WriteTabs
      <4>1. tabs' = tabs
        BY <1>3, <3>2 DEF MigrationNext, StartUp, SkipEntry, WriteScripts, Finish, Stop, UserSaves,
                          RenameConnection, files, migrationVars
      <4> QED BY <2>1, <4>1
    <3> QED BY <3>1, <3>2
  <2>2. MigrationInv'
    BY <1>3, MigrationStep
  <2> QED BY <2>1, <2>2 DEF MigrationInv, UserWhole
<1>4. MigrationInv /\ [MigrationNext]_migrationVars => [Kept]_<<tabs, scripts>>
  BY <1>3
<1> QED BY <1>1, <1>2, <1>4, PTL DEF MigrationSpec, UserSessionKept

(* The legacy file goes only when every entry of a saved connection was      *)
(* moved whole, unless a session of the user's own, or after a renaming      *)
(* another's, is found in its directory.                                     *)
THEOREM GoneAlways == ASSUME Told PROVE MigrationSpec => GoneIsComplete
<1> DEFINE Complete == legacy /\ ~ legacy' =>
             \A e \in Entries : Found(e)
<1>1. MigrationInit => MigrationInv
  BY MigrationInitial
<1>2. MigrationInv /\ [MigrationNext]_migrationVars => MigrationInv'
  BY MigrationStep
<1>3. ASSUME MigrationInv, [MigrationNext]_migrationVars PROVE [Complete]_<<legacy>>
  <2>1. CASE Finish
    <3>1. CASE ~ any_failure /\ writing = Nothing /\ todo = {} /\ phase = "migrating"
      <4>1. any_failure = FALSE
        BY <1>3, <3>1 DEF MigrationInv, MigrationTypes
      <4>2. \A e \in Entries : Provided(e)
        BY <1>3, <3>1, <4>1 DEF MigrationInv, AllProvided
      <4> QED BY <3>1, <4>2 DEF Provided, Told
    <3>2. CASE UNCHANGED legacy
      BY <3>2
    <3> QED BY <2>1, <3>1, <3>2 DEF Finish, Migrating
  <2>2. CASE ~ Finish
    BY <1>3, <2>2 DEF MigrationNext, StartUp, SkipEntry, WriteScripts, WriteTabs, Stop, UserSaves,
                      RenameConnection, files, migrationVars
  <2> QED BY <2>1, <2>2
<1>4. MigrationInv /\ [MigrationNext]_migrationVars => [Complete]_<<legacy>>
  BY <1>3
<1> QED BY <1>1, <1>2, <1>4, PTL DEF MigrationSpec, GoneIsComplete, Found


-----------------------------------------------------------------------------
(* ConnectionManager: for any connections, passwords and bounds.             *)

Target == Conns \cup {Unsaved}

Attempt == [generation : Nat, by : {"row", "prompt", "form"},
            url : [conn : Target, pw : Passwords \cup {None}],
            no : Nat, save : BOOLEAN,
            phase : {"connecting", "settled", "introspecting"},
            answer : BOOLEAN \cup {None}]

SessionState == [state : {"Empty", "Connecting", "Connected", "Error"},
            target : Target \cup {None}]

Types ==
  /\ keyring \in [Conns -> Passwords \cup {None}]
  /\ prompts \in Nat /\ started \in Nat
  /\ attempts \subseteq Attempt
  /\ session \in SessionState
  /\ prompt # None => prompt \in [no : Nat, conn : Networked, connecting : BOOLEAN]

\* The attempts of the prompt shown.
Own(a) == prompt # None /\ a.by = "prompt" /\ a.no = prompt.no

AttemptsDistinct ==
  /\ \A a \in attempts : a.generation <= started
  /\ \A a, b \in attempts : a.generation = b.generation => a = b

Numbered ==
  /\ prompt # None => prompt.no = prompts
  /\ \A a \in attempts : a.by = "prompt" => a.no <= prompts

\* Only a file's URL is saved by a row.
RowsSaveFiles == \A a \in attempts : a.by = "row" /\ a.save => a.url.conn \in Files

\* A prompt that connects has an attempt, the newest of all; the session is
\* connecting to the prompt's connection and its state is the attempt's outcome.
OwnIsNewest ==
  \A a \in attempts : Own(a) =>
    /\ a.generation = started
    /\ prompt.connecting
    /\ a.phase = "settled" =>
         session.state = IF a.answer = TRUE THEN "Connected" ELSE "Error"
    /\ a.phase = "introspecting" => a.answer = TRUE /\ session.state = "Connected"
    /\ session.target = prompt.conn

ConnectingHasOwn ==
  prompt # None /\ prompt.connecting => \E a \in attempts : Own(a)

\* The inductive invariant.
ManagerInv ==
  /\ Types /\ AttemptsDistinct /\ Numbered /\ RowsSaveFiles
  /\ OwnIsNewest /\ ConnectingHasOwn

LEMMA ManagerInitial == ManagerInit => ManagerInv
BY DEF ManagerInit, ManagerInv, Types, AttemptsDistinct, Numbered, RowsSaveFiles, OwnIsNewest,
       ConnectingHasOwn, SessionState, Own

(* A step that leaves attempts and the session alone, and at most closes the *)
(* prompt, preserves the invariant.                                          *)
LEMMA ManagerFrame ==
  ASSUME ManagerInv,
         UNCHANGED <<attempts, started, session, prompts>>,
         keyring' \in [Conns -> Passwords \cup {None}],
         prompt' \in {prompt, None}
  PROVE  ManagerInv'
<1> USE DEF ManagerInv
<1>1. Types' /\ AttemptsDistinct' /\ RowsSaveFiles'
  BY DEF Types, AttemptsDistinct, RowsSaveFiles
<1>2. Numbered' /\ OwnIsNewest' /\ ConnectingHasOwn'
  <2>1. CASE prompt' = prompt
    BY <2>1 DEF Numbered, OwnIsNewest, ConnectingHasOwn, Own
  <2>2. CASE prompt' = None
    BY <2>2 DEF Numbered, OwnIsNewest, ConnectingHasOwn, Own
  <2> QED BY <2>1, <2>2
<1> QED BY <1>1, <1>2

\* An attempt started by a row or the form, while no prompt is shown.
LEMMA ManagerStart ==
  ASSUME ManagerInv, prompt = None, UNCHANGED <<keyring, prompt, prompts>>,
         NEW by \in {"row", "form"}, NEW conn \in Target,
         NEW pw \in Passwords \cup {None}, NEW save \in BOOLEAN,
         by = "row" /\ save => conn \in Files,
         Start(by, [conn |-> conn, pw |-> pw], 0, save)
  PROVE  ManagerInv'
<1> DEFINE new == [generation |-> started + 1, by |-> by,
                   url |-> [conn |-> conn, pw |-> pw], no |-> 0, save |-> save,
                   phase |-> "connecting", answer |-> None]
<1> USE DEF ManagerInv
<1>1. /\ attempts' = attempts \cup {new} /\ started' = started + 1
      /\ active' = conn
      /\ session' = [state |-> "Connecting", target |-> conn]
  BY DEF Start
<1>2. started \in Nat /\ new \in Attempt
  BY DEF Types, Attempt
<1>3. Types'
  BY <1>1, <1>2 DEF Types, SessionState, Target
<1>4. AttemptsDistinct'
  <2>1. \A a \in attempts : a.generation \in Nat /\ a.generation <= started
    BY DEF Types, AttemptsDistinct, Attempt
  <2>2. new.generation = started + 1
    OBVIOUS
  <2> QED BY <1>1, <1>2, <2>1, <2>2 DEF AttemptsDistinct
<1>5. Numbered'
  BY <1>1 DEF Numbered
<1>6. RowsSaveFiles'
  BY <1>1 DEF RowsSaveFiles
<1>7. OwnIsNewest' /\ ConnectingHasOwn'
  BY DEF OwnIsNewest, ConnectingHasOwn, Own
<1> QED BY <1>3, <1>4, <1>5, <1>6, <1>7

\* submit: the prompt's attempt becomes the newest.
LEMMA ManagerSubmit ==
  ASSUME ManagerInv, NEW pw \in Passwords, NEW save \in BOOLEAN, Submit(pw, save)
  PROVE  ManagerInv'
<1> USE DEF ManagerInv
<1>1. /\ prompt # None /\ prompt.connecting = FALSE
      /\ prompt \in [no : Nat, conn : Networked, connecting : BOOLEAN]
      /\ UNCHANGED <<saved, keyring, view, prompts>>
  BY DEF Submit, Types
<1>2. CASE UNCHANGED prompt /\ NoAttempt
  BY <1>1, <1>2, ManagerFrame DEF NoAttempt, Types
<1>3. CASE /\ prompt' = [prompt EXCEPT !.connecting = TRUE]
           /\ Start("prompt", [conn |-> prompt.conn, pw |-> pw], prompt.no, save)
  <2> DEFINE new == [generation |-> started + 1, by |-> "prompt",
                     url |-> [conn |-> prompt.conn, pw |-> pw], no |-> prompt.no,
                     save |-> save, phase |-> "connecting", answer |-> None]
  <2>1. /\ attempts' = attempts \cup {new} /\ started' = started + 1
        /\ active' = prompt.conn
        /\ session' = [state |-> "Connecting", target |-> prompt.conn]
    BY <1>3 DEF Start
  <2>2. prompt.conn \in Conns /\ prompt.no \in Nat /\ started \in Nat
    BY <1>1 DEF Types, Networked
  <2>3. new \in Attempt
    BY <2>2 DEF Attempt, Target
  <2>4. /\ prompt' \in [no : Nat, conn : Networked, connecting : BOOLEAN]
        /\ prompt'.no = prompt.no /\ prompt'.conn = prompt.conn
        /\ prompt'.connecting = TRUE
    BY <1>1, <1>3
  <2>5. Types'
    BY <1>1, <2>1, <2>2, <2>3, <2>4 DEF Types, SessionState, Target
  <2>6. \A a \in attempts : a.generation \in Nat /\ a.generation <= started
    BY DEF Types, AttemptsDistinct, Attempt
  <2>7. AttemptsDistinct'
    BY <2>1, <2>2, <2>6 DEF AttemptsDistinct
  <2>8. Numbered'
    BY <1>1, <2>1, <2>2, <2>4 DEF Numbered, Types
  <2>9. RowsSaveFiles'
    BY <2>1 DEF RowsSaveFiles
  <2>10. \A a \in attempts : ~ Own(a)
    BY <1>1 DEF OwnIsNewest
  <2>11. \A a \in attempts : ~ Own(a)'
    BY <1>1, <2>4, <2>10 DEF Own
  <2>12. OwnIsNewest'
    <3> SUFFICES ASSUME NEW a \in attempts', Own(a)'
                 PROVE  /\ a.generation = started' /\ prompt'.connecting
                        /\ a.phase = "connecting" /\ session'.target = prompt'.conn
      BY DEF OwnIsNewest
    <3>1. a = new
      BY <2>1, <2>11
    <3> QED BY <3>1, <2>1, <2>4
  <2>13. ConnectingHasOwn'
    <3>1. new \in attempts' /\ new.by = "prompt" /\ new.no = prompt'.no
      BY <2>1, <2>4
    <3>2. prompt' # None => \E a \in attempts' : Own(a)'
      BY <3>1 DEF Own
    <3> QED BY <3>2, Zenon DEF ConnectingHasOwn
  <2> QED BY <2>5, <2>7, <2>8, <2>9, <2>12, <2>13
<1> QED BY <1>2, <1>3 DEF Submit

\* A prompt opens: no attempt has its number yet.
LEMMA ManagerAsk ==
  ASSUME ManagerInv, NEW c \in Conns, prompt = None, AskPassword(c)
  PROVE  ManagerInv'
<1> USE DEF ManagerInv
<1>1. c \in Networked /\ UNCHANGED <<saved, keyring, active, attempts, started, session>>
  BY DEF AskPassword, NoAttempt
<1>2. CASE UNCHANGED <<prompt, prompts>>
  BY <1>1, <1>2, ManagerFrame DEF Types
<1>3. CASE /\ prompts' = prompts + 1
           /\ prompt' = [no |-> prompts', conn |-> c, connecting |-> FALSE]
  <2>1. prompts \in Nat /\ prompts + 1 \in Nat
    BY DEF Types
  <2>2. Types'
    BY <1>1, <1>3, <2>1 DEF Types
  <2>3. \A a \in attempts : a.no \in Nat
    BY DEF Types, Attempt
  <2>4. Numbered'
    BY <1>1, <1>3, <2>1, <2>3 DEF Numbered
  <2>5. \A a \in attempts : ~ Own(a)'
    BY <1>1, <1>3, <2>1, <2>3 DEF Numbered, Own
  <2>6. OwnIsNewest' /\ ConnectingHasOwn'
    BY <1>1, <1>3, <2>5 DEF OwnIsNewest, ConnectingHasOwn
  <2>7. AttemptsDistinct' /\ RowsSaveFiles'
    BY <1>1 DEF AttemptsDistinct, RowsSaveFiles
  <2> QED BY <2>2, <2>4, <2>6, <2>7
<1> QED BY <1>2, <1>3 DEF AskPassword

\* The session's task of an attempt ends.
LEMMA ManagerSettle ==
  ASSUME ManagerInv, NEW a \in attempts, Settle(a)
  PROVE  ManagerInv'
<1> USE DEF ManagerInv
<1>1. PICK ok \in BOOLEAN :
        /\ attempts' = (attempts \ {a}) \cup {[a EXCEPT !.phase = "settled", !.answer = ok]}
        /\ session' = IF a.generation = started
                      THEN [session EXCEPT !.state = IF ok THEN "Connected" ELSE "Error"]
                      ELSE session
  BY DEF Settle
<1>2. UNCHANGED <<saved, keyring, view, prompt, prompts, active, started>>
  BY DEF Settle, modalVars
<1> DEFINE new == [a EXCEPT !.phase = "settled", !.answer = ok]
<1>3. /\ a \in Attempt /\ new \in Attempt
      /\ new.generation = a.generation /\ new.by = a.by /\ new.no = a.no
      /\ new.save = a.save /\ new.url = a.url
      /\ new.phase = "settled" /\ new.answer = ok
  BY DEF Types, Attempt
<1>4. attempts' = (attempts \ {a}) \cup {new}
  BY <1>1
<1> HIDE DEF new
<1>5. session' \in SessionState /\ session'.target = session.target
  BY <1>1 DEF Types, SessionState
<1>6. Types'
  BY <1>2, <1>3, <1>4, <1>5 DEF Types
<1>7. AttemptsDistinct'
  BY <1>2, <1>3, <1>4 DEF AttemptsDistinct
<1>8. Numbered' /\ RowsSaveFiles'
  BY <1>2, <1>3, <1>4 DEF Numbered, RowsSaveFiles
<1>9. \A x \in attempts : Own(x)' <=> Own(x)
  BY <1>2 DEF Own
<1>10. Own(new)' <=> Own(a)
  BY <1>2, <1>3 DEF Own
<1>11. OwnIsNewest'
  <2> SUFFICES ASSUME NEW x \in attempts', Own(x)'
               PROVE  /\ x.generation = started
                      /\ prompt.connecting
                      /\ x.phase = "settled" =>
                           session'.state = IF x.answer = TRUE THEN "Connected" ELSE "Error"
                      /\ x.phase = "introspecting" =>
                           x.answer = TRUE /\ session'.state = "Connected"
                      /\ session'.target = prompt.conn
    BY <1>2 DEF OwnIsNewest
  <2>1. CASE x = new
    <3>1. a.generation = started /\ prompt.connecting /\ session.target = prompt.conn
      BY <2>1, <1>10 DEF OwnIsNewest
    <3>2. session'.state = IF ok THEN "Connected" ELSE "Error"
      BY <3>1, <1>1 DEF Types, SessionState
    <3> QED BY <3>1, <3>2, <2>1, <1>3, <1>5
  <2>2. CASE x \in attempts /\ x # a
    <3>1. Own(x)
      BY <2>2, <1>9
    <3>2. x.generation = started /\ a.generation # started
      BY <3>1, <2>2 DEF OwnIsNewest, AttemptsDistinct
    <3>3. session' = session
      BY <3>2, <1>1
    <3> QED BY <3>1, <3>3, <2>2 DEF OwnIsNewest
  <2> QED BY <2>1, <2>2, <1>4
<1>12. ConnectingHasOwn'
  BY <1>2, <1>4, <1>9, <1>10, Zenon DEF ConnectingHasOwn
<1> QED BY <1>6, <1>7, <1>8, <1>11, <1>12

\* An attempt takes the session's being connected for its own success.
LEMMA ManagerReadConnected ==
  ASSUME ManagerInv, NEW a \in attempts, ReadConnected(a)
  PROVE  ManagerInv'
<1> USE DEF ManagerInv
<1> DEFINE new == [a EXCEPT !.phase = "introspecting"]
<1>1. /\ a.phase = "settled" /\ session.state = "Connected"
      /\ attempts' = (attempts \ {a}) \cup {new}
      /\ UNCHANGED <<saved, keyring, view, prompt, prompts, active, started, session>>
  BY DEF ReadConnected, modalVars
<1>2. /\ new \in Attempt
      /\ new.generation = a.generation /\ new.by = a.by /\ new.no = a.no
      /\ new.save = a.save /\ new.url = a.url
      /\ new.phase = "introspecting" /\ new.answer = a.answer
  BY DEF Types, Attempt
<1> HIDE DEF new
<1>3. Types'
  BY <1>1, <1>2 DEF Types
<1>4. AttemptsDistinct'
  BY <1>1, <1>2 DEF AttemptsDistinct
<1>5. Numbered' /\ RowsSaveFiles'
  BY <1>1, <1>2 DEF Numbered, RowsSaveFiles
<1>6. \A x \in attempts : Own(x)' <=> Own(x)
  BY <1>1 DEF Own
<1>7. Own(new)' <=> Own(a)
  BY <1>1, <1>2 DEF Own
<1>8. OwnIsNewest'
  <2> SUFFICES ASSUME NEW x \in attempts', Own(x)'
               PROVE  /\ x.generation = started
                      /\ prompt.connecting
                      /\ x.phase = "settled" =>
                           session.state = IF x.answer = TRUE THEN "Connected" ELSE "Error"
                      /\ x.phase = "introspecting" =>
                           x.answer = TRUE /\ session.state = "Connected"
                      /\ session.target = prompt.conn
    BY <1>1 DEF OwnIsNewest
  <2>1. CASE x = new
    <3>1. /\ a.generation = started /\ prompt.connecting /\ a.answer = TRUE
          /\ session.target = prompt.conn
      BY <2>1, <1>1, <1>7 DEF OwnIsNewest
    <3> QED BY <3>1, <2>1, <1>1, <1>2
  <2>2. CASE x \in attempts
    BY <2>2, <1>6 DEF OwnIsNewest
  <2> QED BY <2>1, <2>2, <1>1
<1>9. ConnectingHasOwn'
  BY <1>1, <1>6, <1>7, Zenon DEF ConnectingHasOwn
<1> QED BY <1>3, <1>4, <1>5, <1>8, <1>9

(* An attempt has settled and the manager has been told: a prompt stops      *)
(* connecting only when that was its own attempt, of which it has one.       *)
LEMMA ManagerSettled ==
  ASSUME ManagerInv, NEW a \in attempts, NEW ok \in BOOLEAN, Settled(a, ok),
         attempts' = attempts \ {a}, UNCHANGED <<active, started, session>>
  PROVE  ManagerInv'
<1> USE DEF ManagerInv
<1>1. a \in Attempt /\ a.by \in {"row", "prompt", "form"}
      /\ (a.by \in {"row", "prompt"} /\ a.save => a.url.conn \in Target)
  BY DEF Types, Attempt
<1>2. keyring' \in [Conns -> Passwords \cup {None}]
  BY <1>1 DEF Settled, RowSettled, PromptSettled, FormSettled, modalVars, Types, Attempt
<1>3. prompts' = prompts
  BY DEF Settled, RowSettled, PromptSettled, FormSettled, modalVars
<1>4. AttemptsDistinct' /\ RowsSaveFiles'
  BY DEF AttemptsDistinct, RowsSaveFiles
<1>5. CASE prompt' = prompt /\ ~ Own(a)
  <2>1. Types' /\ Numbered' /\ OwnIsNewest'
    BY <1>2, <1>3, <1>5 DEF Types, Numbered, OwnIsNewest, Own
  <2>2. ConnectingHasOwn'
    <3>1. \A x \in attempts : Own(x) => x \in attempts' /\ Own(x)'
      BY <1>5 DEF Own
    <3> QED BY <3>1, <1>5, Zenon DEF ConnectingHasOwn
  <2> QED BY <1>4, <2>1, <2>2
<1>6. CASE prompt' = None
  BY <1>2, <1>3, <1>4, <1>6
     DEF Types, Numbered, OwnIsNewest, ConnectingHasOwn, Own
<1>7. CASE /\ Own(a)
           /\ prompt' = [prompt EXCEPT !.connecting = FALSE]
  <2>1. /\ prompt' \in [no : Nat, conn : Networked, connecting : BOOLEAN]
        /\ prompt'.no = prompt.no /\ prompt'.connecting = FALSE
    BY <1>7 DEF Types, Own
  <2>2. Types' /\ Numbered'
    BY <1>2, <1>3, <1>7, <2>1 DEF Types, Numbered, Own
  <2>3. \A x \in attempts' : ~ Own(x)'
    <3> SUFFICES ASSUME NEW x \in attempts', Own(x)'
                 PROVE  FALSE
      OBVIOUS
    <3>1. Own(x)
      BY <1>7, <2>1 DEF Own
    <3>2. x.generation = started /\ a.generation = started
      BY <1>7, <3>1 DEF OwnIsNewest
    <3> QED BY <3>2 DEF AttemptsDistinct
  <2>4. OwnIsNewest' /\ ConnectingHasOwn'
    BY <2>1, <2>3 DEF OwnIsNewest, ConnectingHasOwn
  <2> QED BY <1>4, <2>2, <2>4
<1>8. \/ prompt' = prompt /\ ~ Own(a)
      \/ prompt' = None
      \/ Own(a) /\ prompt' = [prompt EXCEPT !.connecting = FALSE]
  <2>1. CASE a.by # "prompt"
    BY <2>1 DEF Settled, RowSettled, FormSettled, Own
  <2>2. CASE a.by = "prompt"
    BY <2>2 DEF Settled, PromptSettled, OwnPrompt, modalVars, Own
  <2> QED BY <2>1, <2>2
<1> QED BY <1>5, <1>6, <1>7, <1>8

\* A row is clicked.
LEMMA ManagerClickRow ==
  ASSUME ManagerInv, NEW c \in Conns, ClickRow(c)
  PROVE  ManagerInv'
<1>1. prompt = None /\ Types
  BY DEF ClickRow, ListShown, ManagerInv
<1>2. CASE ConnectStored(c)
  <2>1. /\ keyring[c] \in Passwords \cup {None} /\ c \in Target
        /\ UNCHANGED <<keyring, prompt, prompts>>
        /\ Start("row", [conn |-> c, pw |-> keyring[c]], 0, FALSE)
    BY <1>1, <1>2 DEF ConnectStored, Types, Target
  <2> QED BY <1>1, <2>1, ManagerStart
<1>3. CASE ConnectFile(c)
  <2>1. PICK pw \in Passwords : Start("row", [conn |-> c, pw |-> pw], 0, TRUE)
    BY <1>3 DEF ConnectFile
  <2>2. c \in Files /\ c \in Target /\ UNCHANGED <<keyring, prompt, prompts>>
    BY <1>3 DEF ConnectFile, Target
  <2>3. pw \in Passwords \cup {None}
    OBVIOUS
  <2> QED BY <1>1, <2>1, <2>2, <2>3, ManagerStart
<1>4. CASE AskPassword(c)
  BY <1>1, <1>4, ManagerAsk
<1>5. CASE ConnectUnreadable
  BY <1>1, <1>5, ManagerFrame DEF ConnectUnreadable, NoAttempt, Types
<1> QED BY <1>2, <1>3, <1>4, <1>5 DEF ClickRow

\* Every step preserves the invariant.
LEMMA ManagerStep == ManagerInv /\ [ManagerNext]_managerVars => ManagerInv'
<1> SUFFICES ASSUME ManagerInv, [ManagerNext]_managerVars
             PROVE  ManagerInv'
  OBVIOUS
<1>0. Types
  BY DEF ManagerInv
<1>1. ASSUME NEW a \in attempts, AttemptStep(a) PROVE ManagerInv'
  <2>1. CASE Settle(a)
    BY <2>1, ManagerSettle
  <2>2. CASE ReadConnected(a)
    BY <2>2, ManagerReadConnected
  <2>3. CASE ReadError(a)
    BY <2>3, ManagerSettled DEF ReadError
  <2>4. CASE Introspected(a)
    BY <2>4, ManagerSettled DEF Introspected
  <2> QED BY <1>1, <2>1, <2>2, <2>3, <2>4 DEF AttemptStep
<1>2. CASE Open \/ Close \/ ShowForm \/ CancelForm
  BY <1>0, <1>2, ManagerFrame DEF Open, Close, ShowForm, CancelForm, NoAttempt, Types
<1>3. CASE ConnectForm
  <2>1. PICK pw \in Passwords :
          Start("form", [conn |-> Unsaved, pw |-> pw], 0, FALSE)
    BY <1>3 DEF ConnectForm
  <2>2. /\ prompt = None /\ Unsaved \in Target /\ pw \in Passwords \cup {None}
        /\ UNCHANGED <<keyring, prompt, prompts>>
    BY <1>3 DEF ConnectForm, FormShown, Target
  <2> QED BY <2>1, <2>2, ManagerStart
<1>4. ASSUME NEW c \in Conns, ClickRow(c) PROVE ManagerInv'
  BY <1>4, ManagerClickRow
<1>5. ASSUME NEW c \in Conns, Delete(c) PROVE ManagerInv'
  <2>1. keyring' \in [Conns -> Passwords \cup {None}]
    BY <1>0, <1>5 DEF Delete, Types
  <2> QED BY <1>5, <2>1, ManagerFrame DEF Delete
<1>6. ASSUME NEW c \in Conns, KeyringLoses(c) PROVE ManagerInv'
  <2>1. keyring' \in [Conns -> Passwords \cup {None}]
    BY <1>0, <1>6 DEF KeyringLoses, Types
  <2> QED BY <1>6, <2>1, ManagerFrame DEF KeyringLoses, NoAttempt
<1>7. ASSUME NEW c \in Conns, NEW pw \in Passwords, SaveForm(c, pw) PROVE ManagerInv'
  <2>1. keyring' \in [Conns -> Passwords \cup {None}]
    BY <1>0, <1>7 DEF SaveForm, Types
  <2> QED BY <1>7, <2>1, ManagerFrame DEF SaveForm, NoAttempt
<1>8. ASSUME NEW pw \in Passwords, NEW save \in BOOLEAN, Submit(pw, save)
      PROVE  ManagerInv'
  BY <1>8, ManagerSubmit
<1>9. CASE Cancel
  BY <1>0, <1>9, ManagerFrame DEF Cancel, NoAttempt, Types
<1>10. CASE UNCHANGED managerVars
  BY <1>0, <1>10, ManagerFrame DEF managerVars, modalVars, Types
<1> QED BY <1>1, <1>2, <1>3, <1>4, <1>5, <1>6, <1>7, <1>8, <1>9, <1>10 DEF ManagerNext

(* A prompt that waits does so for exactly one attempt of its own, and one   *)
(* that does not wait has none: it never waits for ever for an attempt that  *)
(* a cancelled prompt started.                                               *)
THEOREM PromptAlways == ManagerSpec => []PromptHasItsAttempt
<1>1. ASSUME ManagerInv PROVE PromptHasItsAttempt
  <2> SUFFICES ASSUME prompt # None
               PROVE  Cardinality({a \in attempts : a.by = "prompt" /\ a.no = prompt.no})
                        = IF prompt.connecting THEN 1 ELSE 0
    BY DEF PromptHasItsAttempt
  <2> DEFINE own == {a \in attempts : a.by = "prompt" /\ a.no = prompt.no}
  <2>1. \A a \in own : a \in attempts /\ Own(a)
    BY DEF Own
  <2>2. CASE prompt.connecting
    <3>1. PICK a \in attempts : Own(a)
      BY <1>1, <2>2 DEF ManagerInv, ConnectingHasOwn
    <3>2. \A x \in own : x = a
      BY <1>1, <2>1, <3>1 DEF ManagerInv, OwnIsNewest, AttemptsDistinct
    <3>3. own = {a}
      BY <3>1, <3>2 DEF Own
    <3> QED BY <2>2, <3>3, FS_Singleton
  <2>3. CASE ~ prompt.connecting
    <3>1. own = {}
      BY <1>1, <2>1, <2>3 DEF ManagerInv, OwnIsNewest
    <3> QED BY <2>3, <3>1, FS_EmptySet
  <2> QED BY <2>2, <2>3
<1>2. ManagerInv => PromptHasItsAttempt
  BY <1>1
<1> QED BY <1>2, ManagerInitial, ManagerStep, PTL DEF ManagerSpec

\* What a step may write to the keyring while the prompt is shown.
Accepted ==
  \A c \in Networked :
    prompt # None /\ keyring'[c] \notin {keyring[c], None} =>
      \E a \in attempts \ attempts' :
        a.answer = TRUE /\ a.url = [conn |-> c, pw |-> keyring'[c]]

\* The manager is told of an attempt: only the prompt's own success writes.
LEMMA SettledAccepted ==
  ASSUME ManagerInv, NEW a \in attempts, NEW ok \in BOOLEAN, Settled(a, ok),
         attempts' = attempts \ {a}, ok => a.phase = "introspecting"
  PROVE  Accepted
<1> SUFFICES ASSUME NEW c \in Networked, prompt # None,
                    keyring'[c] \notin {keyring[c], None}
             PROVE  /\ a.answer = TRUE
                    /\ a.url = [conn |-> c, pw |-> keyring'[c]]
  BY DEF Accepted
<1>1. /\ a \in Attempt /\ c \in Conns /\ c \notin Files
      /\ keyring \in [Conns -> Passwords \cup {None}]
  BY DEF ManagerInv, Types, Networked
<1>2. /\ ok /\ a.save
      /\ keyring' = [keyring EXCEPT ![a.url.conn] = a.url.pw]
      /\ a.by = "row" \/ (a.by = "prompt" /\ OwnPrompt(a))
  BY DEF Settled, RowSettled, PromptSettled, FormSettled, modalVars
<1>3. a.url.conn = c /\ keyring'[c] = a.url.pw
  BY <1>1, <1>2
<1>4. a.by = "prompt" /\ Own(a)
  BY <1>1, <1>2, <1>3 DEF ManagerInv, RowsSaveFiles, OwnPrompt, Own
<1>5. a.answer = TRUE
  BY <1>2, <1>4 DEF ManagerInv, OwnIsNewest
<1>6. a.url = [conn |-> a.url.conn, pw |-> a.url.pw]
  BY <1>1 DEF Attempt
<1> QED BY <1>3, <1>5, <1>6

(* While the prompt is shown a password reaches the keyring only in the step *)
(* that ends an attempt with that very URL which the server accepted.        *)
THEOREM AcceptedAlways == ManagerSpec => OnlyAcceptedIsSaved
<1>1. ASSUME ManagerInv, [ManagerNext]_managerVars PROVE [Accepted]_managerVars
  <2>1. ASSUME NEW a \in attempts, AttemptStep(a) PROVE Accepted
    <3>1. CASE Settle(a) \/ ReadConnected(a)
      BY <3>1 DEF Settle, ReadConnected, modalVars, Accepted
    <3>2. CASE ReadError(a)
      BY <1>1, <3>2, SettledAccepted DEF ReadError
    <3>3. CASE Introspected(a)
      BY <1>1, <3>3, SettledAccepted DEF Introspected
    <3> QED BY <2>1, <3>1, <3>2, <3>3 DEF AttemptStep
  <2>2. CASE Open \/ Close \/ ShowForm \/ CancelForm \/ ConnectForm
    BY <2>2 DEF Open, Close, ShowForm, CancelForm, ConnectForm, Accepted
  <2>3. ASSUME NEW c \in Conns, ClickRow(c) \/ Delete(c) PROVE Accepted
    BY <2>3 DEF ClickRow, Delete, ListShown, Accepted
  <2>4. ASSUME NEW c \in Conns, KeyringLoses(c) PROVE Accepted
    <3>1. keyring \in [Conns -> Passwords \cup {None}]
      BY <1>1 DEF ManagerInv, Types
    <3> QED BY <2>4, <3>1 DEF KeyringLoses, Accepted, Networked
  <2>5. ASSUME NEW c \in Conns, NEW pw \in Passwords, SaveForm(c, pw) PROVE Accepted
    BY <2>5 DEF SaveForm, FormShown, Accepted
  <2>6. ASSUME NEW pw \in Passwords, NEW save \in BOOLEAN, Submit(pw, save) PROVE Accepted
    BY <2>6 DEF Submit, Accepted
  <2>7. CASE Cancel
    BY <2>7 DEF Cancel, Accepted
  <2>8. CASE UNCHANGED managerVars
    BY <2>8
  <2> QED BY <1>1, <2>1, <2>2, <2>3, <2>4, <2>5, <2>6, <2>7, <2>8 DEF ManagerNext
<1>2. ManagerInv /\ [ManagerNext]_managerVars => [Accepted]_managerVars
  BY <1>1
<1> QED BY <1>2, ManagerInitial, ManagerStep, PTL DEF ManagerSpec, OnlyAcceptedIsSaved, Accepted

\* A prompt closed by an attempt.
ClosedConnected ==
  prompt # None /\ prompt' = None /\ attempts' # attempts =>
    session = [state |-> "Connected", target |-> prompt.conn]

\* Only its own attempt's success closes a prompt.
LEMMA SettledClosed ==
  ASSUME ManagerInv, NEW a \in attempts, NEW ok \in BOOLEAN, Settled(a, ok),
         ok => a.phase = "introspecting"
  PROVE  ClosedConnected
<1> SUFFICES ASSUME prompt # None, prompt' = None
             PROVE  session = [state |-> "Connected", target |-> prompt.conn]
  BY DEF ClosedConnected
<1>1. prompt \in [no : Nat, conn : Networked, connecting : BOOLEAN]
  BY DEF ManagerInv, Types
<1>2. CASE a.by # "prompt"
  BY <1>2 DEF Settled, RowSettled, FormSettled
<1>3. CASE a.by = "prompt"
  <2>1. PromptSettled(a, ok)
    BY <1>3 DEF Settled
  <2>2. OwnPrompt(a)
    BY <2>1 DEF PromptSettled, modalVars
  <2>3. CASE ~ ok
    <3>1. prompt' = [prompt EXCEPT !.connecting = FALSE]
      BY <2>1, <2>2, <2>3 DEF PromptSettled
    <3>2. prompt' \in [no : Nat, conn : Networked, connecting : BOOLEAN]
      BY <1>1, <3>1
    <3> QED BY <3>2, NoPromptAssumption
  <2>4. CASE ok
    <3>1. Own(a) /\ session \in SessionState
      BY <1>3, <2>2 DEF OwnPrompt, Own, ManagerInv, Types
    <3>2. session.state = "Connected" /\ session.target = prompt.conn
      BY <2>4, <3>1 DEF ManagerInv, OwnIsNewest
    <3> QED BY <3>1, <3>2 DEF SessionState
  <2> QED BY <2>3, <2>4
<1> QED BY <1>2, <1>3

(* A prompt closed by an attempt leaves the session connected to the         *)
(* connection it asked the password of.                                      *)
THEOREM ClosedAlways == ManagerSpec => PromptClosesConnected
<1>1. ASSUME ManagerInv, [ManagerNext]_managerVars PROVE [ClosedConnected]_managerVars
  <2>1. ASSUME NEW a \in attempts, AttemptStep(a) PROVE ClosedConnected
    <3>1. CASE Settle(a) \/ ReadConnected(a)
      BY <3>1 DEF Settle, ReadConnected, modalVars, ClosedConnected
    <3>2. CASE ReadError(a)
      BY <1>1, <3>2, SettledClosed DEF ReadError
    <3>3. CASE Introspected(a)
      BY <1>1, <3>3, SettledClosed DEF Introspected
    <3> QED BY <2>1, <3>1, <3>2, <3>3 DEF AttemptStep
  <2>2. CASE Open \/ Close \/ ShowForm \/ CancelForm \/ ConnectForm
    BY <2>2 DEF Open, Close, ShowForm, CancelForm, ConnectForm, FormShown, ListShown,
                ClosedConnected
  <2>3. ASSUME NEW c \in Conns, ClickRow(c) \/ Delete(c) PROVE ClosedConnected
    BY <2>3 DEF ClickRow, Delete, ListShown, ClosedConnected
  <2>4. ASSUME NEW c \in Conns, KeyringLoses(c) PROVE ClosedConnected
    BY <2>4 DEF KeyringLoses, NoAttempt, ClosedConnected
  <2>5. ASSUME NEW c \in Conns, NEW pw \in Passwords, SaveForm(c, pw) PROVE ClosedConnected
    BY <2>5 DEF SaveForm, NoAttempt, ClosedConnected
  <2>6. ASSUME NEW pw \in Passwords, NEW save \in BOOLEAN, Submit(pw, save)
        PROVE  ClosedConnected
    <3>1. prompt' = [prompt EXCEPT !.connecting = TRUE] \/ UNCHANGED attempts
      BY <2>6 DEF Submit, NoAttempt
    <3>2. prompt # None => prompt \in [no : Nat, conn : Networked, connecting : BOOLEAN]
      BY <1>1 DEF ManagerInv, Types
    <3> QED BY <3>1, <3>2, NoPromptAssumption DEF ClosedConnected
  <2>7. CASE Cancel
    BY <2>7 DEF Cancel, NoAttempt, ClosedConnected
  <2>8. CASE UNCHANGED managerVars
    BY <2>8
  <2> QED BY <1>1, <2>1, <2>2, <2>3, <2>4, <2>5, <2>6, <2>7, <2>8 DEF ManagerNext
<1>2. ManagerInv /\ [ManagerNext]_managerVars => [ClosedConnected]_managerVars
  BY <1>1
<1> QED BY <1>2, ManagerInitial, ManagerStep, PTL
       DEF ManagerSpec, PromptClosesConnected, ClosedConnected

-----------------------------------------------------------------------------
(* ConnectionStore: for any connections, failures and bounds.                *)

\* The variables' values; a fresh id for whatever is pending; a program that
\* does not run was ended.
StoreTypes ==
  /\ running \in BOOLEAN
  /\ connections \in Seq(Stored) /\ pending \in Seq(Args)
  /\ file = Torn \/ file \in Seq(Stored)
  /\ urls \in [Ids -> Urls \cup {Absent}] /\ secrets \in [Ids -> Secrets]
  /\ nextId \in Nat \ {0} /\ nextId + Len(pending) <= MaxIds + 1
  /\ op \in Op \cup {Absent}
  /\ ~ running => op = Absent /\ "crash" \in failed

\* No connection is listed twice.
Distinct(list) == \A i, j \in DOMAIN list : i # j => list[i].id # list[j].id

\* Two lists have no connection in common.
Apart(a, b) == \A i \in DOMAIN a, j \in DOMAIN b : a[i].id # b[j].id

\* A list without one connection.
Without(list, id) == \A i \in DOMAIN list : list[i].id # id

\* The keyring has the URLs of a list's connections, made before now.
Known(list) == \A i \in DOMAIN list : list[i].id < nextId /\ urls[list[i].id] # Absent

\* Fields and keyring agree.
Agrees(c) == urls[c.id] = c.url /\ (~ c.ssh => secrets[c.id] = Absent)

\* A removal's connection is out of the list, and out of the keyring only once
\* the file is without it.
Deleting == op.step \in {"delete url", "delete secret"}

Progress ==
  op # Absent =>
    /\ op.kind = "update" =>
         /\ op.args \in Args /\ op.prior \in Prior /\ op.prior.stored.id = op.id
         /\ op.index \in DOMAIN connections /\ connections[op.index].id = op.id
    /\ op.kind = "remove" =>
         /\ op.prior \in Stored /\ op.prior.id = op.id /\ op.id < nextId
         /\ op.index \in 1..Len(connections) + 1 /\ Without(connections, op.id)
         /\ ~ Deleting => urls[op.id] # Absent
    /\ op.step \in {"set url", "set secret", "restore secret"} => op.kind = "update"
    /\ Deleting => op.kind = "remove"
    /\ op.step \in {"dir", "set url", "set secret"} => op.added = <<>>
    /\ op.step = "drain" =>
         /\ Distinct(op.added) /\ Known(op.added) /\ Apart(connections, op.added)
         /\ op.kind = "remove" => Without(op.added, op.id)
    /\ op.step \in {"mode", "delete url"} => file = connections

\* Whatever the operation under way has changed by now, while the keyring has
\* not failed and the process has not ended.
Agreement ==
  running /\ failed \cap {"keyring", "crash"} = {} =>
    /\ \A i \in DOMAIN connections :
         \/ Agrees(connections[i])
         \/ /\ op # Absent /\ op.kind = "update" /\ i = op.index
            /\ op.step \in {"set secret", "restore secret"}
    /\ op # Absent =>
         /\ op.kind = "update" =>
              /\ op.prior.stored.url = op.prior.url
              /\ ~ op.prior.stored.ssh => op.prior.secret = Absent
         /\ op.step = "set secret" => urls[op.id] = op.args.url
         /\ op.step = "restore secret" => urls[op.id] = op.prior.url
         /\ op.kind = "remove" /\ ~ Deleting => Agrees(op.prior)
         /\ op.step = "drain" => \A i \in DOMAIN op.added : Agrees(op.added[i])

\* The inductive invariant.
StoreInv ==
  /\ StoreTypes
  /\ Distinct(connections) /\ Known(connections)
  /\ file # Torn => Distinct(file) /\ Known(file)
  /\ Progress /\ Agreement

-----------------------------------------------------------------------------
(* Lists.                                                                    *)

\* The empty list.
LEMMA EmptyList == DOMAIN <<>> = {} /\ \A S : <<>> \in Seq(S)
OBVIOUS

\* A part of a list.
LEMMA SubSeqEffect ==
  ASSUME NEW S, NEW s \in Seq(S), NEW m \in Nat \ {0}, NEW n \in 0..Len(s), m <= n + 1
  PROVE  LET r == SubSeq(s, m, n)
         IN  /\ r \in Seq(S) /\ Len(r) = n - m + 1 /\ DOMAIN r = 1..n - m + 1
             /\ \A k \in DOMAIN r : m + k - 1 \in DOMAIN s /\ r[k] = s[m + k - 1]
OBVIOUS

\* Vec::extend
LEMMA ConcatEffect ==
  ASSUME NEW S, NEW s \in Seq(S), NEW t \in Seq(S)
  PROVE  /\ s \o t \in Seq(S) /\ Len(s \o t) = Len(s) + Len(t)
         /\ \A k \in DOMAIN (s \o t) :
              (s \o t)[k] = IF k <= Len(s) THEN s[k] ELSE t[k - Len(s)]
OBVIOUS

\* Vec::remove
LEMMA RemoveAtEffect ==
  ASSUME NEW S, NEW s \in Seq(S), NEW i \in DOMAIN s
  PROVE  LET r == RemoveAt(s, i)
         IN  /\ r \in Seq(S) /\ Len(r) = Len(s) - 1
             /\ \A k \in DOMAIN r : r[k] = IF k < i THEN s[k] ELSE s[k + 1]
<1> DEFINE a == SubSeq(s, 1, i - 1)
           b == SubSeq(s, i + 1, Len(s))
           r == a \o b
<1>1. i \in 1..Len(s) /\ Len(s) \in Nat
  OBVIOUS
<1>2. /\ a \in Seq(S) /\ Len(a) = i - 1 /\ DOMAIN a = 1..i - 1
      /\ \A k \in DOMAIN a : a[k] = s[k]
  <2>1. i - 1 \in 0..Len(s) /\ 1 \in Nat \ {0} /\ 1 <= i - 1 + 1
    BY <1>1
  <2>2. /\ a \in Seq(S) /\ Len(a) = i - 1 - 1 + 1 /\ DOMAIN a = 1..i - 1 - 1 + 1
        /\ \A k \in DOMAIN a : a[k] = s[1 + k - 1]
    BY <2>1, SubSeqEffect
  <2> QED BY <1>1, <2>2
<1>3. /\ b \in Seq(S) /\ Len(b) = Len(s) - i /\ DOMAIN b = 1..Len(s) - i
      /\ \A k \in DOMAIN b : b[k] = s[i + k]
  <2>1. Len(s) \in 0..Len(s) /\ i + 1 \in Nat \ {0} /\ i + 1 <= Len(s) + 1
    BY <1>1
  <2>2. /\ b \in Seq(S) /\ Len(b) = Len(s) - (i + 1) + 1
        /\ DOMAIN b = 1..Len(s) - (i + 1) + 1
        /\ \A k \in DOMAIN b : b[k] = s[i + 1 + k - 1]
    BY <2>1, SubSeqEffect
  <2> QED BY <1>1, <2>2
<1> HIDE DEF a, b
<1>4. /\ r \in Seq(S) /\ Len(r) = Len(s) - 1
      /\ \A k \in DOMAIN r : r[k] = IF k <= i - 1 THEN a[k] ELSE b[k - (i - 1)]
  BY <1>1, <1>2, <1>3, ConcatEffect
<1>5. ASSUME NEW k \in DOMAIN r
      PROVE  r[k] = IF k < i THEN s[k] ELSE s[k + 1]
  <2>1. k \in 1..Len(s) - 1
    BY <1>1, <1>4
  <2>2. CASE k < i
    BY <1>1, <1>2, <1>4, <2>1, <2>2
  <2>3. CASE ~ k < i
    <3>1. k - (i - 1) \in 1..Len(s) - i /\ i + (k - (i - 1)) = k + 1
      BY <1>1, <2>1, <2>3
    <3> QED BY <1>1, <1>3, <1>4, <2>1, <2>3, <3>1
  <2> QED BY <2>2, <2>3
<1>6. r = RemoveAt(s, i)
  BY DEF RemoveAt, a, b
<1> HIDE DEF r
<1> QED BY <1>4, <1>5, <1>6

\* Vec::insert
LEMMA InsertAtEffect ==
  ASSUME NEW S, NEW s \in Seq(S), NEW e \in S, NEW i \in 1..Len(s) + 1
  PROVE  LET r == InsertAt(s, i, e)
         IN  /\ r \in Seq(S) /\ Len(r) = Len(s) + 1
             /\ \A k \in DOMAIN r :
                  r[k] = IF k < i THEN s[k] ELSE IF k = i THEN e ELSE s[k - 1]
<1> DEFINE a == SubSeq(s, 1, i - 1)
           m == a \o <<e>>
           b == SubSeq(s, i, Len(s))
           r == m \o b
<1>1. i \in 1..Len(s) + 1 /\ Len(s) \in Nat
  OBVIOUS
<1>2. /\ a \in Seq(S) /\ Len(a) = i - 1 /\ DOMAIN a = 1..i - 1
      /\ \A k \in DOMAIN a : a[k] = s[k]
  <2>1. i - 1 \in 0..Len(s) /\ 1 \in Nat \ {0} /\ 1 <= i - 1 + 1
    BY <1>1
  <2>2. /\ a \in Seq(S) /\ Len(a) = i - 1 - 1 + 1 /\ DOMAIN a = 1..i - 1 - 1 + 1
        /\ \A k \in DOMAIN a : a[k] = s[1 + k - 1]
    BY <2>1, SubSeqEffect
  <2> QED BY <1>1, <2>2
<1>3. /\ b \in Seq(S) /\ Len(b) = Len(s) - i + 1 /\ DOMAIN b = 1..Len(s) - i + 1
      /\ \A k \in DOMAIN b : b[k] = s[i + k - 1]
  <2>1. Len(s) \in 0..Len(s) /\ i \in Nat \ {0} /\ i <= Len(s) + 1
    BY <1>1
  <2> QED BY <2>1, SubSeqEffect
<1> HIDE DEF a, b
<1>4. /\ m \in Seq(S) /\ Len(m) = i
      /\ \A k \in DOMAIN m : m[k] = IF k <= i - 1 THEN a[k] ELSE <<e>>[k - (i - 1)]
  <2>1. <<e>> \in Seq(S) /\ Len(<<e>>) = 1
    OBVIOUS
  <2> QED BY <1>1, <1>2, <2>1, ConcatEffect
<1>5. /\ \A k \in 1..i - 1 : m[k] = s[k]
      /\ m[i] = e
  <2>1. DOMAIN m = 1..i
    BY <1>4
  <2>2. \A k \in 1..i - 1 : m[k] = a[k]
    BY <1>1, <1>4, <2>1
  <2>3. m[i] = <<e>>[i - (i - 1)]
    BY <1>1, <1>4, <2>1
  <2>4. i - (i - 1) = 1
    BY <1>1
  <2> QED BY <1>2, <2>2, <2>3, <2>4
<1> HIDE DEF m
<1>6. /\ r \in Seq(S) /\ Len(r) = Len(s) + 1
      /\ \A k \in DOMAIN r : r[k] = IF k <= i THEN m[k] ELSE b[k - i]
  <2>1. /\ r \in Seq(S) /\ Len(r) = Len(m) + Len(b)
        /\ \A k \in DOMAIN r : r[k] = IF k <= Len(m) THEN m[k] ELSE b[k - Len(m)]
    BY <1>3, <1>4, ConcatEffect
  <2> QED BY <1>1, <1>3, <1>4, <2>1
<1>7. ASSUME NEW k \in DOMAIN r
      PROVE  r[k] = IF k < i THEN s[k] ELSE IF k = i THEN e ELSE s[k - 1]
  <2>1. k \in 1..Len(s) + 1
    BY <1>1, <1>6
  <2>2. CASE k < i
    BY <1>1, <1>5, <1>6, <2>1, <2>2
  <2>3. CASE k = i
    BY <1>1, <1>5, <1>6, <2>1, <2>3
  <2>4. CASE i < k
    <3>1. k - i \in 1..Len(s) - i + 1 /\ i + (k - i) - 1 = k - 1
      BY <1>1, <2>1, <2>4
    <3> QED BY <1>1, <1>3, <1>6, <2>1, <2>4, <3>1
  <2> QED BY <1>1, <2>1, <2>2, <2>3, <2>4
<1>8. r = InsertAt(s, i, e)
  BY DEF InsertAt, a, b, m
<1> HIDE DEF r
<1> QED BY <1>6, <1>7, <1>8

\* Vec::pop
LEMMA FrontEffect ==
  ASSUME NEW S, NEW s \in Seq(S), s # <<>>
  PROVE  /\ Front(s) \in Seq(S) /\ Len(Front(s)) = Len(s) - 1
         /\ \A k \in DOMAIN Front(s) : k \in DOMAIN s /\ Front(s)[k] = s[k]
BY DEF Front

\* A file cut short is one that cannot be read, or the first of the list.
LEMMA CutShortEffect ==
  ASSUME NEW S, NEW s \in Seq(S), NEW f \in CutShort(s)
  PROVE  f = Torn \/ (/\ f \in Seq(S)
                      /\ \A k \in DOMAIN f : k \in DOMAIN s /\ f[k] = s[k])
<1>1. CASE f \in {Torn, <<>>}
  <2>1. <<>> \in Seq(S) /\ DOMAIN <<>> = {}
    OBVIOUS
  <2> QED BY <1>1, <2>1
<1>2. ASSUME NEW n \in DOMAIN s, f = SubSeq(s, 1, n)
      PROVE  f \in Seq(S) /\ \A k \in DOMAIN f : k \in DOMAIN s /\ f[k] = s[k]
  BY <1>2
<1> QED BY <1>1, <1>2 DEF CutShort

-----------------------------------------------------------------------------
(* Steps.                                                                    *)

\* A store that was never saved holds nothing.
LEMMA StoreInvInit == StoreInit => StoreInv
<1> SUFFICES ASSUME StoreInit PROVE StoreInv
  OBVIOUS
<1>1. /\ running = TRUE /\ connections = <<>> /\ pending = <<>> /\ file = <<>>
      /\ nextId = 1 /\ op = Absent
      /\ urls = [i \in Ids |-> Absent] /\ secrets = [i \in Ids |-> Absent]
  BY DEF StoreInit
<1>2. <<>> \in Seq(Stored) /\ <<>> \in Seq(Args) /\ DOMAIN <<>> = {} /\ Len(<<>>) = 0
  OBVIOUS
<1>3. StoreTypes
  BY <1>1, <1>2, StoreAssumption DEF StoreTypes, Secrets
<1>4. Distinct(<<>>) /\ Known(<<>>)
  BY <1>2 DEF Distinct, Known
<1>5. Progress /\ Agreement
  BY <1>1, <1>2 DEF Progress, Agreement
<1> QED BY <1>1, <1>3, <1>4, <1>5 DEF StoreInv

\* A step that goes on with the operation and leaves list and keyring alone.
LEMMA GotoKeeps ==
  ASSUME StoreInv, op # Absent, ~ Deleting,
         op.step \notin {"set url", "set secret", "restore secret"},
         NEW step \in {"drain", "write", "fill", "mode", "undo", "delete url"},
         op' = [op EXCEPT !.step = step],
         UNCHANGED <<running, connections, pending, urls, secrets, nextId>>,
         failed \subseteq failed',
         file' = Torn \/ file' \in Seq(Stored),
         file' # Torn => Distinct(file') /\ Known(file'),
         step \in {"mode", "delete url"} => file' = connections,
         step = "drain" => op.added = <<>>,
         step = "delete url" => op.kind = "remove"
  PROVE  StoreInv'
<1>1. StoreTypes /\ Progress /\ Agreement /\ op \in Op
  BY DEF StoreInv, StoreTypes
<1>2. /\ op' \in Op /\ op'.step = step /\ op'.kind = op.kind /\ op'.id = op.id
      /\ op'.index = op.index /\ op'.args = op.args /\ op'.prior = op.prior
      /\ op'.added = op.added
  BY <1>1 DEF Op
<1>3. StoreTypes'
  BY <1>1, <1>2 DEF StoreTypes
<1>4. Distinct(connections') /\ Known(connections)' /\ (file' # Torn => Known(file)')
  BY DEF StoreInv, Known
<1>5. Progress'
  <2>1. step = "drain" => /\ Distinct(op'.added) /\ Known(op.added)'
                          /\ Apart(connections', op'.added) /\ Without(op'.added, op'.id)
    <3>1. step = "drain" => DOMAIN op'.added = {}
      BY <1>2, EmptyList
    <3> QED BY <3>1 DEF Distinct, Known, Apart, Without
  <2>2. step \notin {"set url", "set secret", "restore secret", "dir"}
        /\ (Deleting' => step = "delete url")
    BY <1>2 DEF Deleting
  <2>3. op.kind = "remove" => urls[op.id] # Absent
    BY <1>1 DEF Progress
  <2> QED BY <1>1, <1>2, <2>1, <2>2, <2>3 DEF Progress
<1>6. Agreement'
  <2> SUFFICES ASSUME running', failed' \cap {"keyring", "crash"} = {}
               PROVE  Agreement'
    BY DEF Agreement
  <2>1. running /\ failed \cap {"keyring", "crash"} = {}
    OBVIOUS
  <2>2. /\ \A k \in DOMAIN connections : Agrees(connections[k])
        /\ op.kind = "update" =>
             /\ op.prior.stored.url = op.prior.url
             /\ ~ op.prior.stored.ssh => op.prior.secret = Absent
        /\ op.kind = "remove" => Agrees(op.prior)
    BY <1>1, <2>1 DEF Agreement
  <2>3. step \notin {"set secret", "restore secret"}
    OBVIOUS
  <2>4. step = "drain" => DOMAIN op'.added = {}
    BY <1>2, EmptyList
  <2>5. \A k \in DOMAIN connections' : Agrees(connections[k])'
    BY <2>2 DEF Agrees
  <2>6. op.kind = "remove" => Agrees(op.prior)'
    BY <1>2, <2>2 DEF Agrees
  <2> QED BY <1>2, <2>2, <2>3, <2>4, <2>5, <2>6 DEF Agreement
<1> QED BY <1>3, <1>4, <1>5, <1>6 DEF StoreInv

\* A step that ends the operation and leaves list, file and keyring alone.
LEMMA ReturnKeeps ==
  ASSUME StoreInv, op # Absent, op' = Absent,
         UNCHANGED <<running, connections, pending, file, urls, secrets, nextId>>,
         failed \subseteq failed',
         op.step \in {"set secret", "restore secret"} => "keyring" \in failed'
  PROVE  StoreInv'
<1>1. StoreTypes /\ Progress /\ Agreement
  BY DEF StoreInv
<1>2. StoreTypes'
  BY <1>1 DEF StoreTypes
<1>3. Distinct(connections') /\ Known(connections)'
      /\ (file' # Torn => Distinct(file') /\ Known(file)')
  BY DEF StoreInv, Known
<1>4. Progress' /\ Agreement'
  BY <1>1 DEF Progress, Agreement, Agrees
<1> QED BY <1>2, <1>3, <1>4 DEF StoreInv

\* A part of a list of different connections the keyring knows is one too.
LEMMA PartOfList ==
  ASSUME NEW list, Distinct(list), Known(list),
         NEW part, \A k \in DOMAIN part : k \in DOMAIN list /\ part[k] = list[k]
  PROVE  Distinct(part) /\ Known(part)
BY DEF Distinct, Known

\* create_dir_all
LEMMA CreateDirKeeps == StoreInv /\ CreateDir => StoreInv'
<1> SUFFICES ASSUME StoreInv, CreateDir PROVE StoreInv'
  OBVIOUS
<1>1. /\ op # Absent /\ op.step = "dir" /\ failed \subseteq failed'
      /\ UNCHANGED <<running, connections, pending, file, urls, secrets, nextId>>
      /\ \E step \in {"drain", "undo"} : op' = [op EXCEPT !.step = step]
  BY DEF CreateDir, At, Goto, Fails, memoryVars, keyringVars
<1>2. op.added = <<>> /\ ~ Deleting
  BY <1>1 DEF StoreInv, Progress, Deleting
<1>3. /\ file' = Torn \/ file' \in Seq(Stored)
      /\ file' # Torn => Distinct(file') /\ Known(file')
  BY <1>1 DEF StoreInv, StoreTypes, Known
<1> QED BY <1>1, <1>2, <1>3, GotoKeeps

\* fs::write
LEMMA WriteKeeps == StoreInv /\ (Truncate \/ Fill) => StoreInv'
<1> SUFFICES ASSUME StoreInv, Truncate \/ Fill PROVE StoreInv'
  OBVIOUS
<1>1. /\ op # Absent /\ op.step \in {"write", "fill"} /\ failed \subseteq failed'
      /\ UNCHANGED <<running, connections, pending, urls, secrets, nextId>>
  BY DEF Truncate, Fill, At, Goto, Fails, memoryVars, keyringVars
<1>2. PICK step \in {"fill", "mode", "undo"} :
        /\ op' = [op EXCEPT !.step = step]
        /\ file' \in {file, connections, <<>>} \cup CutShort(connections)
        /\ step = "mode" => file' = connections
  BY DEF Truncate, Fill, At, Goto
<1>3. ~ Deleting /\ connections \in Seq(Stored) /\ Distinct(connections) /\ Known(connections)
      /\ (file = Torn \/ file \in Seq(Stored))
      /\ (file # Torn => Distinct(file) /\ Known(file))
  BY <1>1 DEF Deleting, StoreInv, StoreTypes
<1>4. /\ file' = Torn \/ file' \in Seq(Stored)
      /\ file' # Torn => Distinct(file') /\ Known(file')
  <2>1. CASE file' \in {file, connections}
    BY <1>3, <2>1
  <2>2. CASE file' = <<>>
    <3>1. Distinct(<<>>) /\ Known(<<>>)
      BY EmptyList DEF Distinct, Known
    <3> QED BY <2>2, <3>1, EmptyList
  <2>3. CASE file' \in CutShort(connections)
    <3>1. file' = Torn \/ (/\ file' \in Seq(Stored)
                           /\ \A k \in DOMAIN file' :
                                k \in DOMAIN connections /\ file'[k] = connections[k])
      BY <1>3, <2>3, CutShortEffect
    <3> QED BY <1>3, <3>1, PartOfList
  <2> QED BY <1>2, <2>1, <2>2, <2>3
<1>5. step \in {"mode", "delete url"} => file' = connections
  BY <1>2
<1> QED BY <1>1, <1>2, <1>3, <1>4, <1>5, GotoKeeps

\* set_owner_only_permissions
LEMMA SetModeKeeps == StoreInv /\ SetMode => StoreInv'
<1> SUFFICES ASSUME StoreInv, SetMode PROVE StoreInv'
  OBVIOUS
<1>1. /\ op # Absent /\ op.step = "mode" /\ failed \subseteq failed'
      /\ UNCHANGED <<running, connections, pending, file, urls, secrets, nextId>>
      /\ \/ op' = Absent
         \/ \E step \in {"delete url", "undo"} :
              /\ op' = [op EXCEPT !.step = step]
              /\ step = "delete url" => op.kind = "remove"
  BY DEF SetMode, At, Goto, Return, Fails, memoryVars, keyringVars
<1>2. ~ Deleting /\ file = connections
  BY <1>1 DEF StoreInv, Progress, Deleting
<1>3. /\ file' = Torn \/ file' \in Seq(Stored)
      /\ file' # Torn => Distinct(file') /\ Known(file')
  BY <1>1 DEF StoreInv, StoreTypes, Known
<1> QED BY <1>1, <1>2, <1>3, GotoKeeps, ReturnKeeps

\* ConnectionStore::add, to the call of save
LEMMA AddKeeps ==
  ASSUME StoreInv, NEW args \in Args, Add(args)
  PROVE  StoreInv'
<1>1. /\ running /\ op = Absent /\ nextId + Len(pending) <= MaxIds
      /\ pending' = Append(pending, args)
      /\ op' = [kind |-> "add", step |-> "dir", id |-> 0, index |-> 0, args |-> args,
                prior |-> Absent, added |-> <<>>, before |-> connections]
      /\ UNCHANGED <<running, connections, file, urls, secrets, nextId, failed>>
  BY DEF Add, Operation, keyringVars
<1>2. StoreTypes /\ Agreement
  BY DEF StoreInv
<1>3. op' \in Op /\ op'.kind = "add" /\ op'.step = "dir" /\ op'.added = <<>>
  BY <1>1, <1>2, EmptyList DEF Op, StoreTypes
<1>4. pending' \in Seq(Args) /\ Len(pending') = Len(pending) + 1
  BY <1>1, <1>2 DEF StoreTypes
<1>5. StoreTypes'
  BY <1>1, <1>2, <1>3, <1>4, StoreAssumption DEF StoreTypes
<1>6. Distinct(connections') /\ Known(connections)'
      /\ (file' # Torn => Distinct(file') /\ Known(file)')
  BY <1>1 DEF StoreInv, Known
<1>7. Progress'
  BY <1>3 DEF Progress, Deleting
<1>8. Agreement'
  BY <1>1, <1>2, <1>3 DEF Agreement, Agrees
<1> QED BY <1>5, <1>6, <1>7, <1>8 DEF StoreInv

\* ConnectionStore::update, to its first write
LEMMA UpdateKeeps ==
  ASSUME StoreInv, NEW index \in DOMAIN connections, NEW args \in Args, Update(index, args)
  PROVE  StoreInv'
<1> DEFINE c == connections[index]
<1>1. /\ running /\ op = Absent /\ urls[c.id] # Absent /\ failed \subseteq failed'
      /\ UNCHANGED <<running, connections, pending, file, urls, secrets, nextId>>
  BY DEF Update, Fails, memoryVars, keyringVars
<1>2. PICK secret \in {secrets[c.id], Absent} :
        /\ op' = Operation("update", "set url", c.id, index, args,
                           [url |-> urls[c.id], stored |-> c, secret |-> secret])
        /\ c.ssh \/ secret = Absent
  BY DEF Update
<1>3. StoreTypes /\ Agreement /\ c \in Stored /\ c.id \in Ids /\ index \in Nat
  <2>1. StoreTypes /\ Agreement /\ connections \in Seq(Stored)
    BY DEF StoreInv, StoreTypes
  <2>2. c \in Stored /\ index \in Nat
    BY <2>1
  <2> QED BY <2>1, <2>2 DEF Stored
<1> DEFINE prior == [url |-> urls[c.id], stored |-> c, secret |-> secret]
<1>4. prior \in Prior /\ prior.stored = c /\ prior.url = urls[c.id] /\ prior.secret = secret
  <2>1. urls[c.id] \in Urls /\ secret \in Secrets
    BY <1>1, <1>2, <1>3 DEF StoreTypes, Secrets
  <2> QED BY <1>3, <2>1 DEF Prior
<1> HIDE DEF prior
<1>5. op' = [kind |-> "update", step |-> "set url", id |-> c.id, index |-> index,
             args |-> args, prior |-> prior, added |-> <<>>, before |-> connections]
  BY <1>2 DEF Operation, prior
<1>6. /\ op' \in Op /\ op'.kind = "update" /\ op'.step = "set url" /\ op'.added = <<>>
      /\ op'.args = args /\ op'.prior = prior /\ op'.index = index /\ op'.id = c.id
  <2>1. c.id \in Nat
    BY <1>3, StoreAssumption DEF Ids
  <2> QED BY <1>3, <1>4, <1>5, <2>1, EmptyList DEF Op, StoreTypes
<1>7. StoreTypes'
  BY <1>1, <1>3, <1>6 DEF StoreTypes
<1>8. Distinct(connections') /\ Known(connections)'
      /\ (file' # Torn => Distinct(file') /\ Known(file)')
  BY <1>1 DEF StoreInv, Known
<1>9. Progress'
  BY <1>1, <1>4, <1>6 DEF Progress, Deleting
<1>10. Agreement'
  <2> SUFFICES ASSUME failed' \cap {"keyring", "crash"} = {} PROVE Agreement'
    BY DEF Agreement
  <2>1. \A i \in DOMAIN connections : Agrees(connections[i])
    BY <1>1, <1>3 DEF Agreement
  <2>2. \A i \in DOMAIN connections' : Agrees(connections[i])'
    BY <1>1, <2>1 DEF Agrees
  <2>3. c.url = urls[c.id]
    BY <2>1 DEF Agrees
  <2> QED BY <1>2, <1>4, <1>6, <2>2, <2>3 DEF Agreement
<1> QED BY <1>7, <1>8, <1>9, <1>10 DEF StoreInv

\* ConnectionStore::remove, to the call of save
LEMMA RemoveKeeps ==
  ASSUME StoreInv, NEW index \in DOMAIN connections, RemoveConnection(index)
  PROVE  StoreInv'
<1> DEFINE c == connections[index]
<1>1. /\ running /\ op = Absent
      /\ connections' = RemoveAt(connections, index)
      /\ op' = [kind |-> "remove", step |-> "dir", id |-> c.id, index |-> index,
                args |-> Absent, prior |-> c, added |-> <<>>, before |-> connections]
      /\ UNCHANGED <<running, pending, file, urls, secrets, nextId, failed>>
  BY DEF RemoveConnection, Operation, keyringVars
<1>2. /\ StoreTypes /\ Agreement /\ Distinct(connections) /\ Known(connections)
      /\ connections \in Seq(Stored) /\ c \in Stored /\ c.id \in Ids
      /\ index \in 1..Len(connections) /\ Len(connections) \in Nat
  <2>1. /\ StoreTypes /\ Agreement /\ Distinct(connections) /\ Known(connections)
        /\ connections \in Seq(Stored)
    BY DEF StoreInv, StoreTypes
  <2>2. c \in Stored /\ index \in 1..Len(connections) /\ Len(connections) \in Nat
    BY <2>1
  <2> QED BY <2>1, <2>2 DEF Stored
<1>3. /\ connections' \in Seq(Stored) /\ Len(connections') = Len(connections) - 1
      /\ \A k \in DOMAIN connections' :
           connections'[k] = IF k < index THEN connections[k] ELSE connections[k + 1]
  BY <1>1, <1>2, RemoveAtEffect
<1>4. \A k \in DOMAIN connections' : \E j \in DOMAIN connections :
        j # index /\ connections'[k] = connections[j] /\ j = IF k < index THEN k ELSE k + 1
  <2> SUFFICES ASSUME NEW k \in DOMAIN connections'
               PROVE  \E j \in DOMAIN connections :
                        /\ j # index /\ connections'[k] = connections[j]
                        /\ j = IF k < index THEN k ELSE k + 1
    OBVIOUS
  <2>1. k \in 1..Len(connections) - 1
    BY <1>2, <1>3
  <2>2. CASE k < index
    BY <1>2, <1>3, <2>1, <2>2
  <2>3. CASE ~ k < index
    BY <1>2, <1>3, <2>1, <2>3
  <2> QED BY <2>2, <2>3
<1>5. DOMAIN connections' \subseteq Nat
  BY <1>3
<1>6. /\ op' \in Op /\ op'.kind = "remove" /\ op'.step = "dir" /\ op'.added = <<>>
      /\ op'.prior = c /\ op'.index = index /\ op'.id = c.id
  <2>1. c.id \in Nat /\ index \in Nat
    BY <1>2, StoreAssumption DEF Ids
  <2> QED BY <1>1, <1>2, <2>1, EmptyList DEF Op
<1>7. StoreTypes'
  BY <1>1, <1>2, <1>3, <1>6 DEF StoreTypes
<1>8. Distinct(connections') /\ Known(connections)'
  <2>1. ASSUME NEW i \in DOMAIN connections', NEW j \in DOMAIN connections', i # j
        PROVE  connections'[i].id # connections'[j].id
    <3>1. PICK k \in DOMAIN connections :
            connections'[i] = connections[k] /\ k = IF i < index THEN i ELSE i + 1
      BY <1>4
    <3>2. PICK l \in DOMAIN connections :
            connections'[j] = connections[l] /\ l = IF j < index THEN j ELSE j + 1
      BY <1>4
    <3>3. k # l
      BY <1>2, <1>5, <2>1, <3>1, <3>2
    <3> QED BY <1>2, <3>1, <3>2, <3>3 DEF Distinct
  <2>2. Known(connections)'
    BY <1>1, <1>2, <1>4 DEF Known
  <2> QED BY <2>1, <2>2 DEF Distinct
<1>9. file' # Torn => Distinct(file') /\ Known(file)'
  BY <1>1 DEF StoreInv, Known
<1>10. Progress'
  <2>1. Without(connections', c.id)
    BY <1>2, <1>4 DEF Without, Distinct
  <2>2. index \in 1..Len(connections') + 1
    BY <1>2, <1>3
  <2>3. c.id < nextId /\ urls[c.id] # Absent
    BY <1>2 DEF Known
  <2> QED BY <1>1, <1>2, <1>6, <2>1, <2>2, <2>3 DEF Progress, Deleting
<1>11. Agreement'
  <2> SUFFICES ASSUME failed' \cap {"keyring", "crash"} = {} PROVE Agreement'
    BY DEF Agreement
  <2>1. \A i \in DOMAIN connections : Agrees(connections[i])
    BY <1>1, <1>2 DEF Agreement
  <2>2. \A i \in DOMAIN connections' : Agrees(connections[i])'
    BY <1>1, <1>4, <2>1 DEF Agrees
  <2>3. Agrees(op.prior)'
    BY <1>1, <1>6, <2>1 DEF Agrees
  <2> QED BY <1>6, <2>2, <2>3 DEF Agreement
<1> QED BY <1>7, <1>8, <1>9, <1>10, <1>11 DEF StoreInv

\* A connection of a list is in the keyring's domain.
LEMMA ListedIds ==
  ASSUME NEW list \in Seq(Stored), NEW i \in DOMAIN list
  PROVE  list[i] \in Stored /\ list[i].id \in Ids
<1>1. list[i] \in Stored
  OBVIOUS
<1> QED BY <1>1 DEF Stored

\* What the steps of an update that have not failed find.
LEMMA Updating ==
  ASSUME StoreInv, op # Absent, op.kind = "update"
  PROVE  /\ StoreTypes /\ Agreement /\ op \in Op /\ op.prior \in Prior /\ running
         /\ op.args \in Args /\ op.args.url \in Urls /\ op.args.url # Absent
         /\ op.args.ssh \in BOOLEAN /\ op.args.secret \in Secrets
         /\ ~ op.args.ssh => op.args.secret = Absent
         /\ op.id \in Ids /\ op.index \in DOMAIN connections
         /\ connections[op.index].id = op.id /\ op.prior.stored.id = op.id
         /\ ~ Deleting
<1>1. StoreTypes /\ Agreement /\ Progress /\ op \in Op /\ running
  BY DEF StoreInv, StoreTypes
<1>2. /\ op.args \in Args /\ op.prior \in Prior /\ op.prior.stored.id = op.id
      /\ op.index \in DOMAIN connections /\ connections[op.index].id = op.id /\ ~ Deleting
  BY <1>1 DEF Progress
<1>3. op.id \in Ids
  BY <1>1, <1>2, ListedIds DEF StoreTypes
<1>4. /\ op.args \in [url : {op.args.url}, ssh : BOOLEAN, secret : {op.args.secret}]
      /\ op.args.url # Absent /\ (~ op.args.ssh => op.args.secret = Absent)
  BY <1>2, StoreAssumption
<1>5. op.args.url \in Urls /\ op.args.secret \in Secrets
  BY <1>2 DEF Urls, Secrets
<1> QED BY <1>1, <1>2, <1>3, <1>4, <1>5

\* set_url, then the step after it
LEMMA SetUrlKeeps == StoreInv /\ SetUrl => StoreInv'
<1> SUFFICES ASSUME StoreInv, SetUrl PROVE StoreInv'
  OBVIOUS
<1>1. op # Absent /\ op.step = "set url" /\ op.kind = "update"
  BY DEF SetUrl, At, StoreInv, Progress
<1>2. CASE Fails("keyring") /\ Return /\ UNCHANGED urls
  <2>1. /\ op' = Absent /\ failed \subseteq failed'
        /\ UNCHANGED <<running, connections, pending, file, urls, secrets, nextId>>
    BY <1>2 DEF SetUrl, Fails, Return, memoryVars
  <2> QED BY <1>1, <2>1, ReturnKeeps
<1>3. CASE /\ urls' = [urls EXCEPT ![op.id] = op.args.url]
           /\ Goto("set secret")
           /\ UNCHANGED failed
  <2>1. /\ urls' = [urls EXCEPT ![op.id] = op.args.url]
        /\ op' = [op EXCEPT !.step = "set secret"]
        /\ UNCHANGED <<running, connections, pending, file, secrets, nextId, failed>>
    BY <1>3 DEF SetUrl, Goto, memoryVars
  <2>2. /\ StoreTypes /\ Agreement /\ op \in Op /\ op.prior \in Prior
        /\ op.args \in Args /\ op.args.url \in Urls /\ op.args.url # Absent
        /\ op.id \in Ids /\ op.index \in DOMAIN connections
        /\ connections[op.index].id = op.id /\ op.prior.stored.id = op.id
    BY <1>1, Updating
  <2>3. /\ op' \in Op /\ op'.step = "set secret" /\ op'.kind = op.kind /\ op'.id = op.id
        /\ op'.index = op.index /\ op'.args = op.args /\ op'.prior = op.prior
        /\ op'.added = op.added
    BY <2>1, <2>2 DEF Op
  <2>4. /\ urls' \in [Ids -> Urls \cup {Absent}] /\ urls'[op.id] = op.args.url
        /\ \A i \in Ids : i # op.id => urls'[i] = urls[i]
        /\ \A i \in Ids : urls[i] # Absent => urls'[i] # Absent
    BY <2>1, <2>2 DEF StoreTypes
  <2>5. StoreTypes'
    BY <1>1, <2>1, <2>2, <2>3, <2>4 DEF StoreTypes
  <2>6. \A list \in Seq(Stored) : Known(list) => Known(list)'
    BY <2>1, <2>4, ListedIds DEF Known
  <2>7. Distinct(connections') /\ Known(connections)'
        /\ (file' # Torn => Distinct(file') /\ Known(file)')
    <3>1. /\ connections \in Seq(Stored) /\ Distinct(connections) /\ Known(connections)
          /\ (file = Torn \/ file \in Seq(Stored))
          /\ (file # Torn => Distinct(file) /\ Known(file))
      BY DEF StoreInv, StoreTypes
    <3>2. Known(connections) => Known(connections)'
      BY <2>1, <2>6, <3>1 DEF Known
    <3>3. file # Torn /\ Known(file) => Known(file)'
      BY <2>1, <2>6, <3>1 DEF Known
    <3> QED BY <2>1, <3>1, <3>2, <3>3
  <2>8. Progress'
    <3>1. op.added = <<>> /\ ~ Deleting'
      BY <1>1, <2>3 DEF StoreInv, Progress, Deleting
    <3> QED BY <1>1, <2>1, <2>2, <2>3, <3>1 DEF Progress
  <2>9. Agreement'
    <3> SUFFICES ASSUME failed \cap {"keyring", "crash"} = {}, running PROVE Agreement'
      BY <2>1 DEF Agreement
    <3>1. \A i \in DOMAIN connections : Agrees(connections[i])
      BY <1>1, <2>2 DEF Agreement
    <3>2. \A i \in DOMAIN connections : i # op.index => Agrees(connections[i])'
      <4> SUFFICES ASSUME NEW i \in DOMAIN connections, i # op.index
                   PROVE  Agrees(connections[i])'
        OBVIOUS
      <4>1. connections[i].id \in Ids /\ connections[i].id # op.id
        BY <2>2, ListedIds DEF StoreTypes, StoreInv, Distinct
      <4> QED BY <2>1, <2>4, <3>1, <4>1 DEF Agrees
    <3>3. /\ op.prior.stored.url = op.prior.url
          /\ ~ op.prior.stored.ssh => op.prior.secret = Absent
      BY <1>1, <2>2 DEF Agreement
    <3>4. op' # Absent
      BY <2>3, StoreAssumption
    <3> QED BY <1>1, <2>1, <2>3, <2>4, <3>2, <3>3, <3>4 DEF Agreement
  <2> QED BY <2>5, <2>7, <2>8, <2>9 DEF StoreInv
<1> QED BY <1>2, <1>3 DEF SetUrl

\* set_ssh_secret or delete_ssh_secret, then the connection's fields
LEMMA SetSecretKeeps == StoreInv /\ SetSecret => StoreInv'
<1> SUFFICES ASSUME StoreInv, SetSecret PROVE StoreInv'
  OBVIOUS
<1>1. op # Absent /\ op.step = "set secret" /\ op.kind = "update" /\ op.added = <<>>
  BY DEF SetSecret, At, StoreInv, Progress
<1>2. CASE Fails("keyring") /\ Return /\ UNCHANGED <<secrets, connections>>
  <2>1. /\ op' = Absent /\ failed \subseteq failed' /\ "keyring" \in failed'
        /\ UNCHANGED <<running, connections, pending, file, urls, secrets, nextId>>
    BY <1>2 DEF SetSecret, Fails, Return
  <2> QED BY <1>1, <2>1, ReturnKeeps
<1>3. CASE /\ secrets' = [secrets EXCEPT ![op.id] = op.args.secret]
           /\ connections' = [connections EXCEPT ![op.index].url = op.args.url,
                                                 ![op.index].ssh = op.args.ssh]
           /\ Goto("dir")
           /\ UNCHANGED failed
  <2> DEFINE c == [connections[op.index] EXCEPT !.url = op.args.url, !.ssh = op.args.ssh]
  <2>1. /\ secrets' = [secrets EXCEPT ![op.id] = op.args.secret]
        /\ op' = [op EXCEPT !.step = "dir"]
        /\ UNCHANGED <<running, pending, file, urls, nextId, failed>>
    BY <1>3 DEF SetSecret, Goto
  <2>2. /\ StoreTypes /\ Agreement /\ op \in Op /\ op.prior \in Prior
        /\ op.args \in Args /\ op.args.url \in Urls /\ op.args.ssh \in BOOLEAN
        /\ op.args.secret \in Secrets /\ (~ op.args.ssh => op.args.secret = Absent)
        /\ op.id \in Ids /\ op.index \in DOMAIN connections
        /\ connections[op.index].id = op.id /\ op.prior.stored.id = op.id /\ running
    BY <1>1, Updating
  <2>3. /\ op' \in Op /\ op'.step = "dir" /\ op'.kind = op.kind /\ op'.id = op.id
        /\ op'.index = op.index /\ op'.args = op.args /\ op'.prior = op.prior
        /\ op'.added = op.added
    BY <2>1, <2>2 DEF Op
  <2>4. /\ secrets' \in [Ids -> Secrets] /\ secrets'[op.id] = op.args.secret
        /\ \A i \in Ids : i # op.id => secrets'[i] = secrets[i]
    BY <2>1, <2>2 DEF StoreTypes
  <2>5. c \in Stored /\ c.id = op.id /\ c.url = op.args.url /\ c.ssh = op.args.ssh
    BY <2>2, ListedIds DEF StoreTypes, Stored
  <2>6. connections' = [connections EXCEPT ![op.index] = c]
    BY <1>3, <2>2 DEF StoreTypes
  <2> HIDE DEF c
  <2>7. /\ connections' \in Seq(Stored) /\ DOMAIN connections' = DOMAIN connections
        /\ Len(connections') = Len(connections) /\ connections'[op.index] = c
        /\ \A i \in DOMAIN connections : i # op.index => connections'[i] = connections[i]
        /\ \A i \in DOMAIN connections : connections'[i].id = connections[i].id
    <3>1. connections \in Seq(Stored)
      BY <2>2 DEF StoreTypes
    <3>2. /\ connections' \in Seq(Stored) /\ DOMAIN connections' = DOMAIN connections
          /\ Len(connections') = Len(connections) /\ connections'[op.index] = c
          /\ \A i \in DOMAIN connections : i # op.index => connections'[i] = connections[i]
      BY <2>2, <2>5, <2>6, <3>1
    <3> QED BY <2>2, <2>5, <3>2
  <2>8. StoreTypes'
    BY <1>1, <2>1, <2>2, <2>3, <2>4, <2>7 DEF StoreTypes
  <2>9. Distinct(connections') /\ Known(connections)'
        /\ (file' # Torn => Distinct(file') /\ Known(file)')
    BY <2>1, <2>7 DEF StoreInv, Known, Distinct
  <2>10. Progress'
    BY <1>1, <2>2, <2>3, <2>7 DEF Progress, Deleting
  <2>11. Agreement'
    <3> SUFFICES ASSUME failed \cap {"keyring", "crash"} = {}, running PROVE Agreement'
      BY <2>1 DEF Agreement
    <3>1. /\ \A i \in DOMAIN connections : i # op.index => Agrees(connections[i])
          /\ op.prior.stored.url = op.prior.url
          /\ ~ op.prior.stored.ssh => op.prior.secret = Absent
          /\ urls[op.id] = op.args.url
      BY <1>1, <2>2 DEF Agreement
    <3>2. \A i \in DOMAIN connections' : i # op.index => Agrees(connections[i])'
      <4> SUFFICES ASSUME NEW i \in DOMAIN connections, i # op.index
                   PROVE  Agrees(connections[i])'
        BY <2>7
      <4>1. connections[i].id \in Ids /\ connections[i].id # op.id
        BY <2>2, ListedIds DEF StoreTypes, StoreInv, Distinct
      <4> QED BY <2>1, <2>4, <2>7, <3>1, <4>1 DEF Agrees
    <3>3. Agrees(connections[op.index])'
      BY <2>1, <2>2, <2>3, <2>4, <2>5, <2>7, <3>1 DEF Agrees
    <3>4. \A i \in DOMAIN connections' : Agrees(connections[i])'
      BY <2>3, <3>2, <3>3
    <3> QED BY <1>1, <2>1, <2>3, <3>1, <3>4 DEF Agreement
  <2> QED BY <2>8, <2>9, <2>10, <2>11 DEF StoreInv
<1> QED BY <1>2, <1>3 DEF SetSecret

\* set_url of the URL it had
LEMMA RestoreUrlKeeps == StoreInv /\ RestoreUrl => StoreInv'
<1> SUFFICES ASSUME StoreInv, RestoreUrl PROVE StoreInv'
  OBVIOUS
<1>1. op # Absent /\ op.step = "undo" /\ op.kind = "update"
  BY DEF RestoreUrl, At
<1>2. CASE Fails("keyring") /\ Return /\ UNCHANGED urls
  <2>1. /\ op' = Absent /\ failed \subseteq failed'
        /\ UNCHANGED <<running, connections, pending, file, urls, secrets, nextId>>
    BY <1>2 DEF RestoreUrl, Fails, Return, memoryVars
  <2> QED BY <1>1, <2>1, ReturnKeeps
<1>3. CASE /\ urls' = [urls EXCEPT ![op.id] = op.prior.url]
           /\ Goto("restore secret")
           /\ UNCHANGED failed
  <2>1. /\ urls' = [urls EXCEPT ![op.id] = op.prior.url]
        /\ op' = [op EXCEPT !.step = "restore secret"]
        /\ UNCHANGED <<running, connections, pending, file, secrets, nextId, failed>>
    BY <1>3 DEF RestoreUrl, Goto, memoryVars
  <2>2. /\ StoreTypes /\ Agreement /\ op \in Op /\ op.prior \in Prior /\ op.args \in Args
        /\ op.id \in Ids /\ op.index \in DOMAIN connections
        /\ connections[op.index].id = op.id /\ op.prior.stored.id = op.id
    BY <1>1, Updating
  <2>3. op.prior.url \in Urls /\ op.prior.url # Absent
    BY <2>2, StoreAssumption DEF Prior, Urls
  <2>4. /\ op' \in Op /\ op'.step = "restore secret" /\ op'.kind = op.kind /\ op'.id = op.id
        /\ op'.index = op.index /\ op'.args = op.args /\ op'.prior = op.prior
        /\ op'.added = op.added
    BY <2>1, <2>2 DEF Op
  <2>5. /\ urls' \in [Ids -> Urls \cup {Absent}] /\ urls'[op.id] = op.prior.url
        /\ \A i \in Ids : i # op.id => urls'[i] = urls[i]
        /\ \A i \in Ids : urls[i] # Absent => urls'[i] # Absent
    BY <2>1, <2>2, <2>3 DEF StoreTypes
  <2>6. StoreTypes'
    BY <1>1, <2>1, <2>2, <2>4, <2>5 DEF StoreTypes
  <2>7. Distinct(connections') /\ Known(connections)'
        /\ (file' # Torn => Distinct(file') /\ Known(file)')
    <3>1. /\ connections \in Seq(Stored) /\ Distinct(connections) /\ Known(connections)
          /\ (file = Torn \/ file \in Seq(Stored))
          /\ (file # Torn => Distinct(file) /\ Known(file))
      BY DEF StoreInv, StoreTypes
    <3>2. \A list \in Seq(Stored) : Known(list) => Known(list)'
      BY <2>1, <2>5, ListedIds DEF Known
    <3>3. Known(connections) => Known(connections)'
      BY <2>1, <3>1, <3>2 DEF Known
    <3>4. file # Torn /\ Known(file) => Known(file)'
      BY <2>1, <3>1, <3>2 DEF Known
    <3> QED BY <2>1, <3>1, <3>3, <3>4
  <2>8. Progress'
    <3>1. ~ Deleting'
      BY <2>4 DEF Deleting
    <3> QED BY <1>1, <2>1, <2>2, <2>4, <3>1 DEF Progress
  <2>9. Agreement'
    <3> SUFFICES ASSUME failed \cap {"keyring", "crash"} = {}, running PROVE Agreement'
      BY <2>1 DEF Agreement
    <3>1. /\ \A i \in DOMAIN connections : Agrees(connections[i])
          /\ op.prior.stored.url = op.prior.url
          /\ ~ op.prior.stored.ssh => op.prior.secret = Absent
      BY <1>1, <2>2 DEF Agreement
    <3>2. \A i \in DOMAIN connections : i # op.index => Agrees(connections[i])'
      <4> SUFFICES ASSUME NEW i \in DOMAIN connections, i # op.index
                   PROVE  Agrees(connections[i])'
        OBVIOUS
      <4>1. connections[i].id \in Ids /\ connections[i].id # op.id
        BY <2>2, ListedIds DEF StoreTypes, StoreInv, Distinct
      <4> QED BY <2>1, <2>5, <3>1, <4>1 DEF Agrees
    <3>3. op' # Absent
      BY <2>4, StoreAssumption
    <3> QED BY <1>1, <2>1, <2>4, <2>5, <3>1, <3>2, <3>3 DEF Agreement
  <2> QED BY <2>6, <2>7, <2>8, <2>9 DEF StoreInv
<1> QED BY <1>2, <1>3 DEF RestoreUrl

\* set_ssh_secret or delete_ssh_secret of the secret it had, and its fields
LEMMA RestoreSecretKeeps == StoreInv /\ RestoreSecret => StoreInv'
<1> SUFFICES ASSUME StoreInv, RestoreSecret PROVE StoreInv'
  OBVIOUS
<1>1. op # Absent /\ op.step = "restore secret" /\ op.kind = "update" /\ op' = Absent
  BY DEF RestoreSecret, At, Return, StoreInv, Progress
<1>2. CASE Fails("keyring") /\ UNCHANGED <<secrets, connections>>
  <2>1. /\ failed \subseteq failed' /\ "keyring" \in failed'
        /\ UNCHANGED <<running, connections, pending, file, urls, secrets, nextId>>
    BY <1>2 DEF RestoreSecret, Fails
  <2> QED BY <1>1, <2>1, ReturnKeeps
<1>3. CASE /\ secrets' = [secrets EXCEPT ![op.id] = op.prior.secret]
           /\ connections' = [connections EXCEPT ![op.index] = op.prior.stored]
           /\ UNCHANGED failed
  <2>1. UNCHANGED <<running, pending, file, urls, nextId, failed>>
    BY <1>3 DEF RestoreSecret
  <2>2. /\ StoreTypes /\ Agreement /\ op.prior \in Prior /\ op.id \in Ids
        /\ op.index \in DOMAIN connections
        /\ connections[op.index].id = op.id /\ op.prior.stored.id = op.id /\ running
    BY <1>1, Updating
  <2>3. op.prior.stored \in Stored /\ op.prior.secret \in Secrets
    BY <2>2 DEF Prior
  <2>4. /\ secrets' \in [Ids -> Secrets] /\ secrets'[op.id] = op.prior.secret
        /\ \A i \in Ids : i # op.id => secrets'[i] = secrets[i]
    BY <1>3, <2>2, <2>3 DEF StoreTypes
  <2>5. /\ connections' \in Seq(Stored) /\ DOMAIN connections' = DOMAIN connections
        /\ connections'[op.index] = op.prior.stored
        /\ \A i \in DOMAIN connections : i # op.index => connections'[i] = connections[i]
        /\ \A i \in DOMAIN connections : connections'[i].id = connections[i].id
    <3>1. connections \in Seq(Stored)
      BY <2>2 DEF StoreTypes
    <3>2. /\ connections' \in Seq(Stored) /\ DOMAIN connections' = DOMAIN connections
          /\ connections'[op.index] = op.prior.stored
          /\ \A i \in DOMAIN connections : i # op.index => connections'[i] = connections[i]
      BY <1>3, <2>2, <2>3, <3>1
    <3> QED BY <2>2, <3>2
  <2>6. StoreTypes'
    BY <1>1, <2>1, <2>2, <2>4, <2>5 DEF StoreTypes
  <2>7. Distinct(connections') /\ Known(connections)'
        /\ (file' # Torn => Distinct(file') /\ Known(file)')
    BY <2>1, <2>5 DEF StoreInv, Known, Distinct
  <2>8. Progress'
    BY <1>1 DEF Progress
  <2>9. Agreement'
    <3> SUFFICES ASSUME failed \cap {"keyring", "crash"} = {}, running PROVE Agreement'
      BY <2>1 DEF Agreement
    <3>1. /\ \A i \in DOMAIN connections : i # op.index => Agrees(connections[i])
          /\ op.prior.stored.url = op.prior.url
          /\ ~ op.prior.stored.ssh => op.prior.secret = Absent
          /\ urls[op.id] = op.prior.url
      BY <1>1, <2>2 DEF Agreement
    <3>2. \A i \in DOMAIN connections' : i # op.index => Agrees(connections[i])'
      <4> SUFFICES ASSUME NEW i \in DOMAIN connections, i # op.index
                   PROVE  Agrees(connections[i])'
        BY <2>5
      <4>1. connections[i].id \in Ids /\ connections[i].id # op.id
        BY <2>2, ListedIds DEF StoreTypes, StoreInv, Distinct
      <4> QED BY <2>1, <2>4, <2>5, <3>1, <4>1 DEF Agrees
    <3>3. \A i \in DOMAIN connections' : i = op.index => Agrees(connections[i])'
      BY <2>1, <2>2, <2>4, <2>5, <3>1 DEF Agrees
    <3>4. \A i \in DOMAIN connections' : Agrees(connections[i])'
      BY <3>2, <3>3
    <3> QED BY <1>1, <3>4 DEF Agreement
  <2> QED BY <2>6, <2>7, <2>8, <2>9 DEF StoreInv
<1> QED BY <1>2, <1>3 DEF RestoreSecret

\* ConnectionArgs::into_stored: the fresh id is in no list.
LEMMA IntoStoredKeeps == StoreInv /\ IntoStored => StoreInv'
<1> SUFFICES ASSUME StoreInv, IntoStored PROVE StoreInv'
  OBVIOUS
<1> DEFINE a == Head(pending)
           c == [id |-> nextId, url |-> a.url, ssh |-> a.ssh]
<1>1. /\ op # Absent /\ op.step = "drain" /\ pending # <<>>
      /\ nextId' = nextId + 1
      /\ UNCHANGED <<running, connections, file>>
      /\ urls' = urls \/ urls' = [urls EXCEPT ![nextId] = a.url]
  BY DEF IntoStored, At
<1>2. /\ StoreTypes /\ Progress /\ Agreement /\ running /\ op \in Op /\ pending \in Seq(Args)
      /\ Distinct(connections) /\ Known(connections) /\ connections \in Seq(Stored)
      /\ nextId \in Nat \ {0} /\ nextId + Len(pending) <= MaxIds + 1
      /\ file # Torn => file \in Seq(Stored) /\ Distinct(file) /\ Known(file)
      /\ ~ Deleting
  BY <1>1 DEF StoreInv, StoreTypes, Deleting
<1>3. /\ a \in Args /\ Tail(pending) \in Seq(Args) /\ Len(Tail(pending)) = Len(pending) - 1
      /\ Len(pending) \in Nat \ {0}
  BY <1>1, <1>2
<1> HIDE DEF a
<1>4. nextId \in Ids
  BY <1>2, <1>3, StoreAssumption DEF Ids
<1>5. /\ a \in [url : {a.url}, ssh : BOOLEAN, secret : {a.secret}]
      /\ a.url # Absent /\ (~ a.ssh => a.secret = Absent)
      /\ a.url \in Urls /\ a.secret \in Secrets
  BY <1>3, StoreAssumption DEF Urls, Secrets
<1>6. c \in Stored /\ c.id = nextId /\ c.url = a.url /\ c.ssh = a.ssh
  BY <1>4, <1>5 DEF Stored
<1> HIDE DEF c
<1>7. /\ urls' \in [Ids -> Urls \cup {Absent}]
      /\ \A i \in Ids : i < nextId => urls'[i] = urls[i]
  BY <1>1, <1>2, <1>4, <1>5 DEF StoreTypes
<1>8. \A list \in Seq(Stored) : Known(list) =>
        \A i \in DOMAIN list : list[i].id < nextId' /\ urls'[list[i].id] # Absent
  <2> SUFFICES ASSUME NEW list \in Seq(Stored), Known(list), NEW i \in DOMAIN list
               PROVE  list[i].id < nextId' /\ urls'[list[i].id] # Absent
    OBVIOUS
  <2>1. list[i].id \in Ids /\ list[i].id < nextId /\ urls[list[i].id] # Absent
    BY ListedIds DEF Known
  <2>2. list[i].id \in Nat
    BY <2>1, StoreAssumption DEF Ids
  <2> QED BY <1>1, <1>2, <1>7, <2>1, <2>2
<1>9. Distinct(connections') /\ Known(connections)'
      /\ (file' # Torn => Distinct(file') /\ Known(file)')
  BY <1>1, <1>2, <1>8 DEF Known
<1>10. /\ op.kind = "update" =>
           /\ op.args \in Args /\ op.prior \in Prior /\ op.prior.stored.id = op.id
           /\ op.index \in DOMAIN connections /\ connections[op.index].id = op.id
       /\ op.kind = "remove" =>
           /\ op.prior \in Stored /\ op.prior.id = op.id /\ op.id < nextId
           /\ op.index \in 1..Len(connections) + 1 /\ Without(connections, op.id)
           /\ op.id \in Ids /\ op.id < nextId' /\ urls'[op.id] # Absent
  <2>1. op.kind = "remove" =>
          /\ op.prior \in Stored /\ op.prior.id = op.id /\ op.id < nextId
          /\ urls[op.id] # Absent
    BY <1>1, <1>2 DEF Progress
  <2>2. op.kind = "remove" => op.id \in Ids /\ op.id \in Nat
    BY <2>1, StoreAssumption DEF Stored, Ids
  <2>3. op.kind = "remove" => op.id < nextId' /\ urls'[op.id] # Absent
    BY <1>1, <1>2, <1>7, <2>1, <2>2
  <2> QED BY <1>1, <1>2, <2>2, <2>3 DEF Progress
<1>11. CASE /\ Fails("keyring") /\ pending' = <<>>
            /\ op' = [op EXCEPT !.step = "undo", !.added = <<>>]
            /\ UNCHANGED secrets
  <2>1. /\ op' \in Op /\ op'.step = "undo" /\ op'.kind = op.kind /\ op'.id = op.id
        /\ op'.index = op.index /\ op'.args = op.args /\ op'.prior = op.prior
        /\ op'.added = <<>>
    BY <1>2, <1>11, EmptyList DEF Op
  <2>2. StoreTypes'
    <3>1. pending' \in Seq(Args) /\ nextId' \in Nat \ {0} /\ nextId' + Len(pending') <= MaxIds + 1
      BY <1>1, <1>2, <1>3, <1>11, StoreAssumption
    <3> QED BY <1>1, <1>2, <1>7, <1>11, <2>1, <3>1 DEF StoreTypes
  <2>3. Progress'
    BY <1>1, <1>10, <2>1 DEF Progress, Deleting
  <2>4. Agreement'
    BY <1>11 DEF Fails, Agreement
  <2> QED BY <1>9, <2>2, <2>3, <2>4 DEF StoreInv
<1>12. CASE /\ urls' = [urls EXCEPT ![nextId] = a.url]
            /\ secrets' = [secrets EXCEPT ![nextId] = a.secret]
            /\ pending' = Tail(pending)
            /\ op' = [op EXCEPT !.added = Append(@, c)]
            /\ UNCHANGED failed
  <2>1. /\ op' \in Op /\ op'.step = "drain" /\ op'.kind = op.kind /\ op'.id = op.id
        /\ op'.index = op.index /\ op'.args = op.args /\ op'.prior = op.prior
        /\ op'.added = Append(op.added, c) /\ op.added \in Seq(Stored)
    <3> DEFINE added == Append(op.added, c)
    <3>1. op.added \in Seq(Stored)
      BY <1>2 DEF Op
    <3>2. added \in Seq(Stored)
      BY <1>6, <3>1
    <3>3. op' = [op EXCEPT !.added = added]
      BY <1>12
    <3> HIDE DEF added
    <3>4. /\ op' \in Op /\ op'.step = "drain" /\ op'.kind = op.kind /\ op'.id = op.id
          /\ op'.index = op.index /\ op'.args = op.args /\ op'.prior = op.prior
          /\ op'.added = added
      BY <1>1, <1>2, <3>2, <3>3 DEF Op
    <3> QED BY <3>1, <3>4 DEF added
  <2>2. /\ secrets' \in [Ids -> Secrets] /\ secrets'[nextId] = a.secret
        /\ urls'[nextId] = a.url
        /\ \A i \in Ids : i < nextId => secrets'[i] = secrets[i]
    BY <1>2, <1>4, <1>5, <1>12 DEF StoreTypes
  <2>3. StoreTypes'
    <3>1. pending' \in Seq(Args) /\ nextId' \in Nat \ {0} /\ nextId' + Len(pending') <= MaxIds + 1
      BY <1>1, <1>2, <1>3, <1>12, StoreAssumption
    <3> QED BY <1>1, <1>2, <1>7, <2>1, <2>2, <3>1 DEF StoreTypes
  <2>4. /\ Distinct(op.added) /\ Known(op.added) /\ Apart(connections, op.added)
        /\ op.kind = "remove" => Without(op.added, op.id)
    BY <1>1, <1>2 DEF Progress
  <2>5. /\ DOMAIN op'.added = 1..Len(op.added) + 1 /\ Len(op.added) \in Nat
        /\ DOMAIN op.added = 1..Len(op.added)
        /\ op'.added[Len(op.added) + 1] = c
        /\ \A i \in DOMAIN op.added : op'.added[i] = op.added[i]
    BY <1>6, <2>1
  <2>6. \A i \in DOMAIN op'.added :
          \/ i \in DOMAIN op.added /\ op'.added[i] = op.added[i]
          \/ i = Len(op.added) + 1 /\ op'.added[i] = c
    BY <2>5
  <2>7. \A i \in DOMAIN op.added :
          op.added[i].id \in Ids /\ op.added[i].id < nextId /\ op.added[i].id # nextId
    <3> SUFFICES ASSUME NEW i \in DOMAIN op.added
                 PROVE  op.added[i].id \in Ids /\ op.added[i].id < nextId /\ op.added[i].id # nextId
      OBVIOUS
    <3>1. op.added[i].id \in Ids /\ op.added[i].id < nextId
      BY <2>1, <2>4, ListedIds DEF Known
    <3>2. op.added[i].id \in Nat
      BY <3>1, StoreAssumption DEF Ids
    <3> QED BY <1>2, <3>1, <3>2
  <2>8. Distinct(op'.added)
    <3> SUFFICES ASSUME NEW i \in DOMAIN op'.added, NEW j \in DOMAIN op'.added, i # j
                 PROVE  op'.added[i].id # op'.added[j].id
      BY DEF Distinct
    <3> QED BY <1>6, <2>4, <2>6, <2>7 DEF Distinct
  <2>9. Known(op.added)'
    <3> SUFFICES ASSUME NEW i \in DOMAIN op'.added
                 PROVE  op'.added[i].id < nextId' /\ urls'[op'.added[i].id] # Absent
      BY DEF Known
    <3>1. CASE i \in DOMAIN op.added
      BY <1>8, <2>1, <2>4, <2>5, <3>1
    <3>2. CASE op'.added[i] = c
      BY <1>1, <1>2, <1>5, <1>6, <2>2, <3>2
    <3> QED BY <2>6, <3>1, <3>2
  <2>10. Apart(connections', op'.added)
    <3> SUFFICES ASSUME NEW i \in DOMAIN connections, NEW j \in DOMAIN op'.added
                 PROVE  connections[i].id # op'.added[j].id
      BY <1>1 DEF Apart
    <3>1. connections[i].id \in Ids /\ connections[i].id < nextId
      BY <1>2, ListedIds DEF Known
    <3>2. connections[i].id # nextId
      BY <1>2, <3>1, StoreAssumption DEF Ids
    <3> QED BY <1>6, <2>4, <2>6, <3>2 DEF Apart
  <2>11. op.kind = "remove" => Without(op'.added, op.id)
    <3> SUFFICES ASSUME op.kind = "remove", NEW j \in DOMAIN op'.added
                 PROVE  op'.added[j].id # op.id
      BY DEF Without
    <3>1. op.id # nextId
      BY <1>2, <1>10, StoreAssumption DEF Ids
    <3> QED BY <1>6, <2>4, <2>6, <3>1 DEF Without
  <2>12. Progress'
    <3>1. ~ Deleting'
      BY <2>1 DEF Deleting
    <3> QED BY <1>1, <1>10, <2>1, <2>8, <2>9, <2>10, <2>11, <3>1 DEF Progress
  <2>13. Agreement'
    <3> SUFFICES ASSUME failed \cap {"keyring", "crash"} = {} PROVE Agreement'
      BY <1>12 DEF Agreement
    <3>1. /\ \A i \in DOMAIN connections : Agrees(connections[i])
          /\ op.kind = "update" =>
               /\ op.prior.stored.url = op.prior.url
               /\ ~ op.prior.stored.ssh => op.prior.secret = Absent
          /\ op.kind = "remove" => Agrees(op.prior)
          /\ \A i \in DOMAIN op.added : Agrees(op.added[i])
      BY <1>1, <1>2 DEF Agreement
    <3>2. ASSUME NEW s \in Stored, s.id \in Ids, s.id < nextId, Agrees(s)
          PROVE  urls'[s.id] = s.url /\ (~ s.ssh => secrets'[s.id] = Absent)
      BY <1>7, <2>2, <3>2 DEF Agrees
    <3>3. \A i \in DOMAIN connections' : Agrees(connections[i])'
      BY <1>1, <1>2, <3>1, <3>2, ListedIds DEF Agrees, Known
    <3>4. op.kind = "remove" => Agrees(op.prior)'
      BY <1>10, <2>1, <3>1, <3>2 DEF Agrees
    <3>5. \A i \in DOMAIN op'.added : Agrees(op.added[i])'
      <4> SUFFICES ASSUME NEW i \in DOMAIN op'.added
                   PROVE  LET s == op'.added[i]
                          IN  urls'[s.id] = s.url /\ (~ s.ssh => secrets'[s.id] = Absent)
        BY DEF Agrees
      <4>1. CASE i \in DOMAIN op.added /\ op'.added[i] = op.added[i]
        BY <2>1, <2>7, <3>1, <3>2, <4>1, ListedIds
      <4>2. CASE op'.added[i] = c
        BY <1>5, <1>6, <2>2, <4>2
      <4> QED BY <2>6, <4>1, <4>2
    <3> QED BY <2>1, <3>1, <3>3, <3>4, <3>5 DEF Agreement
  <2> QED BY <1>9, <2>3, <2>12, <2>13 DEF StoreInv
<1> QED BY <1>11, <1>12 DEF IntoStored, a, c

\* Vec::extend with what was pending
LEMMA ExtendKeeps == StoreInv /\ Extend => StoreInv'
<1> SUFFICES ASSUME StoreInv, Extend PROVE StoreInv'
  OBVIOUS
<1>1. /\ op # Absent /\ op.step = "drain"
      /\ connections' = connections \o op.added
      /\ op' = [op EXCEPT !.step = "write"]
      /\ UNCHANGED <<running, pending, file, urls, secrets, nextId, failed>>
  BY DEF Extend, At, Goto, keyringVars
<1>2. /\ StoreTypes /\ Progress /\ Agreement /\ running /\ op \in Op
      /\ connections \in Seq(Stored) /\ Distinct(connections) /\ Known(connections)
      /\ Distinct(op.added) /\ Known(op.added) /\ Apart(connections, op.added)
      /\ op.kind = "remove" => Without(op.added, op.id)
      /\ ~ Deleting
  BY <1>1 DEF StoreInv, StoreTypes, Progress, Deleting
<1>3. /\ op' \in Op /\ op'.step = "write" /\ op'.kind = op.kind /\ op'.id = op.id
      /\ op'.index = op.index /\ op'.args = op.args /\ op'.prior = op.prior
      /\ op.added \in Seq(Stored)
  BY <1>1, <1>2 DEF Op
<1>4. /\ connections' \in Seq(Stored) /\ Len(connections') = Len(connections) + Len(op.added)
      /\ \A k \in DOMAIN connections' : connections'[k] =
           IF k <= Len(connections) THEN connections[k] ELSE op.added[k - Len(connections)]
  BY <1>1, <1>2, <1>3, ConcatEffect
<1>5. /\ Len(connections) \in Nat /\ Len(op.added) \in Nat
      /\ DOMAIN connections = 1..Len(connections) /\ DOMAIN op.added = 1..Len(op.added)
      /\ DOMAIN connections' = 1..Len(connections) + Len(op.added)
  BY <1>2, <1>3, <1>4
<1>6. \A k \in DOMAIN connections' :
        \/ k \in DOMAIN connections /\ connections'[k] = connections[k]
        \/ /\ k - Len(connections) \in DOMAIN op.added
           /\ connections'[k] = op.added[k - Len(connections)]
  BY <1>4, <1>5
<1>7. /\ DOMAIN connections \subseteq DOMAIN connections'
      /\ \A k \in DOMAIN connections : connections'[k] = connections[k]
  BY <1>4, <1>5
<1>8. Distinct(connections')
  <2> SUFFICES ASSUME NEW i \in DOMAIN connections', NEW j \in DOMAIN connections', i # j
               PROVE  connections'[i].id # connections'[j].id
    BY DEF Distinct
  <2>1. CASE i \in DOMAIN connections /\ j \in DOMAIN connections
    BY <1>2, <1>7, <2>1 DEF Distinct
  <2>2. CASE i \notin DOMAIN connections /\ j \in DOMAIN connections
    BY <1>2, <1>6, <1>7, <2>2 DEF Apart
  <2>3. CASE i \in DOMAIN connections /\ j \notin DOMAIN connections
    BY <1>2, <1>6, <1>7, <2>3 DEF Apart
  <2>4. CASE i \notin DOMAIN connections /\ j \notin DOMAIN connections
    <3>1. i - Len(connections) # j - Len(connections)
      BY <1>5
    <3> QED BY <1>2, <1>6, <2>4, <3>1 DEF Distinct
  <2> QED BY <2>1, <2>2, <2>3, <2>4
<1>9. Known(connections)'
  BY <1>1, <1>2, <1>6 DEF Known
<1>10. file' # Torn => Distinct(file') /\ Known(file)'
  BY <1>1 DEF StoreInv, Known
<1>11. StoreTypes'
  BY <1>1, <1>2, <1>3, <1>4 DEF StoreTypes
<1>12. Progress'
  <2>1. op.kind = "update" =>
          /\ op.args \in Args /\ op.prior \in Prior /\ op.prior.stored.id = op.id
          /\ op.index \in DOMAIN connections' /\ connections'[op.index].id = op.id
    BY <1>1, <1>2, <1>7 DEF Progress
  <2>2. op.kind = "remove" =>
          /\ op.prior \in Stored /\ op.prior.id = op.id /\ op.id < nextId
          /\ op.index \in 1..Len(connections) + 1 /\ Without(connections, op.id)
          /\ urls[op.id] # Absent
    BY <1>1, <1>2 DEF Progress
  <2>3. op.kind = "remove" => op.index \in 1..Len(connections') + 1
    BY <1>4, <1>5, <2>2
  <2>4. op.kind = "remove" => Without(connections', op.id)
    BY <1>2, <1>6, <2>2 DEF Without
  <2> QED BY <1>1, <1>3, <2>1, <2>2, <2>3, <2>4 DEF Progress, Deleting
<1>13. Agreement'
  <2> SUFFICES ASSUME failed \cap {"keyring", "crash"} = {} PROVE Agreement'
    BY <1>1 DEF Agreement
  <2>1. /\ \A i \in DOMAIN connections : Agrees(connections[i])
        /\ op.kind = "update" =>
             /\ op.prior.stored.url = op.prior.url
             /\ ~ op.prior.stored.ssh => op.prior.secret = Absent
        /\ op.kind = "remove" => Agrees(op.prior)
        /\ \A i \in DOMAIN op.added : Agrees(op.added[i])
    BY <1>1, <1>2 DEF Agreement
  <2>2. \A i \in DOMAIN connections' : Agrees(connections[i])'
    BY <1>1, <1>6, <2>1 DEF Agrees
  <2>3. op.kind = "remove" => Agrees(op.prior)'
    BY <1>1, <1>3, <2>1 DEF Agrees
  <2> QED BY <1>3, <2>1, <2>2, <2>3 DEF Agreement
<1> QED BY <1>8, <1>9, <1>10, <1>11, <1>12, <1>13 DEF StoreInv

\* add's Vec::pop
LEMMA UndoAddKeeps == StoreInv /\ UndoAdd => StoreInv'
<1> SUFFICES ASSUME StoreInv, UndoAdd PROVE StoreInv'
  OBVIOUS
<1>1. /\ op # Absent /\ op.step = "undo" /\ op.kind = "add" /\ op' = Absent
      /\ connections' = IF connections = <<>> THEN <<>> ELSE Front(connections)
      /\ UNCHANGED <<running, pending, file, urls, secrets, nextId, failed>>
  BY DEF UndoAdd, At, Return, keyringVars
<1>2. /\ StoreTypes /\ Agreement /\ running /\ connections \in Seq(Stored)
      /\ Distinct(connections) /\ Known(connections)
  BY <1>1 DEF StoreInv, StoreTypes
<1>3. /\ connections' \in Seq(Stored)
      /\ \A k \in DOMAIN connections' :
           k \in DOMAIN connections /\ connections'[k] = connections[k]
  BY <1>1, <1>2, FrontEffect, EmptyList
<1>4. StoreTypes'
  BY <1>1, <1>2, <1>3 DEF StoreTypes
<1>5. Distinct(connections') /\ Known(connections)'
      /\ (file' # Torn => Distinct(file') /\ Known(file)')
  BY <1>1, <1>2, <1>3 DEF StoreInv, Known, Distinct
<1>6. Progress'
  BY <1>1 DEF Progress
<1>7. Agreement'
  <2> SUFFICES ASSUME failed \cap {"keyring", "crash"} = {} PROVE Agreement'
    BY <1>1 DEF Agreement
  <2>1. \A i \in DOMAIN connections : Agrees(connections[i])
    BY <1>1, <1>2 DEF Agreement
  <2>2. \A i \in DOMAIN connections' : Agrees(connections[i])'
    BY <1>1, <1>3, <2>1 DEF Agrees
  <2> QED BY <1>1, <2>2 DEF Agreement
<1> QED BY <1>4, <1>5, <1>6, <1>7 DEF StoreInv

\* remove's Vec::insert
LEMMA UndoRemoveKeeps == StoreInv /\ UndoRemove => StoreInv'
<1> SUFFICES ASSUME StoreInv, UndoRemove PROVE StoreInv'
  OBVIOUS
<1>1. /\ op # Absent /\ op.step = "undo" /\ op.kind = "remove" /\ op' = Absent
      /\ connections' = InsertAt(connections, op.index, op.prior)
      /\ UNCHANGED <<running, pending, file, urls, secrets, nextId, failed>>
  BY DEF UndoRemove, At, Return, keyringVars
<1>2. /\ StoreTypes /\ Agreement /\ running /\ connections \in Seq(Stored)
      /\ Distinct(connections) /\ Known(connections)
      /\ op.prior \in Stored /\ op.prior.id = op.id /\ op.id < nextId /\ urls[op.id] # Absent
      /\ op.index \in 1..Len(connections) + 1 /\ Without(connections, op.id)
  BY <1>1 DEF StoreInv, StoreTypes, Progress, Deleting
<1>3. Len(connections) \in Nat /\ DOMAIN connections = 1..Len(connections) /\ op.index \in Nat
  BY <1>2
<1>4. /\ connections' \in Seq(Stored) /\ Len(connections') = Len(connections) + 1
      /\ \A k \in DOMAIN connections' : connections'[k] =
           IF k < op.index THEN connections[k]
           ELSE IF k = op.index THEN op.prior ELSE connections[k - 1]
  BY <1>1, <1>2, InsertAtEffect
<1>5. \A k \in DOMAIN connections' :
        \/ k = op.index /\ connections'[k] = op.prior
        \/ /\ k # op.index
           /\ \E j \in DOMAIN connections :
                connections'[k] = connections[j] /\ j = IF k < op.index THEN k ELSE k - 1
  <2> SUFFICES ASSUME NEW k \in DOMAIN connections', k # op.index
               PROVE  \E j \in DOMAIN connections :
                        connections'[k] = connections[j] /\ j = IF k < op.index THEN k ELSE k - 1
    BY <1>3, <1>4
  <2>1. k \in 1..Len(connections) + 1
    BY <1>3, <1>4
  <2>2. CASE k < op.index
    BY <1>2, <1>3, <1>4, <2>1, <2>2
  <2>3. CASE k > op.index
    BY <1>2, <1>3, <1>4, <2>1, <2>3
  <2> QED BY <1>3, <2>1, <2>2, <2>3
<1>6. DOMAIN connections' \subseteq Nat
  BY <1>4
<1>7. StoreTypes'
  BY <1>1, <1>2, <1>4 DEF StoreTypes
<1>8. Distinct(connections')
  <2> SUFFICES ASSUME NEW i \in DOMAIN connections', NEW j \in DOMAIN connections', i # j
               PROVE  connections'[i].id # connections'[j].id
    BY DEF Distinct
  <2>1. CASE i # op.index /\ j # op.index
    <3>1. PICK k \in DOMAIN connections :
            connections'[i] = connections[k] /\ k = IF i < op.index THEN i ELSE i - 1
      BY <1>5, <2>1
    <3>2. PICK l \in DOMAIN connections :
            connections'[j] = connections[l] /\ l = IF j < op.index THEN j ELSE j - 1
      BY <1>5, <2>1
    <3>3. k # l
      BY <1>3, <1>6, <2>1, <3>1, <3>2
    <3> QED BY <1>2, <3>1, <3>2, <3>3 DEF Distinct
  <2>2. CASE i = op.index
    BY <1>2, <1>5, <2>2 DEF Without
  <2>3. CASE j = op.index
    BY <1>2, <1>5, <2>3 DEF Without
  <2> QED BY <2>1, <2>2, <2>3
<1>9. Known(connections)' /\ (file' # Torn => Distinct(file') /\ Known(file)')
  BY <1>1, <1>2, <1>5 DEF StoreInv, Known
<1>10. Progress'
  BY <1>1 DEF Progress
<1>11. Agreement'
  <2> SUFFICES ASSUME failed \cap {"keyring", "crash"} = {} PROVE Agreement'
    BY <1>1 DEF Agreement
  <2>1. (\A i \in DOMAIN connections : Agrees(connections[i])) /\ Agrees(op.prior)
    BY <1>1, <1>2 DEF Agreement, Deleting
  <2>2. \A i \in DOMAIN connections' : Agrees(connections[i])'
    BY <1>1, <1>5, <2>1 DEF Agrees
  <2> QED BY <1>1, <2>2 DEF Agreement
<1> QED BY <1>7, <1>8, <1>9, <1>10, <1>11 DEF StoreInv

\* delete_url: the list and the file are without the connection by now.
LEMMA DeleteUrlKeeps == StoreInv /\ DeleteUrl => StoreInv'
<1> SUFFICES ASSUME StoreInv, DeleteUrl PROVE StoreInv'
  OBVIOUS
<1>1. op # Absent /\ op.step = "delete url"
  BY DEF DeleteUrl, At
<1>2. CASE Fails("keyring") /\ Return /\ UNCHANGED urls
  <2>1. /\ op' = Absent /\ failed \subseteq failed'
        /\ UNCHANGED <<running, connections, pending, file, urls, secrets, nextId>>
    BY <1>2 DEF DeleteUrl, Fails, Return, memoryVars
  <2> QED BY <1>1, <2>1, ReturnKeeps
<1>3. CASE /\ urls' = [urls EXCEPT ![op.id] = Absent]
           /\ Goto("delete secret")
           /\ UNCHANGED failed
  <2>1. /\ op' = [op EXCEPT !.step = "delete secret"]
        /\ UNCHANGED <<running, connections, pending, file, secrets, nextId, failed>>
    BY <1>3 DEF DeleteUrl, Goto, memoryVars
  <2>2. /\ StoreTypes /\ Agreement /\ op \in Op /\ running
        /\ connections \in Seq(Stored) /\ Distinct(connections) /\ Known(connections)
    BY <1>1 DEF StoreInv, StoreTypes
  <2>3. /\ op.kind = "remove" /\ op.prior \in Stored /\ op.prior.id = op.id /\ op.id < nextId
        /\ op.index \in 1..Len(connections) + 1 /\ Without(connections, op.id)
        /\ file = connections
    BY <1>1 DEF StoreInv, Progress, Deleting
  <2>4. op.id \in Ids
    BY <2>3 DEF Stored
  <2>5. /\ op' \in Op /\ op'.step = "delete secret" /\ op'.kind = op.kind /\ op'.id = op.id
        /\ op'.index = op.index /\ op'.args = op.args /\ op'.prior = op.prior
    BY <2>1, <2>2 DEF Op
  <2>6. /\ urls' \in [Ids -> Urls \cup {Absent}]
        /\ \A i \in Ids : i # op.id => urls'[i] = urls[i]
    BY <1>3, <2>2, <2>4 DEF StoreTypes
  <2>7. \A i \in DOMAIN connections :
          connections[i].id \in Ids /\ urls'[connections[i].id] = urls[connections[i].id]
    BY <2>2, <2>3, <2>6, ListedIds DEF Without
  <2>8. StoreTypes'
    BY <2>1, <2>2, <2>5, <2>6 DEF StoreTypes
  <2>9. Known(connections)' /\ file' = connections'
    BY <2>1, <2>2, <2>3, <2>7 DEF Known
  <2>10. Distinct(connections') /\ (file' # Torn => Distinct(file') /\ Known(file)')
    BY <2>1, <2>2, <2>9 DEF Known
  <2>11. Progress'
    BY <2>1, <2>3, <2>5 DEF Progress, Deleting
  <2>12. Agreement'
    <3> SUFFICES ASSUME failed \cap {"keyring", "crash"} = {} PROVE Agreement'
      BY <2>1 DEF Agreement
    <3>1. \A i \in DOMAIN connections : Agrees(connections[i])
      BY <1>1, <2>2 DEF Agreement
    <3>2. \A i \in DOMAIN connections' : Agrees(connections[i])'
      BY <2>1, <2>7, <3>1 DEF Agrees
    <3> QED BY <2>3, <2>5, <3>2 DEF Agreement, Deleting
  <2> QED BY <2>8, <2>9, <2>10, <2>11, <2>12 DEF StoreInv
<1> QED BY <1>2, <1>3 DEF DeleteUrl

\* delete_ssh_secret
LEMMA DeleteSecretKeeps == StoreInv /\ DeleteSecret => StoreInv'
<1> SUFFICES ASSUME StoreInv, DeleteSecret PROVE StoreInv'
  OBVIOUS
<1>1. /\ op # Absent /\ op.step = "delete secret" /\ op' = Absent
      /\ failed \subseteq failed'
      /\ secrets' = secrets \/ secrets' = [secrets EXCEPT ![op.id] = Absent]
      /\ UNCHANGED <<running, connections, pending, file, urls, nextId>>
  BY DEF DeleteSecret, At, Return, Fails, memoryVars
<1>2. StoreTypes /\ Agreement /\ running /\ connections \in Seq(Stored)
  BY <1>1 DEF StoreInv, StoreTypes
<1>3. /\ secrets' \in [Ids -> Secrets]
      /\ \A i \in Ids : secrets[i] = Absent => secrets'[i] = Absent
  BY <1>1, <1>2 DEF StoreTypes, Secrets
<1>4. StoreTypes'
  BY <1>1, <1>2, <1>3 DEF StoreTypes
<1>5. Distinct(connections') /\ Known(connections)'
      /\ (file' # Torn => Distinct(file') /\ Known(file)')
  BY <1>1 DEF StoreInv, Known
<1>6. Progress'
  BY <1>1 DEF Progress
<1>7. Agreement'
  <2> SUFFICES ASSUME failed' \cap {"keyring", "crash"} = {} PROVE Agreement'
    BY DEF Agreement
  <2>1. \A i \in DOMAIN connections : Agrees(connections[i])
    BY <1>1, <1>2 DEF Agreement
  <2>2. \A i \in DOMAIN connections' : Agrees(connections[i])'
    BY <1>1, <1>2, <1>3, <2>1, ListedIds DEF Agrees
  <2> QED BY <1>1, <2>2 DEF Agreement
<1> QED BY <1>4, <1>5, <1>6, <1>7 DEF StoreInv

\* The process ends: the lists go, a file being filled is cut short.
LEMMA CrashKeeps == StoreInv /\ Crash => StoreInv'
<1> SUFFICES ASSUME StoreInv, Crash PROVE StoreInv'
  OBVIOUS
<1>1. /\ running' = FALSE /\ op' = Absent /\ "crash" \in failed'
      /\ connections' = <<>> /\ pending' = <<>>
      /\ file' = file \/ file' \in CutShort(connections)
      /\ UNCHANGED <<urls, secrets, nextId>>
  BY DEF Crash, Fails, Return, keyringVars
<1>2. /\ StoreTypes /\ connections \in Seq(Stored) /\ Distinct(connections) /\ Known(connections)
      /\ file = Torn \/ file \in Seq(Stored)
      /\ file # Torn => Distinct(file) /\ Known(file)
  BY DEF StoreInv, StoreTypes
<1>3. /\ file' = Torn \/ file' \in Seq(Stored)
      /\ file' # Torn => Distinct(file') /\ Known(file')
  <2>1. CASE file' = file
    BY <1>2, <2>1
  <2>2. CASE file' \in CutShort(connections)
    <3>1. file' = Torn \/ (/\ file' \in Seq(Stored)
                           /\ \A k \in DOMAIN file' :
                                k \in DOMAIN connections /\ file'[k] = connections[k])
      BY <1>2, <2>2, CutShortEffect
    <3> QED BY <1>2, <3>1, PartOfList
  <2> QED BY <1>1, <2>1, <2>2
<1>4. Known(file') => Known(file)'
  BY <1>1 DEF Known
<1>5. Distinct(connections') /\ Known(connections)'
  BY <1>1, EmptyList DEF Distinct, Known
<1>6. StoreTypes'
  <2>1. pending' \in Seq(Args) /\ Len(pending') = 0 /\ connections' \in Seq(Stored)
    BY <1>1, EmptyList
  <2>2. nextId' \in Nat \ {0} /\ nextId' + Len(pending') <= MaxIds + 1
    BY <1>1, <1>2, <2>1, StoreAssumption DEF StoreTypes
  <2> QED BY <1>1, <1>2, <1>3, <2>1, <2>2 DEF StoreTypes
<1>7. Progress' /\ Agreement'
  BY <1>1 DEF Progress, Agreement
<1> QED BY <1>3, <1>4, <1>5, <1>6, <1>7 DEF StoreInv

\* ConnectionStore::load
LEMMA LoadKeeps == StoreInv /\ Load => StoreInv'
<1> SUFFICES ASSUME StoreInv, Load PROVE StoreInv'
  OBVIOUS
<1>1. /\ ~ running /\ file # Torn /\ running' = TRUE /\ connections' = file
      /\ UNCHANGED <<pending, file, urls, secrets, nextId, op, failed>>
  BY DEF Load, keyringVars
<1>2. StoreTypes /\ op = Absent /\ "crash" \in failed
  BY <1>1 DEF StoreInv, StoreTypes
<1>3. StoreTypes'
  BY <1>1, <1>2 DEF StoreTypes
<1>4. Distinct(connections') /\ Known(connections)' /\ Distinct(file') /\ Known(file)'
  BY <1>1 DEF StoreInv, Known
<1>5. Progress' /\ Agreement'
  BY <1>1, <1>2 DEF Progress, Agreement
<1> QED BY <1>3, <1>4, <1>5 DEF StoreInv

-----------------------------------------------------------------------------
(* Theorems.                                                                 *)

\* Every step of the store, of its failures and of the process keeps it.
LEMMA StoreInvNext == StoreInv /\ [StoreNext]_storeVars => StoreInv'
<1> SUFFICES ASSUME StoreInv, [StoreNext]_storeVars PROVE StoreInv'
  OBVIOUS
<1>1. CASE \E a \in Args : Add(a)
  BY <1>1, AddKeeps
<1>2. CASE \E a \in Args : \E i \in DOMAIN connections : Update(i, a)
  BY <1>2, UpdateKeeps
<1>3. CASE \E i \in DOMAIN connections : RemoveConnection(i)
  BY <1>3, RemoveKeeps
<1>4. CASE SetUrl \/ SetSecret \/ RestoreUrl \/ RestoreSecret
  BY <1>4, SetUrlKeeps, SetSecretKeeps, RestoreUrlKeeps, RestoreSecretKeeps
<1>5. CASE CreateDir \/ IntoStored \/ Extend \/ Truncate \/ Fill \/ SetMode
  BY <1>5, CreateDirKeeps, IntoStoredKeeps, ExtendKeeps, WriteKeeps, SetModeKeeps
<1>6. CASE UndoAdd \/ UndoRemove \/ DeleteUrl \/ DeleteSecret
  BY <1>6, UndoAddKeeps, UndoRemoveKeeps, DeleteUrlKeeps, DeleteSecretKeeps
<1>7. CASE Crash \/ Load
  BY <1>7, CrashKeeps, LoadKeeps
<1>8. CASE UNCHANGED storeVars
  <2>1. UNCHANGED <<running, connections, pending, file, urls, secrets, nextId, op, failed>>
    BY <1>8 DEF storeVars, memoryVars, keyringVars
  <2>2. StoreTypes' /\ Distinct(connections') /\ Known(connections)'
        /\ (file' # Torn => Distinct(file') /\ Known(file)')
    BY <2>1 DEF StoreInv, StoreTypes, Known
  <2>3. Progress'
    BY <2>1 DEF StoreInv, Progress, Deleting, Known
  <2>4. Agreement'
    BY <2>1 DEF StoreInv, Agreement, Agrees, Deleting
  <2> QED BY <2>2, <2>3, <2>4 DEF StoreInv
<1> QED BY <1>1, <1>2, <1>3, <1>4, <1>5, <1>6, <1>7, <1>8 DEF StoreNext

\* The connection store's inductive invariant, for any connections and failures.
THEOREM StoreInvariant == StoreSpec => []StoreInv
<1>1. StoreInit => StoreInv
  BY StoreInvInit
<1>2. StoreInv /\ [StoreNext]_storeVars => StoreInv'
  BY StoreInvNext
<1> QED BY <1>1, <1>2, PTL DEF StoreSpec

\* Every connection in the file can be connected to, at whichever step an
\* operation fails or the process ends.
THEOREM FileIsCovered == StoreSpec => []SecretsCoverFile
<1>1. StoreInv => SecretsCoverFile
  <2> SUFFICES ASSUME StoreInv, file # Torn, NEW c \in ToSet(file)
               PROVE  urls[c.id] # Absent
    BY DEF SecretsCoverFile
  <2>1. PICK i \in DOMAIN file : c = file[i]
    BY DEF ToSet
  <2> QED BY <2>1 DEF StoreInv, Known
<1> QED BY <1>1, StoreInvariant, PTL

\* An update or a removal that fails finds its own connection to put back, and
\* no connection is listed twice.
THEOREM RollbackIsItsOwn == StoreSpec => []RollbackFindsItsOwn
<1>1. StoreInv => RollbackFindsItsOwn
  <2> SUFFICES ASSUME StoreInv PROVE RollbackFindsItsOwn
    OBVIOUS
  <2>1. connections \in Seq(Stored) /\ Progress /\ Distinct(connections)
    BY DEF StoreInv, StoreTypes
  <2>2. op # Absent /\ op.kind = "remove" =>
          op.id \notin IdsOf(connections) /\ op.index <= Len(connections) + 1
    <3> SUFFICES ASSUME op # Absent, op.kind = "remove"
                 PROVE  op.id \notin IdsOf(connections) /\ op.index <= Len(connections) + 1
      OBVIOUS
    <3>1. op.index \in 1..Len(connections) + 1 /\ Without(connections, op.id)
      BY <2>1 DEF Progress
    <3>2. op.id \notin IdsOf(connections)
      BY <3>1 DEF Without, IdsOf, ToSet
    <3>3. op.index <= Len(connections) + 1
      BY <2>1, <3>1
    <3> QED BY <3>2, <3>3
  <2> QED BY <2>1, <2>2 DEF RollbackFindsItsOwn, Progress, Distinct
<1> QED BY <1>1, StoreInvariant, PTL

\* Between operations a connection's fields are those of its keyring entries,
\* while only the file system has failed.
THEOREM FieldsAreTheKeyrings == StoreSpec => []FieldsMatchKeyring
<1>1. StoreInv => FieldsMatchKeyring
  <2> SUFFICES ASSUME StoreInv, running, op = Absent, failed \cap {"keyring", "crash"} = {},
                      NEW c \in ToSet(connections)
               PROVE  urls[c.id] = c.url /\ (~ c.ssh => secrets[c.id] = Absent)
    BY DEF FieldsMatchKeyring
  <2>1. PICK i \in DOMAIN connections : c = connections[i]
    BY DEF ToSet
  <2> QED BY <2>1 DEF StoreInv, Agreement, Agrees
<1> QED BY <1>1, StoreInvariant, PTL

=============================================================================
