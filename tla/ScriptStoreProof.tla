--------------------------- MODULE ScriptStoreProof ---------------------------
(* What is proved of the script tabs and their directory, for any names,     *)
(* relations, documents, edits, claims, tasks and bounds.                    *)
EXTENDS ScriptStore, TLAPS, FiniteSetTheorems, FunctionTheorems, Recursion

-----------------------------------------------------------------------------
(* Types                                                                     *)

Text == [of : Nat, n : Nat]
Entry == {e \in [ref : Ref, text : Text \cup {NoText}] : e.ref.at # "shared" => e.text # NoText}
Snapshots == {s \in SUBSET Entry : IsFiniteSet(s)}
Tab == [ref : Ref, text : Text, base : Text \cup {NoText}, dirty : BOOLEAN]

IsTabs(ts) == DOMAIN ts \subseteq TabIds /\ ts \in [DOMAIN ts -> Tab]

IsDisk(d) ==
  /\ d \in [file : [Ref -> Text \cup {NoText}], draft : [UserNames -> Text \cup {NoText}],
            tabs : SUBSET [ref : Ref, draft : BOOLEAN]]
  /\ IsFiniteSet(d.tabs)

SaveJobs == [kind : {"save"}, claim : Nat, entries : Snapshots]
RenameJobs ==
  {j \in [kind : {"rename"}, claim : Nat, stage : {"fence", "move", "apply"}, tab : TabIds,
          from : Ref, to : Ref] : j.from.at # "shared" /\ j.to.at = "named"}
SharedJobs ==
  {j \in [kind : SharedKinds, claim : Nat, stage : {"write", "clean", "apply"}, tab : TabIds,
          from : Ref, to : Ref, text : Text] :
     /\ j.from.at = IF j.kind = "promote" THEN "scratch" ELSE "shared"
     /\ j.to.at = "shared"
     /\ j.kind = "save shared" => j.to = j.from}

Types ==
  /\ IsTabs(tabs) /\ next \in Nat /\ next > 0 /\ docs \in Nat
  /\ cache \in Snapshots \cup {NoCache}
  /\ minted \in Nat /\ written \in Nat
  /\ jobs \subseteq SaveJobs \cup RenameJobs \cup SharedJobs
  /\ IsDisk(disk)

(* NoText and NoCache are not what they stand in for, and the bounds on tabs *)
(* and documents are numbers.                                                *)
Apart ==
  /\ NoText \notin Text /\ NoCache \notin SUBSET Entry
  /\ MaxTabs \in Nat /\ MaxDocs \in Nat

-----------------------------------------------------------------------------
(* Operators                                                                 *)

LEMMA RefShape ==
  ASSUME NEW r \in Ref
  PROVE  /\ r.at \in {"scratch", "named", "shared"}
         /\ r.at = "scratch" => r = Scratch(r.name) /\ r.name \in ScratchNames
         /\ r.at = "named" => r = Named(r.name) /\ r.name \in UserNames
         /\ r.at = "shared" => r = Shared(r.name) /\ r.name \in UserNames
  BY DEF Ref, Scratch, Named, Shared

LEMMA RefsAre ==
  /\ \A name \in ScratchNames : Scratch(name) \in Ref /\ Scratch(name).at = "scratch"
  /\ \A name \in UserNames : Named(name) \in Ref /\ Named(name).at = "named"
  /\ \A name \in UserNames : Shared(name) \in Ref /\ Shared(name).at = "shared"
  BY DEF Ref, Scratch, Named, Shared

LEMMA EmptyIsText == Empty \in Text
  BY DEF Empty, Text

\* The image of a finite set is finite.
LEMMA ImageFinite ==
  ASSUME NEW S, IsFiniteSet(S), NEW f
  PROVE  IsFiniteSet({f[x] : x \in S})
<1> DEFINE T == {f[x] : x \in S}
           g == [x \in S |-> f[x]]
<1>1. g \in [S -> T] /\ \A t \in T : \E s \in S : g[s] = t
  OBVIOUS
<1>2. g \in Surjection(S, T)
  <2> HIDE DEF g, T
  <2> QED BY <1>1, Fun_IsSurj
<1> QED BY <1>2, FS_Surjection

LEMMA EntryType ==
  ASSUME NEW tab \in Tab
  PROVE  EntryOf(tab) \in [ref : Ref, text : Text \cup {NoText}] /\ EntryOf(tab).ref = tab.ref
         /\ (tab.ref.at # "shared" => EntryOf(tab).text = tab.text)
  BY DEF EntryOf, Tab, Diverged

LEMMA SnapshotType ==
  ASSUME Apart, NEW ts, IsTabs(ts)
  PROVE  /\ Snapshot(ts) \in Snapshots
         /\ Snapshot(ts) # NoCache
         /\ \A i \in DOMAIN ts : EntryOf(ts[i]) \in Entry
<1>1. ASSUME NEW i \in DOMAIN ts PROVE EntryOf(ts[i]) \in Entry
  <2>1. ts[i] \in Tab
    BY DEF IsTabs
  <2>2. ts[i].text # NoText
    BY <2>1 DEF Tab, Apart
  <2> QED BY <2>1, <2>2, EntryType DEF Entry
<1>2. IsFiniteSet(DOMAIN ts)
  <2>1. IsFiniteSet(TabIds)
    BY FS_Interval DEF TabIds, Apart
  <2> QED BY <2>1, FS_Subset DEF IsTabs
<1>3. IsFiniteSet(Snapshot(ts))
  <2> DEFINE f == [i \in DOMAIN ts |-> EntryOf(ts[i])]
  <2>1. Snapshot(ts) = {f[i] : i \in DOMAIN ts}
    BY DEF Snapshot
  <2> HIDE DEF f
  <2> QED BY <1>2, <2>1, ImageFinite
<1>4. Snapshot(ts) \subseteq Entry
  BY <1>1 DEF Snapshot
<1> QED BY <1>1, <1>3, <1>4 DEF Snapshots, Apart

LEMMA WithFilesType ==
  ASSUME NEW d, IsDisk(d), NEW entries \in SUBSET Entry
  PROVE  /\ IsDisk(WithFiles(d, entries))
         /\ WithFiles(d, entries).tabs = d.tabs
         /\ \A r \in Ref : d.file[r] # NoText /\ NoText \notin Text =>
              WithFiles(d, entries).file[r] # NoText
<1> DEFINE fileOf(e) == e.ref.at # "shared" \/ e.text # NoText
           owns(r) == {e \in entries : e.ref = r /\ fileOf(e)}
           chosen(r) == CHOOSE e \in owns(r) : TRUE
<1>1. ASSUME NEW r, owns(r) # {} PROVE chosen(r) \in owns(r)
  BY <1>1
<1>2. ASSUME NEW r, owns(r) # {}, r.at # "shared" \/ r = Shared(r.name)
      PROVE chosen(r).text \in Text
  <2>1. chosen(r) \in Entry /\ fileOf(chosen(r))
    BY <1>1, <1>2
  <2> HIDE DEF chosen
  <2> QED BY <2>1 DEF Entry
<1> DEFINE file == [r \in Ref |-> IF r.at # "shared" /\ owns(r) # {} THEN chosen(r).text
                                  ELSE d.file[r]]
           draft == [n \in UserNames |-> IF owns(Shared(n)) # {} THEN chosen(Shared(n)).text
                                         ELSE d.draft[n]]
<1>3. WithFiles(d, entries) = [file |-> file, draft |-> draft, tabs |-> d.tabs]
  <2>1. WithFiles(d, entries) = [d EXCEPT !.file = file, !.draft = draft]
    BY DEF WithFiles
  <2> HIDE DEF file, draft
  <2> QED BY <2>1 DEF IsDisk
<1> HIDE DEF owns, chosen
<1>4. file \in [Ref -> Text \cup {NoText}]
  BY <1>2 DEF IsDisk
<1>5. draft \in [UserNames -> Text \cup {NoText}]
  <2>1. ASSUME NEW n \in UserNames, owns(Shared(n)) # {}
        PROVE  chosen(Shared(n)).text \in Text
    BY <1>2, <2>1 DEF Shared
  <2> QED BY <2>1 DEF IsDisk
<1>6. ASSUME NEW r \in Ref, d.file[r] # NoText, NoText \notin Text PROVE file[r] # NoText
  BY <1>2, <1>6
<1> HIDE DEF file, draft
<1> QED BY <1>3, <1>4, <1>5, <1>6 DEF IsDisk

LEMMA WithTabsType ==
  ASSUME NEW d, IsDisk(d), NEW entries \in Snapshots
  PROVE  /\ IsDisk(WithTabs(d, entries))
         /\ WithTabs(d, entries).file = d.file
<1> DEFINE f == [e \in entries |-> [ref |-> e.ref, draft |-> e.ref.at = "shared" /\ e.text # NoText]]
<1>1. WithTabs(d, entries) = [d EXCEPT !.tabs = {f[e] : e \in entries}]
  BY DEF WithTabs
<1>2. \A e \in entries : f[e] \in [ref : Ref, draft : BOOLEAN]
  BY DEF Snapshots, Entry
<1> HIDE DEF f
<1>3. IsFiniteSet({f[e] : e \in entries})
  BY ImageFinite DEF Snapshots
<1> QED BY <1>1, <1>2, <1>3 DEF IsDisk

LEMMA PrunedType ==
  ASSUME NEW d, IsDisk(d)
  PROVE  /\ IsDisk(Pruned(d))
         /\ \A r \in Ref : r.at # "scratch" => Pruned(d).file[r] = d.file[r]
  BY DEF Pruned, IsDisk

\* What writing a snapshot keeps, finished or not.
LEMMA WrittenType ==
  ASSUME Apart, NEW d, IsDisk(d), NEW entries \in Snapshots,
         NEW w \in Partial(d, entries) \cup {Persisted(d, entries)}
  PROVE  /\ IsDisk(w)
         /\ \A r \in Ref : r.at # "scratch" /\ d.file[r] # NoText => w.file[r] # NoText
<1>1. NoText \notin Text /\ entries \in SUBSET Entry
  BY DEF Apart, Snapshots
<1>2. CASE \E some \in SUBSET entries : w = WithFiles(d, some)
  <2>1. PICK some \in SUBSET entries : w = WithFiles(d, some)
    BY <1>2
  <2>2. some \in SUBSET Entry
    BY <1>1
  <2> QED BY <1>1, <2>1, <2>2, WithFilesType
<1> DEFINE f == WithFiles(d, entries)
           t == WithTabs(f, entries)
<1>3. IsDisk(f) /\ \A r \in Ref : d.file[r] # NoText => f.file[r] # NoText
  BY <1>1, WithFilesType
<1>4. IsDisk(t) /\ \A r \in Ref : d.file[r] # NoText => t.file[r] # NoText
  <2> HIDE DEF f
  <2> QED BY <1>3, WithTabsType
<1>5. CASE w = t
  BY <1>4, <1>5
<1>6. CASE w = Pruned(t)
  <2> HIDE DEF t
  <2> QED BY <1>4, <1>6, PrunedType
<1> QED BY <1>2, <1>5, <1>6 DEF Partial, Persisted

LEMMA LoadedType ==
  ASSUME NEW d, IsDisk(d)
  PROVE  /\ Loaded(d) \in Snapshots
         /\ \A e \in Loaded(d) :
              /\ \E x \in d.tabs : x.ref = e.ref
              /\ e.ref.at # "shared" => e.text = d.file[e.ref]
<1> DEFINE textOf(e) == IF e.ref.at # "shared" THEN d.file[e.ref]
                        ELSE IF e.draft THEN d.draft[e.ref.name] ELSE NoText
           shown == {x \in d.tabs : (x.ref.at # "shared" \/ x.draft) => textOf(x) # NoText}
           f == [e \in shown |-> [ref |-> e.ref, text |-> textOf(e)]]
<1>1. Loaded(d) = {f[e] : e \in shown}
  BY DEF Loaded
<1>2. ASSUME NEW e \in shown
      PROVE  /\ f[e] \in Entry /\ f[e].ref = e.ref /\ e \in d.tabs
             /\ e.ref.at # "shared" => f[e].text = d.file[e.ref]
  <2>1. e \in [ref : Ref, draft : BOOLEAN]
    BY DEF IsDisk
  <2>2. d.file \in [Ref -> Text \cup {NoText}] /\ d.draft \in [UserNames -> Text \cup {NoText}]
    BY DEF IsDisk
  <2>3. textOf(e) \in Text \cup {NoText} /\ (e.ref.at # "shared" => textOf(e) # NoText)
    <3>1. e.ref.at = "shared" => e.ref.name \in UserNames
      BY <2>1, RefShape
    <3> QED BY <2>1, <2>2, <3>1
  <2>4. e.ref.at # "shared" => textOf(e) = d.file[e.ref]
    OBVIOUS
  <2> HIDE DEF textOf
  <2> QED BY <2>1, <2>3, <2>4 DEF Entry
<1>3. IsFiniteSet(shown)
  BY FS_Subset DEF IsDisk
<1> HIDE DEF f, shown
<1>4. IsFiniteSet(Loaded(d))
  BY <1>1, <1>3, ImageFinite
<1> QED BY <1>1, <1>2, <1>4 DEF Snapshots

LEMMA RestoredType ==
  ASSUME NEW d, IsDisk(d), NEW e \in Entry
  PROVE  /\ Restored(e, d) \in Tab
         /\ Restored(e, d).ref = e.ref
<1> DEFINE lib == d.file[e.ref]
           text == IF e.text # NoText THEN e.text ELSE IF lib # NoText THEN lib ELSE Empty
           base == IF e.ref.at # "shared" THEN NoText ELSE IF lib # NoText THEN lib ELSE text
<1>1. e.ref \in Ref /\ e.text \in Text \cup {NoText}
  BY DEF Entry
<1>2. lib \in Text \cup {NoText}
  BY <1>1 DEF IsDisk
<1> HIDE DEF lib
<1>3. text \in Text
  BY <1>1, <1>2, EmptyIsText
<1> HIDE DEF text
<1>4. base \in Text \cup {NoText}
  BY <1>2, <1>3
<1> HIDE DEF base
<1>5. Restored(e, d) = [ref |-> e.ref, text |-> text, base |-> base, dirty |-> FALSE]
  BY DEF Restored, text, lib, base
<1> QED BY <1>1, <1>3, <1>4, <1>5 DEF Tab

LEMMA FreeIdsType == FreeIds \subseteq TabIds \ DOMAIN tabs
  BY DEF FreeIds

\* A new tab has an id that no tab and no task has.
NewTab(id, ref, text, base) ==
  /\ id \in TabIds \ DOMAIN tabs
  /\ DOMAIN tabs' = DOMAIN tabs \cup {id} /\ IsTabs(tabs')
  /\ tabs'[id].ref = ref /\ tabs'[id].text = text /\ tabs'[id].base = base
  /\ \A i \in DOMAIN tabs : tabs'[i] = tabs[i]

LEMMA WithTabEffect ==
  ASSUME FreeIds # {}, IsTabs(tabs),
         NEW ref \in Ref, NEW text \in Text, NEW base \in Text \cup {NoText}, NEW dirty \in BOOLEAN,
         tabs' = WithTab(ref, text, base, dirty)
  PROVE  \E id \in FreeIds : NewTab(id, ref, text, base)
<1> DEFINE id == CHOOSE i \in FreeIds : \A k \in FreeIds : i <= k
           tab == [ref |-> ref, text |-> text, base |-> base, dirty |-> dirty]
<1>1. id \in FreeIds
  <2>1. FreeIds \subseteq Nat
    BY DEF FreeIds, TabIds
  <2> QED BY <2>1, LeastNumber
<1>2. tabs' = [i \in DOMAIN tabs \cup {id} |-> IF i = id THEN tab ELSE tabs[i]]
  BY DEF WithTab
<1> HIDE DEF id
<1>3. tab \in Tab
  BY DEF Tab
<1>4. id \in TabIds \ DOMAIN tabs
  BY <1>1, FreeIdsType
<1>7. tab.ref = ref /\ tab.text = text /\ tab.base = base
  OBVIOUS
<1> HIDE DEF tab
<1>5. /\ DOMAIN tabs' = DOMAIN tabs \cup {id} /\ tabs'[id] = tab
      /\ \A i \in DOMAIN tabs : tabs'[i] = tabs[i]
  BY <1>2, <1>4
<1>6. tabs' \in [DOMAIN tabs' -> Tab]
  BY <1>2, <1>3 DEF IsTabs
<1> QED BY <1>1, <1>4, <1>5, <1>6, <1>7 DEF IsTabs, NewTab

\* The tabs become those of entries, each with an id of its own.
RestoredAs(entries, ids) ==
  /\ \A e, x \in entries : ids[e] = ids[x] => e = x
  /\ IsTabs(tabs') /\ DOMAIN tabs' = {ids[e] : e \in entries}
  /\ \A e \in entries : tabs'[ids[e]] = Restored(e, disk)

LEMMA RestoredTabsEffect ==
  ASSUME Apart, IsTabs(tabs), IsDisk(disk), NEW entries \in Snapshots,
         Cardinality(entries) <= Cardinality(FreeIds), tabs' = RestoredTabs(entries)
  PROVE  \E ids \in [entries -> FreeIds] : RestoredAs(entries, ids)
<1> DEFINE Distinct(f) == \A e, x \in entries : f[e] = f[x] => e = x
           ids == CHOOSE f \in [entries -> FreeIds] : Distinct(f)
<1>1. IsFiniteSet(FreeIds) /\ FreeIds \subseteq TabIds
  <2>1. FreeIds \in SUBSET TabIds
    BY FreeIdsType
  <2>2. IsFiniteSet(TabIds)
    BY FS_Interval DEF TabIds, Apart
  <2> QED BY <2>1, <2>2, FS_Subset
<1>2. IsFiniteSet(entries) /\ entries \subseteq Entry
  BY DEF Snapshots
<1>3. \E f \in [entries -> FreeIds] : Distinct(f)
  <2> DEFINE n == Cardinality(entries)
             m == Cardinality(FreeIds)
  <2>1. n \in Nat /\ ExistsBijection(1..n, entries)
    BY <1>2, FS_CardinalityType
  <2>2. m \in Nat /\ ExistsBijection(1..m, FreeIds)
    BY <1>1, FS_CardinalityType
  <2> HIDE DEF n, m
  <2>3. ExistsInjection(1..n, 1..m)
    BY <2>1, <2>2, Fun_NatInjLeq DEF n, m
  <2>4. ExistsInjection(entries, 1..n) /\ ExistsInjection(1..m, FreeIds)
    BY <2>1, <2>2, Fun_ExistsBijEquiv
  <2>5. ExistsInjection(entries, FreeIds)
    BY <2>3, <2>4, Fun_ExistsInjTransitive
  <2>6. PICK f : f \in Injection(entries, FreeIds)
    BY <2>5, Fun_ExistsInj
  <2> QED BY <2>6, Fun_InjectionProperties
<1>4. ids \in [entries -> FreeIds] /\ Distinct(ids)
  BY <1>3
<1>5. tabs' = [i \in {ids[e] : e \in entries} |-> Restored(CHOOSE e \in entries : ids[e] = i, disk)]
  BY DEF RestoredTabs
<1> HIDE DEF ids
<1>6. \A e \in entries : tabs'[ids[e]] = Restored(e, disk)
  <2> SUFFICES ASSUME NEW e \in entries PROVE tabs'[ids[e]] = Restored(e, disk)
    OBVIOUS
  <2>1. (CHOOSE x \in entries : ids[x] = ids[e]) = e
    BY <1>4
  <2>2. tabs'[ids[e]] = Restored(CHOOSE x \in entries : ids[x] = ids[e], disk)
    BY <1>5
  <2> QED BY <2>1, <2>2
<1>7. DOMAIN tabs' = {ids[e] : e \in entries}
  BY <1>5
<1>8. \A e \in entries : Restored(e, disk) \in Tab
  BY <1>2, RestoredType
<1>9. \A i \in DOMAIN tabs' : tabs'[i] \in Tab
  BY <1>6, <1>7, <1>8
<1>10. tabs' \in [DOMAIN tabs' -> Tab]
  BY <1>5, <1>9
<1>11. DOMAIN tabs' \subseteq TabIds
  BY <1>1, <1>4, <1>7
<1> QED BY <1>4, <1>6, <1>7, <1>10, <1>11 DEF IsTabs, RestoredAs

-----------------------------------------------------------------------------
(* The types hold.                                                           *)

LEMMA TypesInit == Init => Types
<1> SUFFICES ASSUME Init PROVE Types
  OBVIOUS
<1>1. IsTabs(tabs)
  BY DEF Init, NoTabs, IsTabs
<1>2. IsDisk(disk)
  BY EmptyIsText, FS_EmptySet DEF Init, IsDisk
<1> QED BY <1>1, <1>2 DEF Init, Types

LEMMA AutosaveTypes ==
  ASSUME Apart, Types, IsTabs(tabs'), NEW skip \in Nat, Autosave(skip)
  PROVE  /\ minted' \in Nat
         /\ cache' \in Snapshots \cup {NoCache}
         /\ jobs' \subseteq SaveJobs \cup RenameJobs \cup SharedJobs
<1>1. Snapshot(tabs') \in Snapshots
  BY SnapshotType
<1>2. SaveJob(minted + skip + 1, Snapshot(tabs')) \in SaveJobs
  BY <1>1 DEF SaveJob, SaveJobs, Types
<1> QED BY <1>1, <1>2 DEF Autosave, Types

\* A task is of one of three kinds.
LEMMA JobType ==
  ASSUME Types, NEW j \in jobs
  PROVE  /\ j.kind = "save" => j \in SaveJobs
         /\ j.kind = "rename" => j \in RenameJobs
         /\ j.kind \in SharedKinds => j \in SharedJobs
         /\ j.kind \in {"save", "rename"} \cup SharedKinds
  BY DEF Types, SaveJobs, RenameJobs, SharedJobs, SharedKinds

LEMMA AdvanceTypes ==
  ASSUME Types, NEW j \in jobs, NEW stage,
         \/ j.kind = "rename" /\ stage \in {"move", "apply"}
         \/ j.kind \in SharedKinds /\ stage \in {"clean", "apply"},
         jobs' = (jobs \ {j}) \cup {[j EXCEPT !.stage = stage]}
  PROVE  jobs' \subseteq SaveJobs \cup RenameJobs \cup SharedJobs
<1>1. [j EXCEPT !.stage = stage] \in RenameJobs \cup SharedJobs
  <2>1. CASE j.kind = "rename"
    BY <2>1, JobType DEF RenameJobs, SharedKinds
  <2>2. CASE j.kind \in SharedKinds
    BY <2>2, JobType DEF SharedJobs, SharedKinds
  <2> QED BY <2>1, <2>2
<1> QED BY <1>1 DEF Types

LEMMA MovedType ==
  ASSUME NEW d, IsDisk(d), NEW from \in Ref, NEW to \in Ref
  PROVE  IsDisk(Moved(d, from, to))
  BY DEF Moved, IsDisk

LEMMA RetargetedType ==
  ASSUME NEW d, IsDisk(d), NEW from \in Ref, NEW to \in Ref
  PROVE  /\ IsDisk(Retargeted(d, from, to))
         /\ Retargeted(d, from, to).file = d.file
<1> DEFINE f == [e \in d.tabs |-> IF e.ref = from THEN [e EXCEPT !.ref = to] ELSE e]
<1>1. Retargeted(d, from, to) = [d EXCEPT !.tabs = {f[e] : e \in d.tabs}]
  BY DEF Retargeted
<1>2. \A e \in d.tabs : f[e] \in [ref : Ref, draft : BOOLEAN]
  BY DEF IsDisk
<1> HIDE DEF f
<1>3. IsFiniteSet({f[e] : e \in d.tabs})
  BY ImageFinite DEF IsDisk
<1> QED BY <1>1, <1>2, <1>3 DEF IsDisk

LEMMA NextNumberType ==
  ASSUME Apart, NEW entries
  PROVE  /\ NextNumber(entries) \in Nat /\ NextNumber(entries) > 0
         /\ \A e \in entries : e.ref.at = "scratch" /\ e.ref.name \in 1..MaxDocs =>
              e.ref.name < NextNumber(entries)
<1> DEFINE numbers == {e.ref.name : e \in {x \in entries : /\ x.ref.at = "scratch"
                                                         /\ x.ref.name \in 1..MaxDocs}}
           greatest == CHOOSE n \in numbers : \A m \in numbers : m <= n
<1>1. numbers \subseteq 0..MaxDocs /\ MaxDocs \in Nat
  BY DEF Apart
<1>2. numbers # {} => greatest \in numbers /\ \A m \in numbers : m <= greatest
  <2> HIDE DEF numbers
  <2> QED BY <1>1, GreatestNumber
<1>3. NextNumber(entries) = IF numbers = {} THEN 1 ELSE 1 + greatest
  BY DEF NextNumber
<1>4. \A e \in entries : e.ref.at = "scratch" /\ e.ref.name \in 1..MaxDocs => e.ref.name \in numbers
  OBVIOUS
<1> HIDE DEF numbers, greatest
<1>5. NextNumber(entries) \in Nat /\ NextNumber(entries) > 0
  <2>1. CASE numbers = {}
    BY <1>3, <2>1
  <2>2. CASE numbers # {}
    <3>1. greatest \in 0..MaxDocs
      BY <1>1, <1>2, <2>2
    <3>2. greatest \in Nat
      BY <1>1, <3>1
    <3>3. NextNumber(entries) = 1 + greatest
      BY <1>3, <2>2
    <3> QED BY <3>2, <3>3
  <2> QED BY <2>1, <2>2
<1>6. ASSUME NEW e \in entries, e.ref.at = "scratch" /\ e.ref.name \in 1..MaxDocs
      PROVE  e.ref.name < NextNumber(entries)
  <2>1. e.ref.name \in numbers /\ numbers # {}
    BY <1>4, <1>6
  <2>2. greatest \in 0..MaxDocs /\ e.ref.name \in 0..MaxDocs /\ e.ref.name <= greatest
    BY <1>1, <1>2, <2>1
  <2> QED BY <1>3, <2>1, <2>2
<1> QED BY <1>5, <1>6

\* The disk after the process ended in the middle of an operation.
LEMMA TornType ==
  ASSUME Apart, Types, NEW j \in jobs, NEW d \in Torn(j)
  PROVE  /\ IsDisk(d)
         /\ \A name \in UserNames :
              disk.file[Named(name)] # NoText /\ (j.kind = "rename" => j.from.at # "named")
                => d.file[Named(name)] # NoText
<1>1. CASE j.kind = "save" /\ j.claim >= written
  <2>1. j.entries \in Snapshots /\ d \in Partial(disk, j.entries)
    BY <1>1 DEF Types, SaveJobs, RenameJobs, SharedJobs, SharedKinds, Torn
  <2> QED BY <2>1, WrittenType, RefsAre DEF Types
<1>2. CASE j.kind = "rename" /\ j.stage = "move" /\ CanMove(j)
  <2>1. j.from \in Ref /\ j.to \in Ref /\ d = Moved(disk, j.from, j.to)
    BY <1>2 DEF Types, SaveJobs, RenameJobs, SharedJobs, SharedKinds, Torn
  <2>2. disk.file[j.from] # NoText
    BY <1>2 DEF CanMove
  <2> QED BY <1>2, <2>1, <2>2, MovedType, RefsAre DEF Types, Moved, IsDisk
<1>3. ~ (j.kind = "save" /\ j.claim >= written) /\ ~ (j.kind = "rename" /\ j.stage = "move" /\ CanMove(j))
      => FALSE
  BY DEF Torn
<1> QED BY <1>1, <1>2, <1>3

\* restore_tabs, of the cache or of the disk.
SwitchedFrom == IF cache # NoCache THEN cache ELSE Loaded(disk)

LEMMA SwitchedFromType ==
  ASSUME Types
  PROVE  SwitchedFrom \in Snapshots
  BY LoadedType DEF SwitchedFrom, Types

LEMMA SwitchHereTypes ==
  ASSUME Apart, Types, SwitchHere
  PROVE  Types'
<1>1. CASE SwitchedFrom = {}
  <2>1. /\ FreeIds # {}
        /\ tabs' = WithTab(Scratch(1), [of |-> docs + 1, n |-> 0], NoText, FALSE)
    BY <1>1 DEF SwitchHere, SwitchedFrom
  <2>5. docs < MaxDocs /\ next' = 2 /\ docs' = docs + 1
    BY <1>1 DEF SwitchHere, SwitchedFrom
  <2>2. Scratch(1) \in Ref /\ [of |-> docs + 1, n |-> 0] \in Text
    BY <2>5, RefsAre DEF ScratchNames, Text, Types, Apart
  <2>3. IsTabs(tabs')
    BY <2>1, <2>2, WithTabEffect DEF Types, NewTab
  <2>4. UNCHANGED <<cache, minted, written, jobs, disk>>
    BY DEF SwitchHere
  <2> QED BY <2>3, <2>4, <2>5 DEF Types
<1>2. CASE SwitchedFrom # {}
  <2>1. /\ Cardinality(SwitchedFrom) <= Cardinality(FreeIds)
        /\ tabs' = RestoredTabs(SwitchedFrom) /\ next' = NextNumber(SwitchedFrom) /\ docs' = docs
    BY <1>2 DEF SwitchHere, SwitchedFrom
  <2>2. IsTabs(tabs')
    BY <2>1, SwitchedFromType, RestoredTabsEffect DEF Types, RestoredAs
  <2>3. next' \in Nat /\ next' > 0
    BY <2>1, NextNumberType
  <2> QED BY <2>1, <2>2, <2>3 DEF SwitchHere, Types
<1> QED BY <1>1, <1>2

LEMMA NewTabTypes ==
  ASSUME Apart, Types, FreeIds # {}, NEW ref \in Ref, NEW text \in Text,
         NEW base \in Text \cup {NoText}, NEW dirty \in BOOLEAN,
         tabs' = WithTab(ref, text, base, dirty), NEW skip \in Nat, Autosave(skip)
  PROVE  /\ IsTabs(tabs') /\ minted' \in Nat
         /\ cache' \in Snapshots \cup {NoCache}
         /\ jobs' \subseteq SaveJobs \cup RenameJobs \cup SharedJobs
<1>1. IsTabs(tabs')
  BY WithTabEffect DEF Types, NewTab
<1> QED BY <1>1, AutosaveTypes

LEMMA EditEffect ==
  ASSUME IsTabs(tabs), NEW i \in DOMAIN tabs, Edit(i)
  PROVE  /\ IsTabs(tabs') /\ DOMAIN tabs' = DOMAIN tabs
         /\ tabs'[i].ref = tabs[i].ref /\ tabs'[i].base = tabs[i].base
         /\ tabs'[i].text = [tabs[i].text EXCEPT !.n = @ + 1]
         /\ \A k \in DOMAIN tabs : k # i => tabs'[k] = tabs[k]
<1> DEFINE edited == TRUE
           text == [tabs[i].text EXCEPT !.n = @ + 1]
           tab == [ref |-> tabs[i].ref, text |-> text, base |-> tabs[i].base, dirty |-> edited]
<1>1. tabs[i] \in Tab
  BY DEF IsTabs
<1>2. text \in Text
  BY <1>1 DEF Tab, Text
<1>3. tabs' = [tabs EXCEPT ![i] = [[tabs[i] EXCEPT !.text = text] EXCEPT !.dirty = edited]]
  <2>1. tabs' = [tabs EXCEPT ![i].text.n = @ + 1, ![i].dirty = TRUE]
    BY DEF Edit
  <2> QED BY <2>1
<1> HIDE DEF text
<1>4. tab \in Tab
  BY <1>1, <1>2 DEF Tab
<1>5. [[tabs[i] EXCEPT !.text = text] EXCEPT !.dirty = edited] = tab
  <2> DEFINE old == tabs[i]
             rewritten == [old EXCEPT !.text = text]
  <2>1. old = [ref |-> old.ref, text |-> old.text, base |-> old.base, dirty |-> old.dirty]
    BY <1>1 DEF Tab
  <2> HIDE DEF edited, old
  <2>2. rewritten = [ref |-> old.ref, text |-> text, base |-> old.base, dirty |-> old.dirty]
    BY <2>1
  <2> HIDE DEF rewritten
  <2>3. [rewritten EXCEPT !.dirty = edited]
          = [ref |-> old.ref, text |-> text, base |-> old.base, dirty |-> edited]
    BY <2>2
  <2> QED BY <2>3 DEF rewritten, old
<1>6. tabs' = [tabs EXCEPT ![i] = tab]
  BY <1>3, <1>5
<1>7. tab.ref = tabs[i].ref /\ tab.base = tabs[i].base /\ tab.text = text
  OBVIOUS
<1> HIDE DEF tab
<1> QED BY <1>4, <1>6, <1>7 DEF IsTabs, text

LEMMA UserTypes ==
  ASSUME Apart, Types, UserStep
  PROVE  Types'
<1>1. CASE NewScript
  <2>1. [of |-> docs + 1, n |-> 0] \in Text
    BY DEF Types, Text
  <2>2. Scratch(next) \in Ref
    BY <1>1, RefsAre DEF NewScript, Types, ScratchNames, Apart
  <2>3. IsTabs(tabs')
    BY <1>1, <2>1, <2>2, NewTabTypes DEF NewScript, Notify
  <2>4. minted' \in Nat /\ cache' \in Snapshots \cup {NoCache}
        /\ jobs' \subseteq SaveJobs \cup RenameJobs \cup SharedJobs
    BY <1>1, <2>1, <2>2, NewTabTypes DEF NewScript, Notify
  <2>5. next' = next + 1 /\ docs' = docs + 1 /\ UNCHANGED <<written, disk>>
    BY <1>1 DEF NewScript
  <2> QED BY <2>3, <2>4, <2>5 DEF Types
<1>2. ASSUME NEW name \in Relations, ConvertGenerated(name) PROVE Types'
  <2>1. [of |-> docs + 1, n |-> 0] \in Text /\ Scratch(name) \in Ref
    <3>1. [of |-> docs + 1, n |-> 0] \in Text
      BY DEF Types, Text
    <3>2. Scratch(name) \in Ref
      BY RefsAre DEF ScratchNames
    <3> QED BY <3>1, <3>2
  <2>2. FreeIds # {} /\ tabs' = WithTab(Scratch(name), [of |-> docs + 1, n |-> 0], NoText, TRUE)
        /\ Autosave(0)
    BY <1>2 DEF ConvertGenerated, Notify
  <2>4. docs' = docs + 1 /\ UNCHANGED <<next, written, disk>>
    BY <1>2 DEF ConvertGenerated
  <2>3. IsTabs(tabs') /\ minted' \in Nat /\ cache' \in Snapshots \cup {NoCache}
        /\ jobs' \subseteq SaveJobs \cup RenameJobs \cup SharedJobs
    BY <2>1, <2>2, NewTabTypes
  <2> QED BY <2>3, <2>4 DEF Types
<1>3. ASSUME NEW i \in DOMAIN tabs, Edit(i) PROVE Types'
  <2>1. IsTabs(tabs')
    BY <1>3, EditEffect DEF Types
  <2>2. CASE tabs[i].dirty
    BY <1>3, <2>1, <2>2 DEF Edit, Types
  <2>3. CASE ~ tabs[i].dirty
    BY <1>3, <2>1, <2>3, AutosaveTypes DEF Edit, Notify, Types
  <2> QED BY <2>2, <2>3
<1>4. ASSUME NEW i \in DOMAIN tabs, CloseTab(i) PROVE Types'
  <2>1. IsTabs(tabs')
    BY <1>4 DEF CloseTab, Types, IsTabs
  <2> QED BY <1>4, <2>1, AutosaveTypes DEF CloseTab, Notify, Types
<1>5. ASSUME NEW name \in UserNames, OpenNamed(name) PROVE Types'
  <2>1. Named(name) \in Ref
    BY RefsAre
  <2>2. disk.file[Named(name)] \in Text
    BY <1>5, <2>1 DEF OpenNamed, Types, IsDisk
  <2>3. IsDisk(disk')
    <3> DEFINE toml == [ref |-> Named(name), draft |-> FALSE]
               listed == disk.tabs \cup {toml}
    <3>1. IsFiniteSet(listed)
      <4>1. IsFiniteSet(disk.tabs)
        BY DEF Types, IsDisk
      <4> QED BY <4>1, FS_AddElement
    <3>2. listed \in SUBSET [ref : Ref, draft : BOOLEAN]
      <4>1. toml \in [ref : Ref, draft : BOOLEAN]
        BY <2>1
      <4> HIDE DEF toml
      <4> QED BY <4>1 DEF Types, IsDisk
    <3>3. disk' = [disk EXCEPT !.tabs = listed]
      BY <1>5 DEF OpenNamed
    <3> HIDE DEF listed
    <3> QED BY <3>1, <3>2, <3>3 DEF Types, IsDisk
  <2>4. FreeIds # {} /\ tabs' = WithTab(Named(name), disk.file[Named(name)], NoText, FALSE)
        /\ Autosave(1)
    BY <1>5 DEF OpenNamed
  <2>6. written' = minted + 1 /\ UNCHANGED <<next, docs>>
    BY <1>5 DEF OpenNamed
  <2>5. IsTabs(tabs') /\ minted' \in Nat /\ cache' \in Snapshots \cup {NoCache}
        /\ jobs' \subseteq SaveJobs \cup RenameJobs \cup SharedJobs
    BY <2>1, <2>2, <2>4, NewTabTypes
  <2> QED BY <2>3, <2>5, <2>6 DEF Types
<1>6. ASSUME NEW name \in UserNames, OpenShared(name) PROVE Types'
  <2>1. Shared(name) \in Ref
    BY RefsAre
  <2>2. disk.file[Shared(name)] \in Text
    BY <1>6, <2>1 DEF OpenShared, Types, IsDisk
  <2> QED BY <1>6, <2>1, <2>2, NewTabTypes DEF OpenShared, Notify, Types
<1>7. ASSUME NEW i \in DOMAIN tabs, NEW name \in UserNames, RequestRename(i, name) PROVE Types'
  <2>1. tabs[i].ref \in Ref /\ i \in TabIds /\ Named(name) \in Ref /\ Named(name).at = "named"
    BY RefsAre DEF Types, IsTabs, Tab
  <2>2. [kind |-> "rename", claim |-> minted + 1, stage |-> "fence",
         tab |-> i, from |-> tabs[i].ref, to |-> Named(name)] \in RenameJobs
    BY <1>7, <2>1 DEF RequestRename, RenameJobs, Types
  <2> QED BY <1>7, <2>2 DEF RequestRename, Types, tabVars
<1>8. ASSUME NEW i \in DOMAIN tabs, NEW name \in UserNames, NEW kind \in SharedKinds,
             IF kind = "promote" THEN tabs[i].ref.at = "scratch"
             ELSE tabs[i].ref.at = "shared" /\ (kind = "save shared" => name = tabs[i].ref.name),
             Request(kind, i, name)
      PROVE  Types'
  <2>1. /\ tabs[i].ref \in Ref /\ i \in TabIds /\ tabs[i].text \in Text
        /\ Shared(name) \in Ref /\ Shared(name).at = "shared"
    BY RefsAre DEF Types, IsTabs, Tab
  <2>2. kind = "save shared" => Shared(name) = tabs[i].ref
    BY <1>8, <2>1, RefShape
  <2>3. SharedJob(kind, i, name) \in SharedJobs
    BY <1>8, <2>1, <2>2 DEF SharedJob, SharedJobs
  <2> QED BY <1>8, <2>3 DEF Request, Types, tabVars
<1>9. ASSUME NEW i \in DOMAIN tabs, NEW name \in UserNames,
             RequestPromotion(i, name) \/ RequestSharedRename(i, name)
      PROVE  Types'
  BY <1>8, <1>9 DEF RequestPromotion, RequestSharedRename, SharedKinds
<1>10. ASSUME NEW i \in DOMAIN tabs, RequestSave(i) PROVE Types'
  <2>1. tabs[i].ref.name \in UserNames
    BY <1>10, RefShape DEF RequestSave, Types, IsTabs, Tab
  <2> QED BY <1>8, <1>10, <2>1 DEF RequestSave, SharedKinds
<1>11. CASE SwitchAway
  <2>1. IsTabs(tabs')
    BY <1>11 DEF SwitchAway, NoTabs, IsTabs
  <2>2. Snapshot(tabs) \in Snapshots
    BY SnapshotType DEF Types
  <2>3. SaveJob(minted + 1, Snapshot(tabs)) \in SaveJobs
    BY <2>2 DEF SaveJob, SaveJobs, Types
  <2> QED BY <1>11, <2>1, <2>2, <2>3 DEF SwitchAway, Types
<1>12. CASE SwitchHere
  BY <1>12, SwitchHereTypes
<1> QED BY <1>1, <1>2, <1>3, <1>4, <1>5, <1>6, <1>7, <1>9, <1>10, <1>11, <1>12 DEF UserStep

\* What a finished task does to the tab it is for.
LEMMA ReturnTypes ==
  ASSUME Apart, Types, NEW j \in jobs, NEW i \in DOMAIN tabs, NEW tab \in Tab,
         tabs' = [tabs EXCEPT ![i] = tab],
         minted' = minted + 1,
         jobs' = (jobs \ {j}) \cup {SaveJob(minted + 1, Snapshot(tabs'))},
         cache' = Snapshot(tabs'),
         UNCHANGED <<next, docs, written, disk>>
  PROVE  Types'
<1>1. IsTabs(tabs')
  BY DEF Types, IsTabs
<1>2. Snapshot(tabs') \in Snapshots
  BY <1>1, SnapshotType
<1>3. SaveJob(minted + 1, Snapshot(tabs')) \in SaveJobs
  BY <1>2 DEF SaveJob, SaveJobs, Types
<1>4. jobs' \subseteq SaveJobs \cup RenameJobs \cup SharedJobs
  BY <1>3 DEF Types
<1>5. cache' \in Snapshots \cup {NoCache}
  BY <1>2
<1>6. next' \in Nat /\ next' > 0 /\ docs' \in Nat /\ minted' \in Nat /\ written' \in Nat
      /\ IsDisk(disk')
  BY DEF Types
<1> QED BY <1>1, <1>4, <1>5, <1>6 DEF Types

LEMMA RenamedTab ==
  ASSUME Types, NEW j \in RenameJobs, NEW i \in DOMAIN tabs
  PROVE  [[tabs[i] EXCEPT !.ref = j.to] EXCEPT !.base = NoText] \in Tab
<1>1. tabs[i] \in Tab /\ j.to \in Ref
  BY DEF Types, IsTabs, RenameJobs
<1>2. [tabs[i] EXCEPT !.ref = j.to] \in Tab
  BY <1>1 DEF Tab
<1> QED BY <1>2 DEF Tab

LEMMA SharedTabType ==
  ASSUME Types, NEW j \in SharedJobs, j.tab \in DOMAIN tabs
  PROVE  /\ SharedTab(j) \in Tab
         /\ SharedTab(j).text = tabs[j.tab].text
         /\ j.kind # "save shared" => SharedTab(j).ref = j.to
         /\ j.kind = "save shared" => SharedTab(j).ref = tabs[j.tab].ref
         /\ j.kind # "rename shared" => SharedTab(j).base = j.text
         /\ j.kind = "rename shared" => SharedTab(j).base = tabs[j.tab].base
<1>1. tabs[j.tab] \in Tab /\ j.to \in Ref /\ j.text \in Text /\ j.kind \in SharedKinds
  BY DEF Types, IsTabs, SharedJobs
<1>2. CASE j.kind = "promote"
  <2> DEFINE moved == [tabs[j.tab] EXCEPT !.ref = j.to]
  <2>1. moved \in Tab /\ moved.text = tabs[j.tab].text /\ moved.ref = j.to
    BY <1>1 DEF Tab
  <2>2. SharedTab(j) = [moved EXCEPT !.base = j.text]
    BY <1>2 DEF SharedTab
  <2> HIDE DEF moved
  <2> QED BY <1>1, <1>2, <2>1, <2>2 DEF Tab
<1>3. CASE j.kind = "save shared"
  <2>1. SharedTab(j) = [tabs[j.tab] EXCEPT !.base = j.text]
    BY <1>3 DEF SharedTab
  <2> QED BY <1>1, <1>3, <2>1 DEF Tab
<1>4. CASE j.kind = "rename shared"
  <2>1. SharedTab(j) = [tabs[j.tab] EXCEPT !.ref = j.to]
    BY <1>4 DEF SharedTab
  <2> QED BY <1>1, <1>4, <2>1 DEF Tab
<1> QED BY <1>1, <1>2, <1>3, <1>4 DEF SharedKinds

LEMMA TaskTypes ==
  ASSUME Apart, Types, TaskStep
  PROVE  Types'
<1>1. CASE DebounceFires
  <2>1. IsTabs(tabs')
    BY <1>1 DEF DebounceFires, Types
  <2>2. CASE here
    BY <1>1, <2>1, <2>2, AutosaveTypes DEF DebounceFires, Notify, Types
  <2>3. CASE ~ here
    BY <1>1, <2>3 DEF DebounceFires, Types
  <2> QED BY <2>2, <2>3
<1>2. ASSUME NEW j \in jobs, SaveRefused(j) PROVE Types'
  BY <1>2 DEF SaveRefused, Types, tabVars
<1>3. ASSUME NEW j \in jobs, SaveLands(j) \/ SaveFails(j) PROVE Types'
  <2>1. j \in SaveJobs /\ jobs' = jobs \ {j} /\ written' = j.claim
        /\ UNCHANGED <<tabs, next, docs, cache, minted>>
    BY <1>3, JobType DEF SaveLands, SaveFails, tabVars
  <2>2. disk' \in Partial(disk, j.entries) \cup {Persisted(disk, j.entries)}
    BY <1>3 DEF SaveLands, SaveFails
  <2>3. j.entries \in Snapshots /\ j.claim \in Nat
    BY <2>1 DEF SaveJobs
  <2>4. IsDisk(disk')
    BY <2>2, <2>3, WrittenType DEF Types
  <2> QED BY <2>1, <2>3, <2>4 DEF Types
<1>4. ASSUME NEW j \in jobs, RenameFences(j) PROVE Types'
  <2>1. j \in RenameJobs /\ j.kind = "rename" /\ jobs' = (jobs \ {j}) \cup {[j EXCEPT !.stage = "move"]}
    BY <1>4, JobType DEF RenameFences
  <2>2. jobs' \subseteq SaveJobs \cup RenameJobs \cup SharedJobs
    BY <2>1, AdvanceTypes
  <2>3. written' \in Nat
    BY <1>4, <2>1 DEF RenameFences, RenameJobs, Types
  <2> QED BY <1>4, <2>2, <2>3 DEF RenameFences, Types, tabVars
<1>5. ASSUME NEW j \in jobs, RenameMoves(j) PROVE Types'
  <2>1. j \in RenameJobs /\ j.kind = "rename"
        /\ jobs' = (jobs \ {j}) \cup {[j EXCEPT !.stage = "apply"]}
    BY <1>5, JobType DEF RenameMoves
  <2>2. jobs' \subseteq SaveJobs \cup RenameJobs \cup SharedJobs
    BY <2>1, AdvanceTypes
  <2>3. j.from \in Ref /\ j.to \in Ref
    BY <2>1 DEF RenameJobs
  <2>4. IsDisk(Moved(disk, j.from, j.to))
    BY <2>3, MovedType DEF Types
  <2>5. IsDisk(disk')
    BY <1>5, <2>3, <2>4, RetargetedType DEF RenameMoves
  <2> QED BY <1>5, <2>2, <2>5 DEF RenameMoves, Types, tabVars
<1>6. ASSUME NEW j \in jobs, RenameFails(j) PROVE Types'
  BY <1>6 DEF RenameFails, Types, tabVars
<1>7. ASSUME NEW j \in jobs, RenameApplied(j) PROVE Types'
  <2>1. j \in RenameJobs
    BY <1>7, JobType DEF RenameApplied
  <2>2. CASE j.tab \in DOMAIN tabs
    <3> DEFINE tab == [[tabs[j.tab] EXCEPT !.ref = j.to] EXCEPT !.base = NoText]
    <3>1. tabs' = [tabs EXCEPT ![j.tab] = tab]
      BY <1>7, <2>2 DEF RenameApplied
    <3>2. tab \in Tab
      BY <2>1, <2>2, RenamedTab
    <3> HIDE DEF tab
    <3>3. minted' = minted + 1
          /\ jobs' = (jobs \ {j}) \cup {SaveJob(minted + 1, Snapshot(tabs'))}
          /\ cache' = Snapshot(tabs')
          /\ UNCHANGED <<next, docs, written, disk>>
      BY <1>7, <2>2 DEF RenameApplied
    <3> QED BY <2>2, <3>1, <3>2, <3>3, ReturnTypes
  <2>3. CASE j.tab \notin DOMAIN tabs
    BY <1>7, <2>3 DEF RenameApplied, Types
  <2> QED BY <2>2, <2>3
<1>8. ASSUME NEW j \in jobs, SharedWritten(j) PROVE Types'
  <2>1. j \in SharedJobs /\ j.kind \in SharedKinds
    BY <1>8, JobType DEF SharedWritten, SharedKinds
  <2>2. jobs' \subseteq SaveJobs \cup RenameJobs \cup SharedJobs
    <3>1. CASE jobs' = jobs \ {j}
      BY <3>1 DEF Types
    <3>2. CASE Advance(j, "clean")
      BY <2>1, <3>2, AdvanceTypes DEF Advance
    <3> QED BY <1>8, <3>1, <3>2 DEF SharedWritten
  <2>3. IsDisk(disk')
    <3>1. CASE disk' = [disk EXCEPT !.file[j.to] = j.text]
      BY <2>1, <3>1 DEF Types, IsDisk, SharedJobs
    <3> QED BY <1>8, <3>1 DEF SharedWritten, Types
  <2> QED BY <1>8, <2>2, <2>3 DEF SharedWritten, Types, tabVars
<1>9. ASSUME NEW j \in jobs, SharedMoves(j) PROVE Types'
  <2>1. j \in SharedJobs /\ j.kind \in SharedKinds
    BY <1>9, JobType DEF SharedMoves, SharedKinds
  <2>2. jobs' \subseteq SaveJobs \cup RenameJobs \cup SharedJobs
    <3>1. CASE jobs' = jobs \ {j}
      BY <3>1 DEF Types
    <3>2. CASE Advance(j, "apply")
      BY <2>1, <3>2, AdvanceTypes DEF Advance
    <3> QED BY <1>9, <3>1, <3>2 DEF SharedMoves
  <2>3. IsDisk(disk')
    <3>1. IsDisk(Moved(disk, j.from, j.to))
      BY <2>1, MovedType DEF Types, SharedJobs
    <3> QED BY <1>9, <3>1 DEF SharedMoves, Types
  <2> QED BY <1>9, <2>2, <2>3 DEF SharedMoves, Types, tabVars
<1>10. ASSUME NEW j \in jobs, SharedCleaned(j) PROVE Types'
  <2>1. j \in SharedJobs /\ j.kind \in SharedKinds
    BY <1>10, JobType DEF SharedCleaned, SharedKinds
  <2>2. jobs' \subseteq SaveJobs \cup RenameJobs \cup SharedJobs
    BY <1>10, <2>1, AdvanceTypes DEF SharedCleaned, Advance
  <2>3. IsDisk(disk')
    <3>1. IsDisk([disk EXCEPT !.file[j.from] = NoText])
      BY <2>1 DEF Types, IsDisk, SharedJobs
    <3>2. IsDisk([disk EXCEPT !.draft[j.from.name] = NoText])
      BY DEF Types, IsDisk
    <3> QED BY <1>10, <3>1, <3>2 DEF SharedCleaned, Types
  <2> QED BY <1>10, <2>2, <2>3 DEF SharedCleaned, Types, tabVars
<1>11. ASSUME NEW j \in jobs, SharedApplied(j) PROVE Types'
  <2>1. j \in SharedJobs
    BY <1>11, JobType DEF SharedApplied, SharedKinds
  <2>2. CASE j.tab \in DOMAIN tabs /\ (j.kind = "promote" \/ tabs[j.tab].ref.at = "shared")
    <3>1. SharedTab(j) \in Tab
      BY <2>1, <2>2, SharedTabType
    <3>2. tabs' = [tabs EXCEPT ![j.tab] = SharedTab(j)] /\ minted' = minted + 1
          /\ jobs' = (jobs \ {j}) \cup {SaveJob(minted + 1, Snapshot(tabs'))}
          /\ cache' = Snapshot(tabs')
          /\ UNCHANGED <<next, docs, written, disk>>
      BY <1>11, <2>2 DEF SharedApplied
    <3> QED BY <2>2, <3>1, <3>2, ReturnTypes
  <2>3. CASE ~ (j.tab \in DOMAIN tabs /\ (j.kind = "promote" \/ tabs[j.tab].ref.at = "shared"))
    BY <1>11, <2>3 DEF SharedApplied, Types
  <2> QED BY <2>2, <2>3
<1> QED BY <1>1, <1>2, <1>3, <1>4, <1>5, <1>6, <1>7, <1>8, <1>9, <1>10, <1>11 DEF TaskStep

LEMMA TypesNext ==
  ASSUME Apart, Types, [Next]_vars
  PROVE  Types'
<1>1. CASE UserStep
  BY <1>1, UserTypes
<1>2. CASE TaskStep
  BY <1>2, TaskTypes
<1>3. ASSUME NEW name \in UserNames, SharedGone(name) PROVE Types'
  <2>1. IsDisk(disk')
    BY <1>3, RefsAre DEF SharedGone, Types, IsDisk
  <2> QED BY <1>3, <2>1 DEF SharedGone, Types, tabVars
<1>4. CASE Crash
  <2>1. IsDisk(disk')
    BY <1>4, TornType DEF Crash, Types
  <2>2. IsTabs(tabs')
    BY <1>4 DEF Crash, NoTabs, IsTabs
  <2> QED BY <1>4, <2>1, <2>2 DEF Crash, Types
<1>5. CASE UNCHANGED vars
  BY <1>5 DEF vars, tabVars, Types
<1> QED BY <1>1, <1>2, <1>3, <1>4, <1>5 DEF Next

-----------------------------------------------------------------------------
(* Two tabs are never saved to one file.                                     *)

(* The names are apart (NamesApart), and a script saved under a name keeps   *)
(* it.                                                                       *)
NamesKept == NamesApart /\ "rename" \notin Ops

SingleTabs(ts) ==
  \A i, k \in DOMAIN ts : ts[i].ref = ts[k].ref /\ ts[i].ref.at # "shared" => i = k
SingleEntries(s) ==
  \A e, x \in s : e.ref = x.ref /\ e.ref.at # "shared" => e = x

RefsOf(ts) == {ts[i].ref : i \in DOMAIN ts}
RefsIn(s) == {e.ref : e \in s}
Cached == IF cache = NoCache THEN {} ELSE cache
Held == RefsOf(tabs) \cup RefsIn(Cached)

\* The scripts renamed on disk whose tab has not been told.
Renamed == {j \in jobs : j.kind = "rename" /\ j.stage = "apply"}

\* New scripts get numbers past those in use.
Numbered ==
  \A i \in DOMAIN tabs :
    tabs[i].ref.at = "scratch" /\ tabs[i].ref.name \in 1..MaxDocs => tabs[i].ref.name < next

\* Without tabs here, the disk is consulted only when nothing is under way.
Away == ~ here => DOMAIN tabs = {} /\ (cache = NoCache => jobs = {})

\* A named script that is open has its file.
Filed == \A ref \in Held : ref.at = "named" => disk.file[ref] # NoText

\* A rename is of a scratch script; once done, its file is there and no other
\* tab's, nor another rename's.
Renaming ==
  /\ \A j \in jobs : j.kind = "rename" => j.from.at = "scratch" /\ "name" \in Ops
  /\ \A j \in Renamed : disk.file[j.to] # NoText /\ j.to \notin Held
  /\ \A j, k \in Renamed : j.to = k.to => j = k

Orderly ==
  Types /\ SingleTabs(tabs) /\ SingleEntries(Cached) /\ Numbered /\ Away /\ Filed /\ Renaming

LEMMA SnapshotSingle ==
  ASSUME NEW ts, IsTabs(ts), SingleTabs(ts)
  PROVE  SingleEntries(Snapshot(ts)) /\ RefsIn(Snapshot(ts)) = RefsOf(ts)
<1>1. \A i \in DOMAIN ts : EntryOf(ts[i]).ref = ts[i].ref
  BY EntryType DEF IsTabs
<1> QED BY <1>1 DEF SingleTabs, SingleEntries, RefsIn, RefsOf, Snapshot

\* A step that finishes no rename on disk.
LEMMA OrderlyStep ==
  ASSUME Apart, Orderly, Types', SingleTabs(tabs'), Numbered', Away',
         cache' \in {cache, Snapshot(tabs'), Snapshot(tabs), NoCache},
         \A name \in UserNames :
           disk.file[Named(name)] # NoText => disk'.file[Named(name)] # NoText,
         \A ref \in RefsOf(tabs') \ Held : ref.at = "named" =>
           disk'.file[ref] # NoText /\ \A j \in Renamed' : j.to # ref,
         Renamed' \subseteq Renamed,
         \A j \in jobs' \ jobs : j.kind = "rename" => j.from.at = "scratch" /\ "name" \in Ops
  PROVE  Orderly'
<1>1. IsTabs(tabs) /\ IsTabs(tabs')
  BY DEF Orderly, Types
<1>2. SingleEntries(Cached') /\ RefsIn(Cached') \subseteq Held \cup RefsOf(tabs')
  <2>1. CASE cache' = cache
    BY <2>1 DEF Orderly, Cached, Held
  <2>2. CASE cache' = NoCache
    BY <2>2 DEF Cached, SingleEntries, RefsIn
  <2>3. ASSUME NEW ts, ts = tabs \/ ts = tabs', cache' = Snapshot(ts)
        PROVE  SingleEntries(Cached') /\ RefsIn(Cached') \subseteq Held \cup RefsOf(tabs')
    <3>1. IsTabs(ts) /\ SingleTabs(ts)
      BY <1>1, <2>3 DEF Orderly
    <3>2. Cached' = Snapshot(ts)
      BY <2>3, <3>1, SnapshotType DEF Cached
    <3>3. RefsOf(ts) \subseteq Held \cup RefsOf(tabs')
      BY <2>3 DEF Held
    <3> QED BY <3>1, <3>2, <3>3, SnapshotSingle
  <2> QED BY <2>1, <2>2, <2>3
<1>3. Held' \subseteq Held \cup RefsOf(tabs')
  BY <1>2 DEF Held
<1>4. \A ref \in Held : ref \in Ref
  <2>1. RefsOf(tabs) \subseteq Ref
    BY <1>1 DEF RefsOf, IsTabs, Tab
  <2>2. RefsIn(Cached) \subseteq Ref
    BY DEF Orderly, Types, Cached, RefsIn, Snapshots, Entry
  <2> QED BY <2>1, <2>2 DEF Held
<1>5. Filed'
  <2> SUFFICES ASSUME NEW ref \in Held', ref.at = "named" PROVE disk'.file[ref] # NoText
    BY DEF Filed
  <2>1. CASE ref \in Held
    <3>1. ref = Named(ref.name) /\ ref.name \in UserNames
      BY <1>4, <2>1, RefShape
    <3>2. disk.file[ref] # NoText
      BY <2>1 DEF Orderly, Filed
    <3> QED BY <3>1, <3>2
  <2> QED BY <1>3, <2>1
<1>6. Renaming'
  <2>1. ASSUME NEW j \in Renamed' PROVE disk'.file[j.to] # NoText /\ j.to \notin Held'
    <3>1. j \in Renamed /\ j \in jobs /\ j.kind = "rename"
      BY DEF Renamed
    <3>2. j.to \in Ref /\ j.to.at = "named"
      BY <3>1, JobType DEF RenameJobs, Orderly
    <3>3. j.to = Named(j.to.name) /\ j.to.name \in UserNames
      BY <3>2, RefShape
    <3>4. disk.file[j.to] # NoText /\ j.to \notin Held
      BY <3>1 DEF Orderly, Renaming
    <3> QED BY <1>3, <3>2, <3>3, <3>4
  <2>2. \A j \in jobs' : j.kind = "rename" => j.from.at = "scratch" /\ "name" \in Ops
    BY DEF Orderly, Renaming
  <2>3. \A j, k \in Renamed' : j.to = k.to => j = k
    BY DEF Orderly, Renaming
  <2> QED BY <2>1, <2>2, <2>3 DEF Renaming
<1> QED BY <1>2, <1>5, <1>6 DEF Orderly

LEMMA OrderlyInit == Apart /\ Init => Orderly
<1> SUFFICES ASSUME Apart, Init PROVE Orderly
  OBVIOUS
<1>1. Types
  BY TypesInit
<1>2. DOMAIN tabs = {} /\ cache = NoCache /\ jobs = {}
  BY DEF Init, NoTabs
<1> QED BY <1>1, <1>2 DEF Orderly, SingleTabs, SingleEntries, Numbered, Away, Filed, Renaming,
                          Cached, Held, RefsOf, RefsIn, Renamed

LEMMA SavesRename ==
  ASSUME NEW claim, NEW entries, jobs' \subseteq jobs \cup {SaveJob(claim, entries)}
  PROVE  Renamed' \subseteq Renamed /\ \A j \in jobs' \ jobs : j.kind # "rename"
  BY DEF Renamed, SaveJob

\* A tab is opened for a file that no tab has.
LEMMA OrderlyOpened ==
  ASSUME Apart, Orderly, Types', FreeIds # {}, here' = here, here,
         NEW ref \in Ref, NEW text \in Text, NEW base \in Text \cup {NoText}, NEW dirty \in BOOLEAN,
         tabs' = WithTab(ref, text, base, dirty), NEW skip \in Nat, Autosave(skip),
         ref.at # "shared" => \A i \in DOMAIN tabs : tabs[i].ref # ref,
         ref.at = "scratch" /\ ref.name \in 1..MaxDocs => ref.name < next', next' \in Nat, next <= next',
         ref.at = "named" => disk'.file[ref] # NoText /\ Renamed = {},
         disk'.file = disk.file
  PROVE  Orderly'
<1>1. PICK id \in FreeIds : NewTab(id, ref, text, base)
  <2>1. IsTabs(tabs)
    BY DEF Orderly, Types
  <2> QED BY <2>1, WithTabEffect
<1>2. tabs'[id].ref = ref
  BY <1>1 DEF NewTab
<1>3. SingleTabs(tabs')
  <2> SUFFICES ASSUME NEW i \in DOMAIN tabs', NEW k \in DOMAIN tabs',
                      tabs'[i].ref = tabs'[k].ref, tabs'[i].ref.at # "shared"
               PROVE  i = k
    BY DEF SingleTabs
  <2>1. \A m \in DOMAIN tabs : tabs'[m].ref = tabs[m].ref
    BY <1>1 DEF NewTab
  <2>2. DOMAIN tabs' = DOMAIN tabs \cup {id} /\ SingleTabs(tabs)
    BY <1>1 DEF Orderly, NewTab
  <2> QED BY <1>2, <2>1, <2>2 DEF SingleTabs
<1>4. Numbered'
  <2> SUFFICES ASSUME NEW i \in DOMAIN tabs',
                      tabs'[i].ref.at = "scratch" /\ tabs'[i].ref.name \in 1..MaxDocs
               PROVE  tabs'[i].ref.name < next'
    BY DEF Numbered
  <2>1. CASE i = id
    BY <1>2, <2>1
  <2>2. CASE i \in DOMAIN tabs
    <3>1. tabs'[i].ref = tabs[i].ref
      BY <1>1, <2>2 DEF NewTab
    <3>2. tabs[i].ref.name < next
      BY <2>2, <3>1 DEF Orderly, Numbered
    <3>3. next \in Nat /\ tabs[i].ref.name \in 1..MaxDocs
      BY <3>1 DEF Orderly, Types
    <3> QED BY <3>1, <3>2, <3>3
  <2>3. DOMAIN tabs' = DOMAIN tabs \cup {id}
    BY <1>1 DEF NewTab
  <2> QED BY <2>1, <2>2, <2>3
<1>5. Away'
  BY DEF Away
<1>6. cache' = Snapshot(tabs') /\ jobs' = jobs \cup {SaveJob(minted + skip + 1, Snapshot(tabs'))}
  BY DEF Autosave
<1>7. Renamed' \subseteq Renamed /\ \A j \in jobs' \ jobs : j.kind # "rename"
  BY <1>6, SavesRename
<1>8. RefsOf(tabs') \subseteq Held \cup {ref}
  <2>1. \A i \in DOMAIN tabs : tabs'[i].ref \in Held
    BY <1>1 DEF Held, RefsOf, NewTab
  <2>2. DOMAIN tabs' = DOMAIN tabs \cup {id}
    BY <1>1 DEF NewTab
  <2> QED BY <1>2, <2>1, <2>2 DEF RefsOf
<1>9. \A r \in RefsOf(tabs') \ Held : r.at = "named" =>
        disk'.file[r] # NoText /\ \A j \in Renamed' : j.to # r
  BY <1>7, <1>8
<1>10. \A name \in UserNames : disk.file[Named(name)] # NoText => disk'.file[Named(name)] # NoText
  OBVIOUS
<1> QED BY <1>3, <1>4, <1>5, <1>6, <1>7, <1>9, <1>10, OrderlyStep

\* The tabs keep their files, or some are closed.
LEMMA OrderlyKept ==
  ASSUME Apart, Orderly, Types', DOMAIN tabs' \subseteq DOMAIN tabs,
         \A i \in DOMAIN tabs' : tabs'[i].ref = tabs[i].ref,
         next' = next, here' = here, here \/ (cache' = cache /\ (cache = NoCache => jobs' = {})),
         cache' \in {cache, Snapshot(tabs'), NoCache},
         \A name \in UserNames :
           disk.file[Named(name)] # NoText => disk'.file[Named(name)] # NoText,
         Renamed' \subseteq Renamed,
         \A j \in jobs' \ jobs : j.kind = "rename" => j.from.at = "scratch" /\ "name" \in Ops
  PROVE  Orderly'
<1>1. SingleTabs(tabs')
  BY DEF Orderly, SingleTabs
<1>2. Numbered'
  BY DEF Orderly, Numbered
<1>3. Away'
  BY DEF Orderly, Away
<1>4. RefsOf(tabs') \subseteq Held
  BY DEF RefsOf, Held
<1> QED BY <1>1, <1>2, <1>3, <1>4, OrderlyStep

\* The entries the tabs are restored from are of different files, those there.
LEMMA SwitchedFromOrderly ==
  ASSUME Apart, Orderly, ~ here
  PROVE  /\ SingleEntries(SwitchedFrom)
         /\ \A e \in SwitchedFrom : e.ref.at = "named" =>
              disk.file[e.ref] # NoText /\ \A j \in Renamed : j.to # e.ref
<1>1. CASE cache # NoCache
  <2>1. SwitchedFrom = Cached
    BY <1>1 DEF SwitchedFrom, Cached
  <2>2. \A e \in Cached : e.ref \in Held
    BY DEF Held, RefsIn
  <2> QED BY <2>1, <2>2 DEF Orderly, Filed, Renaming
<1>2. CASE cache = NoCache
  <2>1. SwitchedFrom = Loaded(disk) /\ Renamed = {}
    BY <1>2 DEF SwitchedFrom, Orderly, Away, Renamed
  <2>2. \A e \in Loaded(disk) : e \in Entry /\ (e.ref.at # "shared" => e.text = disk.file[e.ref])
    BY LoadedType DEF Orderly, Types, Snapshots
  <2>3. \A e \in Loaded(disk) : e \in [ref : Ref, text : Text \cup {NoText}]
                                /\ (e.ref.at # "shared" => e.text # NoText)
    BY <2>2 DEF Entry
  <2>4. SingleEntries(Loaded(disk))
    <3> SUFFICES ASSUME NEW e \in Loaded(disk), NEW x \in Loaded(disk), e.ref = x.ref,
                        e.ref.at # "shared"
                 PROVE  e = x
      BY DEF SingleEntries
    <3>1. e.text = x.text
      BY <2>2
    <3> QED BY <2>3, <3>1
  <2>5. \A e \in Loaded(disk) : e.ref.at = "named" => disk.file[e.ref] # NoText
    BY <2>2, <2>3
  <2> QED BY <2>1, <2>4, <2>5
<1> QED BY <1>1, <1>2

LEMMA OrderlySwitched ==
  ASSUME Apart, Orderly, Types', SwitchHere
  PROVE  Orderly'
<1>1. ~ here /\ here' /\ UNCHANGED <<cache, jobs, disk>> /\ DOMAIN tabs = {}
  BY DEF SwitchHere, Orderly, Away
<1>2. Renamed' = Renamed /\ Away'
  BY <1>1 DEF Renamed, Away
<1>3. ASSUME SingleTabs(tabs'), Numbered',
             \A ref \in RefsOf(tabs') : ref.at = "named" =>
               disk.file[ref] # NoText /\ \A j \in Renamed : j.to # ref
      PROVE  Orderly'
  BY <1>1, <1>2, <1>3, OrderlyStep
<1>4. CASE SwitchedFrom = {}
  <2>1. FreeIds # {} /\ tabs' = WithTab(Scratch(1), [of |-> docs + 1, n |-> 0], NoText, FALSE)
        /\ docs < MaxDocs /\ next' = 2
    BY <1>4 DEF SwitchHere, SwitchedFrom
  <2>2. Scratch(1) \in Ref /\ [of |-> docs + 1, n |-> 0] \in Text
    BY <2>1, RefsAre DEF ScratchNames, Text, Orderly, Types, Apart
  <2>3. NoText \in Text \cup {NoText} /\ FALSE \in BOOLEAN /\ IsTabs(tabs)
    BY DEF Orderly, Types
  <2> DEFINE dirty == FALSE
             text == [of |-> docs + 1, n |-> 0]
  <2>4. dirty \in BOOLEAN /\ tabs' = WithTab(Scratch(1), text, NoText, dirty) /\ text \in Text
    BY <2>1, <2>2
  <2> HIDE DEF dirty, text
  <2>9. FreeIds # {} /\ Scratch(1) \in Ref /\ NoText \in Text \cup {NoText} /\ IsTabs(tabs)
    BY <2>1, <2>2, <2>3
  <2>10. PICK new \in FreeIds : NewTab(new, Scratch(1), text, NoText)
    BY <2>4, <2>9, WithTabEffect
  <2>5. PICK id : DOMAIN tabs' = {id} /\ tabs'[id].ref = Scratch(1)
    BY <1>1, <2>10 DEF NewTab
  <2>6. SingleTabs(tabs')
    BY <2>5 DEF SingleTabs
  <2>7. Numbered'
    <3>1. Scratch(1).name = 1
      BY DEF Scratch
    <3>2. \A i \in DOMAIN tabs' : tabs'[i].ref.name = 1
      BY <2>5, <3>1
    <3>3. 1 < next'
      BY <2>1
    <3> QED BY <3>2, <3>3 DEF Numbered
  <2>8. RefsOf(tabs') = {Scratch(1)} /\ Scratch(1).at = "scratch"
    BY <2>5 DEF RefsOf, Scratch
  <2> QED BY <1>3, <2>6, <2>7, <2>8
<1>5. CASE SwitchedFrom # {}
  <2> DEFINE entries == SwitchedFrom
  <2>1. /\ Cardinality(entries) <= Cardinality(FreeIds)
        /\ tabs' = RestoredTabs(entries) /\ next' = NextNumber(entries)
    BY <1>5 DEF SwitchHere, SwitchedFrom
  <2>2. entries \in Snapshots /\ IsTabs(tabs) /\ IsDisk(disk)
    BY SwitchedFromType DEF Orderly, Types
  <2>3. SingleEntries(entries)
        /\ \A e \in entries : e.ref.at = "named" =>
             disk.file[e.ref] # NoText /\ \A j \in Renamed : j.to # e.ref
    BY <1>1, SwitchedFromOrderly
  <2> HIDE DEF entries
  <2>4. PICK ids \in [entries -> FreeIds] : RestoredAs(entries, ids)
    BY <2>1, <2>2, RestoredTabsEffect
  <2>5. \A e \in entries : tabs'[ids[e]].ref = e.ref
    <3> SUFFICES ASSUME NEW e \in entries PROVE tabs'[ids[e]].ref = e.ref
      OBVIOUS
    <3>1. e \in Entry
      BY <2>2 DEF Snapshots
    <3> QED BY <2>2, <2>4, <3>1, RestoredType DEF RestoredAs
  <2>6. \A i \in DOMAIN tabs' : \E e \in entries : i = ids[e] /\ tabs'[i].ref = e.ref
    BY <2>4, <2>5 DEF RestoredAs
  <2>7. SingleTabs(tabs')
    BY <2>3, <2>6 DEF SingleTabs, SingleEntries
  <2>8. Numbered'
    <3>1. \A e \in entries : e.ref.at = "scratch" /\ e.ref.name \in 1..MaxDocs =>
            e.ref.name < next'
      BY <2>1, NextNumberType
    <3> QED BY <2>6, <3>1 DEF Numbered
  <2>9. \A ref \in RefsOf(tabs') : \E e \in entries : ref = e.ref
    BY <2>6 DEF RefsOf
  <2> QED BY <1>3, <2>3, <2>7, <2>8, <2>9
<1> QED BY <1>4, <1>5

LEMMA OrderlyUser ==
  ASSUME Apart, NamesKept, Orderly, Types', UserStep
  PROVE  Orderly'
<1>1. CASE NewScript
  <2>1. here /\ FreeIds # {} /\ next <= MaxDocs /\ next' = next + 1 /\ here' = here /\ disk' = disk
    BY <1>1 DEF NewScript
  <2>2. tabs' = WithTab(Scratch(next), [of |-> docs + 1, n |-> 0], NoText, FALSE) /\ Autosave(0)
    BY <1>1 DEF NewScript, Notify
  <2>3. next \in Nat /\ next > 0 /\ [of |-> docs + 1, n |-> 0] \in Text
    BY DEF Orderly, Types, Text
  <2>4. next \in 1..MaxDocs /\ Scratch(next) \in Ref
    BY <2>1, <2>3, RefsAre DEF ScratchNames, Apart
  <2>5. Scratch(next).at = "scratch" /\ Scratch(next).name = next
    BY DEF Scratch
  <2>6. \A i \in DOMAIN tabs : tabs[i].ref # Scratch(next)
    <3> SUFFICES ASSUME NEW i \in DOMAIN tabs, tabs[i].ref = Scratch(next) PROVE FALSE
      OBVIOUS
    <3>1. tabs[i].ref.name < next
      BY <2>4, <2>5 DEF Orderly, Numbered
    <3> QED BY <2>3, <2>5, <3>1
  <2>7. next' \in Nat /\ next < next' /\ next <= next'
    BY <2>1, <2>3
  <2>8. Scratch(next).name < next' /\ Scratch(next).at # "named" /\ disk'.file = disk.file
    BY <2>1, <2>5, <2>7
  <2>9. NoText \in Text \cup {NoText} /\ FALSE \in BOOLEAN /\ 0 \in Nat
    OBVIOUS
  <2> QED BY <2>1, <2>2, <2>3, <2>4, <2>6, <2>7, <2>8, <2>9, OrderlyOpened, Zenon
<1>2. ASSUME NEW name \in Relations, ConvertGenerated(name) PROVE Orderly'
  <2>1. here /\ FreeIds # {} /\ ~ IsOpen(Scratch(name)) /\ next' = next /\ here' = here /\ disk' = disk
    BY <1>2 DEF ConvertGenerated
  <2>2. tabs' = WithTab(Scratch(name), [of |-> docs + 1, n |-> 0], NoText, TRUE) /\ Autosave(0)
    BY <1>2 DEF ConvertGenerated, Notify
  <2>3. next \in Nat /\ [of |-> docs + 1, n |-> 0] \in Text
    BY DEF Orderly, Types, Text
  <2>4. Scratch(name) \in Ref /\ Scratch(name).at = "scratch" /\ Scratch(name).name = name
    BY RefsAre DEF ScratchNames, Scratch
  <2>5. name \notin 1..MaxDocs
    BY DEF NamesKept, NamesApart
  <2>6. \A i \in DOMAIN tabs : tabs[i].ref # Scratch(name)
    BY <2>1 DEF IsOpen
  <2>7. next' \in Nat /\ next <= next' /\ disk'.file = disk.file
    BY <2>1, <2>3
  <2>8. Scratch(name).at # "named" /\ Scratch(name).name \notin 1..MaxDocs
    BY <2>4, <2>5
  <2>9. NoText \in Text \cup {NoText} /\ TRUE \in BOOLEAN /\ 0 \in Nat
    OBVIOUS
  <2> QED BY <2>1, <2>2, <2>3, <2>4, <2>6, <2>7, <2>8, <2>9, OrderlyOpened, Zenon
<1>3. ASSUME NEW i \in DOMAIN tabs, Edit(i) PROVE Orderly'
  <2>1. DOMAIN tabs' = DOMAIN tabs /\ \A k \in DOMAIN tabs : tabs'[k].ref = tabs[k].ref
    BY <1>3, EditEffect DEF Orderly, Types
  <2>2. here /\ next' = next /\ here' = here /\ disk' = disk
    BY <1>3 DEF Edit, Orderly, Away
  <2>3. CASE Autosave(0)
    <3>1. cache' = Snapshot(tabs') /\ jobs' = jobs \cup {SaveJob(minted + 1, Snapshot(tabs'))}
      BY <2>3 DEF Autosave, Orderly, Types
    <3>2. Renamed' \subseteq Renamed /\ \A j \in jobs' \ jobs : j.kind # "rename"
      BY <3>1, SavesRename
    <3> QED BY <2>1, <2>2, <3>1, <3>2, OrderlyKept
  <2>4. CASE UNCHANGED <<minted, jobs, cache>>
    BY <2>1, <2>2, <2>4, OrderlyKept DEF Renamed
  <2> QED BY <1>3, <2>3, <2>4 DEF Edit, Notify
<1>4. ASSUME NEW i \in DOMAIN tabs, CloseTab(i) PROVE Orderly'
  <2>1. tabs' = [k \in DOMAIN tabs \ {i} |-> tabs[k]] /\ Autosave(0)
        /\ next' = next /\ here' = here /\ disk' = disk
    BY <1>4 DEF CloseTab, Notify
  <2>2. here
    BY DEF Orderly, Away
  <2>3. cache' = Snapshot(tabs') /\ jobs' = jobs \cup {SaveJob(minted + 1, Snapshot(tabs'))}
    BY <2>1 DEF Autosave, Orderly, Types
  <2>4. Renamed' \subseteq Renamed /\ \A j \in jobs' \ jobs : j.kind # "rename"
    BY <2>3, SavesRename
  <2>5. DOMAIN tabs' \subseteq DOMAIN tabs /\ \A k \in DOMAIN tabs' : tabs'[k].ref = tabs[k].ref
    BY <2>1
  <2> QED BY <2>1, <2>2, <2>3, <2>4, <2>5, OrderlyKept
<1>5. ASSUME NEW name \in UserNames, OpenNamed(name) PROVE Orderly'
  <2>1. /\ here /\ FreeIds # {} /\ ~ IsOpen(Named(name)) /\ disk.file[Named(name)] # NoText
        /\ "reopen" \in Ops /\ next' = next /\ here' = here
    BY <1>5 DEF OpenNamed
  <2>2. tabs' = WithTab(Named(name), disk.file[Named(name)], NoText, FALSE) /\ Autosave(1)
    BY <1>5 DEF OpenNamed
  <2>3. Named(name) \in Ref /\ Named(name).at = "named"
    BY RefsAre
  <2>4. disk.file[Named(name)] \in Text
    BY <2>1, <2>3 DEF Orderly, Types, IsDisk
  <2>5. disk'.file = disk.file
    <3> DEFINE listed == disk.tabs \cup {[ref |-> Named(name), draft |-> FALSE]}
    <3>1. disk' = [disk EXCEPT !.tabs = listed]
      BY <1>5 DEF OpenNamed
    <3> HIDE DEF listed
    <3> QED BY <3>1 DEF Orderly, Types, IsDisk
  <2>6. Renamed = {}
    BY <2>1 DEF Orderly, Renaming, Renamed, NamesKept, NamesApart
  <2>7. next' \in Nat /\ next <= next'
    BY <2>1 DEF Orderly, Types
  <2>8. \A i \in DOMAIN tabs : tabs[i].ref # Named(name)
    BY <2>1 DEF IsOpen
  <2>9. Named(name).at # "scratch" /\ disk'.file[Named(name)] # NoText
    BY <2>1, <2>3, <2>5
  <2>10. NoText \in Text \cup {NoText} /\ FALSE \in BOOLEAN /\ 1 \in Nat
    OBVIOUS
  <2> QED BY <2>1, <2>2, <2>3, <2>4, <2>5, <2>6, <2>7, <2>8, <2>9, <2>10, OrderlyOpened, Zenon
<1>6. ASSUME NEW name \in UserNames, OpenShared(name) PROVE Orderly'
  <2>1. here /\ FreeIds # {} /\ disk.file[Shared(name)] # NoText
        /\ next' = next /\ here' = here /\ disk' = disk
    BY <1>6 DEF OpenShared
  <2>2. tabs' = WithTab(Shared(name), disk.file[Shared(name)], disk.file[Shared(name)], FALSE)
        /\ Autosave(0)
    BY <1>6 DEF OpenShared, Notify
  <2>3. Shared(name) \in Ref /\ Shared(name).at = "shared"
    BY RefsAre
  <2>4. disk.file[Shared(name)] \in Text
    BY <2>1, <2>3 DEF Orderly, Types, IsDisk
  <2>5. next' \in Nat /\ next <= next' /\ disk'.file = disk.file
    BY <2>1 DEF Orderly, Types
  <2>6. Shared(name).at # "scratch" /\ Shared(name).at # "named"
    BY <2>3
  <2>7. disk.file[Shared(name)] \in Text \cup {NoText} /\ FALSE \in BOOLEAN /\ 0 \in Nat
    BY <2>4
  <2> QED BY <2>1, <2>2, <2>3, <2>4, <2>5, <2>6, <2>7, OrderlyOpened, Zenon
<1>7. ASSUME NEW i \in DOMAIN tabs, NEW name \in UserNames, RequestRename(i, name) PROVE Orderly'
  <2> DEFINE job == [kind |-> "rename", claim |-> minted + 1, stage |-> "fence",
                     tab |-> i, from |-> tabs[i].ref, to |-> Named(name)]
  <2>1. jobs' = jobs \cup {job} /\ UNCHANGED <<tabs, next, here, cache, disk>>
    BY <1>7 DEF RequestRename, tabVars
  <2>2. tabs[i].ref.at = "scratch" /\ "name" \in Ops
    BY <1>7 DEF RequestRename, NamesKept, NamesApart
  <2>3. here
    BY DEF Orderly, Away
  <2>4. job.from.at = "scratch" /\ job.stage # "apply"
    BY <2>2
  <2> HIDE DEF job
  <2>5. Renamed' \subseteq Renamed /\ \A j \in jobs' \ jobs : j.from.at = "scratch"
    BY <2>1, <2>4 DEF Renamed
  <2> QED BY <2>1, <2>2, <2>3, <2>5, OrderlyKept
<1>8. ASSUME NEW i \in DOMAIN tabs, NEW name, NEW kind \in SharedKinds, Request(kind, i, name)
      PROVE  Orderly'
  <2>1. jobs' = jobs \cup {SharedJob(kind, i, name)} /\ UNCHANGED <<tabs, next, here, cache, disk>>
    BY <1>8 DEF Request, tabVars
  <2>2. SharedJob(kind, i, name).kind # "rename"
    BY <1>8 DEF SharedJob, SharedKinds
  <2>3. here
    BY DEF Orderly, Away
  <2>4. Renamed' \subseteq Renamed /\ \A j \in jobs' \ jobs : j.kind # "rename"
    BY <2>1, <2>2 DEF Renamed
  <2> QED BY <2>1, <2>3, <2>4, OrderlyKept
<1>9. ASSUME NEW i \in DOMAIN tabs, NEW name \in UserNames,
             RequestPromotion(i, name) \/ RequestSharedRename(i, name)
      PROVE  Orderly'
  BY <1>8, <1>9 DEF RequestPromotion, RequestSharedRename, SharedKinds
<1>10. ASSUME NEW i \in DOMAIN tabs, RequestSave(i) PROVE Orderly'
  BY <1>8, <1>10 DEF RequestSave, SharedKinds
<1>11. CASE SwitchAway
  <2>1. /\ cache' = Snapshot(tabs) /\ jobs' = jobs \cup {SaveJob(minted + 1, Snapshot(tabs))}
        /\ tabs' = NoTabs /\ ~ here' /\ UNCHANGED <<next, disk>>
    BY <1>11 DEF SwitchAway
  <2>2. DOMAIN tabs' = {}
    BY <2>1 DEF NoTabs
  <2>3. cache' # NoCache
    BY <2>1, SnapshotType DEF Orderly, Types
  <2>4. Away'
    BY <2>2, <2>3 DEF Away
  <2>5. SingleTabs(tabs') /\ Numbered' /\ RefsOf(tabs') = {}
    BY <2>2 DEF SingleTabs, Numbered, RefsOf
  <2>6. Renamed' \subseteq Renamed /\ \A j \in jobs' \ jobs : j.kind # "rename"
    BY <2>1, SavesRename
  <2> QED BY <2>1, <2>4, <2>5, <2>6, OrderlyStep
<1>12. CASE SwitchHere
  BY <1>12, OrderlySwitched
<1> QED BY <1>1, <1>2, <1>3, <1>4, <1>5, <1>6, <1>7, <1>9, <1>10, <1>11, <1>12 DEF UserStep

\* A job on the way, or done with, moves no named script.
LEMMA OrderlyAdvanced ==
  ASSUME Apart, Orderly, Types', NEW j \in jobs, NEW stage,
         \/ jobs' = jobs \ {j}
         \/ jobs' = (jobs \ {j}) \cup {[j EXCEPT !.stage = stage]} /\ j.kind # "save"
            /\ (j.kind = "rename" => stage # "apply"),
         UNCHANGED <<tabs, next, here, cache>>,
         \A name \in UserNames :
           disk.file[Named(name)] # NoText => disk'.file[Named(name)] # NoText
  PROVE  Orderly'
<1>1. here \/ cache # NoCache
  BY DEF Orderly, Away
<1>2. ASSUME jobs' = (jobs \ {j}) \cup {[j EXCEPT !.stage = stage]}, j.kind # "save",
             j.kind = "rename" => stage # "apply"
      PROVE  /\ Renamed' \subseteq Renamed
             /\ \A k \in jobs' \ jobs : k.kind = "rename" => k.from.at = "scratch" /\ "name" \in Ops
  <2> DEFINE k == [j EXCEPT !.stage = stage]
  <2>1. k.kind = j.kind /\ k.stage = stage /\ (j.kind = "rename" => k.from = j.from)
    <3>1. j \in RenameJobs \cup SharedJobs
      BY <1>2, JobType DEF Orderly, SharedKinds
    <3> QED BY <3>1 DEF RenameJobs, SharedJobs
  <2>2. j.kind = "rename" => j.from.at = "scratch" /\ "name" \in Ops
    BY DEF Orderly, Renaming
  <2>3. jobs' = (jobs \ {j}) \cup {k}
    BY <1>2
  <2> HIDE DEF k
  <2> QED BY <1>2, <2>1, <2>2, <2>3 DEF Renamed
<1>3. /\ Renamed' \subseteq Renamed
      /\ \A k \in jobs' \ jobs : k.kind = "rename" => k.from.at = "scratch" /\ "name" \in Ops
  BY <1>2 DEF Renamed
<1> QED BY <1>1, <1>3, OrderlyKept

\* The file of a scratch script becomes that of a named one, which had none.
LEMMA OrderlyMoved ==
  ASSUME Apart, Orderly, Types', NEW j \in jobs, RenameMoves(j)
  PROVE  Orderly'
<1> DEFINE moved == [j EXCEPT !.stage = "apply"]
<1>1. /\ jobs' = (jobs \ {j}) \cup {moved} /\ UNCHANGED <<tabs, next, here, cache>>
      /\ CanMove(j)
  BY DEF RenameMoves, tabVars
<1>2. j \in RenameJobs /\ j.kind = "rename"
  BY JobType DEF RenameMoves, Orderly
<1>3. moved.kind = "rename" /\ moved.stage = "apply" /\ moved.to = j.to /\ moved.from = j.from
  BY <1>2 DEF RenameJobs
<1>4. j.to \in Ref /\ j.to.at = "named" /\ j.from \in Ref /\ j.from.at = "scratch" /\ "name" \in Ops
  BY <1>2 DEF RenameJobs, Orderly, Renaming
<1> HIDE DEF moved
<1>5. disk'.file = [disk.file EXCEPT ![j.to] = disk.file[j.from], ![j.from] = NoText]
  <2>1. IsDisk(Moved(disk, j.from, j.to))
    BY <1>4, MovedType DEF Orderly, Types
  <2>2. disk'.file = Moved(disk, j.from, j.to).file
    BY <1>4, <2>1, RetargetedType DEF RenameMoves
  <2> QED BY <2>2 DEF Moved, Orderly, Types, IsDisk
<1>6. disk.file[j.to] = NoText /\ disk.file[j.from] # NoText /\ disk.file \in [Ref -> Text \cup {NoText}]
  BY <1>1 DEF CanMove, Orderly, Types, IsDisk
<1>7. disk'.file[j.to] # NoText
      /\ \A r \in Ref : r.at = "named" /\ disk.file[r] # NoText => disk'.file[r] # NoText
  BY <1>4, <1>5, <1>6
<1>8. Held' = Held /\ Cached' = Cached /\ Held \subseteq Ref
  <2>1. RefsOf(tabs) \subseteq Ref
    BY DEF RefsOf, IsTabs, Tab, Orderly, Types
  <2>2. RefsIn(Cached) \subseteq Ref
    BY DEF Orderly, Types, Cached, RefsIn, Snapshots, Entry
  <2> QED BY <1>1, <2>1, <2>2 DEF Held, Cached
<1>9. Renamed' \subseteq Renamed \cup {moved}
  BY <1>1 DEF Renamed
<1>10. j.to \notin Held
  BY <1>4, <1>6 DEF Orderly, Filed
<1>11. \A k \in Renamed : k.to # j.to /\ k.to \in Ref /\ k.to.at = "named"
  <2> SUFFICES ASSUME NEW k \in Renamed PROVE k.to # j.to /\ k.to \in Ref /\ k.to.at = "named"
    OBVIOUS
  <2>1. k \in RenameJobs
    BY JobType DEF Renamed, Orderly
  <2> QED BY <1>6, <2>1 DEF RenameJobs, Orderly, Renaming
<1>12. Filed'
  BY <1>7, <1>8 DEF Orderly, Filed
<1>13. Renaming'
  <2>1. \A k \in jobs' : k.kind = "rename" => k.from.at = "scratch" /\ "name" \in Ops
    BY <1>1, <1>3, <1>4 DEF Orderly, Renaming
  <2>2. \A k \in Renamed' : disk'.file[k.to] # NoText /\ k.to \notin Held'
    <3>1. \A k \in Renamed : disk'.file[k.to] # NoText /\ k.to \notin Held
      BY <1>7, <1>11 DEF Orderly, Renaming
    <3> QED BY <1>3, <1>7, <1>8, <1>9, <1>10, <3>1
  <2>3. \A k, l \in Renamed' : k.to = l.to => k = l
    BY <1>3, <1>9, <1>11 DEF Orderly, Renaming
  <2> QED BY <2>1, <2>2, <2>3 DEF Renaming
<1>14. Numbered' /\ Away' /\ SingleTabs(tabs') /\ SingleEntries(Cached')
  <2>1. here \/ cache # NoCache
    BY DEF Orderly, Away
  <2> QED BY <1>1, <1>8, <2>1 DEF Orderly, Numbered, Away
<1> QED BY <1>12, <1>13, <1>14 DEF Orderly

\* A task that is done gives its tab another file.
LEMMA OrderlyReturned ==
  ASSUME Apart, Orderly, Types', NEW j \in jobs, NEW i \in DOMAIN tabs, NEW ref \in Ref,
         DOMAIN tabs' = DOMAIN tabs,
         tabs'[i].ref = ref, \A k \in DOMAIN tabs : k # i => tabs'[k].ref = tabs[k].ref,
         ref.at = "shared" \/ (j \in Renamed /\ ref = j.to),
         NEW claim, jobs' = (jobs \ {j}) \cup {SaveJob(claim, Snapshot(tabs'))},
         cache' = Snapshot(tabs'), UNCHANGED <<next, here, disk>>
  PROVE  Orderly'
<1>1. Renamed' \subseteq Renamed \ {j} /\ \A k \in jobs' \ jobs : k.kind # "rename"
  BY DEF Renamed, SaveJob
<1>2. j \in Renamed => j \in RenameJobs
  BY JobType DEF Renamed, Orderly
<1>3. ref.at # "shared" => /\ ref.at = "named" /\ ref \notin Held /\ disk.file[ref] # NoText
                           /\ \A k \in Renamed' : k.to # ref
  BY <1>1, <1>2 DEF RenameJobs, Orderly, Renaming
<1>4. SingleTabs(tabs')
  <2>1. \A k \in DOMAIN tabs : tabs[k].ref \in Held
    BY DEF Held, RefsOf
  <2> QED BY <1>3, <2>1 DEF Orderly, SingleTabs
<1>5. Numbered'
  BY <1>3 DEF Orderly, Numbered
<1>6. Away'
  BY DEF Orderly, Away
<1>7. RefsOf(tabs') \subseteq Held \cup {ref}
  BY DEF RefsOf, Held
<1> QED BY <1>1, <1>3, <1>4, <1>5, <1>6, <1>7, OrderlyStep

LEMMA OrderlyTask ==
  ASSUME Apart, NamesKept, Orderly, Types', TaskStep
  PROVE  Orderly'
<1>1. CASE DebounceFires
  <2>1. UNCHANGED <<tabs, next, here, disk>>
    BY <1>1 DEF DebounceFires
  <2>2. CASE here
    <3>1. cache' = Snapshot(tabs') /\ jobs' = jobs \cup {SaveJob(minted + 1, Snapshot(tabs'))}
      BY <1>1, <2>2 DEF DebounceFires, Notify, Autosave, Orderly, Types
    <3>2. Renamed' \subseteq Renamed /\ \A j \in jobs' \ jobs : j.kind # "rename"
      BY <3>1, SavesRename
    <3> QED BY <2>1, <2>2, <3>1, <3>2, OrderlyKept
  <2>3. CASE ~ here
    <3>1. UNCHANGED <<jobs, cache>>
      BY <1>1, <2>3 DEF DebounceFires
    <3> QED BY <2>1, <3>1, OrderlyKept DEF Renamed, Orderly, Away
  <2> QED BY <2>2, <2>3
<1>2. ASSUME NEW j \in jobs, SaveRefused(j) \/ RenameFails(j) PROVE Orderly'
  BY <1>2, OrderlyAdvanced DEF SaveRefused, RenameFails, tabVars
<1>3. ASSUME NEW j \in jobs, SaveLands(j) \/ SaveFails(j) PROVE Orderly'
  <2>1. j \in SaveJobs /\ jobs' = jobs \ {j} /\ UNCHANGED <<tabs, next, here, cache>>
    BY <1>3, JobType DEF SaveLands, SaveFails, tabVars, Orderly
  <2>2. disk' \in Partial(disk, j.entries) \cup {Persisted(disk, j.entries)}
    BY <1>3 DEF SaveLands, SaveFails
  <2>3. \A name \in UserNames : disk.file[Named(name)] # NoText => disk'.file[Named(name)] # NoText
    <3>1. j.entries \in Snapshots /\ IsDisk(disk)
      BY <2>1 DEF SaveJobs, Orderly, Types
    <3>2. \A r \in Ref : r.at # "scratch" /\ disk.file[r] # NoText => disk'.file[r] # NoText
      BY <2>2, <3>1, WrittenType
    <3> QED BY <3>2, RefsAre
  <2> QED BY <2>1, <2>3, OrderlyAdvanced
<1>4. ASSUME NEW j \in jobs, RenameFences(j) PROVE Orderly'
  BY <1>4, OrderlyAdvanced DEF RenameFences, tabVars
<1>5. ASSUME NEW j \in jobs, RenameMoves(j) PROVE Orderly'
  BY <1>5, OrderlyMoved
<1>6. ASSUME NEW j \in jobs, RenameApplied(j) PROVE Orderly'
  <2>1. j \in RenameJobs /\ j \in Renamed /\ UNCHANGED <<next, here, disk>>
    BY <1>6, JobType DEF RenameApplied, Orderly, Renamed
  <2>2. CASE j.tab \in DOMAIN tabs
    <3>1. /\ tabs' = [tabs EXCEPT ![j.tab].ref = j.to, ![j.tab].base = NoText]
          /\ jobs' = (jobs \ {j}) \cup {SaveJob(minted + 1, Snapshot(tabs'))}
          /\ cache' = Snapshot(tabs')
      BY <1>6, <2>2 DEF RenameApplied
    <3>2. tabs[j.tab] \in Tab /\ j.to \in Ref
      BY <2>1, <2>2 DEF Orderly, Types, IsTabs, RenameJobs
    <3>3. /\ DOMAIN tabs' = DOMAIN tabs /\ tabs'[j.tab].ref = j.to
          /\ \A k \in DOMAIN tabs : k # j.tab => tabs'[k].ref = tabs[k].ref
      BY <2>2, <3>1, <3>2 DEF Tab
    <3> QED BY <2>1, <2>2, <3>1, <3>2, <3>3, OrderlyReturned
  <2>3. CASE j.tab \notin DOMAIN tabs
    BY <1>6, <2>1, <2>3, OrderlyAdvanced DEF RenameApplied
  <2> QED BY <2>2, <2>3
<1>7. ASSUME NEW j \in jobs, SharedWritten(j) \/ SharedMoves(j) \/ SharedCleaned(j) PROVE Orderly'
  <2>1. j \in SharedJobs /\ j.kind \in SharedKinds /\ j.kind \notin {"save", "rename"}
    BY <1>7, JobType DEF SharedWritten, SharedMoves, SharedCleaned, SharedKinds, Orderly
  <2>2. j.to.at = "shared" /\ j.from.at # "named"
    BY <2>1 DEF SharedJobs
  <2>3. UNCHANGED <<tabs, next, here, cache>>
    BY <1>7 DEF SharedWritten, SharedMoves, SharedCleaned, tabVars
  <2>4. \E stage : jobs' = jobs \ {j} \/ jobs' = (jobs \ {j}) \cup {[j EXCEPT !.stage = stage]}
    BY <1>7 DEF SharedWritten, SharedMoves, SharedCleaned, Advance
  <2>5. IsDisk(disk) /\ \A name \in UserNames : Named(name) \in Ref /\ Named(name).at = "named"
    BY RefsAre DEF Orderly, Types
  <2>6. \A name \in UserNames : disk.file[Named(name)] # NoText => disk'.file[Named(name)] # NoText
    <3>1. CASE UNCHANGED disk
      BY <3>1
    <3>2. CASE disk' = [disk EXCEPT !.file[j.to] = j.text]
      BY <2>2, <2>5, <3>2 DEF IsDisk
    <3>3. CASE disk' = Moved(disk, j.from, j.to)
      BY <2>2, <2>5, <3>3 DEF IsDisk, Moved
    <3>4. CASE disk' = [disk EXCEPT !.file[j.from] = NoText]
      BY <2>2, <2>5, <3>4 DEF IsDisk
    <3>5. CASE disk' = [disk EXCEPT !.draft[j.from.name] = NoText]
      BY <2>5, <3>5 DEF IsDisk
    <3> QED BY <1>7, <3>1, <3>2, <3>3, <3>4, <3>5 DEF SharedWritten, SharedMoves, SharedCleaned
  <2> QED BY <2>1, <2>3, <2>4, <2>6, OrderlyAdvanced
<1>8. ASSUME NEW j \in jobs, SharedApplied(j) PROVE Orderly'
  <2>1. j \in SharedJobs /\ UNCHANGED <<next, here, disk>>
    BY <1>8, JobType DEF SharedApplied, SharedKinds, Orderly
  <2>2. CASE j.tab \in DOMAIN tabs /\ (j.kind = "promote" \/ tabs[j.tab].ref.at = "shared")
    <3>1. tabs' = [tabs EXCEPT ![j.tab] = SharedTab(j)]
      BY <1>8, <2>2 DEF SharedApplied
    <3>5. /\ jobs' = (jobs \ {j}) \cup {SaveJob(minted + 1, Snapshot(tabs'))}
          /\ cache' = Snapshot(tabs')
      BY <1>8, <2>2 DEF SharedApplied
    <3>2. SharedTab(j) \in Tab /\ SharedTab(j).ref.at = "shared"
      <4>1. SharedTab(j) \in Tab /\ SharedTab(j).ref \in {j.to, tabs[j.tab].ref}
        BY <2>1, <2>2, SharedTabType DEF Orderly
      <4>2. j.kind # "save shared" => SharedTab(j).ref = j.to
        BY <2>1, <2>2, SharedTabType DEF Orderly
      <4> QED BY <2>1, <2>2, <4>1, <4>2 DEF SharedJobs
    <3>3. /\ DOMAIN tabs' = DOMAIN tabs /\ tabs'[j.tab].ref = SharedTab(j).ref
          /\ \A k \in DOMAIN tabs : k # j.tab => tabs'[k].ref = tabs[k].ref
      BY <2>2, <3>1 DEF Orderly, Types, IsTabs
    <3>4. SharedTab(j).ref \in Ref
      BY <3>2 DEF Tab
    <3>6. j.tab \in DOMAIN tabs
      BY <2>2
    <3> QED BY <2>1, <3>2, <3>3, <3>4, <3>5, <3>6, OrderlyReturned
  <2>3. CASE ~ (j.tab \in DOMAIN tabs /\ (j.kind = "promote" \/ tabs[j.tab].ref.at = "shared"))
    BY <1>8, <2>1, <2>3, OrderlyAdvanced DEF SharedApplied
  <2> QED BY <2>2, <2>3
<1> QED BY <1>1, <1>2, <1>3, <1>4, <1>5, <1>6, <1>7, <1>8 DEF TaskStep

LEMMA OrderlyCrashed ==
  ASSUME Apart, Orderly, Types', Crash
  PROVE  Orderly'
<1>1. DOMAIN tabs' = {} /\ cache' = NoCache /\ jobs' = {}
  BY DEF Crash, NoTabs
<1> QED BY <1>1 DEF Orderly, SingleTabs, SingleEntries, Numbered, Away, Filed, Renaming,
                   Cached, Held, RefsOf, RefsIn, Renamed

LEMMA OrderlyNext ==
  ASSUME Apart, NamesKept, Orderly, [Next]_vars
  PROVE  Orderly'
<1>1. Types'
  BY TypesNext DEF Orderly
<1>2. CASE UserStep
  BY <1>1, <1>2, OrderlyUser
<1>3. CASE TaskStep
  BY <1>1, <1>3, OrderlyTask
<1>4. ASSUME NEW name \in UserNames, SharedGone(name) PROVE Orderly'
  <2>1. UNCHANGED <<tabs, next, here, cache, jobs>>
    BY <1>4 DEF SharedGone, tabVars
  <2>2. \A n \in UserNames : disk'.file[Named(n)] = disk.file[Named(n)]
    BY <1>4, RefsAre DEF SharedGone, Orderly, Types, IsDisk
  <2>3. Renamed' \subseteq Renamed
    BY <2>1 DEF Renamed
  <2> QED BY <1>1, <2>1, <2>2, <2>3, OrderlyKept DEF Orderly, Away
<1>5. CASE Crash
  BY <1>1, <1>5, OrderlyCrashed
<1>6. CASE UNCHANGED vars
  <2>1. UNCHANGED <<tabs, next, here, cache, jobs, disk>>
    BY <1>6 DEF vars, tabVars
  <2>2. Renamed' \subseteq Renamed
    BY <2>1 DEF Renamed
  <2> QED BY <1>1, <2>1, <2>2, OrderlyKept DEF Orderly, Away
<1> QED BY <1>2, <1>3, <1>4, <1>5, <1>6 DEF Next

(* No two tabs are saved to the same file of the directory, whatever is      *)
(* opened, closed, edited, promoted and saved under a name, whatever fails   *)
(* and whenever the process ends, where names are kept apart                 *)
(* (OneTabPerFile).                                                          *)
THEOREM OneTabPerFileHolds ==
  ASSUME Apart, "rename" \notin Ops
  PROVE  Spec => []OneTabPerFile
<1>1. CASE NamesApart
  <2>1. NamesKept
    BY <1>1 DEF NamesKept
  <2>2. Init => Orderly
    BY OrderlyInit
  <2>3. Orderly /\ [Next]_vars => Orderly'
    BY <2>1, OrderlyNext
  <2>4. Orderly => OneTabPerFile
    BY DEF Orderly, SingleTabs, OneTabPerFile
  <2> QED BY <2>2, <2>3, <2>4, PTL DEF Spec
<1>2. CASE ~ NamesApart
  <2>1. OneTabPerFile
    BY <1>2 DEF OneTabPerFile
  <2> QED BY <2>1, PTL
<1> QED BY <1>1, <1>2

-----------------------------------------------------------------------------
(* At rest the directory holds what the tabs do.                             *)

(* No autosave fails and no script is renamed in the directory; while a      *)
(* shared script is written, nothing is opened from the sidebar, converted   *)
(* from a preview or removed, and the process does not end.                  *)
SharingOps == Ops \cap SharedKinds # {}

Undisturbed ==
  /\ Ops \cap {"torn", "overlap", "name", "rename"} = {}
  /\ Relations \cap (1..MaxDocs) = {}
  /\ SharingOps => Relations = {} /\ Ops \cap {"reopen", "gone", "crash"} = {}

\* The tasks that save, promote or rename a shared script.
Sharing == {j \in jobs : j.kind \in SharedKinds}

OneEach(s) == \A x, y \in s : x.ref = y.ref => x = y
OneTabEach(ts) == \A i, k \in DOMAIN ts : ts[i].ref = ts[k].ref => i = k

\* The newest save there is is of the tabs as they were last seen.
Claimed ==
  /\ written <= minted /\ OneEach(Cached)
  /\ \A j \in jobs : j.kind = "save" =>
       /\ cache # NoCache /\ j.claim <= minted /\ OneEach(j.entries)
       /\ j.claim = minted => j.entries = cache

\* An entry of a snapshot as tabs.toml lists it, and as the disk has it.
Flag(e) == [ref |-> e.ref, draft |-> e.ref.at = "shared" /\ e.text # NoText]
AgreesOn(d, e) ==
  IF e.ref.at # "shared" THEN d.file[e.ref] = e.text
  ELSE e.text # NoText => d.draft[e.ref.name] = e.text

Listing == OneEach(disk.tabs) /\ \A e \in disk.tabs : e.draft => e.ref.at = "shared"

\* The tabs last seen are on the disk, but for the one whose scratch file or
\* draft a task has cleaned away and not told it yet.
Cleaned(e) == \E j \in Sharing : j.kind # "rename shared" /\ j.stage = "apply" /\ e.ref = j.from
Landed == /\ disk.tabs = {Flag(e) : e \in cache}
          /\ \A e \in cache : AgreesOn(disk, e) \/ Cleaned(e)

Waiting == \E j \in jobs : j.kind = "save" /\ j.claim = minted
Saved == cache # NoCache => Waiting \/ (written = minted /\ Landed)

\* A task for a shared script is the only one; while its tab is open nothing
\* else is saved to the same file, and nothing to the file it is to have.
Returning ==
  \A j \in Sharing :
    /\ here /\ SharingOps
    /\ \A k \in Sharing : k = j
    /\ j.tab \in DOMAIN tabs => tabs[j.tab].ref = j.from
    /\ j.tab \notin DOMAIN tabs => \A e \in Cached : e.ref # j.from
    /\ \A i \in DOMAIN tabs : tabs[i].ref = j.from => i = j.tab
    /\ j.kind # "save shared" => \A i \in DOMAIN tabs : tabs[i].ref # j.to
    /\ j.from.at = "scratch" => j.from.name < next
    /\ j.kind # "rename shared" /\ j.stage # "write" => disk.file[j.to] = j.text
    /\ j.kind = "rename shared" /\ j.stage = "apply" =>
         /\ disk.file[j.to] # NoText
         /\ j.tab \in DOMAIN tabs => tabs[j.tab].base = disk.file[j.to]

\* Where shared scripts are written, those open have their files.
MovedAway(i) == \E j \in Sharing : j.kind = "rename shared" /\ j.stage = "apply" /\ j.tab = i
Present ==
  SharingOps =>
    /\ \A i \in DOMAIN tabs :
         tabs[i].ref.at = "shared" => disk.file[tabs[i].ref] # NoText \/ MovedAway(i)
    /\ ~ here => \A e \in Cached : e.ref.at = "shared" => disk.file[e.ref] # NoText
    /\ cache = NoCache => disk.tabs = {}

\* saved_text is what the file of a shared tab holds, or a save of the tab is
\* on its way back.
Written(i) == \E j \in Sharing : j.kind = "save shared" /\ j.tab = i /\ j.stage # "write"
HasFile(i) == tabs[i].ref.at = "shared" /\ disk.file[tabs[i].ref] # NoText
Based == \A i \in DOMAIN tabs :
           HasFile(i) => tabs[i].base = disk.file[tabs[i].ref] \/ Written(i)

\* A shared tab with other text than its file's has been seen with it, unless
\* an edit waits for the timer.
Seen(i) ==
  \/ tabs[i].text = tabs[i].base
  \/ [ref |-> tabs[i].ref, text |-> tabs[i].text] \in Cached
  \/ cache = NoCache /\ disk.draft[tabs[i].ref.name] = tabs[i].text
  \/ \E j \in Sharing : j.kind = "save shared" /\ j.tab = i /\ j.stage = "apply"
Typed == here /\ ~ due => \A i \in DOMAIN tabs : HasFile(i) => Seen(i)

Current ==
  /\ Orderly /\ OneTabEach(tabs) /\ Claimed /\ Listing /\ Saved
  /\ Returning /\ Present /\ Based /\ Typed

LEMMA UndisturbedApart == Undisturbed => NamesKept
  BY DEF Undisturbed, NamesKept, NamesApart

LEMMA FlagIs ==
  ASSUME NEW e
  PROVE  /\ Flag(e).ref = e.ref
         /\ Flag(e).draft => e.ref.at = "shared"
         /\ e.ref.at = "shared" /\ e.text # NoText => Flag(e) = [ref |-> e.ref, draft |-> TRUE]
         /\ ~ (e.ref.at = "shared" /\ e.text # NoText) => Flag(e) = [ref |-> e.ref, draft |-> FALSE]
<1> DEFINE c == e.ref.at = "shared" /\ e.text # NoText
<1>1. Flag(e).ref = e.ref /\ Flag(e).draft = c
  BY DEF Flag
<1>2. ASSUME c PROVE Flag(e) = [ref |-> e.ref, draft |-> TRUE]
  <2>1. c = TRUE
    BY <1>2
  <2> HIDE DEF c
  <2>2. Flag(e) = [ref |-> e.ref, draft |-> c]
    BY DEF Flag, c
  <2> QED BY <2>1, <2>2
<1>3. ASSUME ~ c PROVE Flag(e) = [ref |-> e.ref, draft |-> FALSE]
  <2>1. c = FALSE
    BY <1>3
  <2> HIDE DEF c
  <2>2. Flag(e) = [ref |-> e.ref, draft |-> c]
    BY DEF Flag, c
  <2> QED BY <2>1, <2>2
<1>4. Flag(e).draft => c
  BY <1>1
<1> QED BY <1>1, <1>2, <1>3, <1>4

\* What is on the disk once a snapshot is written.
LEMMA PersistedIs ==
  ASSUME Apart, NEW d, IsDisk(d), NEW entries \in Snapshots, OneEach(entries),
         NEW p, p = Persisted(d, entries)
  PROVE  /\ p.tabs = {Flag(e) : e \in entries}
         /\ \A e \in entries : AgreesOn(p, e)
         /\ \A r \in Ref : r.at = "shared" => p.file[r] = d.file[r]
<1> DEFINE fileOf(e) == e.ref.at # "shared" \/ e.text # NoText
           owns(r) == {e \in entries : e.ref = r /\ fileOf(e)}
           file == [r \in Ref |-> IF r.at # "shared" /\ owns(r) # {}
                                  THEN (CHOOSE e \in owns(r) : TRUE).text ELSE d.file[r]]
           draft == [n \in UserNames |-> IF owns(Shared(n)) # {}
                                         THEN (CHOOSE e \in owns(Shared(n)) : TRUE).text
                                         ELSE d.draft[n]]
           listed == {Flag(e) : e \in entries}
           f == WithFiles(d, entries)
           t == WithTabs(f, entries)
<1>1. \A e \in entries : e \in Entry /\ e.ref \in Ref
  BY DEF Snapshots, Entry
<1>2. ASSUME NEW e \in entries, fileOf(e) PROVE (CHOOSE x \in owns(e.ref) : TRUE) = e
  <2>1. owns(e.ref) = {e}
    BY <1>2 DEF OneEach
  <2> HIDE DEF owns
  <2> QED BY <2>1
<1>3. f = [d EXCEPT !.file = file, !.draft = draft]
  BY DEF WithFiles
<1>4. /\ \A e \in entries : e.ref.at # "shared" => file[e.ref] = e.text
      /\ \A e \in entries : e.ref.at = "shared" /\ e.text # NoText => draft[e.ref.name] = e.text
      /\ \A r \in Ref : r.at = "shared" => file[r] = d.file[r]
  <2>1. ASSUME NEW e \in entries, e.ref.at # "shared" PROVE file[e.ref] = e.text
    <3>1. e \in owns(e.ref)
      BY <2>1
    <3>2. (CHOOSE x \in owns(e.ref) : TRUE) = e
      BY <1>2, <2>1
    <3> HIDE DEF owns
    <3> QED BY <1>1, <2>1, <3>1, <3>2
  <2>2. ASSUME NEW e \in entries, e.ref.at = "shared", e.text # NoText
        PROVE  draft[e.ref.name] = e.text
    <3>1. e \in owns(e.ref)
      BY <2>2
    <3>2. (CHOOSE x \in owns(e.ref) : TRUE) = e
      BY <1>2, <2>2
    <3>3. e.ref = Shared(e.ref.name) /\ e.ref.name \in UserNames
      BY <1>1, <2>2, RefShape
    <3> HIDE DEF owns
    <3> QED BY <3>1, <3>2, <3>3
  <2> QED BY <2>1, <2>2
<1> HIDE DEF file, draft
<1>5. f = [file |-> file, draft |-> draft, tabs |-> d.tabs]
  BY <1>3 DEF IsDisk
<1>6. IsDisk(f)
  BY WithFilesType DEF Snapshots
<1>7. t = [f EXCEPT !.tabs = listed]
  BY DEF WithTabs, Flag
<1> HIDE DEF f, listed
<1>8. t = [file |-> file, draft |-> draft, tabs |-> listed]
  BY <1>5, <1>7
<1> HIDE DEF t
<1> DEFINE left == [r \in Ref |-> IF r.at = "scratch" /\ ~ \E e \in t.tabs : e.ref = r
                                  THEN NoText ELSE t.file[r]]
           drafts == [n \in UserNames |-> IF [ref |-> Shared(n), draft |-> TRUE] \in t.tabs
                                          THEN t.draft[n] ELSE NoText]
<1>9. p = [t EXCEPT !.file = left, !.draft = drafts]
  BY DEF Persisted, Pruned, f, t
<1>10. \A e \in entries : Flag(e) \in listed /\ Flag(e).ref = e.ref
  BY FlagIs DEF listed
<1>11. \A e \in entries : e.ref.at # "shared" => left[e.ref] = e.text
  BY <1>1, <1>4, <1>8, <1>10
<1>12. ASSUME NEW e \in entries, e.ref.at = "shared", e.text # NoText
       PROVE  drafts[e.ref.name] = e.text
  <2>1. e.ref = Shared(e.ref.name) /\ e.ref.name \in UserNames
    BY <1>1, <1>12, RefShape
  <2>2. Flag(e) = [ref |-> Shared(e.ref.name), draft |-> TRUE]
    BY <1>12, <2>1, FlagIs
  <2>3. [ref |-> Shared(e.ref.name), draft |-> TRUE] \in t.tabs
    BY <1>8, <1>10, <2>2
  <2>4. drafts[e.ref.name] = t.draft[e.ref.name]
    BY <2>1, <2>3
  <2> QED BY <1>4, <1>8, <1>12, <2>4
<1>13. \A r \in Ref : r.at = "shared" => left[r] = d.file[r]
  BY <1>4, <1>8
<1> HIDE DEF left, drafts
<1>14. p.file = left /\ p.draft = drafts /\ p.tabs = listed
  BY <1>8, <1>9
<1> QED BY <1>11, <1>12, <1>13, <1>14 DEF AgreesOn, listed

\* Opening a directory that agrees with a snapshot gives the snapshot.
LEMMA LoadedIs ==
  ASSUME Apart, NEW d, NEW entries \in Snapshots, d.tabs = {Flag(e) : e \in entries},
         \A e \in entries : AgreesOn(d, e)
  PROVE  Loaded(d) = entries
<1> DEFINE textOf(e) == IF e.ref.at # "shared" THEN d.file[e.ref]
                        ELSE IF e.draft THEN d.draft[e.ref.name] ELSE NoText
           shown == {x \in d.tabs : (x.ref.at # "shared" \/ x.draft) => textOf(x) # NoText}
<1>1. Loaded(d) = {[ref |-> x.ref, text |-> textOf(x)] : x \in shown}
  BY DEF Loaded
<1>2. ASSUME NEW e \in entries
      PROVE  Flag(e) \in shown /\ Flag(e).ref = e.ref /\ textOf(Flag(e)) = e.text
  <2>1. Flag(e) \in d.tabs /\ Flag(e).ref = e.ref
    BY FlagIs
  <2>2. e.ref.at # "shared" => e.text # NoText
    BY DEF Snapshots, Entry
  <2>3. CASE e.ref.at # "shared"
    BY <2>1, <2>2, <2>3 DEF AgreesOn
  <2>4. CASE e.ref.at = "shared" /\ e.text # NoText
    <3>1. Flag(e).draft
      BY <2>4, FlagIs
    <3> QED BY <2>1, <2>4, <3>1 DEF AgreesOn
  <2>5. CASE e.ref.at = "shared" /\ e.text = NoText
    <3>1. ~ Flag(e).draft
      BY <2>5, FlagIs
    <3> QED BY <2>1, <2>5, <3>1
  <2> QED BY <2>3, <2>4, <2>5
<1>3. \A e \in entries : e = [ref |-> e.ref, text |-> e.text]
  BY DEF Snapshots, Entry
<1>4. \A x \in shown : \E e \in entries : x = Flag(e)
  OBVIOUS
<1> HIDE DEF textOf, shown
<1> QED BY <1>1, <1>2, <1>3, <1>4

LEMMA SnapshotOneEach ==
  ASSUME NEW ts, IsTabs(ts), OneTabEach(ts)
  PROVE  OneEach(Snapshot(ts))
<1>1. \A i \in DOMAIN ts : EntryOf(ts[i]).ref = ts[i].ref
  BY EntryType DEF IsTabs
<1> QED BY <1>1 DEF OneEach, OneTabEach, Snapshot

\* An autosave is dispatched, and its claim is the newest.
LEMMA ClaimedAutosaved ==
  ASSUME Apart, Types, Claimed, NEW ts, IsTabs(ts), OneTabEach(ts),
         NEW claim \in Nat, minted < claim, minted' = claim, written' <= claim,
         cache' = Snapshot(ts), SaveJob(claim, Snapshot(ts)) \in jobs',
         \A j \in jobs' : j.kind = "save" => j \in jobs \/ j = SaveJob(claim, Snapshot(ts))
  PROVE  Claimed' /\ Saved'
<1> DEFINE s == Snapshot(ts)
           new == SaveJob(claim, s)
<1>1. OneEach(s) /\ s # NoCache
  BY SnapshotOneEach, SnapshotType
<1>2. new.kind = "save" /\ new.claim = claim /\ new.entries = s
  BY DEF SaveJob
<1> HIDE DEF new, s
<1>3. new \in jobs' /\ cache' = s /\ \A j \in jobs' : j.kind = "save" => j \in jobs \/ j = new
  BY DEF new, s
<1>4. OneEach(Cached')
  BY <1>1, <1>3 DEF Cached
<1>5. ASSUME NEW j \in jobs', j.kind = "save"
      PROVE  /\ cache' # NoCache /\ j.claim <= minted' /\ OneEach(j.entries)
             /\ j.claim = minted' => j.entries = cache'
  <2>1. CASE j = new
    BY <1>1, <1>2, <1>3, <2>1
  <2>2. CASE j \in jobs
    <3>1. j \in SaveJobs
      BY <1>5, <2>2, JobType
    <3>2. j.claim \in Nat /\ minted \in Nat
      BY <3>1 DEF SaveJobs, Types
    <3>3. j.claim <= minted /\ OneEach(j.entries)
      BY <1>5, <2>2 DEF Claimed
    <3> QED BY <1>1, <1>3, <3>2, <3>3
  <2> QED BY <1>3, <1>5, <2>1, <2>2
<1>6. Claimed'
  BY <1>4, <1>5 DEF Claimed
<1>7. Saved'
  BY <1>2, <1>3 DEF Saved, Waiting
<1> QED BY <1>6, <1>7

\* A save is done with, or none: what is last seen stays.
LEMMA ClaimedKept ==
  ASSUME Claimed, UNCHANGED <<cache, minted>>, written' <= minted,
         \A j \in jobs' : j.kind = "save" => j \in jobs
  PROVE  Claimed'
  BY DEF Claimed, Cached

\* Right after an autosave every tab has been seen.
LEMMA TypedAutosaved ==
  ASSUME Apart, IsTabs(tabs'), cache' = Snapshot(tabs')
  PROVE  Typed'
<1> SUFFICES ASSUME NEW i \in DOMAIN tabs', HasFile(i)' PROVE Seen(i)'
  BY DEF Typed
<1> DEFINE t == tabs'[i]
<1>1. EntryOf(t) \in cache' /\ Cached' = cache'
  <2>1. Cached' = cache'
    BY SnapshotType DEF Cached
  <2> QED BY <2>1 DEF Snapshot
<1>2. t.ref.at = "shared"
  BY DEF HasFile
<1>3. CASE t.base # t.text
  <2>1. EntryOf(t) = [ref |-> t.ref, text |-> t.text]
    BY <1>2, <1>3 DEF EntryOf, Diverged
  <2> QED BY <1>1, <2>1 DEF Seen
<1>4. CASE t.base = t.text
  BY <1>4 DEF Seen
<1> QED BY <1>3, <1>4

-----------------------------------------------------------------------------
(* Tabs that are kept, and tabs that are new.                                *)

Kept(i) == i \in DOMAIN tabs /\ tabs'[i].ref = tabs[i].ref /\ tabs'[i].base = tabs[i].base
Fresh(i) ==
  /\ \A j \in Sharing : i # j.tab /\ tabs'[i].ref # j.from /\ tabs'[i].ref # j.to
  /\ tabs'[i].ref.at = "shared" =>
       ~ SharingOps /\ tabs'[i].base = disk.file[tabs'[i].ref]

SameShared(d) == \A r \in Ref : r.at = "shared" => d.file[r] = disk.file[r]

LEMMA RefsInRef ==
  ASSUME NEW ts, IsTabs(ts), NEW i \in DOMAIN ts
  PROVE  ts[i] \in Tab /\ ts[i].ref \in Ref
  BY DEF IsTabs, Tab

LEMMA SharingTypes ==
  ASSUME Types, NEW j \in Sharing
  PROVE  /\ j \in jobs /\ j \in SharedJobs
         /\ j.from \in Ref /\ j.to \in Ref /\ j.to.at = "shared" /\ j.text \in Text
         /\ j.kind = "promote" => j.from.at = "scratch"
         /\ j.kind # "promote" => j.from.at = "shared"
         /\ j.kind = "save shared" => j.to = j.from
<1>1. j \in jobs /\ j \in SharedJobs
  BY JobType DEF Sharing
<1> QED BY <1>1 DEF SharedJobs

LEMMA ReturningKept ==
  ASSUME Apart, Undisturbed, Types, Types', Returning, here' = here, Sharing' = Sharing,
         \A i \in DOMAIN tabs' : Kept(i) \/ Fresh(i),
         cache' = Snapshot(tabs') \/ (cache' = cache /\ DOMAIN tabs \subseteq DOMAIN tabs'),
         next <= next', SameShared(disk')
  PROVE  Returning'
<1> SUFFICES ASSUME NEW j \in Sharing
             PROVE  /\ here /\ SharingOps
                    /\ \A k \in Sharing : k = j
                    /\ j.tab \in DOMAIN tabs' => tabs'[j.tab].ref = j.from
                    /\ j.tab \notin DOMAIN tabs' => \A e \in Cached' : e.ref # j.from
                    /\ \A i \in DOMAIN tabs' : tabs'[i].ref = j.from => i = j.tab
                    /\ j.kind # "save shared" => \A i \in DOMAIN tabs' : tabs'[i].ref # j.to
                    /\ j.from.at = "scratch" => j.from.name < next'
                    /\ j.kind # "rename shared" /\ j.stage # "write" => disk'.file[j.to] = j.text
                    /\ j.kind = "rename shared" /\ j.stage = "apply" =>
                         /\ disk'.file[j.to] # NoText
                         /\ j.tab \in DOMAIN tabs' => tabs'[j.tab].base = disk'.file[j.to]
  BY DEF Returning
<1>1. j.to \in Ref /\ j.to.at = "shared" /\ disk'.file[j.to] = disk.file[j.to]
  BY SharingTypes DEF SameShared
<1>2. j.tab \in DOMAIN tabs' => Kept(j.tab)
  BY DEF Fresh
<1>3. \A i \in DOMAIN tabs' : tabs'[i].ref = j.from => i = j.tab
  BY DEF Fresh, Kept, Returning
<1>4. j.kind # "save shared" => \A i \in DOMAIN tabs' : tabs'[i].ref # j.to
  BY DEF Fresh, Kept, Returning
<1>5. ASSUME j.tab \notin DOMAIN tabs', NEW e \in Cached' PROVE e.ref # j.from
  <2>1. CASE cache' = cache /\ DOMAIN tabs \subseteq DOMAIN tabs'
    BY <1>5, <2>1 DEF Returning, Cached
  <2>2. CASE cache' = Snapshot(tabs')
    <3>1. e \in Snapshot(tabs')
      BY <1>5, <2>2 DEF Cached
    <3>2. PICK i \in DOMAIN tabs' : e = EntryOf(tabs'[i])
      BY <3>1 DEF Snapshot
    <3>3. e.ref = tabs'[i].ref
      BY <3>2, EntryType, RefsInRef DEF Types
    <3> QED BY <1>3, <1>5, <3>3
  <2> QED BY <2>1, <2>2
<1>6. j.from.at = "scratch" => j.from.name < next'
  <2> SUFFICES ASSUME j.from.at = "scratch" PROVE j.from.name < next'
    OBVIOUS
  <2>1. j.from.name < next /\ next \in Nat /\ next' \in Nat /\ SharingOps
    BY DEF Returning, Types
  <2>2. j.from.name \in 1..MaxDocs
    BY <2>1, SharingTypes, RefShape DEF ScratchNames, Undisturbed
  <2> QED BY <2>1, <2>2 DEF Apart
<1> QED BY <1>1, <1>2, <1>3, <1>4, <1>5, <1>6 DEF Returning, Kept

LEMMA TabsKept ==
  ASSUME Types, Types', Present, Based, here' = here, Sharing' = Sharing,
         \A i \in DOMAIN tabs' : Kept(i) \/ Fresh(i), SameShared(disk'),
         here \/ cache' = cache,
         cache' = NoCache => cache = NoCache /\ disk'.tabs = disk.tabs
  PROVE  Present' /\ Based'
<1>1. ASSUME NEW i \in DOMAIN tabs', tabs'[i].ref.at = "shared"
      PROVE  /\ disk'.file[tabs'[i].ref] = disk.file[tabs'[i].ref]
             /\ tabs'[i].ref \in Ref
  BY <1>1, RefsInRef DEF Types, SameShared
<1>2. Based'
  <2> SUFFICES ASSUME NEW i \in DOMAIN tabs', HasFile(i)'
               PROVE  tabs'[i].base = disk'.file[tabs'[i].ref] \/ Written(i)
    BY DEF Based, Written
  <2>1. tabs'[i].ref.at = "shared" /\ disk'.file[tabs'[i].ref] # NoText
    BY DEF HasFile
  <2>2. CASE Fresh(i)
    BY <1>1, <2>1, <2>2 DEF Fresh
  <2>3. CASE Kept(i)
    <3>1. HasFile(i)
      BY <1>1, <2>1, <2>3 DEF HasFile, Kept
    <3> QED BY <1>1, <2>1, <2>3, <3>1 DEF Based, Kept
  <2> QED BY <2>2, <2>3
<1>3. ASSUME SharingOps, NEW i \in DOMAIN tabs', tabs'[i].ref.at = "shared"
      PROVE  disk'.file[tabs'[i].ref] # NoText \/ MovedAway(i)
  <2>1. Kept(i)
    BY <1>3 DEF Fresh
  <2> QED BY <1>1, <1>3, <2>1 DEF Present, Kept
<1>4. ASSUME SharingOps, ~ here, NEW e \in Cached', e.ref.at = "shared"
      PROVE  disk'.file[e.ref] # NoText
  <2>1. Cached' = Cached /\ e \in Cached
    BY <1>4 DEF Cached
  <2>2. e.ref \in Ref
    BY <2>1 DEF Types, Cached, Snapshots, Entry
  <2> QED BY <1>4, <2>1, <2>2 DEF Present, SameShared
<1>5. Present'
  BY <1>3, <1>4 DEF Present, MovedAway
<1> QED BY <1>2, <1>5

\* A handler changes the tabs and dispatches an autosave of them.
LEMMA CurrentDispatched ==
  ASSUME Apart, Undisturbed, Current, Orderly', OneTabEach(tabs'), here, here' = here,
         \A i \in DOMAIN tabs' : Kept(i) \/ Fresh(i),
         next <= next', disk'.file = disk.file, Listing',
         NEW claim \in Nat, minted < claim, minted' = claim, written' <= claim,
         cache' = Snapshot(tabs'), jobs' = jobs \cup {SaveJob(claim, Snapshot(tabs'))}
  PROVE  Current'
<1>1. Types /\ Types' /\ IsTabs(tabs')
  BY DEF Current, Orderly, Types
<1> DEFINE new == SaveJob(claim, Snapshot(tabs'))
<1>9. new.kind \notin SharedKinds
  BY DEF SaveJob, SharedKinds
<1>2. Sharing' = Sharing
  <2> HIDE DEF new
  <2>1. jobs' = jobs \cup {new}
    BY DEF new
  <2> QED BY <1>9, <2>1 DEF Sharing
<1>3. Claimed' /\ Saved'
  BY <1>1, ClaimedAutosaved DEF Current
<1>4. SameShared(disk')
  BY DEF SameShared
<1>5. cache' # NoCache
  BY <1>1, SnapshotType
<1>6. Returning'
  BY <1>1, <1>2, <1>4, ReturningKept DEF Current
<1>7. Present' /\ Based'
  BY <1>1, <1>2, <1>4, <1>5, TabsKept DEF Current
<1>8. Typed'
  BY <1>1, TypedAutosaved
<1> QED BY <1>3, <1>6, <1>7, <1>8 DEF Current

\* Nothing is dispatched and the tabs keep their files.
LEMMA CurrentSteady ==
  ASSUME Apart, Undisturbed, Current, Orderly', DOMAIN tabs' = DOMAIN tabs,
         \A i \in DOMAIN tabs : Kept(i),
         UNCHANGED <<cache, minted, here, next>>, written' <= minted,
         Sharing' = Sharing, \A j \in jobs' : j.kind = "save" => j \in jobs,
         SameShared(disk'), cache = NoCache => disk'.tabs = disk.tabs,
         Listing', Saved', Typed'
  PROVE  Current'
<1>1. Types /\ Types'
  BY DEF Current, Orderly
<1>2. OneTabEach(tabs')
  BY DEF Current, OneTabEach, Kept
<1>3. Claimed'
  BY ClaimedKept DEF Current
<1>4. next <= next'
  BY <1>1 DEF Types
<1>5. Returning'
  BY <1>1, <1>4, ReturningKept DEF Current
<1>6. Present' /\ Based'
  BY <1>1, TabsKept DEF Current
<1> QED BY <1>2, <1>3, <1>5, <1>6 DEF Current

\* A tab is opened for a file that no tab has or is to have.
LEMMA CurrentOpened ==
  ASSUME Apart, Undisturbed, Current, Orderly', FreeIds # {}, here, here' = here,
         NEW ref \in Ref, NEW text \in Text, NEW base \in Text \cup {NoText}, NEW dirty \in BOOLEAN,
         tabs' = WithTab(ref, text, base, dirty), NEW skip \in Nat, Autosave(skip),
         written' <= minted + skip + 1,
         \A i \in DOMAIN tabs : tabs[i].ref # ref,
         \A j \in Sharing : ref # j.from /\ ref # j.to,
         ref.at = "shared" => ~ SharingOps /\ base = disk.file[ref],
         next <= next', disk'.file = disk.file, Listing'
  PROVE  Current'
<1>1. PICK id \in FreeIds : NewTab(id, ref, text, base)
  <2>1. IsTabs(tabs)
    BY DEF Current, Orderly, Types
  <2> QED BY <2>1, WithTabEffect
<1>2. tabs'[id].ref = ref /\ tabs'[id].base = base /\ DOMAIN tabs' = DOMAIN tabs \cup {id}
  BY <1>1 DEF NewTab
<1>3. \A i \in DOMAIN tabs : tabs'[i].ref = tabs[i].ref /\ tabs'[i].base = tabs[i].base
  BY <1>1 DEF NewTab
<1>4. OneTabEach(tabs')
  BY <1>2, <1>3 DEF Current, OneTabEach
<1>5. Fresh(id)
  <2>1. \A j \in Sharing : id # j.tab
    <3>1. \A j \in Sharing : j \in jobs /\ j.kind # "save"
      BY DEF Sharing, SharedKinds
    <3> QED BY <1>1, <3>1 DEF FreeIds
  <2> QED BY <1>2, <2>1 DEF Fresh
<1>6. \A i \in DOMAIN tabs' : Kept(i) \/ Fresh(i)
  BY <1>2, <1>3, <1>5 DEF Kept
<1> DEFINE claim == minted + skip + 1
<1>7. claim \in Nat /\ minted < claim
  BY DEF Current, Orderly, Types
<1>8. minted' = claim /\ cache' = Snapshot(tabs')
      /\ jobs' = jobs \cup {SaveJob(claim, Snapshot(tabs'))} /\ written' <= claim
  BY DEF Autosave
<1> HIDE DEF claim
<1> QED BY <1>4, <1>6, <1>7, <1>8, CurrentDispatched

LEMMA CurrentNewScript ==
  ASSUME Apart, Undisturbed, Current, Orderly', NewScript
  PROVE  Current'
<1>1. /\ here /\ FreeIds # {} /\ next <= MaxDocs /\ next' = next + 1 /\ here' = here
      /\ disk' = disk /\ written' = written
  BY DEF NewScript
<1>2. tabs' = WithTab(Scratch(next), [of |-> docs + 1, n |-> 0], NoText, FALSE) /\ Autosave(0)
  BY DEF NewScript, Notify
<1>3. next \in Nat /\ next > 0 /\ [of |-> docs + 1, n |-> 0] \in Text /\ minted \in Nat /\ written \in Nat
  BY DEF Current, Orderly, Types, Text
<1>4. next \in 1..MaxDocs /\ Scratch(next) \in Ref
  BY <1>1, <1>3, RefsAre DEF ScratchNames, Apart
<1>5. Scratch(next).at = "scratch" /\ Scratch(next).name = next
  BY DEF Scratch
<1>6. \A i \in DOMAIN tabs : tabs[i].ref # Scratch(next)
  <2> SUFFICES ASSUME NEW i \in DOMAIN tabs, tabs[i].ref = Scratch(next) PROVE FALSE
    OBVIOUS
  <2>1. tabs[i].ref.name < next
    BY <1>4, <1>5 DEF Current, Orderly, Numbered
  <2> QED BY <1>3, <1>5, <2>1
<1>7. \A j \in Sharing : Scratch(next) # j.from /\ Scratch(next) # j.to
  <2> SUFFICES ASSUME NEW j \in Sharing PROVE Scratch(next) # j.from /\ Scratch(next) # j.to
    OBVIOUS
  <2>1. j.to.at = "shared" /\ (j.from.at = "scratch" => j.from.name < next)
    BY SharingTypes DEF Current, Orderly, Returning
  <2> QED BY <1>3, <1>5, <2>1
<1>8. next <= next' /\ Scratch(next).at # "shared" /\ disk'.file = disk.file
      /\ written' <= minted + 0 + 1
  BY <1>1, <1>3, <1>5 DEF Current, Claimed
<1>9. NoText \in Text \cup {NoText} /\ FALSE \in BOOLEAN /\ 0 \in Nat
  OBVIOUS
<1>10. Listing'
  BY <1>1 DEF Current, Listing
<1>11. [of |-> docs + 1, n |-> 0] \in Text
  BY <1>3
<1> QED BY <1>1, <1>2, <1>4, <1>6, <1>7, <1>8, <1>9, <1>10, <1>11, CurrentOpened, Zenon

LEMMA CurrentConverted ==
  ASSUME Apart, Undisturbed, Current, Orderly', NEW name \in Relations, ConvertGenerated(name)
  PROVE  Current'
<1>1. /\ here /\ FreeIds # {} /\ next' = next /\ here' = here /\ disk' = disk /\ written' = written
      /\ ~ IsOpen(Scratch(name))
  BY DEF ConvertGenerated
<1>2. tabs' = WithTab(Scratch(name), [of |-> docs + 1, n |-> 0], NoText, TRUE) /\ Autosave(0)
  BY DEF ConvertGenerated, Notify
<1>3. next \in Nat /\ [of |-> docs + 1, n |-> 0] \in Text /\ minted \in Nat /\ written \in Nat
  BY DEF Current, Orderly, Types, Text
<1>4. Scratch(name) \in Ref /\ Scratch(name).at # "shared"
  BY RefsAre DEF ScratchNames, Scratch
<1>5. \A i \in DOMAIN tabs : tabs[i].ref # Scratch(name)
  BY <1>1 DEF IsOpen
<1>6. \A j \in Sharing : Scratch(name) # j.from /\ Scratch(name) # j.to
  BY DEF Current, Returning, Undisturbed
<1>7. next <= next' /\ disk'.file = disk.file /\ written' <= minted + 0 + 1
  BY <1>1, <1>3 DEF Current, Claimed
<1>8. NoText \in Text \cup {NoText} /\ TRUE \in BOOLEAN /\ 0 \in Nat
  OBVIOUS
<1>9. Listing'
  BY <1>1 DEF Current, Listing
<1>10. [of |-> docs + 1, n |-> 0] \in Text
  BY <1>3
<1> QED BY <1>1, <1>2, <1>4, <1>5, <1>6, <1>7, <1>8, <1>9, <1>10, CurrentOpened, Zenon

LEMMA CurrentOpenNamed ==
  ASSUME Apart, Undisturbed, Current, Orderly', NEW name \in UserNames, OpenNamed(name)
  PROVE  Current'
<1>1. /\ here /\ FreeIds # {} /\ ~ IsOpen(Named(name)) /\ disk.file[Named(name)] # NoText
      /\ "reopen" \in Ops /\ next' = next /\ here' = here /\ written' = minted + 1
  BY DEF OpenNamed
<1>2. tabs' = WithTab(Named(name), disk.file[Named(name)], NoText, FALSE) /\ Autosave(1)
  BY DEF OpenNamed
<1>3. Named(name) \in Ref /\ Named(name).at = "named" /\ Named(name).at # "shared"
  BY RefsAre
<1>4. disk.file[Named(name)] \in Text /\ minted \in Nat /\ next \in Nat
  BY <1>1, <1>3 DEF Current, Orderly, Types, IsDisk
<1> DEFINE toml == [ref |-> Named(name), draft |-> FALSE]
           listed == disk.tabs \cup {toml}
<1>5. disk'.file = disk.file /\ disk'.tabs = listed
  <2>1. disk' = [disk EXCEPT !.tabs = listed]
    BY DEF OpenNamed
  <2> HIDE DEF listed
  <2> QED BY <2>1 DEF Current, Orderly, Types, IsDisk
<1>6. Listing'
  <2>1. toml.ref = Named(name) /\ ~ toml.draft
    OBVIOUS
  <2>2. \A e \in disk.tabs : e.ref = Named(name) => e = toml
    <3> SUFFICES ASSUME NEW e \in disk.tabs, e.ref = Named(name) PROVE e = toml
      OBVIOUS
    <3>1. e \in [ref : Ref, draft : BOOLEAN]
      BY DEF Current, Orderly, Types, IsDisk
    <3>2. ~ e.draft
      BY <1>3 DEF Current, Listing
    <3>3. e.draft = FALSE
      BY <3>1, <3>2
    <3> QED BY <3>1, <3>3
  <2> HIDE DEF toml
  <2>3. OneEach(listed)
    BY <2>1, <2>2 DEF Current, Listing, OneEach
  <2>4. \A e \in listed : e.draft => e.ref.at = "shared"
    BY <2>1 DEF Current, Listing
  <2> QED BY <1>5, <2>3, <2>4 DEF Listing
<1>7. \A i \in DOMAIN tabs : tabs[i].ref # Named(name)
  BY <1>1 DEF IsOpen
<1>8. \A j \in Sharing : Named(name) # j.from /\ Named(name) # j.to
  BY <1>1 DEF Current, Returning, Undisturbed
<1>9. next <= next' /\ written' <= minted + 1 + 1
  BY <1>1, <1>4
<1>10. NoText \in Text \cup {NoText} /\ FALSE \in BOOLEAN /\ 1 \in Nat
  OBVIOUS
<1> QED BY <1>1, <1>2, <1>3, <1>4, <1>5, <1>6, <1>7, <1>8, <1>9, <1>10, CurrentOpened, Zenon

LEMMA CurrentOpenShared ==
  ASSUME Apart, Undisturbed, Current, Orderly', NEW name \in UserNames, OpenShared(name)
  PROVE  Current'
<1>1. /\ here /\ FreeIds # {} /\ ~ IsOpen(Shared(name)) /\ disk.file[Shared(name)] # NoText
      /\ "reopen" \in Ops /\ next' = next /\ here' = here /\ disk' = disk /\ written' = written
  BY DEF OpenShared
<1>2. tabs' = WithTab(Shared(name), disk.file[Shared(name)], disk.file[Shared(name)], FALSE)
      /\ Autosave(0)
  BY DEF OpenShared, Notify
<1>3. Shared(name) \in Ref
  BY RefsAre
<1>4. disk.file[Shared(name)] \in Text /\ minted \in Nat /\ next \in Nat /\ written \in Nat
  BY <1>1, <1>3 DEF Current, Orderly, Types, IsDisk
<1>5. ~ SharingOps
  BY <1>1 DEF Undisturbed
<1>6. \A j \in Sharing : Shared(name) # j.from /\ Shared(name) # j.to
  BY <1>5 DEF Current, Returning
<1>7. \A i \in DOMAIN tabs : tabs[i].ref # Shared(name)
  BY <1>1 DEF IsOpen
<1>8. next <= next' /\ disk'.file = disk.file /\ written' <= minted + 0 + 1
  BY <1>1, <1>4 DEF Current, Claimed
<1>9. disk.file[Shared(name)] \in Text \cup {NoText} /\ FALSE \in BOOLEAN /\ 0 \in Nat
  BY <1>4
<1>10. Listing'
  BY <1>1 DEF Current, Listing
<1> QED BY <1>1, <1>2, <1>3, <1>4, <1>5, <1>6, <1>7, <1>8, <1>9, <1>10, CurrentOpened, Zenon

LEMMA CurrentEdit ==
  ASSUME Apart, Undisturbed, Current, Orderly', NEW i \in DOMAIN tabs, Edit(i)
  PROVE  Current'
<1>1. DOMAIN tabs' = DOMAIN tabs /\ \A k \in DOMAIN tabs : Kept(k)
  BY EditEffect DEF Current, Orderly, Types, Kept
<1>2. here /\ next' = next /\ here' = here /\ disk' = disk /\ written' = written
  BY DEF Edit, Current, Orderly, Away
<1>3. minted \in Nat /\ written \in Nat /\ next \in Nat /\ written <= minted
  BY DEF Current, Orderly, Types, Claimed
<1>4. Listing' /\ SameShared(disk')
  BY <1>2 DEF Current, Listing, SameShared
<1>5. CASE Autosave(0)
  <2>1. cache' = Snapshot(tabs') /\ jobs' = jobs \cup {SaveJob(minted + 1, Snapshot(tabs'))}
        /\ minted' = minted + 1
    BY <1>3, <1>5 DEF Autosave
  <2>2. OneTabEach(tabs')
    BY <1>1 DEF Current, OneTabEach, Kept
  <2>3. minted + 1 \in Nat /\ minted < minted + 1 /\ written' <= minted + 1 /\ next <= next'
    BY <1>2, <1>3
  <2>4. \A k \in DOMAIN tabs' : Kept(k) \/ Fresh(k)
    BY <1>1
  <2> QED BY <1>2, <1>4, <2>1, <2>2, <2>3, <2>4, CurrentDispatched
<1>6. CASE due' = TRUE /\ UNCHANGED <<minted, jobs, cache>>
  <2>1. Typed'
    BY <1>6 DEF Typed
  <2>2. Sharing' = Sharing
    BY <1>6 DEF Sharing
  <2>3. Saved'
    BY <1>2, <1>6 DEF Current, Saved, Waiting, Landed, Cleaned, Sharing
  <2>4. written' <= minted /\ disk'.tabs = disk.tabs
    BY <1>2, <1>3
  <2> QED BY <1>1, <1>2, <1>4, <1>6, <2>1, <2>2, <2>3, <2>4, CurrentSteady
<1> QED BY <1>5, <1>6 DEF Edit, Notify

LEMMA CurrentClosed ==
  ASSUME Apart, Undisturbed, Current, Orderly', NEW i \in DOMAIN tabs, CloseTab(i)
  PROVE  Current'
<1>1. tabs' = [k \in DOMAIN tabs \ {i} |-> tabs[k]] /\ Autosave(0)
      /\ next' = next /\ here' = here /\ disk' = disk /\ written' = written
  BY DEF CloseTab, Notify
<1>2. here /\ minted \in Nat /\ written \in Nat /\ next \in Nat /\ written <= minted
  BY DEF Current, Orderly, Types, Claimed, Away
<1>3. cache' = Snapshot(tabs') /\ jobs' = jobs \cup {SaveJob(minted + 1, Snapshot(tabs'))}
      /\ minted' = minted + 1
  BY <1>1, <1>2 DEF Autosave
<1>4. \A k \in DOMAIN tabs' : Kept(k)
  BY <1>1 DEF Kept
<1>5. OneTabEach(tabs')
  BY <1>4 DEF Current, OneTabEach, Kept
<1>6. minted + 1 \in Nat /\ minted < minted + 1 /\ written' <= minted + 1 /\ next <= next'
  BY <1>1, <1>2
<1>7. Listing' /\ disk'.file = disk.file
  BY <1>1 DEF Current, Listing
<1> QED BY <1>1, <1>2, <1>3, <1>4, <1>5, <1>6, <1>7, CurrentDispatched

\* A task for a shared script goes on; nothing is dispatched.
LEMMA CurrentTask ==
  ASSUME Current, Orderly', UNCHANGED <<tabs, cache, minted, written, here, next, due>>,
         \A j \in jobs' \cup jobs : j.kind = "save" => (j \in jobs' <=> j \in jobs),
         disk'.tabs = disk.tabs, cache # NoCache /\ Landed => Landed', Returning', Present', Based', Typed'
  PROVE  Current'
<1>1. Claimed'
  BY ClaimedKept DEF Current, Claimed
<1>2. Saved'
  BY DEF Current, Saved, Waiting
<1>3. Listing' /\ OneTabEach(tabs')
  BY DEF Current, Listing
<1> QED BY <1>1, <1>2, <1>3 DEF Current

LEMMA CurrentRequested ==
  ASSUME Apart, Undisturbed, Current, Orderly', NEW i \in DOMAIN tabs, NEW name \in UserNames,
         NEW kind \in SharedKinds,
         IF kind = "promote" THEN tabs[i].ref.at = "scratch" ELSE tabs[i].ref.at = "shared",
         kind # "save shared" => disk.file[Shared(name)] = NoText,
         Request(kind, i, name)
  PROVE  Current'
<1> DEFINE job == SharedJob(kind, i, name)
<1>1. jobs' = jobs \cup {job} /\ UNCHANGED <<tabs, cache, minted, written, here, next, due, disk>>
      /\ kind \in Ops
  BY DEF Request, tabVars
<1>2. job.kind = kind /\ job.stage = "write" /\ job.tab = i /\ job.from = tabs[i].ref
      /\ job.to = Shared(name) /\ job.to.at = "shared"
  BY DEF SharedJob, Shared
<1> HIDE DEF job
<1>3. Sharing = {}
  BY DEF Request, Undisturbed, SavingShared, Sharing, SharedKinds
<1>4. Sharing' = {job} /\ job.kind # "save"
  BY <1>1, <1>2, <1>3 DEF Sharing, SharedKinds
<1>5. here /\ SharingOps
  BY <1>1 DEF Current, Orderly, Away, SharingOps
<1>6. \A k \in DOMAIN tabs : tabs[k].ref.at = "shared" => disk.file[tabs[k].ref] # NoText
  BY <1>3, <1>5 DEF Current, Present, MovedAway
<1>7. tabs[i].ref.at = "scratch" => tabs[i].ref.name < next
  <2> SUFFICES ASSUME tabs[i].ref.at = "scratch" PROVE tabs[i].ref.name < next
    OBVIOUS
  <2>1. tabs[i].ref \in Ref
    BY RefsInRef DEF Current, Orderly, Types
  <2>2. tabs[i].ref.name \in 1..MaxDocs
    BY <1>5, <2>1, RefShape DEF ScratchNames, Undisturbed
  <2> QED BY <2>2 DEF Current, Orderly, Numbered
<1>8. Returning'
  <2>1. \A k \in DOMAIN tabs : tabs[k].ref = tabs[i].ref => k = i
    BY DEF Current, OneTabEach
  <2>2. job.kind # "save shared" => \A k \in DOMAIN tabs : tabs[k].ref # job.to
    BY <1>2, <1>6
  <2>3. /\ tabs' = tabs /\ next' = next /\ here' /\ SharingOps /\ i \in DOMAIN tabs
        /\ job.stage # "apply" /\ job.stage = "write"
        /\ job.from = tabs[i].ref /\ job.tab = i
    BY <1>1, <1>2, <1>5
  <2>4. \A k \in DOMAIN tabs : tabs[k].ref = job.from => k = job.tab
    BY <2>1, <2>3
  <2>5. job.from.at = "scratch" => job.from.name < next
    BY <1>7, <2>3
  <2> QED BY <1>4, <2>2, <2>3, <2>4, <2>5 DEF Returning
<1>9. Present'
  BY <1>1, <1>5, <1>6 DEF Present, Current
<1>10. Based'
  BY <1>1, <1>3 DEF Current, Based, HasFile, Written
<1>11. Typed'
  BY <1>1, <1>3 DEF Current, Typed, HasFile, Seen, Cached
<1>12. Landed => Landed'
  BY <1>1, <1>3 DEF Landed, Cleaned
<1>13. \A j \in jobs' \cup jobs : j.kind = "save" => (j \in jobs' <=> j \in jobs)
  BY <1>1, <1>4
<1> QED BY <1>1, <1>8, <1>9, <1>10, <1>11, <1>12, <1>13, CurrentTask

LEMMA CurrentSwitchedAway ==
  ASSUME Apart, Undisturbed, Current, Orderly', SwitchAway
  PROVE  Current'
<1>1. /\ cache' = Snapshot(tabs) /\ jobs' = jobs \cup {SaveJob(minted + 1, Snapshot(tabs))}
      /\ minted' = minted + 1 /\ DOMAIN tabs' = {} /\ ~ here'
      /\ written' = written /\ disk' = disk
  BY DEF SwitchAway, NoTabs
<1>2. Sharing = {}
  BY DEF SwitchAway, Undisturbed, SavingShared, Sharing, SharedKinds
<1>3. IsTabs(tabs) /\ minted \in Nat /\ written \in Nat /\ written <= minted /\ Types
  BY DEF Current, Orderly, Types, Claimed
<1>4. Sharing' = {}
  <2> DEFINE new == SaveJob(minted + 1, Snapshot(tabs))
  <2>1. new.kind \notin SharedKinds
    BY DEF SaveJob, SharedKinds
  <2>2. jobs' = jobs \cup {new}
    BY <1>1
  <2> HIDE DEF new
  <2> QED BY <1>2, <2>1, <2>2 DEF Sharing
<1>5. Claimed' /\ Saved'
  <2>1. minted + 1 \in Nat /\ minted < minted + 1 /\ written' <= minted + 1
    BY <1>1, <1>3
  <2> QED BY <1>1, <1>3, <2>1, ClaimedAutosaved DEF Current
<1>6. Present'
  <2>1. cache' # NoCache /\ Cached' = Snapshot(tabs)
    <3>1. Snapshot(tabs) # NoCache
      BY <1>3, SnapshotType
    <3> QED BY <1>1, <3>1 DEF Cached
  <2>2. ASSUME SharingOps, NEW e \in Snapshot(tabs), e.ref.at = "shared"
        PROVE  disk.file[e.ref] # NoText
    <3>1. PICK i \in DOMAIN tabs : e = EntryOf(tabs[i])
      BY DEF Snapshot
    <3>2. e.ref = tabs[i].ref
      BY <1>3, <3>1, EntryType, RefsInRef
    <3> QED BY <1>2, <2>2, <3>2 DEF Current, Present, MovedAway
  <2> QED BY <1>1, <2>1, <2>2 DEF Present
<1>7. OneTabEach(tabs') /\ Based' /\ Typed'
  BY <1>1 DEF OneTabEach, Based, Typed
<1>8. Returning'
  BY <1>4 DEF Returning
<1>9. Listing'
  BY <1>1 DEF Current, Listing
<1> QED BY <1>5, <1>6, <1>7, <1>8, <1>9 DEF Current

\* A shared script restored while its file is there.
LEMMA RestoredShared ==
  ASSUME NEW d, NEW e, e.ref.at = "shared", d.file[e.ref] # NoText
  PROVE  /\ Restored(e, d).ref = e.ref /\ Restored(e, d).base = d.file[e.ref]
         /\ Restored(e, d).text = IF e.text # NoText THEN e.text ELSE d.file[e.ref]
  BY DEF Restored

\* What the tabs are restored from, when it is not the tabs last seen.
LEMMA LoadedShared ==
  ASSUME IsDisk(disk), Listing
  PROVE  /\ OneEach(Loaded(disk))
         /\ \A e \in Loaded(disk) : e.ref.at = "shared" /\ e.text # NoText =>
              e.text = disk.draft[e.ref.name]
<1> DEFINE textOf(e) == IF e.ref.at # "shared" THEN disk.file[e.ref]
                        ELSE IF e.draft THEN disk.draft[e.ref.name] ELSE NoText
<1>1. \A e \in Loaded(disk) : \E x \in disk.tabs : e = [ref |-> x.ref, text |-> textOf(x)]
  BY DEF Loaded
<1>2. ASSUME NEW e \in Loaded(disk), e.ref.at = "shared" /\ e.text # NoText
      PROVE  e.text = disk.draft[e.ref.name]
  <2>1. PICK x \in disk.tabs : e = [ref |-> x.ref, text |-> textOf(x)]
    BY <1>1
  <2>2. e.ref = x.ref /\ e.text = textOf(x)
    BY <2>1
  <2> QED BY <1>2, <2>2
<1> HIDE DEF textOf
<1>3. OneEach(Loaded(disk))
  <2> SUFFICES ASSUME NEW e \in Loaded(disk), NEW f \in Loaded(disk), e.ref = f.ref
               PROVE  e = f
    BY DEF OneEach
  <2>1. PICK x \in disk.tabs : e = [ref |-> x.ref, text |-> textOf(x)]
    BY <1>1
  <2>2. PICK y \in disk.tabs : f = [ref |-> y.ref, text |-> textOf(y)]
    BY <1>1
  <2>3. x = y
    BY <2>1, <2>2 DEF Listing, OneEach
  <2> QED BY <2>1, <2>2, <2>3
<1> QED BY <1>2, <1>3

LEMMA CurrentSwitchedHere ==
  ASSUME Apart, Undisturbed, Current, Orderly', SwitchHere
  PROVE  Current'
<1>1. ~ here /\ here' /\ UNCHANGED <<due, cache, minted, written, jobs, disk>> /\ DOMAIN tabs = {}
  BY DEF SwitchHere, Current, Orderly, Away
<1>2. Sharing = {} /\ Sharing' = {}
  BY <1>1 DEF Current, Returning, Sharing
<1>3. Types /\ IsTabs(tabs) /\ IsDisk(disk) /\ SwitchedFrom \in Snapshots
  BY SwitchedFromType DEF Current, Orderly, Types
<1>4. Claimed' /\ Listing' /\ Returning'
  BY <1>1, <1>2 DEF Current, Claimed, Cached, Listing, Returning
<1>5. Saved'
  BY <1>1, <1>2 DEF Current, Saved, Waiting, Landed, Cleaned
<1>6. SharingOps /\ cache' = NoCache => disk'.tabs = {}
  BY <1>1 DEF Current, Present
<1>7. CASE SwitchedFrom = {}
  <2>1. FreeIds # {} /\ docs < MaxDocs
        /\ tabs' = WithTab(Scratch(1), [of |-> docs + 1, n |-> 0], NoText, FALSE)
    BY <1>7 DEF SwitchHere, SwitchedFrom
  <2>2. Scratch(1) \in Ref /\ [of |-> docs + 1, n |-> 0] \in Text
    BY <2>1, RefsAre DEF ScratchNames, Text, Current, Orderly, Types, Apart
  <2> DEFINE dirty == FALSE
             text == [of |-> docs + 1, n |-> 0]
  <2>3. dirty \in BOOLEAN /\ tabs' = WithTab(Scratch(1), text, NoText, dirty) /\ text \in Text
    BY <2>1, <2>2
  <2> HIDE DEF dirty, text
  <2>4. FreeIds # {} /\ Scratch(1) \in Ref /\ NoText \in Text \cup {NoText}
    BY <2>1, <2>2
  <2>5. PICK new \in FreeIds : NewTab(new, Scratch(1), text, NoText)
    BY <1>3, <2>3, <2>4, WithTabEffect
  <2>6. DOMAIN tabs' = {new} /\ tabs'[new].ref.at = "scratch"
    BY <1>1, <2>5 DEF NewTab, Scratch
  <2> QED BY <1>1, <1>4, <1>5, <1>6, <2>6 DEF Current, OneTabEach, Present, Based, Typed, HasFile
<1>8. CASE SwitchedFrom # {}
  <2> DEFINE entries == SwitchedFrom
  <2>1. Cardinality(entries) <= Cardinality(FreeIds) /\ tabs' = RestoredTabs(entries)
    BY <1>8 DEF SwitchHere, SwitchedFrom
  <2>2. \/ cache # NoCache /\ entries = Cached
        \/ cache = NoCache /\ entries = Loaded(disk)
    BY DEF SwitchedFrom, Cached
  <2>3. OneEach(entries)
    BY <1>3, <2>2, LoadedShared DEF Current, Claimed
  <2>4. ASSUME NEW e \in entries, SharingOps, e.ref.at = "shared"
        PROVE  disk.file[e.ref] # NoText
    <3>1. cache = NoCache => Loaded(disk) = {}
      BY <2>4 DEF Current, Present, Loaded
    <3> QED BY <1>1, <2>2, <2>4, <3>1 DEF Current, Present
  <2>5. ASSUME NEW e \in entries, e.ref.at = "shared", e.text # NoText
        PROVE  \/ [ref |-> e.ref, text |-> e.text] \in Cached
               \/ cache = NoCache /\ disk.draft[e.ref.name] = e.text
    <3>1. e = [ref |-> e.ref, text |-> e.text]
      BY <1>3 DEF Snapshots, Entry
    <3> QED BY <1>3, <2>2, <2>5, <3>1, LoadedShared DEF Current
  <2>6. entries \in Snapshots
    BY <1>3
  <2> HIDE DEF entries
  <2>7. PICK ids \in [entries -> FreeIds] : RestoredAs(entries, ids)
    BY <1>3, <2>1, <2>6, RestoredTabsEffect
  <2>8. ASSUME NEW i \in DOMAIN tabs'
        PROVE  \E e \in entries : i = ids[e] /\ tabs'[i] = Restored(e, disk) /\ tabs'[i].ref = e.ref
    <3>1. PICK e \in entries : i = ids[e] /\ tabs'[i] = Restored(e, disk)
      BY <2>7 DEF RestoredAs
    <3>2. e \in Entry
      BY <2>6 DEF Snapshots
    <3> QED BY <1>3, <3>1, <3>2, RestoredType
  <2>9. OneTabEach(tabs')
    BY <2>3, <2>8 DEF OneTabEach, OneEach
  <2>10. Present'
    <3>1. ASSUME SharingOps, NEW i \in DOMAIN tabs', tabs'[i].ref.at = "shared"
          PROVE  disk'.file[tabs'[i].ref] # NoText
      BY <1>1, <2>4, <2>8, <3>1
    <3> QED BY <1>1, <1>6, <3>1 DEF Present
  <2>11. ASSUME NEW i \in DOMAIN tabs', HasFile(i)'
         PROVE  tabs'[i].base = disk'.file[tabs'[i].ref] /\ Seen(i)'
    <3>1. PICK e \in entries : tabs'[i] = Restored(e, disk) /\ tabs'[i].ref = e.ref
      BY <2>8
    <3>2. e.ref.at = "shared" /\ disk.file[e.ref] # NoText
      BY <1>1, <2>11, <3>1 DEF HasFile
    <3>3. tabs'[i].base = disk.file[e.ref]
          /\ tabs'[i].text = IF e.text # NoText THEN e.text ELSE disk.file[e.ref]
      BY <3>1, <3>2, RestoredShared
    <3>4. CASE e.text = NoText
      <4>1. tabs'[i].text = tabs'[i].base
        BY <3>3, <3>4
      <4>2. Seen(i)'
        BY <4>1 DEF Seen
      <4> QED BY <1>1, <3>1, <3>3, <4>2
    <3>5. CASE e.text # NoText
      <4>1. Cached' = Cached /\ cache' = cache /\ disk' = disk
        BY <1>1 DEF Cached
      <4>2. Seen(i)'
        BY <2>5, <3>1, <3>2, <3>3, <3>5, <4>1 DEF Seen
      <4> QED BY <1>1, <3>1, <3>3, <4>2
    <3> QED BY <3>4, <3>5
  <2>12. Based' /\ Typed'
    BY <2>11 DEF Based, Typed
  <2> QED BY <1>4, <1>5, <2>9, <2>10, <2>12 DEF Current
<1> QED BY <1>7, <1>8

LEMMA CurrentDebounced ==
  ASSUME Apart, Undisturbed, Current, Orderly', DebounceFires
  PROVE  Current'
<1>1. UNCHANGED <<tabs, next, here, written, disk>> /\ \A i \in DOMAIN tabs : Kept(i)
  BY DEF DebounceFires, Kept
<1>2. minted \in Nat /\ written \in Nat /\ next \in Nat /\ written <= minted
  BY DEF Current, Orderly, Types, Claimed
<1>3. Listing' /\ SameShared(disk') /\ OneTabEach(tabs')
  BY <1>1 DEF Current, Listing, SameShared
<1>4. CASE here
  <2>1. cache' = Snapshot(tabs') /\ jobs' = jobs \cup {SaveJob(minted + 1, Snapshot(tabs'))}
        /\ minted' = minted + 1
    BY <1>2, <1>4 DEF DebounceFires, Notify, Autosave
  <2>2. minted + 1 \in Nat /\ minted < minted + 1 /\ written' <= minted + 1 /\ next <= next'
    BY <1>1, <1>2
  <2>3. \A k \in DOMAIN tabs' : Kept(k) \/ Fresh(k)
    BY <1>1
  <2> QED BY <1>1, <1>3, <1>4, <2>1, <2>2, <2>3, CurrentDispatched
<1>5. CASE ~ here
  <2>1. UNCHANGED <<minted, jobs, cache>>
    BY <1>5 DEF DebounceFires
  <2>2. Typed'
    BY <1>1, <1>5 DEF Typed
  <2>3. Sharing' = Sharing /\ written' <= minted
    BY <1>1, <1>2, <2>1 DEF Sharing
  <2>4. Saved'
    BY <1>1, <2>1 DEF Current, Saved, Waiting, Landed, Cleaned, Sharing
  <2> QED BY <1>1, <1>3, <2>1, <2>2, <2>3, <2>4, CurrentSteady
<1> QED BY <1>4, <1>5

\* A save is done with; a shared script's file is what it was.
LEMMA CurrentSaveDone ==
  ASSUME Apart, Undisturbed, Current, Orderly', NEW j \in jobs, j.kind = "save",
         jobs' = jobs \ {j}, UNCHANGED <<tabs, next, due, here, cache, minted>>,
         written' <= minted, SameShared(disk'), Listing', Saved'
  PROVE  Current'
<1>1. Sharing' = Sharing /\ cache # NoCache
  BY DEF Sharing, SharedKinds, Current, Claimed
<1>2. \A i \in DOMAIN tabs : Kept(i)
  BY DEF Kept
<1>3. Typed'
  <2> SUFFICES ASSUME here, ~ due, NEW i \in DOMAIN tabs, HasFile(i)' PROVE Seen(i)'
    BY DEF Typed
  <2>1. tabs[i].ref \in Ref /\ tabs[i].ref.at = "shared"
    BY RefsInRef DEF Current, Orderly, Types, HasFile
  <2>2. HasFile(i)
    BY <2>1 DEF HasFile, SameShared
  <2>3. Seen(i)
    BY <2>2 DEF Current, Typed
  <2> QED BY <1>1, <2>3 DEF Seen, Cached
<1> QED BY <1>1, <1>2, <1>3, CurrentSteady

LEMMA CurrentRefused ==
  ASSUME Apart, Undisturbed, Current, Orderly', NEW j \in jobs, SaveRefused(j)
  PROVE  Current'
<1>1. /\ j.kind = "save" /\ j.claim < written /\ jobs' = jobs \ {j}
      /\ UNCHANGED <<tabs, next, due, here, cache, minted, written, disk>>
  BY DEF SaveRefused, tabVars
<1>2. written \in Nat /\ minted \in Nat /\ written <= minted /\ j.claim \in Nat
  BY <1>1, JobType DEF Current, Orderly, Types, Claimed, SaveJobs
<1>3. Waiting => Waiting'
  BY <1>1, <1>2 DEF Waiting
<1>4. Sharing' = Sharing
  BY <1>1 DEF Sharing, SharedKinds
<1>5. Saved'
  BY <1>1, <1>3, <1>4 DEF Current, Saved, Landed, Cleaned
<1>6. SameShared(disk') /\ Listing'
  BY <1>1 DEF SameShared, Current, Listing
<1> QED BY <1>1, <1>2, <1>5, <1>6, CurrentSaveDone

LEMMA CurrentLanded ==
  ASSUME Apart, Undisturbed, Current, Orderly', NEW j \in jobs, SaveLands(j)
  PROVE  Current'
<1>1. /\ j.kind = "save" /\ j.claim >= written /\ jobs' = jobs \ {j}
      /\ written' = j.claim /\ disk' = Persisted(disk, j.entries)
      /\ UNCHANGED <<tabs, next, due, here, cache, minted>>
  BY DEF SaveLands, tabVars
<1>2. written \in Nat /\ minted \in Nat /\ written <= minted /\ j.claim \in Nat
      /\ j.entries \in Snapshots /\ IsDisk(disk)
  BY <1>1, JobType DEF Current, Orderly, Types, Claimed, SaveJobs
<1>3. /\ cache # NoCache /\ j.claim <= minted /\ OneEach(j.entries)
      /\ j.claim = minted => j.entries = cache
  BY <1>1 DEF Current, Claimed
<1>4. /\ disk'.tabs = {Flag(e) : e \in j.entries}
      /\ \A e \in j.entries : AgreesOn(disk', e)
      /\ SameShared(disk')
  <2>1. /\ disk'.tabs = {Flag(e) : e \in j.entries}
        /\ \A e \in j.entries : AgreesOn(disk', e)
        /\ \A r \in Ref : r.at = "shared" => disk'.file[r] = disk.file[r]
    BY <1>1, <1>2, <1>3, PersistedIs
  <2> QED BY <2>1 DEF SameShared
<1>5. Listing'
  <2>1. \A e \in j.entries : Flag(e).ref = e.ref /\ (Flag(e).draft => e.ref.at = "shared")
    BY FlagIs
  <2> QED BY <1>3, <1>4, <2>1 DEF Listing, OneEach
<1>6. CASE j.claim = minted
  <2>1. Landed'
    BY <1>1, <1>3, <1>4, <1>6 DEF Landed
  <2>2. Saved'
    BY <1>1, <1>6, <2>1 DEF Saved
  <2> QED BY <1>1, <1>3, <1>4, <1>5, <2>2, CurrentSaveDone
<1>7. CASE j.claim # minted
  <2>1. written # minted
    BY <1>1, <1>2, <1>3, <1>7
  <2>2. Waiting
    BY <1>3, <2>1 DEF Current, Saved
  <2>3. Waiting'
    BY <1>1, <1>7, <2>2 DEF Waiting
  <2>4. Saved'
    BY <2>3 DEF Saved
  <2> QED BY <1>1, <1>3, <1>4, <1>5, <2>4, CurrentSaveDone
<1> QED BY <1>6, <1>7

\* A task for a shared script advances; it is the only one.
Advanced(j, k, stage) ==
  /\ k.kind = j.kind /\ k.stage = stage /\ k.tab = j.tab /\ k.from = j.from /\ k.to = j.to
  /\ k.text = j.text

LEMMA SharingAdvances ==
  ASSUME Types, Returning, NEW j \in Sharing, NEW stage, Advance(j, stage)
  PROVE  /\ \E k : Sharing' = {k} /\ Advanced(j, k, stage)
         /\ \A s \in jobs' \cup jobs : s.kind = "save" => (s \in jobs' <=> s \in jobs)
<1> DEFINE k == [j EXCEPT !.stage = stage]
<1>1. j \in jobs /\ j \in SharedJobs /\ j.kind \in SharedKinds /\ Sharing = {j}
  BY SharingTypes DEF Returning, Sharing
<1>2. Advanced(j, k, stage)
  BY <1>1 DEF Advanced, SharedJobs
<1>3. jobs' = (jobs \ {j}) \cup {k}
  BY DEF Advance
<1> HIDE DEF k
<1>4. k.kind \in SharedKinds
  BY <1>1, <1>2 DEF Advanced
<1>5. Sharing' = {k}
  BY <1>1, <1>3, <1>4 DEF Sharing
<1>6. \A s \in jobs' \cup jobs : s.kind = "save" => (s \in jobs' <=> s \in jobs)
  BY <1>1, <1>3, <1>4 DEF SharedKinds
<1> QED BY <1>2, <1>5, <1>6

LEMMA SharingEnds ==
  ASSUME Types, Returning, NEW j \in Sharing, jobs' = jobs \ {j}
  PROVE  /\ Sharing' = {}
         /\ \A s \in jobs' \cup jobs : s.kind = "save" => (s \in jobs' <=> s \in jobs)
<1>1. j.kind \in SharedKinds /\ Sharing = {j}
  BY DEF Returning, Sharing
<1> QED BY <1>1 DEF Sharing, SharedKinds

\* The only task for a shared script ends without telling its tab; what it
\* has not done is not missed.
LEMMA CurrentEnded ==
  ASSUME Current, Orderly', NEW j \in Sharing, jobs' = jobs \ {j},
         UNCHANGED <<tabs, cache, minted, written, here, next, due, disk>>,
         j.stage = "write" \/ j.tab \notin DOMAIN tabs
  PROVE  Current'
<1>1. Types /\ Returning /\ Sharing = {j}
  BY DEF Current, Orderly, Returning
<1>2. Sharing' = {} /\ \A s \in jobs' \cup jobs : s.kind = "save" => (s \in jobs' <=> s \in jobs)
  BY <1>1, SharingEnds
<1>3. Returning'
  BY <1>2 DEF Returning
<1>4. \A i \in DOMAIN tabs : ~ MovedAway(i) /\ ~ Written(i)
  BY <1>1 DEF MovedAway, Written
<1>5. Present' /\ Based'
  BY <1>4 DEF Current, Present, Based, HasFile, Cached
<1>6. Typed'
  <2> SUFFICES ASSUME here, ~ due, NEW i \in DOMAIN tabs, HasFile(i) PROVE Seen(i)'
    BY DEF Typed, HasFile
  <2>1. Seen(i)
    BY DEF Current, Typed
  <2> QED BY <1>1, <2>1 DEF Seen, Cached
<1>7. ASSUME Landed, cache # NoCache PROVE Landed'
  <2>1. \A e \in cache : ~ Cleaned(e)
    <3>1. CASE j.stage = "write"
      BY <1>1, <3>1 DEF Cleaned
    <3>2. CASE j.tab \notin DOMAIN tabs
      BY <1>1, <1>7, <3>2 DEF Cleaned, Returning, Cached
    <3> QED BY <3>1, <3>2
  <2> QED BY <1>7, <2>1 DEF Landed
<1>8. Saved'
  BY <1>2, <1>7 DEF Current, Saved, Waiting
<1>9. Claimed'
  BY <1>2, ClaimedKept DEF Current, Claimed
<1>10. Listing' /\ OneTabEach(tabs')
  BY DEF Current, Listing
<1> QED BY <1>3, <1>5, <1>6, <1>8, <1>9, <1>10 DEF Current

\* The file of a shared script is written.
LEMMA CurrentWritten ==
  ASSUME Apart, Undisturbed, Current, Orderly', NEW j \in jobs, SharedWritten(j)
  PROVE  Current'
<1>1. j.kind \in {"promote", "save shared"} /\ j.stage = "write" /\ Advance(j, "clean")
      /\ disk' = [disk EXCEPT !.file[j.to] = j.text]
      /\ UNCHANGED <<tabs, cache, minted, written, here, next, due>>
  BY DEF SharedWritten, Undisturbed, tabVars
<1>2. Types /\ Returning /\ j \in Sharing /\ Sharing = {j}
  BY <1>1 DEF Current, Orderly, Returning, Sharing, SharedKinds
<1>3. PICK k : Sharing' = {k} /\ Advanced(j, k, "clean")
  BY <1>1, <1>2, SharingAdvances
<1>4. \A s \in jobs' \cup jobs : s.kind = "save" => (s \in jobs' <=> s \in jobs)
  BY <1>1, <1>2, SharingAdvances
<1>5. j.to \in Ref /\ j.to.at = "shared" /\ j.text # NoText
  BY <1>2, SharingTypes DEF Apart
<1>6. /\ disk'.file[j.to] = j.text /\ \A r \in Ref \ {j.to} : disk'.file[r] = disk.file[r]
      /\ disk'.draft = disk.draft /\ disk'.tabs = disk.tabs
  BY <1>1, <1>5 DEF Current, Orderly, Types, IsDisk
<1>7. \A i \in DOMAIN tabs : tabs[i].ref = j.to => i = j.tab /\ j.kind = "save shared"
  BY <1>2, SharingTypes DEF Returning
<1>8. \A i \in DOMAIN tabs : tabs[i].ref \in Ref
  BY RefsInRef DEF Current, Orderly, Types
<1>9. Returning'
  <2>1. /\ here /\ SharingOps
        /\ j.tab \in DOMAIN tabs => tabs[j.tab].ref = j.from
        /\ j.tab \notin DOMAIN tabs => \A e \in Cached : e.ref # j.from
        /\ \A i \in DOMAIN tabs : tabs[i].ref = j.from => i = j.tab
        /\ j.kind # "save shared" => \A i \in DOMAIN tabs : tabs[i].ref # j.to
        /\ j.from.at = "scratch" => j.from.name < next
    BY <1>2 DEF Returning
  <2>2. Cached' = Cached /\ tabs' = tabs /\ here' = here /\ next' = next
        /\ j.kind # "rename shared" /\ disk'.file[j.to] = j.text
    BY <1>1, <1>6 DEF Cached
  <2> QED BY <1>3, <2>1, <2>2 DEF Returning, Advanced
<1>10. Present'
  <2>1. ASSUME SharingOps, NEW r \in Ref, disk.file[r] # NoText PROVE disk'.file[r] # NoText
    BY <1>5, <1>6, <2>1
  <2>2. \A i \in DOMAIN tabs : ~ MovedAway(i)
    BY <1>1, <1>2 DEF MovedAway
  <2>3. here
    BY <1>2 DEF Returning
  <2> QED BY <1>1, <1>6, <1>8, <2>1, <2>2, <2>3 DEF Current, Present
<1>11. Based'
  <2> SUFFICES ASSUME NEW i \in DOMAIN tabs, HasFile(i)'
               PROVE  tabs[i].base = disk'.file[tabs[i].ref] \/ Written(i)'
    BY <1>1 DEF Based
  <2>1. CASE tabs[i].ref = j.to
    BY <1>3, <1>7, <2>1 DEF Written, Advanced
  <2>2. CASE tabs[i].ref # j.to
    <3>1. disk'.file[tabs[i].ref] = disk.file[tabs[i].ref] /\ ~ Written(i)
      BY <1>2, <1>1, <1>6, <1>8, <2>2 DEF Written
    <3> QED BY <1>1, <3>1 DEF Current, Based, HasFile
  <2> QED BY <2>1, <2>2
<1>12. Typed'
  <2> SUFFICES ASSUME here, ~ due, NEW i \in DOMAIN tabs, HasFile(i)' PROVE Seen(i)'
    BY <1>1 DEF Typed
  <2>1. HasFile(i)
    <3>1. ~ MovedAway(i) /\ SharingOps
      BY <1>1, <1>2 DEF MovedAway, Returning
    <3>2. tabs[i].ref.at = "shared"
      BY <1>1 DEF HasFile
    <3> QED BY <3>1, <3>2 DEF HasFile, Current, Present
  <2>2. Seen(i)
    BY <2>1 DEF Current, Typed
  <2>3. Cached' = Cached
    BY <1>1 DEF Cached
  <2> QED BY <1>1, <1>2, <1>6, <2>2, <2>3 DEF Seen
<1>13. cache # NoCache /\ Landed => Landed'
  <2>1. \A e : ~ Cleaned(e)
    BY <1>1, <1>2 DEF Cleaned
  <2>2. ASSUME cache # NoCache, Landed, NEW e \in cache PROVE AgreesOn(disk', e)
    <3>1. AgreesOn(disk, e)
      BY <2>1, <2>2 DEF Landed
    <3>2. e.ref \in Ref
      BY <2>2 DEF Current, Orderly, Types, Snapshots, Entry
    <3> QED BY <1>5, <1>6, <3>1, <3>2 DEF AgreesOn
  <2> QED BY <1>1, <1>6, <2>2 DEF Landed
<1> QED BY <1>1, <1>4, <1>6, <1>9, <1>10, <1>11, <1>12, <1>13, CurrentTask

\* The file of a shared script gets another name.
LEMMA CurrentMoved ==
  ASSUME Apart, Undisturbed, Current, Orderly', NEW j \in jobs, SharedMoves(j)
  PROVE  Current'
<1>1. j.kind = "rename shared" /\ j.stage = "write"
      /\ UNCHANGED <<tabs, cache, minted, written, here, next, due>>
  BY DEF SharedMoves, tabVars
<1>2. Types /\ Returning /\ j \in Sharing /\ Sharing = {j}
  BY <1>1 DEF Current, Orderly, Returning, Sharing, SharedKinds
<1>3. CASE jobs' = jobs \ {j} /\ UNCHANGED disk
  BY <1>1, <1>2, <1>3, CurrentEnded
<1>4. CASE CanMove(j) /\ disk' = Moved(disk, j.from, j.to) /\ Advance(j, "apply")
  <2>1. disk' = Moved(disk, j.from, j.to) /\ Advance(j, "apply")
        /\ disk.file[j.to] = NoText /\ disk.file[j.from] # NoText
    BY <1>4 DEF CanMove
  <2>2. PICK k : Sharing' = {k} /\ Advanced(j, k, "apply")
    BY <1>2, <2>1, SharingAdvances
  <2>3. \A s \in jobs' \cup jobs : s.kind = "save" => (s \in jobs' <=> s \in jobs)
    BY <1>2, <2>1, SharingAdvances
  <2>4. j.to \in Ref /\ j.to.at = "shared" /\ j.from \in Ref /\ j.from.at = "shared"
    BY <1>1, <1>2, SharingTypes
  <2>5. /\ disk'.file[j.to] = disk.file[j.from] /\ disk'.file[j.from] = NoText
        /\ \A r \in Ref \ {j.to, j.from} : disk'.file[r] = disk.file[r]
        /\ disk'.draft = disk.draft /\ disk'.tabs = disk.tabs
    BY <2>1, <2>4 DEF Current, Orderly, Types, IsDisk, Moved
  <2>6. \A i \in DOMAIN tabs : tabs[i].ref \in Ref
    BY RefsInRef DEF Current, Orderly, Types
  <2>7. /\ here /\ SharingOps
        /\ j.tab \in DOMAIN tabs => tabs[j.tab].ref = j.from
        /\ j.tab \notin DOMAIN tabs => \A e \in Cached : e.ref # j.from
        /\ \A i \in DOMAIN tabs : tabs[i].ref = j.from => i = j.tab
        /\ \A i \in DOMAIN tabs : tabs[i].ref # j.to
    BY <1>1, <1>2 DEF Returning
  <2>8. \A i : ~ MovedAway(i) /\ ~ Written(i)
    BY <1>1, <1>2 DEF MovedAway, Written
  <2>9. ASSUME NEW i \in DOMAIN tabs, HasFile(i)'
        PROVE  tabs[i].ref # j.from /\ HasFile(i) /\ disk'.file[tabs[i].ref] = disk.file[tabs[i].ref]
    BY <1>1, <2>5, <2>6, <2>7, <2>9 DEF HasFile
  <2>10. Returning'
    <3>1. disk'.file[j.to] # NoText
      BY <2>1, <2>5
    <3>2. j.tab \in DOMAIN tabs => tabs[j.tab].base = disk'.file[j.to]
      <4> SUFFICES ASSUME j.tab \in DOMAIN tabs PROVE tabs[j.tab].base = disk'.file[j.to]
        OBVIOUS
      <4>1. HasFile(j.tab)
        BY <2>1, <2>4, <2>7 DEF HasFile
      <4> QED BY <2>5, <2>7, <2>8, <4>1 DEF Current, Based
    <3>3. Cached' = Cached /\ tabs' = tabs /\ here' = here /\ next' = next
      BY <1>1 DEF Cached
    <3>4. /\ k.kind = "rename shared" /\ k.from.at # "scratch" /\ k.from = j.from
          /\ k.to = j.to /\ k.tab = j.tab
      BY <1>1, <2>2, <2>4 DEF Advanced
    <3>5. /\ here' /\ SharingOps
          /\ k.tab \in DOMAIN tabs' => tabs'[k.tab].ref = k.from
          /\ k.tab \notin DOMAIN tabs' => \A e \in Cached' : e.ref # k.from
          /\ \A i \in DOMAIN tabs' : tabs'[i].ref = k.from => i = k.tab
          /\ \A i \in DOMAIN tabs' : tabs'[i].ref # k.to
          /\ disk'.file[k.to] # NoText
          /\ k.tab \in DOMAIN tabs' => tabs'[k.tab].base = disk'.file[k.to]
      BY <2>7, <3>1, <3>2, <3>3, <3>4
    <3>6. \A l \in Sharing' : l = k
      BY <2>2
    <3> QED BY <3>4, <3>5, <3>6 DEF Returning
  <2>11. Present'
    <3>1. ASSUME NEW i \in DOMAIN tabs, tabs[i].ref.at = "shared"
          PROVE  disk'.file[tabs[i].ref] # NoText \/ MovedAway(i)'
      <4>1. CASE tabs[i].ref = j.from
        BY <1>1, <2>2, <2>7, <4>1 DEF MovedAway, Advanced
      <4>2. CASE tabs[i].ref # j.from
        BY <2>5, <2>6, <2>7, <2>8, <3>1, <4>2 DEF Current, Present
      <4> QED BY <4>1, <4>2
    <3>2. SharingOps /\ cache' = NoCache => disk'.tabs = {}
      BY <1>1, <2>5 DEF Current, Present
    <3> QED BY <1>1, <2>7, <3>1, <3>2 DEF Present
  <2>12. Based'
    BY <1>1, <2>8, <2>9 DEF Current, Based
  <2>13. Typed'
    <3> SUFFICES ASSUME here, ~ due, NEW i \in DOMAIN tabs, HasFile(i)' PROVE Seen(i)'
      BY <1>1 DEF Typed
    <3>1. Seen(i)
      BY <2>9 DEF Current, Typed
    <3> QED BY <1>1, <1>2, <2>5, <3>1 DEF Seen, Cached
  <2>14. ASSUME cache # NoCache, Landed PROVE Landed'
    <3>1. \A e \in cache : AgreesOn(disk, e) /\ e.ref \in Ref
      BY <1>1, <1>2, <2>14 DEF Landed, Cleaned, Current, Orderly, Types, Snapshots, Entry
    <3> QED BY <1>1, <2>4, <2>5, <2>14, <3>1 DEF Landed, AgreesOn
  <2> QED BY <1>1, <2>3, <2>5, <2>10, <2>11, <2>12, <2>13, <2>14, CurrentTask
<1> QED BY <1>3, <1>4 DEF SharedMoves

\* The scratch file, or the draft, of what is now saved elsewhere goes.
LEMMA CurrentCleaned ==
  ASSUME Apart, Undisturbed, Current, Orderly', NEW j \in jobs, SharedCleaned(j)
  PROVE  Current'
<1>1. /\ j.kind \in {"promote", "save shared"} /\ j.stage = "clean" /\ Advance(j, "apply")
      /\ disk' = IF j.kind = "promote" THEN [disk EXCEPT !.file[j.from] = NoText]
                 ELSE [disk EXCEPT !.draft[j.from.name] = NoText]
      /\ UNCHANGED <<tabs, cache, minted, written, here, next, due>>
  BY DEF SharedCleaned, Undisturbed, tabVars
<1>2. Types /\ Returning /\ j \in Sharing /\ Sharing = {j}
  BY <1>1 DEF Current, Orderly, Returning, Sharing, SharedKinds
<1>3. PICK k : Sharing' = {k} /\ Advanced(j, k, "apply")
  BY <1>1, <1>2, SharingAdvances
<1>4. \A s \in jobs' \cup jobs : s.kind = "save" => (s \in jobs' <=> s \in jobs)
  BY <1>1, <1>2, SharingAdvances
<1>5. /\ j.to \in Ref /\ j.to.at = "shared" /\ j.from \in Ref
      /\ j.kind = "promote" => j.from.at = "scratch"
      /\ j.kind = "save shared" => j.from.at = "shared"
  BY <1>1, <1>2, SharingTypes
<1>6. /\ \A r \in Ref : r # j.from \/ r.at = "shared" => disk'.file[r] = disk.file[r]
      /\ \A n \in UserNames : Shared(n) # j.from => disk'.draft[n] = disk.draft[n]
      /\ disk'.tabs = disk.tabs
  <2>1. CASE j.kind = "promote"
    BY <1>1, <1>5, <2>1 DEF Current, Orderly, Types, IsDisk
  <2>2. CASE j.kind = "save shared"
    <3>1. j.from = Shared(j.from.name)
      BY <1>5, <2>2, RefShape
    <3> QED BY <1>1, <2>2, <3>1 DEF Current, Orderly, Types, IsDisk
  <2> QED BY <1>1, <2>1, <2>2
<1>7. \A i \in DOMAIN tabs : tabs[i].ref \in Ref
  BY RefsInRef DEF Current, Orderly, Types
<1>8. /\ here /\ SharingOps
      /\ j.tab \in DOMAIN tabs => tabs[j.tab].ref = j.from
      /\ j.tab \notin DOMAIN tabs => \A e \in Cached : e.ref # j.from
      /\ \A i \in DOMAIN tabs : tabs[i].ref = j.from => i = j.tab
      /\ j.kind # "save shared" => \A i \in DOMAIN tabs : tabs[i].ref # j.to
      /\ j.from.at = "scratch" => j.from.name < next
      /\ disk.file[j.to] = j.text
  BY <1>1, <1>2 DEF Returning
<1>9. \A i \in DOMAIN tabs : tabs[i].ref.at = "shared" =>
        disk'.file[tabs[i].ref] = disk.file[tabs[i].ref]
  BY <1>6, <1>7
<1>10. Returning'
  <2>1. Cached' = Cached /\ tabs' = tabs /\ here' = here /\ next' = next
        /\ j.kind # "rename shared" /\ disk'.file[j.to] = j.text
    BY <1>1, <1>5, <1>6, <1>8 DEF Cached
  <2> QED BY <1>3, <1>8, <2>1 DEF Returning, Advanced
<1>11. Present'
  <2>1. \A i : ~ MovedAway(i)
    BY <1>1, <1>2 DEF MovedAway
  <2>2. cache = NoCache => disk'.tabs = {}
    BY <1>6, <1>8 DEF Current, Present
  <2> QED BY <1>1, <1>8, <1>9, <2>1, <2>2 DEF Current, Present
<1>12. Based'
  <2> SUFFICES ASSUME NEW i \in DOMAIN tabs, HasFile(i)'
               PROVE  tabs[i].base = disk'.file[tabs[i].ref] \/ Written(i)'
    BY <1>1 DEF Based
  <2>1. HasFile(i) /\ disk'.file[tabs[i].ref] = disk.file[tabs[i].ref]
    BY <1>1, <1>9 DEF HasFile
  <2>2. Written(i) => Written(i)'
    BY <1>2, <1>3 DEF Written, Advanced
  <2> QED BY <2>1, <2>2 DEF Current, Based
<1>13. Typed'
  <2> SUFFICES ASSUME here, ~ due, NEW i \in DOMAIN tabs, HasFile(i)' PROVE Seen(i)'
    BY <1>1 DEF Typed
  <2>1. HasFile(i) /\ tabs[i].ref.at = "shared"
    BY <1>1, <1>9 DEF HasFile
  <2>2. Seen(i)
    BY <2>1 DEF Current, Typed
  <2>3. Cached' = Cached
    BY <1>1 DEF Cached
  <2>4. CASE tabs[i].ref = j.from
    <3>1. j.kind = "save shared" /\ i = j.tab
      BY <1>1, <1>5, <1>8, <2>1, <2>4
    <3> QED BY <1>3, <3>1 DEF Seen, Advanced
  <2>5. CASE tabs[i].ref # j.from
    <3>1. tabs[i].ref = Shared(tabs[i].ref.name) /\ tabs[i].ref.name \in UserNames
      BY <1>7, <2>1, RefShape
    <3>2. disk'.draft[tabs[i].ref.name] = disk.draft[tabs[i].ref.name]
      BY <1>6, <2>5, <3>1
    <3>3. j.stage # "apply"
      BY <1>1
    <3> QED BY <1>1, <1>2, <2>2, <2>3, <3>2, <3>3 DEF Seen
  <2> QED BY <2>4, <2>5
<1>14. ASSUME cache # NoCache, Landed PROVE Landed'
  <2>1. \A e \in cache : AgreesOn(disk, e) /\ e.ref \in Ref
    BY <1>1, <1>2, <1>14 DEF Landed, Cleaned, Current, Orderly, Types, Snapshots, Entry
  <2>2. ASSUME NEW e \in cache PROVE AgreesOn(disk', e) \/ Cleaned(e)'
    <3>1. CASE e.ref = j.from
      BY <1>1, <1>3, <3>1 DEF Cleaned, Advanced
    <3>2. CASE e.ref # j.from /\ e.ref.at = "shared"
      <4>1. e.ref = Shared(e.ref.name) /\ e.ref.name \in UserNames
        BY <2>1, <3>2, RefShape
      <4>2. disk'.draft[e.ref.name] = disk.draft[e.ref.name]
        BY <1>6, <3>2, <4>1
      <4> QED BY <2>1, <3>2, <4>2 DEF AgreesOn
    <3>3. CASE e.ref # j.from /\ e.ref.at # "shared"
      BY <1>6, <2>1, <3>3 DEF AgreesOn
    <3> QED BY <3>1, <3>2, <3>3
  <2> QED BY <1>1, <1>6, <1>14, <2>2 DEF Landed
<1> QED BY <1>1, <1>4, <1>6, <1>10, <1>11, <1>12, <1>13, <1>14, CurrentTask

\* The task comes back to its tab.
LEMMA CurrentApplied ==
  ASSUME Apart, Undisturbed, Current, Orderly', NEW j \in jobs, SharedApplied(j)
  PROVE  Current'
<1>1. j.kind \in SharedKinds /\ j.stage = "apply"
      /\ UNCHANGED <<next, due, here, written, disk>>
  BY DEF SharedApplied, SharedKinds
<1>2. Types /\ Returning /\ j \in Sharing /\ Sharing = {j}
  BY <1>1 DEF Current, Orderly, Returning, Sharing
<1>3. /\ here /\ SharingOps
      /\ j.tab \in DOMAIN tabs => tabs[j.tab].ref = j.from
      /\ \A i \in DOMAIN tabs : tabs[i].ref = j.from => i = j.tab
      /\ j.kind # "save shared" => \A i \in DOMAIN tabs : tabs[i].ref # j.to
      /\ j.kind # "rename shared" => disk.file[j.to] = j.text
      /\ j.kind = "rename shared" =>
           /\ disk.file[j.to] # NoText
           /\ j.tab \in DOMAIN tabs => tabs[j.tab].base = disk.file[j.to]
  BY <1>1, <1>2 DEF Returning
<1>4. /\ j \in SharedJobs /\ j.to \in Ref /\ j.to.at = "shared" /\ j.text \in Text
      /\ j.kind # "promote" => j.from.at = "shared"
      /\ j.kind = "save shared" => j.to = j.from
  BY <1>2, SharingTypes
<1>5. CASE j.tab \notin DOMAIN tabs
  BY <1>1, <1>2, <1>5, CurrentEnded DEF SharedApplied
<1>6. CASE j.tab \in DOMAIN tabs
  <2> DEFINE tab == SharedTab(j)
  <2>1. /\ tabs' = [tabs EXCEPT ![j.tab] = tab] /\ minted' = minted + 1
        /\ jobs' = (jobs \ {j}) \cup {SaveJob(minted + 1, Snapshot(tabs'))}
        /\ cache' = Snapshot(tabs')
    BY <1>3, <1>4, <1>6 DEF SharedApplied
  <2>2. tab.ref = j.to /\ tab.base = disk.file[j.to]
    <3>1. tabs[j.tab] \in Tab
      BY <1>2, <1>6 DEF Types, IsTabs
    <3>2. CASE j.kind = "promote"
      <4>1. tab = [tabs[j.tab] EXCEPT !.ref = j.to, !.base = j.text]
        BY <3>2 DEF SharedTab
      <4> HIDE DEF tab
      <4> QED BY <1>3, <3>1, <3>2, <4>1 DEF Tab
    <3>3. CASE j.kind = "save shared"
      <4>1. tab = [tabs[j.tab] EXCEPT !.base = j.text]
        BY <3>3 DEF SharedTab
      <4> HIDE DEF tab
      <4> QED BY <1>3, <1>4, <1>6, <3>1, <3>3, <4>1 DEF Tab
    <3>4. CASE j.kind = "rename shared"
      <4>1. tab = [tabs[j.tab] EXCEPT !.ref = j.to]
        BY <3>4 DEF SharedTab
      <4> HIDE DEF tab
      <4> QED BY <1>3, <1>6, <3>1, <3>4, <4>1 DEF Tab
    <3> QED BY <1>1, <3>2, <3>3, <3>4 DEF SharedKinds
  <2> HIDE DEF tab
  <2>3. /\ DOMAIN tabs' = DOMAIN tabs /\ tabs'[j.tab].ref = j.to
        /\ tabs'[j.tab].base = disk.file[j.to]
        /\ \A k \in DOMAIN tabs : k # j.tab => tabs'[k] = tabs[k]
    BY <1>2, <1>6, <2>1, <2>2 DEF Types, IsTabs
  <2>4. \A i \in DOMAIN tabs : i # j.tab => tabs[i].ref # j.to
    BY <1>3, <1>4
  <2>5. OneTabEach(tabs')
    BY <2>3, <2>4 DEF Current, OneTabEach
  <2>6. IsTabs(tabs') /\ minted \in Nat /\ written \in Nat /\ written <= minted
    BY DEF Current, Orderly, Types, Claimed
  <2>7. Sharing' = {}
    <3> DEFINE new == SaveJob(minted + 1, Snapshot(tabs'))
    <3>1. new.kind \notin SharedKinds
      BY DEF SaveJob, SharedKinds
    <3>2. jobs' = (jobs \ {j}) \cup {new}
      BY <2>1
    <3> HIDE DEF new
    <3> QED BY <1>2, <3>1, <3>2 DEF Sharing
  <2>8. Claimed' /\ Saved'
    <3>1. minted + 1 \in Nat /\ minted < minted + 1 /\ written' <= minted + 1
      BY <1>1, <2>6
    <3> QED BY <1>2, <2>1, <2>5, <2>6, <3>1, ClaimedAutosaved DEF Current
  <2>9. cache' # NoCache
    BY <2>1, <2>6, SnapshotType
  <2>10. disk.file[j.to] # NoText
    BY <1>3, <1>4 DEF Apart
  <2>11. \A i \in DOMAIN tabs : i # j.tab => ~ MovedAway(i) /\ ~ Written(i)
    BY <1>2 DEF MovedAway, Written
  <2>12. Present'
    <3>1. ASSUME NEW i \in DOMAIN tabs', tabs'[i].ref.at = "shared"
          PROVE  disk'.file[tabs'[i].ref] # NoText
      <4>1. CASE i = j.tab
        BY <1>1, <2>3, <2>10, <4>1
      <4>2. CASE i # j.tab
        BY <1>1, <1>3, <2>3, <2>11, <3>1, <4>2 DEF Current, Present
      <4> QED BY <4>1, <4>2
    <3> QED BY <1>1, <1>3, <2>9, <3>1 DEF Present
  <2>13. Based'
    <3> SUFFICES ASSUME NEW i \in DOMAIN tabs', HasFile(i)'
                 PROVE  tabs'[i].base = disk'.file[tabs'[i].ref]
      BY DEF Based
    <3>1. CASE i = j.tab
      BY <1>1, <2>3, <3>1
    <3>2. CASE i # j.tab
      <4>1. HasFile(i)
        BY <1>1, <2>3, <3>2 DEF HasFile
      <4> QED BY <1>1, <2>3, <2>11, <3>2, <4>1 DEF Current, Based
    <3> QED BY <3>1, <3>2
  <2>14. Typed' /\ Returning'
    BY <2>1, <2>6, <2>7, TypedAutosaved DEF Returning
  <2>15. Listing'
    BY <1>1 DEF Current, Listing
  <2> QED BY <2>5, <2>8, <2>12, <2>13, <2>14, <2>15 DEF Current
<1> QED BY <1>5, <1>6

LEMMA CurrentGone ==
  ASSUME Apart, Undisturbed, Current, Orderly', NEW name \in UserNames, SharedGone(name)
  PROVE  Current'
<1>1. "gone" \in Ops /\ disk' = [disk EXCEPT !.file[Shared(name)] = NoText]
      /\ UNCHANGED <<tabs, cache, minted, written, here, next, due, jobs>>
  BY DEF SharedGone, tabVars
<1>2. ~ SharingOps /\ Sharing = {} /\ Sharing' = {}
  <2>1. ~ SharingOps
    BY <1>1 DEF Undisturbed
  <2>2. Sharing = {}
    BY <2>1 DEF Current, Returning
  <2> QED BY <1>1, <2>1, <2>2 DEF Sharing
<1>3. Shared(name) \in Ref /\ Shared(name).at = "shared"
  BY RefsAre
<1>4. /\ disk'.file[Shared(name)] = NoText
      /\ \A r \in Ref \ {Shared(name)} : disk'.file[r] = disk.file[r]
      /\ disk'.draft = disk.draft /\ disk'.tabs = disk.tabs
  BY <1>1, <1>3 DEF Current, Orderly, Types, IsDisk
<1>5. \A i \in DOMAIN tabs : tabs[i].ref \in Ref
  BY RefsInRef DEF Current, Orderly, Types
<1>6. ASSUME NEW i \in DOMAIN tabs, HasFile(i)'
      PROVE  HasFile(i) /\ disk'.file[tabs[i].ref] = disk.file[tabs[i].ref]
  BY <1>1, <1>4, <1>5, <1>6 DEF HasFile
<1>7. Based'
  BY <1>1, <1>2, <1>6 DEF Current, Based, Written
<1>8. Typed'
  <2> SUFFICES ASSUME here, ~ due, NEW i \in DOMAIN tabs, HasFile(i)' PROVE Seen(i)'
    BY <1>1 DEF Typed
  <2>1. Seen(i)
    BY <1>6 DEF Current, Typed
  <2> QED BY <1>1, <1>2, <1>4, <2>1 DEF Seen, Cached
<1>9. ASSUME cache # NoCache, Landed PROVE Landed'
  <2>1. \A e \in cache : AgreesOn(disk, e) /\ e.ref \in Ref
    BY <1>2, <1>9 DEF Landed, Cleaned, Current, Orderly, Types, Snapshots, Entry
  <2> QED BY <1>1, <1>3, <1>4, <1>9, <2>1 DEF Landed, AgreesOn
<1>10. Returning' /\ Present'
  BY <1>2 DEF Returning, Present
<1> QED BY <1>1, <1>4, <1>7, <1>8, <1>9, <1>10, CurrentTask

LEMMA CurrentCrashed ==
  ASSUME Apart, Undisturbed, Current, Orderly', Crash
  PROVE  Current'
<1>1. DOMAIN tabs' = {} /\ cache' = NoCache /\ jobs' = {} /\ disk' = disk /\ ~ SharingOps
      /\ minted' = 0 /\ written' = 0
  BY DEF Crash, NoTabs, Undisturbed
<1>2. Cached' = {} /\ Sharing' = {}
  BY <1>1 DEF Cached, Sharing
<1>3. Claimed' /\ Saved'
  BY <1>1, <1>2 DEF Claimed, Saved, OneEach
<1>4. Listing'
  BY <1>1 DEF Current, Listing
<1>5. Returning' /\ Present' /\ Based' /\ Typed' /\ OneTabEach(tabs')
  BY <1>1, <1>2 DEF Returning, Present, Based, Typed, OneTabEach
<1> QED BY <1>3, <1>4, <1>5 DEF Current

LEMMA CurrentInit ==
  ASSUME Apart, Init
  PROVE  Current
<1>1. DOMAIN tabs = {} /\ cache = NoCache /\ jobs = {} /\ disk.tabs = {} /\ minted = 0 /\ written = 0
      /\ ~ here
  BY DEF Init, NoTabs
<1>2. Cached = {} /\ Sharing = {}
  BY <1>1 DEF Cached, Sharing
<1>3. Claimed /\ Saved /\ Listing
  BY <1>1, <1>2 DEF Claimed, Saved, Listing, OneEach
<1>4. Returning /\ Present /\ Based /\ Typed /\ OneTabEach(tabs)
  BY <1>1, <1>2 DEF Returning, Present, Based, Typed, OneTabEach
<1> QED BY <1>3, <1>4, OrderlyInit DEF Current

LEMMA CurrentUser ==
  ASSUME Apart, Undisturbed, Current, Orderly', UserStep
  PROVE  Current'
<1>1. ASSUME NEW i \in DOMAIN tabs, NEW name \in UserNames, RequestPromotion(i, name)
      PROVE  Current'
  BY <1>1, CurrentRequested DEF RequestPromotion, SharedKinds
<1>2. ASSUME NEW i \in DOMAIN tabs, NEW name \in UserNames, RequestSharedRename(i, name)
      PROVE  Current'
  BY <1>2, CurrentRequested DEF RequestSharedRename, SharedKinds
<1>3. ASSUME NEW i \in DOMAIN tabs, RequestSave(i) PROVE Current'
  <2>1. tabs[i].ref.at = "shared" /\ Request("save shared", i, tabs[i].ref.name)
    BY <1>3 DEF RequestSave
  <2>2. tabs[i].ref.name \in UserNames
    BY <2>1, RefsInRef, RefShape DEF Current, Orderly, Types
  <2> QED BY <2>1, <2>2, CurrentRequested DEF SharedKinds
<1>4. \A i \in DOMAIN tabs, name \in UserNames : ~ RequestRename(i, name)
  BY DEF RequestRename, Undisturbed
<1> QED BY <1>1, <1>2, <1>3, <1>4, CurrentNewScript, CurrentConverted, CurrentEdit, CurrentClosed,
           CurrentOpenNamed, CurrentOpenShared, CurrentSwitchedAway, CurrentSwitchedHere
        DEF UserStep

LEMMA CurrentTaskStep ==
  ASSUME Apart, Undisturbed, Current, Orderly', TaskStep
  PROVE  Current'
<1>1. \A j \in jobs : j.kind # "rename"
  BY DEF Current, Orderly, Renaming, Undisturbed
<1>2. \A j \in jobs : ~ RenameFences(j) /\ ~ RenameMoves(j) /\ ~ RenameFails(j) /\ ~ RenameApplied(j)
  BY <1>1 DEF RenameFences, RenameMoves, RenameFails, RenameApplied
<1>3. \A j \in jobs : ~ SaveFails(j)
  BY DEF SaveFails, Undisturbed
<1> QED BY <1>2, <1>3, CurrentDebounced, CurrentRefused, CurrentLanded, CurrentWritten, CurrentMoved,
           CurrentCleaned, CurrentApplied
        DEF TaskStep

LEMMA CurrentNext ==
  ASSUME Apart, Undisturbed, Current, [Next]_vars
  PROVE  Current'
<1>1. Orderly'
  BY OrderlyNext, UndisturbedApart DEF Current
<1>2. CASE UNCHANGED vars
  <2>1. UNCHANGED <<tabs, cache, minted, written, here, next, due, jobs, disk>>
    BY <1>2 DEF vars, tabVars
  <2>2. Sharing' = Sharing /\ Cached' = Cached
    BY <2>1 DEF Sharing, Cached
  <2>3. Returning'
    BY <2>1, <2>2 DEF Current, Returning
  <2>4. Present'
    <3>1. \A i : MovedAway(i) => MovedAway(i)'
      BY <2>2 DEF MovedAway
    <3> QED BY <2>1, <2>2, <3>1 DEF Current, Present
  <2>5. Based'
    <3>1. \A i : Written(i) => Written(i)'
      BY <2>2 DEF Written
    <3> QED BY <2>1, <3>1 DEF Current, Based, HasFile
  <2>6. Typed'
    <3>1. \A i : Seen(i) => Seen(i)'
      BY <2>1, <2>2 DEF Seen
    <3> QED BY <2>1, <3>1 DEF Current, Typed, HasFile
  <2>7. Landed => Landed'
    <3>1. \A e : Cleaned(e) => Cleaned(e)'
      BY <2>2 DEF Cleaned
    <3> QED BY <2>1, <3>1 DEF Landed
  <2> QED BY <1>1, <2>1, <2>3, <2>4, <2>5, <2>6, <2>7, CurrentTask
<1> QED BY <1>1, <1>2, CurrentUser, CurrentTaskStep, CurrentGone, CurrentCrashed DEF Next

LEMMA CurrentAlways ==
  ASSUME Apart, Undisturbed
  PROVE  Spec => []Current
<1>1. Init => Current
  BY CurrentInit
<1>2. Current /\ [Next]_vars => Current'
  BY CurrentNext
<1> QED BY <1>1, <1>2, PTL DEF Spec

(* When nothing is under way, opening the directory gives the tabs and the   *)
(* texts the connection was last seen with: save_snapshot_if_current refuses *)
(* older snapshots only, and prunes nothing the newest one lists.            *)
THEOREM SettledDiskIsCurrentHolds ==
  ASSUME Apart, Undisturbed
  PROVE  Spec => []SettledDiskIsCurrent
<1>1. Current => SettledDiskIsCurrent
  <2> SUFFICES ASSUME Current, jobs = {}, cache # NoCache PROVE Loaded(disk) = cache
    BY DEF SettledDiskIsCurrent
  <2>1. Landed
    BY DEF Current, Saved, Waiting
  <2>2. disk.tabs = {Flag(e) : e \in cache} /\ \A e \in cache : AgreesOn(disk, e)
    BY <2>1 DEF Landed, Cleaned, Sharing
  <2>3. cache \in Snapshots
    BY DEF Current, Orderly, Types
  <2> QED BY <2>2, <2>3, LoadedIs
<1> QED BY <1>1, CurrentAlways, PTL

(* When nothing is under way, the text of a shared tab is in its file or in  *)
(* its draft: what is typed while it is saved, promoted or renamed is not    *)
(* taken for saved (SharedTextIsSaved).                                      *)
THEOREM SharedTextIsSavedHolds ==
  ASSUME Apart, Undisturbed
  PROVE  Spec => []SharedTextIsSaved
<1>1. Current => SharedTextIsSaved
  <2> SUFFICES ASSUME Current, jobs = {}, ~ due, NEW i \in DOMAIN tabs,
                      tabs[i].ref.at = "shared", disk.file[tabs[i].ref] # NoText
               PROVE  tabs[i].text \in {disk.file[tabs[i].ref], disk.draft[tabs[i].ref.name]}
    BY DEF SharedTextIsSaved
  <2>1. here /\ Sharing = {} /\ HasFile(i)
    BY DEF Current, Orderly, Away, Sharing, HasFile
  <2>2. tabs[i].base = disk.file[tabs[i].ref] /\ Seen(i)
    BY <2>1 DEF Current, Based, Written, Typed
  <2>3. ASSUME [ref |-> tabs[i].ref, text |-> tabs[i].text] \in Cached
        PROVE  tabs[i].text = disk.draft[tabs[i].ref.name]
    <3> DEFINE e == [ref |-> tabs[i].ref, text |-> tabs[i].text]
    <3>1. e \in cache /\ cache # NoCache
      BY <2>3 DEF Cached
    <3>2. AgreesOn(disk, e)
      BY <2>1, <3>1 DEF Current, Saved, Waiting, Landed, Cleaned
    <3>3. tabs[i].text # NoText
      BY RefsInRef DEF Current, Orderly, Types, Tab, Apart
    <3> QED BY <3>2, <3>3 DEF AgreesOn
  <2> QED BY <2>1, <2>2, <2>3 DEF Seen
<1> QED BY <1>1, CurrentAlways, PTL

-----------------------------------------------------------------------------
(* Autosaved texts survive.                                                  *)

(* The operations on scripts of the directory: they are opened, converted,   *)
(* edited, closed and reopened, and saved by autosaves only.                 *)
Autosaving ==
  /\ Relations \cap (1..MaxDocs) = {}
  /\ Ops \cap ({"name", "rename"} \cup SharedKinds) = {}
  /\ OnDisk \subseteq {"named"}

\* A text of the same document, no older.
Later(u, t) == u.of = t.of /\ u.n >= t.n
LaterIn(entries, e) == \E x \in entries : x.ref = e.ref /\ Later(x.text, e.text)
Docs(entries) == {x.text.of : x \in entries}

\* The tabs as they are, open or swapped out, and the saves not superseded.
Now == IF here THEN Snapshot(tabs) ELSE Cached
Live == {j \in jobs : j.claim >= written}

\* Every text there is, with its place.
Files(d) == {[ref |-> r, text |-> d.file[r]] : r \in {x \in Ref : d.file[x] # NoText}}
Around == Now \cup Cached \cup (UNION {j.entries : j \in jobs}) \cup Files(disk)

\* All of it is in the directory, and each document in one place.
Placed ==
  /\ \A e \in Around : e.ref.at # "shared" /\ e.text.of <= docs
  /\ \A e, x \in Around : e.text.of = x.text.of => e.ref = x.ref
  /\ \A e \in disk.tabs : e.ref.at # "shared"

Queued ==
  /\ written <= minted
  /\ \A j \in jobs : /\ j.kind = "save" /\ j.claim <= minted /\ SingleEntries(j.entries)
                     /\ cache # NoCache

\* A document that is open is in every save since the first to have it, where
\* it is now, and never older than before.
Forward ==
  /\ \A e \in Cached : LaterIn(Now, e)
  /\ \A j \in Live : \A e \in j.entries : e.text.of \in Docs(Now) =>
       LaterIn(Now, e) /\ \A k \in Live : j.claim <= k.claim => LaterIn(k.entries, e)

\* A text that is to survive is listed and on the disk, and will be once any of
\* the saves has run, in whatever part.
Secured(k) ==
  /\ \E e \in disk.tabs : e.ref = k.ref
  /\ disk.file[k.ref] # NoText /\ Later(disk.file[k.ref], k.text)
  /\ \A j \in Live : LaterIn(j.entries, k)
  /\ here \/ cache # NoCache => LaterIn(Now, k)
Surviving == kept \subseteq Text /\ \A t \in kept : \E r \in Ref : Secured([ref |-> r, text |-> t])

Safekept == Placed /\ Queued /\ Forward /\ Surviving

InPlace == [ref : Ref, text : Text]

LEMMA LaterTrans ==
  ASSUME NEW a \in Text, NEW b \in Text, NEW c \in Text, Later(a, b), Later(b, c)
  PROVE  Later(a, c)
  BY DEF Later, Text

LEMMA LaterSame ==
  ASSUME NEW a \in Text
  PROVE  Later(a, a)
  BY DEF Later, Text

LEMMA LaterInTrans ==
  ASSUME NEW s \in SUBSET InPlace, NEW u \in SUBSET InPlace, NEW e \in InPlace, LaterIn(s, e),
         \A x \in s : x.ref = e.ref /\ Later(x.text, e.text) => LaterIn(u, x)
  PROVE  LaterIn(u, e)
<1>1. PICK x \in s : x.ref = e.ref /\ Later(x.text, e.text)
  BY DEF LaterIn
<1>2. PICK y \in u : y.ref = x.ref /\ Later(y.text, x.text)
  BY <1>1 DEF LaterIn
<1>3. x.text \in Text /\ y.text \in Text /\ e.text \in Text
  BY DEF InPlace
<1>4. Later(y.text, e.text)
  BY <1>1, <1>2, <1>3, LaterTrans
<1> QED BY <1>1, <1>2, <1>4 DEF LaterIn

\* An entry of a snapshot that is in the directory has its text.
LEMMA PlainEntry ==
  ASSUME NEW e \in Entry, e.ref.at # "shared"
  PROVE  e \in InPlace
  BY DEF Entry, InPlace

LEMMA NowType ==
  ASSUME Apart, Types
  PROVE  /\ Now \in Snapshots /\ Cached \in SUBSET Entry
         /\ \A j \in jobs : j.kind = "save" => j.entries \in Snapshots /\ j.claim \in Nat
         /\ Files(disk) \subseteq InPlace
<1>1. Cached \in Snapshots
  <2>1. CASE cache = NoCache
    BY <2>1, FS_EmptySet DEF Cached, Snapshots
  <2>2. CASE cache # NoCache
    BY <2>2 DEF Cached, Types
  <2> QED BY <2>1, <2>2
<1>2. Now \in Snapshots
  BY <1>1, SnapshotType DEF Now, Types
<1>3. \A j \in jobs : j.kind = "save" => j.entries \in Snapshots /\ j.claim \in Nat
  BY JobType DEF SaveJobs
<1>4. Files(disk) \subseteq InPlace
  BY DEF Files, InPlace, Types, IsDisk
<1> QED BY <1>1, <1>2, <1>3, <1>4 DEF Snapshots

LEMMA SavesOnly ==
  ASSUME Apart, Types, Queued, NEW j \in jobs
  PROVE  /\ j.kind = "save" /\ j.entries \in Snapshots /\ j.claim \in Nat /\ j.claim <= minted
         /\ SingleEntries(j.entries) /\ cache # NoCache
<1>1. j.kind = "save" /\ j.claim <= minted /\ SingleEntries(j.entries) /\ cache # NoCache
  BY DEF Queued
<1> QED BY <1>1, NowType

LEMMA AroundType ==
  ASSUME Apart, Types, Placed, Queued
  PROVE  Around \subseteq InPlace
<1> SUFFICES ASSUME NEW e \in Around PROVE e \in InPlace
  OBVIOUS
<1>1. e.ref.at # "shared"
  BY DEF Placed
<1>2. CASE e \in Files(disk)
  BY <1>2, NowType
<1>3. CASE e \notin Files(disk)
  <2>1. \A j \in jobs : j.entries \subseteq Entry
    BY SavesOnly DEF Snapshots
  <2>2. Now \subseteq Entry /\ Cached \subseteq Entry
    BY NowType DEF Snapshots
  <2>3. e \in Entry
    BY <1>3, <2>1, <2>2 DEF Around
  <2> QED BY <1>1, <2>3, PlainEntry
<1> QED BY <1>2, <1>3

\* Nothing new is about, but for one new document.
LEMMA PlacedKept ==
  ASSUME Types, Placed, docs' \in {docs, docs + 1}, NEW ref, ref.at # "shared",
         \A e \in Around' :
           \/ \E x \in Around : x.ref = e.ref /\ x.text.of = e.text.of
           \/ e.ref = ref /\ e.text.of = docs + 1 /\ docs' = docs + 1,
         \A x \in Around : x.text.of \in Nat,
         \A e \in disk'.tabs : e.ref.at # "shared"
  PROVE  Placed'
<1> DEFINE Old(e) == \E x \in Around : x.ref = e.ref /\ x.text.of = e.text.of
<1>1. docs \in Nat
  BY DEF Types
<1>2. ASSUME NEW e \in Around' PROVE e.ref.at # "shared" /\ e.text.of <= docs'
  <2>1. CASE Old(e)
    <3>1. PICK x \in Around : x.ref = e.ref /\ x.text.of = e.text.of
      BY <2>1
    <3>2. x.ref.at # "shared" /\ x.text.of <= docs /\ x.text.of \in Nat
      BY DEF Placed
    <3> QED BY <1>1, <3>1, <3>2
  <2>2. CASE ~ Old(e)
    BY <1>1, <1>2, <2>2
  <2> QED BY <2>1, <2>2
<1>3. ASSUME NEW e \in Around', NEW x \in Around', e.text.of = x.text.of PROVE e.ref = x.ref
  <2>1. \A y \in Around' : Old(y) => y.text.of <= docs /\ y.text.of \in Nat
    BY DEF Placed
  <2>2. CASE Old(e) /\ Old(x)
    <3>1. PICK a \in Around : a.ref = e.ref /\ a.text.of = e.text.of
      BY <2>2
    <3>2. PICK b \in Around : b.ref = x.ref /\ b.text.of = x.text.of
      BY <2>2
    <3> QED BY <1>3, <3>1, <3>2 DEF Placed
  <2>3. CASE Old(e) /\ ~ Old(x)
    BY <1>1, <1>3, <2>1, <2>3
  <2>4. CASE ~ Old(e) /\ Old(x)
    BY <1>1, <1>3, <2>1, <2>4
  <2>5. CASE ~ Old(e) /\ ~ Old(x)
    BY <2>5
  <2> QED BY <2>2, <2>3, <2>4, <2>5
<1> QED BY <1>2, <1>3 DEF Placed

LEMMA AroundHas ==
  /\ Now \subseteq Around /\ Cached \subseteq Around /\ Files(disk) \subseteq Around
  /\ \A j \in jobs : j.entries \subseteq Around
  BY DEF Around

\* A save of what the tabs now are is dispatched.
LEMMA SafekeptDispatched ==
  ASSUME Apart, Types, Safekept, here, NEW s \in Snapshots, SingleEntries(s), s # NoCache,
         NEW claim \in Nat, minted < claim, minted' = claim, written <= written', written' <= claim,
         written' \in Nat, cache' = s, Now' = s, jobs' = jobs \cup {SaveJob(claim, s)},
         disk'.file = disk.file, disk.tabs \subseteq disk'.tabs,
         \A e \in disk'.tabs : e.ref.at # "shared",
         docs' \in {docs, docs + 1}, NEW ref, ref.at # "shared",
         \A e \in s : \/ \E x \in Around : x.ref = e.ref /\ x.text.of = e.text.of
                      \/ e.ref = ref /\ e.text.of = docs + 1 /\ docs' = docs + 1,
         \A x \in Now : x.text.of \in Docs(s) => LaterIn(s, x),
         Docs(s) \subseteq Docs(Now) \cup {docs + 1} \/ minted < written',
         kept' \subseteq kept, \A t \in kept', x \in Now : Later(x.text, t) => LaterIn(s, x)
  PROVE  Safekept'
<1> DEFINE new == SaveJob(claim, s)
<1>1. new.kind = "save" /\ new.claim = claim /\ new.entries = s
  BY DEF SaveJob
<1> HIDE DEF new
<1>2. jobs' = jobs \cup {new}
  BY DEF new
<1>3. Placed /\ Queued /\ Forward /\ Surviving /\ Around \subseteq InPlace
  BY AroundType DEF Safekept
<1>4. minted \in Nat /\ written \in Nat /\ \A j \in jobs : j.claim \in Nat /\ j.claim <= minted
  BY <1>3, SavesOnly DEF Types
<1>5. Cached' = s /\ Files(disk') = Files(disk)
  BY DEF Cached, Files
<1>6. Around' \subseteq Around \cup s
  <2>1. Around' = Now' \cup Cached' \cup (UNION {j.entries : j \in jobs'}) \cup Files(disk')
    BY DEF Around
  <2> QED BY <1>1, <1>2, <1>5, <2>1, AroundHas
<1>7. Placed'
  <2>1. \A e \in Around' :
          \/ \E x \in Around : x.ref = e.ref /\ x.text.of = e.text.of
          \/ e.ref = ref /\ e.text.of = docs + 1 /\ docs' = docs + 1
    BY <1>6
  <2>2. \A x \in Around : x.text.of \in Nat
    BY <1>3 DEF InPlace, Text
  <2> QED BY <1>3, <2>1, <2>2, PlacedKept
<1>8. s \subseteq InPlace
  <2>1. \A e \in s : e \in Around' /\ e \in Entry
    BY <1>5 DEF Around, Snapshots
  <2> QED BY <1>7, <2>1, PlainEntry DEF Placed
<1>9. Queued'
  <2>1. ASSUME NEW j \in jobs'
        PROVE  j.kind = "save" /\ j.claim <= minted' /\ SingleEntries(j.entries) /\ cache' # NoCache
    <3>1. CASE j = new
      BY <1>1, <3>1
    <3>2. CASE j \in jobs
      <4>1. j.kind = "save" /\ SingleEntries(j.entries)
        BY <1>3, <3>2, SavesOnly
      <4> QED BY <1>4, <3>2, <4>1
    <3> QED BY <1>2, <3>1, <3>2
  <2> QED BY <2>1 DEF Queued
<1>10. ASSUME NEW j \in Live' PROVE j = new \/ j \in Live
  BY <1>2, <1>4 DEF Live
<1>11. \A e \in s : LaterIn(s, e)
  BY <1>8, LaterSame DEF LaterIn, InPlace
<1>12. Forward'
  <2>1. \A e \in Cached' : LaterIn(Now', e)
    BY <1>5, <1>11
  <2>2. ASSUME NEW j \in Live', NEW e \in j.entries, e.text.of \in Docs(s) PROVE LaterIn(s, e)
    <3>1. CASE j = new
      BY <1>1, <1>11, <3>1
    <3>2. CASE j # new
      <4>1. j \in Live /\ j \in jobs
        BY <1>10, <3>2 DEF Live
      <4>2. j.claim >= written' /\ j.claim <= minted
        BY <1>4, <4>1 DEF Live
      <4>3. e \in Around /\ e.text.of <= docs /\ docs \in Nat /\ e.text.of \in Nat
        BY <1>3, <4>1, AroundHas DEF Placed, Types, InPlace, Text
      <4>4. e.text.of \in Docs(Now)
        BY <1>4, <2>2, <4>1, <4>2, <4>3
      <4>5. LaterIn(Now, e)
        BY <1>3, <4>1, <4>4 DEF Forward
      <4>6. \A x \in Now : x.ref = e.ref /\ Later(x.text, e.text) => LaterIn(s, x)
        BY <2>2 DEF Later
      <4>7. Now \in SUBSET InPlace /\ e \in InPlace
        BY <1>3, <4>3, AroundHas
      <4> QED BY <1>8, <4>5, <4>6, <4>7, LaterInTrans
    <3> QED BY <3>1, <3>2
  <2>3. ASSUME NEW j \in Live', NEW e \in j.entries, e.text.of \in Docs(s),
               NEW k \in Live', j.claim <= k.claim
        PROVE  LaterIn(k.entries, e)
    <3>1. CASE k = new
      BY <1>1, <2>2, <2>3, <3>1
    <3>2. CASE k # new
      <4>1. k \in Live /\ k \in jobs /\ k.claim <= minted /\ k.claim >= written'
        BY <1>4, <1>10, <3>2 DEF Live
      <4>2. j # new
        BY <1>1, <1>4, <2>3, <4>1
      <4>3. j \in Live /\ j \in jobs
        BY <1>10, <4>2 DEF Live
      <4>4. e.text.of <= docs /\ docs \in Nat /\ e.text.of \in Nat
        BY <1>3, <4>3, AroundHas DEF Placed, Types, InPlace, Text
      <4>5. e.text.of \in Docs(Now)
        BY <1>4, <2>3, <4>1, <4>4
      <4> QED BY <1>3, <2>3, <4>1, <4>3, <4>5 DEF Forward
    <3> QED BY <3>1, <3>2
  <2> QED BY <2>1, <2>2, <2>3 DEF Forward
<1>13. Surviving'
  <2> SUFFICES ASSUME NEW t \in kept'
               PROVE  \E r \in Ref : Secured([ref |-> r, text |-> t])'
    BY <1>3 DEF Surviving
  <2>1. t \in Text
    BY <1>3 DEF Surviving
  <2>2. PICK r \in Ref : Secured([ref |-> r, text |-> t])
    BY <1>3 DEF Surviving
  <2> DEFINE k == [ref |-> r, text |-> t]
  <2>3. k \in InPlace /\ k.ref = r /\ k.text = t
    BY <2>1 DEF InPlace
  <2>4. Secured(k)
    BY <2>2
  <2> HIDE DEF k
  <2>5. LaterIn(s, k)
    <3>1. LaterIn(Now, k)
      BY <2>4 DEF Secured
    <3>2. \A x \in Now : x.ref = k.ref /\ Later(x.text, k.text) => LaterIn(s, x)
      BY <2>3
    <3>3. Now \in SUBSET InPlace
      BY <1>3, AroundHas
    <3> QED BY <1>8, <2>3, <3>1, <3>2, <3>3, LaterInTrans
  <2>6. \A j \in Live' : LaterIn(j.entries, k)
    BY <1>1, <1>10, <2>4, <2>5 DEF Secured
  <2>7. /\ \E e \in disk'.tabs : e.ref = k.ref
        /\ disk'.file[k.ref] # NoText /\ Later(disk'.file[k.ref], k.text)
    BY <2>4 DEF Secured
  <2>8. Secured(k)'
    BY <2>5, <2>6, <2>7 DEF Secured
  <2> QED BY <2>8 DEF k
<1> QED BY <1>7, <1>9, <1>12, <1>13 DEF Safekept

\* What a snapshot of tabs of the directory is.
LEMMA PlainSnapshot ==
  ASSUME NEW ts, IsTabs(ts), \A i \in DOMAIN ts : ts[i].ref.at # "shared"
  PROVE  /\ \A i \in DOMAIN ts : /\ EntryOf(ts[i]) \in Snapshot(ts)
                                 /\ EntryOf(ts[i]).ref = ts[i].ref
                                 /\ EntryOf(ts[i]).text = ts[i].text /\ ts[i].text \in Text
         /\ \A x \in Snapshot(ts) : \E i \in DOMAIN ts : x.ref = ts[i].ref /\ x.text = ts[i].text
<1>1. \A i \in DOMAIN ts : ts[i] \in Tab /\ ts[i].text \in Text
  BY DEF IsTabs, Tab
<1>2. \A i \in DOMAIN ts : EntryOf(ts[i]) \in Snapshot(ts)
  BY DEF Snapshot
<1>3. \A i \in DOMAIN ts : EntryOf(ts[i]).ref = ts[i].ref /\ EntryOf(ts[i]).text = ts[i].text
  BY <1>1, EntryType
<1>4. ASSUME NEW x \in Snapshot(ts)
      PROVE  \E i \in DOMAIN ts : x.ref = ts[i].ref /\ x.text = ts[i].text
  <2>1. PICK i \in DOMAIN ts : x = EntryOf(ts[i])
    BY DEF Snapshot
  <2> QED BY <1>3, <2>1
<1> QED BY <1>1, <1>2, <1>3, <1>4

LEMMA TabsPlaced ==
  ASSUME Types, Placed, here
  PROVE  \A i \in DOMAIN tabs : tabs[i].ref.at # "shared"
<1> SUFFICES ASSUME NEW i \in DOMAIN tabs PROVE tabs[i].ref.at # "shared"
  OBVIOUS
<1>1. EntryOf(tabs[i]).ref = tabs[i].ref
  BY EntryType DEF Types, IsTabs
<1>2. EntryOf(tabs[i]) \in Around
  BY DEF Around, Now, Snapshot
<1> QED BY <1>1, <1>2 DEF Placed

LEMMA SafekeptAutosaved ==
  ASSUME Apart, Types, Types', Safekept, SingleTabs(tabs'), here, here' = here,
         NEW skip \in Nat, Autosave(skip), written <= written', written' <= minted + skip + 1,
         disk'.file = disk.file, disk.tabs \subseteq disk'.tabs,
         \A e \in disk'.tabs : e.ref.at # "shared",
         docs' \in {docs, docs + 1}, NEW ref, ref.at # "shared",
         \A k \in DOMAIN tabs' :
           \/ \E x \in Around : x.ref = tabs'[k].ref /\ x.text.of = tabs'[k].text.of
           \/ tabs'[k].ref = ref /\ tabs'[k].text.of = docs + 1 /\ docs' = docs + 1,
         \A i \in DOMAIN tabs : (\E k \in DOMAIN tabs' : tabs'[k].text.of = tabs[i].text.of) =>
           \E k \in DOMAIN tabs' : tabs'[k].ref = tabs[i].ref /\ Later(tabs'[k].text, tabs[i].text),
         \/ minted < written'
         \/ \A k \in DOMAIN tabs' : \/ tabs'[k].text.of = docs + 1
                                    \/ \E i \in DOMAIN tabs : tabs[i].text.of = tabs'[k].text.of,
         kept' \subseteq kept,
         \A t \in kept', i \in DOMAIN tabs : Later(tabs[i].text, t) =>
           \E k \in DOMAIN tabs' : tabs'[k].ref = tabs[i].ref /\ Later(tabs'[k].text, tabs[i].text)
  PROVE  Safekept'
<1> DEFINE s == Snapshot(tabs')
           claim == minted + skip + 1
<1>1. IsTabs(tabs) /\ IsTabs(tabs') /\ minted \in Nat /\ written' \in Nat
  BY DEF Types
<1>2. \A i \in DOMAIN tabs : tabs[i].ref.at # "shared"
  BY TabsPlaced DEF Safekept
<1>3. \A k \in DOMAIN tabs' : tabs'[k].ref.at # "shared"
  BY DEF Safekept, Placed
<1>4. s \in Snapshots /\ s # NoCache /\ SingleEntries(s)
  BY <1>1, SnapshotType, SnapshotSingle
<1>5. claim \in Nat /\ minted < claim
  BY <1>1
<1>6. minted' = claim /\ cache' = s /\ jobs' = jobs \cup {SaveJob(claim, s)} /\ written' <= claim
  BY DEF Autosave
<1>7. Now' = s /\ Now = Snapshot(tabs)
  BY DEF Now
<1>8. /\ \A k \in DOMAIN tabs' : /\ EntryOf(tabs'[k]) \in s /\ EntryOf(tabs'[k]).ref = tabs'[k].ref
                                 /\ EntryOf(tabs'[k]).text = tabs'[k].text
      /\ \A x \in s : \E k \in DOMAIN tabs' : x.ref = tabs'[k].ref /\ x.text = tabs'[k].text
  BY <1>1, <1>3, PlainSnapshot
<1>9. /\ \A i \in DOMAIN tabs : /\ EntryOf(tabs[i]) \in Now /\ EntryOf(tabs[i]).ref = tabs[i].ref
                                /\ EntryOf(tabs[i]).text = tabs[i].text
      /\ \A x \in Now : \E i \in DOMAIN tabs : x.ref = tabs[i].ref /\ x.text = tabs[i].text
  BY <1>1, <1>2, <1>7, PlainSnapshot
<1> HIDE DEF s, claim
<1>10. \A e \in s : \/ \E x \in Around : x.ref = e.ref /\ x.text.of = e.text.of
                    \/ e.ref = ref /\ e.text.of = docs + 1 /\ docs' = docs + 1
  BY <1>8
<1>11. ASSUME NEW x \in Now, NEW i \in DOMAIN tabs, x.ref = tabs[i].ref, x.text = tabs[i].text,
              \E k \in DOMAIN tabs' : tabs'[k].ref = tabs[i].ref /\ Later(tabs'[k].text, tabs[i].text)
       PROVE  LaterIn(s, x)
  BY <1>8, <1>11 DEF LaterIn
<1>12. ASSUME NEW x \in Now, x.text.of \in Docs(s) PROVE LaterIn(s, x)
  <2>1. PICK i \in DOMAIN tabs : x.ref = tabs[i].ref /\ x.text = tabs[i].text
    BY <1>9
  <2>2. \E k \in DOMAIN tabs' : tabs'[k].text.of = tabs[i].text.of
    BY <1>8, <1>12, <2>1 DEF Docs
  <2> QED BY <1>11, <2>1, <2>2
<1>13. ASSUME NEW t \in kept', NEW x \in Now, Later(x.text, t) PROVE LaterIn(s, x)
  <2>1. PICK i \in DOMAIN tabs : x.ref = tabs[i].ref /\ x.text = tabs[i].text
    BY <1>9
  <2> QED BY <1>11, <1>13, <2>1
<1>14. Docs(s) \subseteq Docs(Now) \cup {docs + 1} \/ minted < written'
  <2> SUFFICES ASSUME ~ (minted < written'), NEW e \in s PROVE e.text.of \in Docs(Now) \cup {docs + 1}
    BY DEF Docs
  <2>1. PICK k \in DOMAIN tabs' : e.text = tabs'[k].text
    BY <1>8
  <2>2. CASE tabs'[k].text.of = docs + 1
    BY <2>1, <2>2
  <2>3. ASSUME NEW i \in DOMAIN tabs, tabs[i].text.of = tabs'[k].text.of
        PROVE  e.text.of \in Docs(Now)
    BY <1>9, <2>1, <2>3 DEF Docs
  <2> QED BY <2>2, <2>3
<1> QED BY <1>1, <1>4, <1>5, <1>6, <1>7, <1>10, <1>12, <1>13, <1>14, SafekeptDispatched

\* A tab is opened, of a new document or of one of the directory.
LEMMA SafekeptOpened ==
  ASSUME Apart, Orderly, Orderly', Safekept, FreeIds # {}, here, here' = here,
         NEW ref \in Ref, ref.at # "shared", NEW text \in Text, NEW dirty \in BOOLEAN,
         tabs' = WithTab(ref, text, NoText, dirty), NEW skip \in Nat, Autosave(skip),
         written <= written', written' <= minted + skip + 1,
         disk'.file = disk.file, disk.tabs \subseteq disk'.tabs,
         \A e \in disk'.tabs : e.ref.at # "shared",
         \/ docs' = docs + 1 /\ text.of = docs + 1
         \/ docs' = docs /\ disk.file[ref] = text /\ text # NoText /\ minted < written',
         kept' = kept
  PROVE  Safekept'
<1>1. Types /\ Types' /\ IsTabs(tabs) /\ IsTabs(tabs') /\ SingleTabs(tabs')
  BY DEF Orderly, Types
<1>2. PICK id \in FreeIds : NewTab(id, ref, text, NoText)
  BY <1>1, WithTabEffect
<1>3. /\ DOMAIN tabs' = DOMAIN tabs \cup {id} /\ tabs'[id].ref = ref /\ tabs'[id].text = text
      /\ \A i \in DOMAIN tabs : tabs'[i] = tabs[i]
  BY <1>2 DEF NewTab
<1>4. \A i \in DOMAIN tabs : \E x \in Around : x.ref = tabs[i].ref /\ x.text = tabs[i].text
  <2>1. \A i \in DOMAIN tabs : EntryOf(tabs[i]) \in Now /\ EntryOf(tabs[i]).ref = tabs[i].ref
                               /\ EntryOf(tabs[i]).text = tabs[i].text
    BY <1>1, TabsPlaced, PlainSnapshot DEF Safekept, Now
  <2> QED BY <2>1, AroundHas
<1>5. docs' = docs => \E x \in Around : x.ref = ref /\ x.text = text
  <2>1. ASSUME docs' = docs PROVE [ref |-> ref, text |-> disk.file[ref]] \in Files(disk)
    <3>1. docs \in Nat
      BY <1>1 DEF Types
    <3> QED BY <2>1, <3>1 DEF Files
  <2>2. ASSUME docs' = docs PROVE disk.file[ref] = text
    <3>1. docs \in Nat
      BY <1>1 DEF Types
    <3> QED BY <2>2, <3>1
  <2> QED BY <2>1, <2>2, AroundHas
<1>6. \A k \in DOMAIN tabs' :
        \/ \E x \in Around : x.ref = tabs'[k].ref /\ x.text.of = tabs'[k].text.of
        \/ tabs'[k].ref = ref /\ tabs'[k].text.of = docs + 1 /\ docs' = docs + 1
  <2> SUFFICES ASSUME NEW k \in DOMAIN tabs'
               PROVE  \/ \E x \in Around : x.ref = tabs'[k].ref /\ x.text.of = tabs'[k].text.of
                      \/ tabs'[k].ref = ref /\ tabs'[k].text.of = docs + 1 /\ docs' = docs + 1
    OBVIOUS
  <2>1. CASE k \in DOMAIN tabs
    BY <1>3, <1>4, <2>1
  <2>2. CASE k = id
    BY <1>3, <1>5, <2>2
  <2> QED BY <1>3, <2>1, <2>2
<1>7. \A i \in DOMAIN tabs :
        \E k \in DOMAIN tabs' : tabs'[k].ref = tabs[i].ref /\ Later(tabs'[k].text, tabs[i].text)
  <2>1. \A i \in DOMAIN tabs : tabs[i].text \in Text
    BY <1>1 DEF IsTabs, Tab
  <2>2. \A i \in DOMAIN tabs : i \in DOMAIN tabs' /\ tabs'[i].ref = tabs[i].ref
                               /\ Later(tabs'[i].text, tabs[i].text)
    BY <1>3, <2>1, LaterSame
  <2> QED BY <2>2
<1>8. \/ minted < written'
      \/ \A k \in DOMAIN tabs' : \/ tabs'[k].text.of = docs + 1
                                 \/ \E i \in DOMAIN tabs : tabs[i].text.of = tabs'[k].text.of
  BY <1>3
<1>9. docs' \in {docs, docs + 1}
  OBVIOUS
<1> QED BY <1>1, <1>6, <1>7, <1>8, <1>9, SafekeptAutosaved

LEMMA SafekeptNewScript ==
  ASSUME Apart, Orderly, Orderly', Safekept, NewScript
  PROVE  Safekept'
<1>1. /\ here /\ FreeIds # {} /\ next <= MaxDocs /\ here' = here /\ docs' = docs + 1
      /\ disk' = disk /\ written' = written /\ kept' = kept
  BY DEF NewScript
<1>2. tabs' = WithTab(Scratch(next), [of |-> docs + 1, n |-> 0], NoText, FALSE) /\ Autosave(0)
  BY DEF NewScript, Notify
<1>3. next \in Nat /\ next > 0 /\ docs \in Nat /\ minted \in Nat /\ written \in Nat
  BY DEF Orderly, Types
<1>4. Scratch(next) \in Ref /\ Scratch(next).at # "shared"
  <2>1. next \in ScratchNames
    BY <1>1, <1>3 DEF ScratchNames, Apart
  <2> QED BY <2>1, RefsAre
<1>5. [of |-> docs + 1, n |-> 0] \in Text /\ [of |-> docs + 1, n |-> 0].of = docs + 1
  BY <1>3 DEF Text
<1>6. written <= written' /\ written' <= minted + 0 + 1
  BY <1>1, <1>3 DEF Safekept, Queued
<1>7. disk'.file = disk.file /\ disk.tabs \subseteq disk'.tabs /\ \A e \in disk'.tabs : e.ref.at # "shared"
  BY <1>1 DEF Safekept, Placed
<1>8. FALSE \in BOOLEAN /\ 0 \in Nat
  OBVIOUS
<1> QED BY <1>1, <1>2, <1>4, <1>5, <1>6, <1>7, <1>8, SafekeptOpened, Zenon

LEMMA SafekeptConverted ==
  ASSUME Apart, Orderly, Orderly', Safekept, NEW name \in Relations, ConvertGenerated(name)
  PROVE  Safekept'
<1>1. /\ here /\ FreeIds # {} /\ here' = here /\ docs' = docs + 1
      /\ disk' = disk /\ written' = written /\ kept' = kept
  BY DEF ConvertGenerated
<1>2. tabs' = WithTab(Scratch(name), [of |-> docs + 1, n |-> 0], NoText, TRUE) /\ Autosave(0)
  BY DEF ConvertGenerated, Notify
<1>3. docs \in Nat /\ minted \in Nat /\ written \in Nat
  BY DEF Orderly, Types
<1>4. Scratch(name) \in Ref /\ Scratch(name).at # "shared"
  <2>1. name \in ScratchNames
    BY DEF ScratchNames
  <2> QED BY <2>1, RefsAre
<1>5. [of |-> docs + 1, n |-> 0] \in Text /\ [of |-> docs + 1, n |-> 0].of = docs + 1
  BY <1>3 DEF Text
<1>6. written <= written' /\ written' <= minted + 0 + 1
  BY <1>1, <1>3 DEF Safekept, Queued
<1>7. disk'.file = disk.file /\ disk.tabs \subseteq disk'.tabs /\ \A e \in disk'.tabs : e.ref.at # "shared"
  BY <1>1 DEF Safekept, Placed
<1>8. TRUE \in BOOLEAN /\ 0 \in Nat
  OBVIOUS
<1> QED BY <1>1, <1>2, <1>4, <1>5, <1>6, <1>7, <1>8, SafekeptOpened, Zenon

LEMMA SafekeptReopened ==
  ASSUME Apart, Orderly, Orderly', Safekept, NEW name \in UserNames, OpenNamed(name)
  PROVE  Safekept'
<1> DEFINE ref == Named(name)
           text == disk.file[ref]
<1>1. /\ here /\ FreeIds # {} /\ here' = here /\ docs' = docs /\ kept' = kept
      /\ text # NoText /\ written' = minted + 1
      /\ disk' = [disk EXCEPT !.tabs = @ \cup {[ref |-> ref, draft |-> FALSE]}]
  BY DEF OpenNamed
<1>2. tabs' = WithTab(ref, text, NoText, FALSE) /\ Autosave(1)
  BY DEF OpenNamed
<1>3. ref \in Ref /\ ref.at = "named" /\ minted \in Nat /\ written \in Nat /\ IsDisk(disk)
  BY RefsAre DEF Orderly, Types
<1> HIDE DEF ref
<1>4. text \in Text
  BY <1>1, <1>3 DEF IsDisk
<1>5. written <= written' /\ written' <= minted + 1 + 1 /\ minted < written'
  BY <1>1, <1>3 DEF Safekept, Queued
<1>6. disk'.file = disk.file /\ disk'.tabs = disk.tabs \cup {[ref |-> ref, draft |-> FALSE]}
  BY <1>1, <1>3 DEF IsDisk
<1>7. disk.tabs \subseteq disk'.tabs /\ \A e \in disk'.tabs : e.ref.at # "shared"
  BY <1>3, <1>6 DEF Safekept, Placed
<1>8. FALSE \in BOOLEAN /\ 1 \in Nat /\ ref.at # "shared" /\ disk.file[ref] = text
  BY <1>3
<1> HIDE DEF text
<1> QED BY <1>1, <1>2, <1>3, <1>4, <1>5, <1>6, <1>7, <1>8, SafekeptOpened, Zenon

\* The tabs keep their files, texts get no older and some tabs are closed.
LEMMA SafekeptEdited ==
  ASSUME Apart, Orderly, Orderly', Safekept, here, here' = here, Autosave(0),
         UNCHANGED <<disk, docs, written>>, DOMAIN tabs' \subseteq DOMAIN tabs,
         \A i \in DOMAIN tabs' : tabs'[i].ref = tabs[i].ref /\ Later(tabs'[i].text, tabs[i].text),
         kept' \subseteq kept,
         \A t \in kept', i \in DOMAIN tabs : tabs[i].text.of = t.of => i \in DOMAIN tabs'
  PROVE  Safekept'
<1>1. Types /\ Types' /\ IsTabs(tabs) /\ SingleTabs(tabs) /\ SingleTabs(tabs') /\ Placed
  BY DEF Orderly, Types, Safekept
<1>2. \A i \in DOMAIN tabs : \E x \in Around : x.ref = tabs[i].ref /\ x.text = tabs[i].text
  <2>1. \A i \in DOMAIN tabs : EntryOf(tabs[i]) \in Now /\ EntryOf(tabs[i]).ref = tabs[i].ref
                               /\ EntryOf(tabs[i]).text = tabs[i].text
    BY <1>1, TabsPlaced, PlainSnapshot DEF Now
  <2> QED BY <2>1, AroundHas
<1>3. \A i \in DOMAIN tabs' : tabs'[i].text.of = tabs[i].text.of /\ i \in DOMAIN tabs
  BY DEF Later
<1>4. \A k \in DOMAIN tabs' : \E x \in Around : x.ref = tabs'[k].ref /\ x.text.of = tabs'[k].text.of
  BY <1>2, <1>3
<1>5. ASSUME NEW i \in DOMAIN tabs, NEW k \in DOMAIN tabs', tabs'[k].text.of = tabs[i].text.of
      PROVE  \E m \in DOMAIN tabs' : tabs'[m].ref = tabs[i].ref /\ Later(tabs'[m].text, tabs[i].text)
  <2>1. PICK x \in Around : x.ref = tabs[i].ref /\ x.text = tabs[i].text
    BY <1>2
  <2>2. PICK y \in Around : y.ref = tabs[k].ref /\ y.text = tabs[k].text
    BY <1>2, <1>3
  <2>3. x.ref = y.ref /\ x.ref.at # "shared"
    BY <1>1, <1>3, <1>5, <2>1, <2>2 DEF Placed
  <2>4. i = k
    BY <1>1, <1>3, <2>1, <2>2, <2>3 DEF SingleTabs
  <2> QED BY <2>4
<1>6. \A k \in DOMAIN tabs' : \E i \in DOMAIN tabs : tabs[i].text.of = tabs'[k].text.of
  BY <1>3
<1>7. ASSUME NEW t \in kept', NEW i \in DOMAIN tabs, Later(tabs[i].text, t)
      PROVE  \E m \in DOMAIN tabs' : tabs'[m].ref = tabs[i].ref /\ Later(tabs'[m].text, tabs[i].text)
  BY <1>7 DEF Later
<1>8. written <= written' /\ written' <= minted + 0 + 1 /\ 0 \in Nat
  <2>1. written \in Nat /\ minted \in Nat /\ written <= minted
    BY <1>1 DEF Types, Safekept, Queued
  <2> QED BY <2>1
<1>9. /\ disk'.file = disk.file /\ disk.tabs \subseteq disk'.tabs
      /\ \A e \in disk'.tabs : e.ref.at # "shared"
      /\ docs' \in {docs, docs + 1} /\ Scratch(1).at # "shared"
  BY <1>1 DEF Placed, Scratch
<1> HIDE DEF Safekept
<1> QED BY <1>1, <1>4, <1>5, <1>6, <1>7, <1>8, <1>9, SafekeptAutosaved

LEMMA SafekeptClosed ==
  ASSUME Apart, Orderly, Orderly', Safekept, here, NEW i \in DOMAIN tabs, CloseTab(i)
  PROVE  Safekept'
<1>1. /\ tabs' = [k \in DOMAIN tabs \ {i} |-> tabs[k]] /\ here' = here /\ Autosave(0)
      /\ UNCHANGED <<disk, docs, written>> /\ kept' = {t \in kept : t.of # tabs[i].text.of}
  BY DEF CloseTab, Notify
<1>2. \A k \in DOMAIN tabs : tabs[k].text \in Text
  BY DEF Orderly, Types, IsTabs, Tab
<1>3. DOMAIN tabs' \subseteq DOMAIN tabs /\ \A k \in DOMAIN tabs' : tabs'[k] = tabs[k]
  BY <1>1
<1>4. \A k \in DOMAIN tabs' : tabs'[k].ref = tabs[k].ref /\ Later(tabs'[k].text, tabs[k].text)
  BY <1>2, <1>3, LaterSame
<1>5. kept' \subseteq kept
      /\ \A t \in kept', k \in DOMAIN tabs : tabs[k].text.of = t.of => k \in DOMAIN tabs'
  BY <1>1
<1> QED BY <1>1, <1>3, <1>4, <1>5, SafekeptEdited

\* Nothing is dispatched nor written: the tabs may have newer texts.
LEMMA SafekeptQuiet ==
  ASSUME Apart, Types, Types', Safekept, UNCHANGED <<docs, kept, disk, written, minted, cache>>,
         jobs' \subseteq jobs, here \/ cache # NoCache \/ ~ here',
         \A x \in Now : LaterIn(Now', x),
         \A x \in Now' : \E y \in Now : y.ref = x.ref /\ y.text.of = x.text.of
  PROVE  Safekept'
<1>1. Placed /\ Queued /\ Forward /\ Surviving /\ Around \subseteq InPlace
  BY AroundType DEF Safekept
<1>2. Cached' = Cached /\ Files(disk') = Files(disk) /\ Live' \subseteq Live
  BY DEF Cached, Files, Live
<1>3. Placed'
  <2>1. \A e \in Around' : \E x \in Around : x.ref = e.ref /\ x.text.of = e.text.of
    <3>1. Around' = Now' \cup Cached' \cup (UNION {j.entries : j \in jobs'}) \cup Files(disk')
      BY DEF Around
    <3>2. \A e \in Around' : e \in Now' \/ e \in Around
      BY <1>2, <3>1, AroundHas
    <3> QED BY <3>2, AroundHas
  <2>2. \A x \in Around : x.text.of \in Nat
    BY <1>1 DEF InPlace, Text
  <2>3. \A e \in disk'.tabs : e.ref.at # "shared"
    BY <1>1 DEF Placed
  <2>4. docs' \in {docs, docs + 1} /\ Scratch(1).at # "shared"
    BY DEF Scratch
  <2> QED BY <1>1, <2>1, <2>2, <2>3, <2>4, PlacedKept
<1>4. Queued'
  BY <1>1 DEF Queued
<1>5. Now \in SUBSET InPlace /\ Now' \in SUBSET InPlace
  <2>1. Now \in SUBSET InPlace
    BY <1>1, AroundHas
  <2>2. \A x \in Now' : x \in Entry /\ x.ref.at # "shared"
    <3>1. Now' \in Snapshots
      <4>1. Cached' \in Snapshots
        <5>1. CASE cache' = NoCache
          BY <5>1, FS_EmptySet DEF Cached, Snapshots
        <5>2. CASE cache' # NoCache
          BY <5>2 DEF Cached, Types
        <5> QED BY <5>1, <5>2
      <4>2. Snapshot(tabs') \in Snapshots
        BY SnapshotType DEF Types
      <4> QED BY <4>1, <4>2 DEF Now
    <3>2. \A x \in Now' : x \in Around'
      BY DEF Around
    <3> QED BY <1>3, <3>1, <3>2 DEF Snapshots, Placed
  <2> QED BY <2>1, <2>2, PlainEntry
<1>6. ASSUME NEW e \in InPlace, LaterIn(Now, e) PROVE LaterIn(Now', e)
  BY <1>5, <1>6, LaterInTrans
<1>7. Docs(Now') \subseteq Docs(Now)
  BY DEF Docs
<1>8. Forward'
  <2>1. ASSUME NEW e \in Cached' PROVE LaterIn(Now', e)
    <3>1. e \in Cached /\ e \in InPlace
      BY <1>1, <1>2, AroundHas
    <3>2. LaterIn(Now, e)
      BY <1>1, <3>1 DEF Forward
    <3> QED BY <1>6, <3>1, <3>2
  <2>2. ASSUME NEW j \in Live', NEW e \in j.entries, e.text.of \in Docs(Now')
        PROVE  LaterIn(Now', e) /\ \A k \in Live' : j.claim <= k.claim => LaterIn(k.entries, e)
    <3>1. j \in Live /\ e \in InPlace /\ e.text.of \in Docs(Now)
      BY <1>1, <1>2, <1>7, <2>2, AroundHas DEF Live
    <3>2. LaterIn(Now, e) /\ \A k \in Live : j.claim <= k.claim => LaterIn(k.entries, e)
      BY <1>1, <3>1 DEF Forward
    <3> QED BY <1>2, <1>6, <3>1, <3>2
  <2> QED BY <2>1, <2>2 DEF Forward
<1>9. Surviving'
  <2> SUFFICES ASSUME NEW t \in kept, NEW r \in Ref, Secured([ref |-> r, text |-> t])
               PROVE  Secured([ref |-> r, text |-> t])'
    BY <1>1 DEF Surviving
  <2> DEFINE k == [ref |-> r, text |-> t]
  <2>1. k \in InPlace
    BY <1>1 DEF InPlace, Surviving
  <2>2. Secured(k)
    OBVIOUS
  <2> HIDE DEF k
  <2>3. here' \/ cache' # NoCache => LaterIn(Now', k)
    <3>1. ASSUME here' \/ cache' # NoCache PROVE LaterIn(Now, k)
      BY <2>2, <3>1 DEF Secured
    <3> QED BY <1>6, <2>1, <3>1
  <2>4. Secured(k)'
    BY <1>2, <2>2, <2>3 DEF Secured
  <2> QED BY <2>4 DEF k
<1> QED BY <1>3, <1>4, <1>8, <1>9 DEF Safekept

LEMMA SafekeptStill ==
  ASSUME Apart, Types, Types', Safekept,
         UNCHANGED <<tabs, here, docs, kept, disk, written, minted, cache>>, jobs' \subseteq jobs
  PROVE  Safekept'
<1>1. Now' = Now
  BY DEF Now, Cached
<1>2. Now \subseteq InPlace
  BY AroundType, AroundHas DEF Safekept
<1>3. \A x \in Now : LaterIn(Now', x)
  BY <1>1, <1>2, LaterSame DEF LaterIn, InPlace
<1>4. \A x \in Now' : \E y \in Now : y.ref = x.ref /\ y.text.of = x.text.of
  BY <1>1
<1>5. cache = NoCache /\ ~ here => here' = FALSE \/ here' = here
  OBVIOUS
<1>6. here \/ cache # NoCache \/ ~ here'
  OBVIOUS
<1> QED BY <1>3, <1>4, <1>6, SafekeptQuiet

LEMMA SafekeptEdit ==
  ASSUME Apart, Orderly, Orderly', Safekept, here, NEW i \in DOMAIN tabs, Edit(i)
  PROVE  Safekept'
<1>1. Types /\ Types' /\ IsTabs(tabs) /\ IsTabs(tabs') /\ Placed
  BY DEF Orderly, Types, Safekept
<1>2. /\ DOMAIN tabs' = DOMAIN tabs /\ tabs'[i].ref = tabs[i].ref
      /\ tabs'[i].text = [tabs[i].text EXCEPT !.n = @ + 1]
      /\ \A k \in DOMAIN tabs : k # i => tabs'[k] = tabs[k]
  BY <1>1, EditEffect
<1>3. \A k \in DOMAIN tabs : tabs[k].text \in Text
  BY <1>1 DEF IsTabs, Tab
<1>4. ASSUME NEW k \in DOMAIN tabs
      PROVE  tabs'[k].ref = tabs[k].ref /\ Later(tabs'[k].text, tabs[k].text)
  <2>1. CASE k = i
    BY <1>2, <1>3, <2>1 DEF Later, Text
  <2>2. CASE k # i
    BY <1>2, <1>3, <2>2, LaterSame
  <2> QED BY <2>1, <2>2
<1>5. UNCHANGED <<here, docs, written, disk, kept>>
  BY DEF Edit
<1>6. CASE Autosave(0)
  <2>1. \A t \in kept', k \in DOMAIN tabs : tabs[k].text.of = t.of => k \in DOMAIN tabs'
    BY <1>2
  <2> QED BY <1>2, <1>4, <1>5, <1>6, <2>1, SafekeptEdited
<1>7. CASE UNCHANGED <<minted, jobs, cache>>
  <2>1. \A k \in DOMAIN tabs : tabs[k].ref.at # "shared" /\ tabs'[k].ref.at # "shared"
    BY <1>1, <1>4, TabsPlaced
  <2>2. Now = Snapshot(tabs) /\ Now' = Snapshot(tabs')
    BY <1>5 DEF Now
  <2>3. /\ \A x \in Now : \E k \in DOMAIN tabs : x.ref = tabs[k].ref /\ x.text = tabs[k].text
        /\ \A k \in DOMAIN tabs : EntryOf(tabs[k]) \in Now /\ EntryOf(tabs[k]).ref = tabs[k].ref
                                  /\ EntryOf(tabs[k]).text = tabs[k].text
    BY <1>1, <2>1, <2>2, PlainSnapshot
  <2>4. /\ \A x \in Now' : \E k \in DOMAIN tabs : x.ref = tabs'[k].ref /\ x.text = tabs'[k].text
        /\ \A k \in DOMAIN tabs : EntryOf(tabs'[k]) \in Now' /\ EntryOf(tabs'[k]).ref = tabs'[k].ref
                                  /\ EntryOf(tabs'[k]).text = tabs'[k].text
    BY <1>1, <1>2, <2>1, <2>2, PlainSnapshot
  <2>5. ASSUME NEW x \in Now PROVE LaterIn(Now', x)
    <3>1. PICK k \in DOMAIN tabs : x.ref = tabs[k].ref /\ x.text = tabs[k].text
      BY <2>3
    <3> QED BY <1>4, <2>4, <3>1 DEF LaterIn
  <2>6. ASSUME NEW x \in Now' PROVE \E y \in Now : y.ref = x.ref /\ y.text.of = x.text.of
    <3>1. PICK k \in DOMAIN tabs : x.ref = tabs'[k].ref /\ x.text = tabs'[k].text
      BY <2>4
    <3>2. tabs'[k].ref = tabs[k].ref /\ tabs'[k].text.of = tabs[k].text.of
      BY <1>4 DEF Later
    <3> QED BY <2>3, <3>1, <3>2
  <2>7. jobs' \subseteq jobs
    BY <1>7
  <2> QED BY <1>1, <1>5, <1>7, <2>5, <2>6, <2>7, SafekeptQuiet
<1> QED BY <1>6, <1>7 DEF Edit, Notify

LEMMA SafekeptDebounced ==
  ASSUME Apart, Orderly, Orderly', Safekept, DebounceFires
  PROVE  Safekept'
<1>1. Types /\ Types' /\ UNCHANGED <<tabs, here, docs, written, disk, kept>>
  BY DEF Orderly, DebounceFires
<1>2. CASE here
  <2>1. Autosave(0)
    BY <1>2 DEF DebounceFires, Notify
  <2>2. \A k \in DOMAIN tabs : tabs[k].text \in Text
    BY <1>1 DEF Types, IsTabs, Tab
  <2>3. \A k \in DOMAIN tabs' : tabs'[k].ref = tabs[k].ref /\ Later(tabs'[k].text, tabs[k].text)
    BY <1>1, <2>2, LaterSame
  <2> QED BY <1>1, <1>2, <2>1, <2>3, SafekeptEdited
<1>3. CASE ~ here
  <2>1. UNCHANGED <<minted, jobs, cache>>
    BY <1>3 DEF DebounceFires
  <2> QED BY <1>1, <2>1, SafekeptStill
<1> QED BY <1>2, <1>3

LEMMA SafekeptSwitchedAway ==
  ASSUME Apart, Orderly, Orderly', Safekept, SwitchAway
  PROVE  Safekept'
<1> DEFINE s == Snapshot(tabs)
           claim == minted + 1
<1>1. /\ here /\ minted' = claim /\ jobs' = jobs \cup {SaveJob(claim, s)} /\ cache' = s
      /\ here' = FALSE /\ UNCHANGED <<docs, written, disk, kept>>
  BY DEF SwitchAway
<1>2. Types /\ IsTabs(tabs) /\ SingleTabs(tabs) /\ minted \in Nat /\ written \in Nat
  BY DEF Orderly, Types
<1>3. s \in Snapshots /\ s # NoCache /\ SingleEntries(s)
  BY <1>2, SnapshotType, SnapshotSingle
<1>4. Now = s /\ Now' = s
  BY <1>1, <1>3 DEF Now, Cached
<1> HIDE DEF s
<1>5. claim \in Nat /\ minted < claim /\ written <= written' /\ written' <= claim /\ written' \in Nat
  BY <1>1, <1>2 DEF Safekept, Queued
<1> HIDE DEF claim
<1>6. \A e \in s : e \in Around
  BY <1>4, AroundHas
<1>7. \A x \in Now : LaterIn(s, x)
  <2>1. Now \subseteq InPlace
    BY <1>2, AroundType, AroundHas DEF Safekept
  <2> QED BY <1>4, <2>1, LaterSame DEF LaterIn, InPlace
<1>8. Docs(s) \subseteq Docs(Now) \cup {docs + 1}
  BY <1>4
<1>9. /\ disk'.file = disk.file /\ disk.tabs \subseteq disk'.tabs
      /\ \A e \in disk'.tabs : e.ref.at # "shared"
      /\ docs' \in {docs, docs + 1} /\ Scratch(1).at # "shared" /\ kept' \subseteq kept
  BY <1>1 DEF Safekept, Placed, Scratch
<1>10. \A e \in s : \E x \in Around : x.ref = e.ref /\ x.text.of = e.text.of
  BY <1>6
<1> HIDE DEF Safekept
<1> QED BY <1>1, <1>2, <1>3, <1>4, <1>5, <1>7, <1>8, <1>9, <1>10, SafekeptDispatched

\* Tabs restored from entries of the directory are those entries again.
LEMMA RestoredSnapshot ==
  ASSUME Apart, NEW entries \in Snapshots, \A e \in entries : e.ref.at # "shared", IsDisk(disk),
         NEW ids, RestoredAs(entries, ids)
  PROVE  Snapshot(tabs') = entries
<1>1. IsTabs(tabs') /\ DOMAIN tabs' = {ids[e] : e \in entries}
      /\ \A e \in entries : tabs'[ids[e]] = Restored(e, disk)
  BY DEF RestoredAs
<1>2. ASSUME NEW e \in entries PROVE EntryOf(tabs'[ids[e]]) = e
  <2>1. e \in Entry /\ e \in InPlace
    BY PlainEntry DEF Snapshots
  <2>2. Restored(e, disk) \in Tab /\ Restored(e, disk).ref = e.ref
    BY <2>1, RestoredType
  <2>3. Restored(e, disk).text = e.text
    <3>1. e.text # NoText
      BY <2>1 DEF InPlace, Apart
    <3> QED BY <3>1 DEF Restored
  <2> DEFINE tab == Restored(e, disk)
  <2>4. /\ EntryOf(tab) \in [ref : Ref, text : Text \cup {NoText}] /\ EntryOf(tab).ref = e.ref
        /\ EntryOf(tab).text = e.text
    BY <2>2, <2>3, EntryType
  <2>5. EntryOf(tab) = e
    BY <2>1, <2>4 DEF InPlace
  <2> QED BY <1>1, <2>5
<1> QED BY <1>1, <1>2 DEF Snapshot

\* What is listed and has its file is loaded.
LEMMA LoadedHas ==
  ASSUME NEW d, NEW e \in d.tabs, e.ref.at # "shared", d.file[e.ref] # NoText
  PROVE  [ref |-> e.ref, text |-> d.file[e.ref]] \in Loaded(d)
  BY DEF Loaded

\* The texts to survive are among the entries to restore from.
LEMMA SurvivingRestored ==
  ASSUME Safekept, ~ here, NEW t \in kept, NEW r \in Ref, Secured([ref |-> r, text |-> t])
  PROVE  LaterIn(SwitchedFrom, [ref |-> r, text |-> t])
<1> DEFINE k == [ref |-> r, text |-> t]
<1>1. Secured(k) /\ k.ref = r /\ k.text = t
  OBVIOUS
<1> HIDE DEF k
<1>2. CASE cache # NoCache
  <2>1. SwitchedFrom = Now
    BY <1>2 DEF SwitchedFrom, Now, Cached
  <2> QED BY <1>1, <1>2, <2>1 DEF Secured, k
<1>3. CASE cache = NoCache
  <2>1. PICK e \in disk.tabs : e.ref = r
    BY <1>1 DEF Secured
  <2>2. disk.file[r] # NoText /\ Later(disk.file[r], t)
    BY <1>1 DEF Secured
  <2>3. e.ref.at # "shared"
    BY DEF Safekept, Placed
  <2>4. [ref |-> r, text |-> disk.file[r]] \in Loaded(disk)
    BY <2>1, <2>2, <2>3, LoadedHas
  <2>5. [ref |-> r, text |-> disk.file[r]] \in SwitchedFrom
    BY <1>3, <2>4 DEF SwitchedFrom
  <2>6. LaterIn(SwitchedFrom, k)
    BY <1>1, <2>2, <2>5 DEF LaterIn
  <2> QED BY <2>6 DEF k
<1> QED BY <1>2, <1>3

\* Tabs come from a cache or a directory where there was none: the steps below
\* differ in what is new in them.
LEMMA SafekeptShown ==
  ASSUME Apart, Types, Safekept, ~ here, here', UNCHANGED <<cache, minted, written, jobs, disk, kept>>,
         docs' \in {docs, docs + 1},
         Now' \in SUBSET InPlace, Cached \subseteq Now',
         \A e \in Now' : \/ e \in Around
                         \/ e.ref = Scratch(1) /\ e.text.of = docs + 1 /\ docs' = docs + 1,
         jobs = {} \/ \A e \in Now' : e \in Now \/ e.text.of = docs + 1,
         jobs = {} \/ Now \subseteq Now',
         \A t \in kept, r \in Ref :
           Secured([ref |-> r, text |-> t]) => LaterIn(Now', [ref |-> r, text |-> t])
  PROVE  Safekept'
<1>1. Placed /\ Queued /\ Forward /\ Surviving /\ Around \subseteq InPlace
  BY AroundType DEF Safekept
<1>2. Cached' = Cached /\ Files(disk') = Files(disk) /\ Live' = Live
  BY DEF Cached, Files, Live
<1>3. Placed'
  <2>1. \A e \in Around' : \/ \E x \in Around : x.ref = e.ref /\ x.text.of = e.text.of
                           \/ e.ref = Scratch(1) /\ e.text.of = docs + 1 /\ docs' = docs + 1
    <3>1. Around' = Now' \cup Cached' \cup (UNION {j.entries : j \in jobs'}) \cup Files(disk')
      BY DEF Around
    <3>2. \A e \in Around' : e \in Now' \/ e \in Around
      BY <1>2, <3>1, AroundHas
    <3> QED BY <3>2
  <2>2. \A x \in Around : x.text.of \in Nat
    BY <1>1 DEF InPlace, Text
  <2>3. \A e \in disk'.tabs : e.ref.at # "shared"
    BY <1>1 DEF Placed
  <2>4. Scratch(1).at # "shared"
    BY DEF Scratch
  <2> QED BY <1>1, <2>1, <2>2, <2>3, <2>4, PlacedKept
<1>4. Queued'
  BY <1>1 DEF Queued
<1>5. \A e \in Now' : LaterIn(Now', e)
  BY LaterSame DEF LaterIn, InPlace
<1>6. Forward'
  <2>1. \A e \in Cached' : LaterIn(Now', e)
    BY <1>2, <1>5
  <2>2. ASSUME NEW j \in Live, NEW e \in j.entries, e.text.of \in Docs(Now')
        PROVE  LaterIn(Now', e) /\ \A k \in Live : j.claim <= k.claim => LaterIn(k.entries, e)
    <3>1. j \in jobs /\ e \in Around /\ e \in InPlace
      BY <1>1, AroundHas DEF Live
    <3>2. PICK x \in Now' : x.text.of = e.text.of
      BY <2>2 DEF Docs
    <3>3. e.text.of <= docs /\ docs \in Nat
      BY <1>1, <3>1 DEF Placed, Types
    <3>4. e.text.of \in Docs(Now)
      BY <3>1, <3>2, <3>3 DEF Docs
    <3>5. LaterIn(Now, e) /\ \A k \in Live : j.claim <= k.claim => LaterIn(k.entries, e)
      BY <1>1, <3>4 DEF Forward
    <3>6. Now \subseteq Now'
      BY <3>1
    <3> QED BY <3>5, <3>6 DEF LaterIn
  <2> QED BY <1>2, <2>1, <2>2 DEF Forward
<1>7. Surviving'
  <2> SUFFICES ASSUME NEW t \in kept, NEW r \in Ref, Secured([ref |-> r, text |-> t])
               PROVE  Secured([ref |-> r, text |-> t])'
    BY <1>1 DEF Surviving
  <2> DEFINE k == [ref |-> r, text |-> t]
  <2>1. Secured(k) /\ LaterIn(Now', k)
    OBVIOUS
  <2> HIDE DEF k
  <2>2. Secured(k)'
    BY <1>2, <2>1 DEF Secured
  <2> QED BY <2>2 DEF k
<1> QED BY <1>3, <1>4, <1>6, <1>7 DEF Safekept

LEMMA SafekeptSwitchedHere ==
  ASSUME Apart, Orderly, Orderly', Safekept, SwitchHere
  PROVE  Safekept'
<1>1. Types /\ Types' /\ IsTabs(tabs) /\ IsTabs(tabs') /\ IsDisk(disk) /\ docs \in Nat
  BY DEF Orderly, Types
<1>2. ~ here /\ here' /\ UNCHANGED <<cache, minted, written, jobs, disk, kept>>
  BY DEF SwitchHere
<1>3. DOMAIN tabs = {} /\ (cache = NoCache => jobs = {})
  BY <1>2 DEF Orderly, Away
<1>4. Now = Cached /\ Now' = Snapshot(tabs')
  BY <1>2 DEF Now
<1>5. /\ cache # NoCache => SwitchedFrom = Now
      /\ cache = NoCache => SwitchedFrom = Loaded(disk) /\ Cached = {} /\ jobs = {}
  BY <1>3, <1>4 DEF SwitchedFrom, Cached
<1>6. \A t \in kept, r \in Ref :
        Secured([ref |-> r, text |-> t]) => LaterIn(SwitchedFrom, [ref |-> r, text |-> t])
  BY <1>2, SurvivingRestored
<1>7. CASE SwitchedFrom = {}
  <2>1. /\ FreeIds # {} /\ docs' = docs + 1
        /\ tabs' = WithTab(Scratch(1), [of |-> docs + 1, n |-> 0], NoText, FALSE)
    BY <1>7 DEF SwitchHere, SwitchedFrom
  <2>2. Scratch(1) \in Ref /\ [of |-> docs + 1, n |-> 0] \in Text
    <3>1. 1 \in ScratchNames
      BY <1>1, <1>7 DEF SwitchHere, SwitchedFrom, ScratchNames, Apart
    <3> QED BY <1>1, <3>1, RefsAre DEF Text
  <2> DEFINE text == [of |-> docs + 1, n |-> 0]
  <2>3. text.of = docs + 1 /\ text \in Text
    BY <2>2
  <2> HIDE DEF text
  <2>4. tabs' = WithTab(Scratch(1), text, NoText, FALSE)
    BY <2>1 DEF text
  <2>5. PICK id \in FreeIds : NewTab(id, Scratch(1), text, NoText)
    BY <1>1, <2>1, <2>2, <2>3, <2>4, WithTabEffect
  <2>6. DOMAIN tabs' = {id} /\ tabs'[id].ref = Scratch(1) /\ tabs'[id].text = text
    BY <1>3, <2>5 DEF NewTab
  <2>7. Scratch(1).at # "shared"
    BY DEF Scratch
  <2>8. \A x \in Now' : x.ref = Scratch(1) /\ x.text = text /\ x \in Entry
    <3>1. \A x \in Now' : x.ref = Scratch(1) /\ x.text = text
      BY <1>1, <1>4, <2>6, <2>7, PlainSnapshot
    <3>2. Now' \subseteq Entry
      BY <1>1, <1>4, SnapshotType DEF Snapshots
    <3> QED BY <3>1, <3>2
  <2>9. Now' \in SUBSET InPlace
    BY <2>7, <2>8, PlainEntry
  <2>10. Cached = {} /\ Now = {}
    BY <1>4, <1>5, <1>7
  <2>11. \A t \in kept, r \in Ref : ~ Secured([ref |-> r, text |-> t])
    BY <1>6, <1>7 DEF LaterIn
  <2>12. /\ Cached \subseteq Now' /\ (jobs = {} \/ Now \subseteq Now')
         /\ \A e \in Now' : e.ref = Scratch(1) /\ e.text.of = docs + 1 /\ docs' = docs + 1
    BY <2>1, <2>3, <2>8, <2>10
  <2> QED BY <1>1, <1>2, <2>1, <2>9, <2>11, <2>12, SafekeptShown
<1>8. CASE SwitchedFrom # {}
  <2>1. /\ Cardinality(SwitchedFrom) <= Cardinality(FreeIds)
        /\ tabs' = RestoredTabs(SwitchedFrom) /\ docs' = docs
    BY <1>8 DEF SwitchHere, SwitchedFrom
  <2>2. SwitchedFrom \in Snapshots
    BY <1>1, SwitchedFromType
  <2>3. PICK ids \in [SwitchedFrom -> FreeIds] : RestoredAs(SwitchedFrom, ids)
    BY <1>1, <2>1, <2>2, RestoredTabsEffect
  <2>4. \A e \in SwitchedFrom : e \in Around
    <3>1. CASE cache # NoCache
      BY <1>5, <3>1, AroundHas
    <3>2. CASE cache = NoCache
      <4>1. ASSUME NEW e \in Loaded(disk) PROVE e \in Files(disk)
        <5>1. e \in Entry /\ (\E x \in disk.tabs : x.ref = e.ref)
              /\ (e.ref.at # "shared" => e.text = disk.file[e.ref])
          BY <1>1, LoadedType DEF Snapshots
        <5>2. e.ref.at # "shared"
          BY <5>1 DEF Safekept, Placed
        <5>3. e \in InPlace
          BY <5>1, <5>2, PlainEntry
        <5>4. e = [ref |-> e.ref, text |-> disk.file[e.ref]] /\ e.ref \in Ref
              /\ disk.file[e.ref] # NoText
          BY <5>1, <5>2, <5>3 DEF InPlace, Apart
        <5> QED BY <5>4 DEF Files
      <4> QED BY <1>5, <3>2, <4>1, AroundHas
    <3> QED BY <3>1, <3>2
  <2>5. \A e \in SwitchedFrom : e.ref.at # "shared" /\ e \in InPlace
    BY <1>1, <2>4, AroundType DEF Safekept, Placed
  <2>6. Now' = SwitchedFrom
    BY <1>1, <1>4, <2>2, <2>3, <2>5, RestoredSnapshot
  <2>7. Cached \subseteq Now' /\ (jobs = {} \/ Now \subseteq Now')
        /\ (jobs = {} \/ \A e \in Now' : e \in Now \/ e.text.of = docs + 1)
    BY <1>4, <1>5, <2>6
  <2>8. Now' \in SUBSET InPlace /\ \A e \in Now' : e \in Around
    BY <2>4, <2>5, <2>6
  <2>9. \A t \in kept, r \in Ref :
          Secured([ref |-> r, text |-> t]) => LaterIn(Now', [ref |-> r, text |-> t])
    BY <1>6, <2>6
  <2>10. docs' \in {docs, docs + 1}
    BY <2>1
  <2> QED BY <1>1, <1>2, <2>7, <2>8, <2>9, <2>10, SafekeptShown
<1> QED BY <1>7, <1>8

\* What writing entries of the directory does to its files.
LEMMA WithFilesIs ==
  ASSUME Apart, NEW d, IsDisk(d), NEW entries \in SUBSET Entry, SingleEntries(entries),
         \A e \in entries : e.ref.at # "shared", NEW p, p = WithFiles(d, entries)
  PROVE  /\ IsDisk(p) /\ p.tabs = d.tabs
         /\ \A e \in entries : p.file[e.ref] = e.text
         /\ \A r \in Ref : p.file[r] = d.file[r] \/ \E e \in entries : e.ref = r /\ p.file[r] = e.text
<1> DEFINE fileOf(e) == e.ref.at # "shared" \/ e.text # NoText
           owns(r) == {e \in entries : e.ref = r /\ fileOf(e)}
           file == [r \in Ref |-> IF r.at # "shared" /\ owns(r) # {}
                                  THEN (CHOOSE e \in owns(r) : TRUE).text ELSE d.file[r]]
           draft == [n \in UserNames |-> IF owns(Shared(n)) # {}
                                         THEN (CHOOSE e \in owns(Shared(n)) : TRUE).text
                                         ELSE d.draft[n]]
<1>1. p = [d EXCEPT !.file = file, !.draft = draft]
  BY DEF WithFiles
<1>2. \A e \in entries : owns(e.ref) = {e} /\ e.ref \in Ref
  BY DEF SingleEntries, Entry
<1>3. \A r \in Ref : owns(r) # {} => \E e \in entries : e.ref = r
  OBVIOUS
<1> HIDE DEF owns
<1>4. \A e \in entries : file[e.ref] = e.text
  BY <1>2
<1>5. ASSUME NEW r \in Ref, file[r] # d.file[r] PROVE \E e \in entries : e.ref = r /\ file[r] = e.text
  <2>1. PICK e \in entries : e.ref = r
    BY <1>3, <1>5
  <2> QED BY <1>4, <2>1
<1> HIDE DEF file, draft
<1>6. p.file = file
  BY <1>1 DEF IsDisk
<1>7. IsDisk(p) /\ p.tabs = d.tabs
  BY WithFilesType
<1> QED BY <1>4, <1>5, <1>6, <1>7

\* What a save may leave on the disk, having run to the end or not.
WrittenBy(p, entries) ==
  /\ \A e \in p.tabs : e.ref \in RefsIn(disk.tabs) \cup RefsIn(entries)
  /\ \A r \in Ref : p.file[r] \in {disk.file[r], NoText} \/ \E e \in entries : e.ref = r /\ p.file[r] = e.text
  /\ \A e \in entries : /\ e.ref \in RefsIn(disk.tabs) => e.ref \in RefsIn(p.tabs)
                        /\ p.file[e.ref] \in {disk.file[e.ref], e.text}

LEMMA PartialIs ==
  ASSUME Apart, IsDisk(disk), NEW entries \in Snapshots, SingleEntries(entries),
         \A e \in entries : e.ref.at # "shared", NEW p \in Partial(disk, entries)
  PROVE  WrittenBy(p, entries)
<1>0. entries \in SUBSET Entry
  BY DEF Snapshots
<1>1. ASSUME NEW some \in SUBSET entries, p = WithFiles(disk, some) PROVE WrittenBy(p, entries)
  <2>1. some \in SUBSET Entry /\ SingleEntries(some) /\ \A e \in some : e.ref.at # "shared"
    BY <1>0 DEF SingleEntries
  <2>2. /\ p.tabs = disk.tabs
        /\ \A e \in some : p.file[e.ref] = e.text
        /\ \A r \in Ref : p.file[r] = disk.file[r] \/ \E e \in some : e.ref = r /\ p.file[r] = e.text
    BY <1>1, <2>1, WithFilesIs
  <2>3. ASSUME NEW e \in entries PROVE p.file[e.ref] \in {disk.file[e.ref], e.text}
    <3>1. e.ref \in Ref
      BY <1>0 DEF Entry
    <3>2. ASSUME NEW x \in some, x.ref = e.ref PROVE x = e
      BY <3>2 DEF SingleEntries
    <3> QED BY <2>2, <3>1, <3>2
  <2>4. \A e \in p.tabs : e.ref \in RefsIn(disk.tabs)
    BY <2>2 DEF RefsIn
  <2> QED BY <2>2, <2>3, <2>4 DEF WrittenBy
<1>2. CASE p = WithTabs(WithFiles(disk, entries), entries)
  <2> DEFINE f == WithFiles(disk, entries)
  <2>1. /\ IsDisk(f) /\ \A e \in entries : f.file[e.ref] = e.text
        /\ \A r \in Ref : f.file[r] = disk.file[r] \/ \E e \in entries : e.ref = r /\ f.file[r] = e.text
    BY <1>0, WithFilesIs
  <2> HIDE DEF f
  <2>2. p.file = f.file
    BY <1>2, <2>1, WithTabsType DEF f
  <2>3. p.tabs = {Flag(e) : e \in entries}
    BY <1>2, <2>1 DEF WithTabs, Flag, f, IsDisk
  <2>4. RefsIn(p.tabs) = RefsIn(entries)
    BY <2>3, FlagIs DEF RefsIn
  <2>5. \A e \in p.tabs : e.ref \in RefsIn(entries)
    BY <2>4 DEF RefsIn
  <2>6. \A e \in entries : e.ref \in RefsIn(p.tabs)
    BY <2>4 DEF RefsIn
  <2> QED BY <2>1, <2>2, <2>5, <2>6 DEF WrittenBy
<1> QED BY <1>1, <1>2 DEF Partial

LEMMA PersistedPlain ==
  ASSUME Apart, IsDisk(disk), NEW entries \in Snapshots, SingleEntries(entries),
         \A e \in entries : e.ref.at # "shared", NEW p, p = Persisted(disk, entries)
  PROVE  /\ WrittenBy(p, entries)
         /\ \A e \in entries : e.ref \in RefsIn(p.tabs) /\ p.file[e.ref] = e.text
<1>0. entries \in SUBSET Entry
  BY DEF Snapshots
<1> DEFINE f == WithFiles(disk, entries)
           t == WithTabs(f, entries)
<1>1. OneEach(entries)
  BY DEF OneEach, SingleEntries
<1>2. p.tabs = {Flag(e) : e \in entries} /\ \A e \in entries : p.file[e.ref] = e.text
  BY <1>1, PersistedIs DEF AgreesOn
<1>3. RefsIn(p.tabs) = RefsIn(entries)
  BY <1>2, FlagIs DEF RefsIn
<1>4. /\ IsDisk(f)
      /\ \A r \in Ref : f.file[r] = disk.file[r] \/ \E e \in entries : e.ref = r /\ f.file[r] = e.text
  BY <1>0, WithFilesIs
<1>5. p = Pruned(t)
  BY DEF Persisted
<1> HIDE DEF f
<1>6. IsDisk(t) /\ t.file = f.file
  BY <1>4, WithTabsType
<1> HIDE DEF t
<1>7. \A r \in Ref : p.file[r] \in {t.file[r], NoText}
  BY <1>5, <1>6 DEF Pruned, IsDisk
<1>8. \A e \in p.tabs : e.ref \in RefsIn(entries)
  BY <1>3 DEF RefsIn
<1>9. \A e \in entries : e.ref \in RefsIn(p.tabs)
  BY <1>3 DEF RefsIn
<1> QED BY <1>2, <1>4, <1>6, <1>7, <1>8, <1>9 DEF WrittenBy

\* A save leaves nothing on the disk but what is about, and no document
\* elsewhere.
LEMMA PlacedWritten ==
  ASSUME Apart, Types, Safekept, NEW j \in jobs, WrittenBy(disk', j.entries),
         jobs' \subseteq jobs, docs' = docs, Now' \subseteq Now, Cached' \subseteq Cached
  PROVE  Placed'
<1>1. Placed /\ Queued /\ Around \subseteq InPlace /\ j.entries \subseteq Around
  BY AroundType, AroundHas DEF Safekept
<1>2. Files(disk') \subseteq Files(disk) \cup j.entries
  <2> SUFFICES ASSUME NEW r \in Ref, disk'.file[r] # NoText
               PROVE  [ref |-> r, text |-> disk'.file[r]] \in Files(disk) \cup j.entries
    BY DEF Files
  <2>1. CASE disk'.file[r] = disk.file[r]
    BY <2>1 DEF Files
  <2>2. CASE disk'.file[r] # disk.file[r]
    <3>1. PICK e \in j.entries : e.ref = r /\ disk'.file[r] = e.text
      BY <2>2 DEF WrittenBy
    <3>2. e \in InPlace
      BY <1>1
    <3> QED BY <3>1, <3>2 DEF InPlace
  <2> QED BY <2>1, <2>2
<1>3. Around' \subseteq Around
  <2>1. Around' = Now' \cup Cached' \cup (UNION {k.entries : k \in jobs'}) \cup Files(disk')
    BY DEF Around
  <2> QED BY <1>1, <1>2, <2>1, AroundHas
<1>4. \A e \in disk'.tabs : e.ref.at # "shared"
  <2> SUFFICES ASSUME NEW e \in disk'.tabs PROVE e.ref.at # "shared"
    OBVIOUS
  <2>1. CASE e.ref \in RefsIn(disk.tabs)
    BY <1>1, <2>1 DEF RefsIn, Placed
  <2>2. CASE e.ref \in RefsIn(j.entries)
    BY <1>1, <2>2 DEF RefsIn, Placed
  <2> QED BY <2>1, <2>2 DEF WrittenBy
<1>5. \A e \in Around' : \E x \in Around : x.ref = e.ref /\ x.text.of = e.text.of
  BY <1>3
<1>6. \A x \in Around : x.text.of \in Nat
  BY <1>1 DEF InPlace, Text
<1>7. docs' \in {docs, docs + 1} /\ Scratch(1).at # "shared"
  BY DEF Scratch
<1> QED BY <1>1, <1>4, <1>5, <1>6, <1>7, PlacedKept

\* A text to survive does, whatever the save has come to.
LEMMA SecuredWritten ==
  ASSUME Apart, Types, Safekept, NEW j \in Live, WrittenBy(disk', j.entries),
         Live' \subseteq Live, Now' = Now \/ ~ (here' \/ cache' # NoCache),
         here' \/ cache' # NoCache => here \/ cache # NoCache,
         NEW k \in InPlace, Secured(k)
  PROVE  Secured(k)'
<1>1. /\ \E e \in disk.tabs : e.ref = k.ref
      /\ disk.file[k.ref] # NoText /\ Later(disk.file[k.ref], k.text) /\ LaterIn(j.entries, k)
  BY DEF Secured
<1>2. PICK x \in j.entries : x.ref = k.ref /\ Later(x.text, k.text)
  BY <1>1 DEF LaterIn
<1>3. x.text # NoText
  <2>1. x \in InPlace
    BY AroundType, AroundHas DEF Safekept, Live
  <2> QED BY <2>1 DEF InPlace, Apart
<1>4. x.ref \in RefsIn(disk'.tabs) /\ disk'.file[x.ref] \in {disk.file[x.ref], x.text}
  BY <1>1, <1>2 DEF WrittenBy, RefsIn
<1>5. /\ \E e \in disk'.tabs : e.ref = k.ref
      /\ disk'.file[k.ref] # NoText /\ Later(disk'.file[k.ref], k.text)
  BY <1>1, <1>2, <1>3, <1>4 DEF RefsIn
<1>6. \A l \in Live' : LaterIn(l.entries, k)
  BY DEF Secured
<1>7. here' \/ cache' # NoCache => LaterIn(Now', k)
  BY DEF Secured
<1> QED BY <1>5, <1>6, <1>7 DEF Secured

\* A save has run: it is gone, and those older are superseded.
LEMMA SaveGone ==
  ASSUME Apart, Types, Safekept, NEW j \in Live, UNCHANGED <<tabVars, cache, minted>>,
         written' = j.claim, jobs' = jobs \ {j}
  PROVE  /\ Live' \subseteq Live /\ \A k \in Live' : j.claim <= k.claim
         /\ Now' = Now /\ Cached' = Cached /\ Queued' /\ Forward'
<1>1. Queued /\ Forward
  BY DEF Safekept
<1>2. j \in jobs /\ j.claim >= written /\ j.claim \in Nat /\ j.claim <= minted /\ written \in Nat
  BY <1>1, SavesOnly DEF Live, Types
<1>3. \A k \in jobs : k.claim \in Nat
  BY <1>1, SavesOnly
<1>4. Live' \subseteq Live /\ \A k \in Live' : j.claim <= k.claim
  BY <1>2, <1>3 DEF Live
<1>5. Now' = Now /\ Cached' = Cached
  BY DEF Now, Cached, tabVars
<1>6. Queued'
  BY <1>1, <1>2 DEF Queued
<1>7. Forward'
  BY <1>1, <1>4, <1>5 DEF Forward
<1> QED BY <1>4, <1>5, <1>6, <1>7

LEMMA LiveSave ==
  ASSUME Apart, Types, Safekept, NEW j \in Live
  PROVE  /\ j \in jobs /\ j.entries \in Snapshots /\ SingleEntries(j.entries)
         /\ j.entries \subseteq InPlace /\ \A e \in j.entries : e.ref.at # "shared"
<1>1. j \in jobs /\ Queued /\ Placed
  BY DEF Live, Safekept
<1>2. j.entries \subseteq Around /\ j.entries \subseteq InPlace
  BY <1>1, AroundHas, AroundType
<1> QED BY <1>1, <1>2, SavesOnly DEF Placed

LEMMA SafekeptFailed ==
  ASSUME Apart, Types, Safekept, NEW j \in jobs, SaveFails(j)
  PROVE  Safekept'
<1>1. /\ j \in Live /\ UNCHANGED <<tabVars, cache, minted, kept>>
      /\ written' = j.claim /\ jobs' = jobs \ {j} /\ disk' \in Partial(disk, j.entries)
  BY DEF SaveFails, Live
<1>2. WrittenBy(disk', j.entries)
  BY <1>1, LiveSave, PartialIs DEF Types
<1>3. /\ Live' \subseteq Live /\ Now' = Now /\ Cached' = Cached /\ Queued' /\ Forward'
  BY <1>1, SaveGone
<1>4. Placed'
  <2>1. docs' = docs /\ jobs' \subseteq jobs
    BY <1>1 DEF tabVars
  <2> QED BY <1>2, <1>3, <2>1, PlacedWritten
<1>5. Surviving'
  <2>1. here' = here /\ cache' = cache /\ kept' = kept
    BY <1>1 DEF tabVars
  <2> SUFFICES ASSUME NEW t \in kept, NEW r \in Ref, Secured([ref |-> r, text |-> t])
               PROVE  Secured([ref |-> r, text |-> t])'
    BY <2>1 DEF Safekept, Surviving
  <2> DEFINE k == [ref |-> r, text |-> t]
  <2>2. k \in InPlace /\ Secured(k)
    BY DEF Safekept, Surviving, InPlace
  <2> HIDE DEF k
  <2>3. Secured(k)'
    BY <1>1, <1>2, <1>3, <2>1, <2>2, SecuredWritten
  <2> QED BY <2>3 DEF k
<1> QED BY <1>3, <1>4, <1>5 DEF Safekept

LEMMA SafekeptLanded ==
  ASSUME Apart, Types, Safekept, NEW j \in jobs, SaveLands(j)
  PROVE  Safekept'
<1>1. /\ j \in Live /\ UNCHANGED <<tabVars, cache, minted>>
      /\ written' = j.claim /\ jobs' = jobs \ {j} /\ disk' = Persisted(disk, j.entries)
      /\ kept' = {t \in TextsOf(j.entries) : \E u \in TextsOf(cache) : u.of = t.of}
  BY DEF SaveLands, Live
<1>2. /\ j.entries \in Snapshots /\ SingleEntries(j.entries) /\ j.entries \subseteq InPlace
      /\ \A e \in j.entries : e.ref.at # "shared"
  BY <1>1, LiveSave
<1>3. /\ WrittenBy(disk', j.entries)
      /\ \A e \in j.entries : e.ref \in RefsIn(disk'.tabs) /\ disk'.file[e.ref] = e.text
  BY <1>1, <1>2, PersistedPlain DEF Types
<1>4. /\ Live' \subseteq Live /\ \A k \in Live' : j.claim <= k.claim
      /\ Now' = Now /\ Cached' = Cached /\ Queued' /\ Forward'
  BY <1>1, SaveGone
<1>5. Placed'
  <2>1. docs' = docs /\ jobs' \subseteq jobs
    BY <1>1 DEF tabVars
  <2> QED BY <1>3, <1>4, <2>1, PlacedWritten
<1>6. cache # NoCache
  BY SavesOnly DEF Safekept
<1>7. ASSUME NEW t \in kept' PROVE t \in Text /\ \E r \in Ref : Secured([ref |-> r, text |-> t])'
  <2>1. PICK e \in j.entries : e.text = t
    BY <1>1, <1>7 DEF TextsOf
  <2>2. PICK c \in cache : c.text.of = t.of
    BY <1>1, <1>7 DEF TextsOf
  <2>3. e \in InPlace /\ e = [ref |-> e.ref, text |-> t] /\ e.ref \in Ref /\ t \in Text
    BY <1>2, <2>1 DEF InPlace
  <2>4. PICK y \in Now : Later(y.text, c.text)
    BY <1>6, <2>2 DEF Safekept, Forward, Cached, LaterIn
  <2>5. e.text.of \in Docs(Now)
    BY <2>1, <2>2, <2>4 DEF Later, Docs
  <2>6. LaterIn(Now, e) /\ \A k \in Live : j.claim <= k.claim => LaterIn(k.entries, e)
    BY <1>1, <2>5 DEF Safekept, Forward
  <2>7. /\ \E x \in disk'.tabs : x.ref = e.ref
        /\ disk'.file[e.ref] # NoText /\ Later(disk'.file[e.ref], e.text)
    BY <1>3, <2>1, <2>3, LaterSame DEF RefsIn, Apart
  <2>8. Secured(e)'
    BY <1>4, <2>6, <2>7 DEF Secured
  <2> QED BY <2>3, <2>8
<1>8. Surviving'
  BY <1>7 DEF Surviving
<1> QED BY <1>4, <1>5, <1>8 DEF Safekept

LEMMA SafekeptCrashed ==
  ASSUME Apart, Types, Safekept, Crash
  PROVE  Safekept'
<1>1. /\ ~ here' /\ cache' = NoCache /\ minted' = 0 /\ written' = 0 /\ jobs' = {}
      /\ docs' = docs /\ kept' = kept
  BY DEF Crash
<1>2. Now' = {} /\ Cached' = {} /\ Live' = {}
  BY <1>1 DEF Now, Cached, Live
<1>3. Queued' /\ Forward'
  BY <1>1, <1>2 DEF Queued, Forward
<1>4. Placed' /\ Surviving'
  <2>1. CASE UNCHANGED disk
    <3>1. Placed'
      <4>1. Around' \subseteq Around
        BY <1>1, <1>2, <2>1 DEF Around, Files
      <4> QED BY <1>1, <2>1, <4>1 DEF Placed, Safekept
    <3>2. Surviving'
      BY <1>1, <1>2, <2>1 DEF Safekept, Surviving, Secured
    <3> QED BY <3>1, <3>2
  <2>2. ASSUME NEW j \in jobs, disk' \in Torn(j) PROVE Placed' /\ Surviving'
    <3>1. j.kind = "save"
      BY SavesOnly DEF Safekept
    <3>2. j \in Live /\ disk' \in Partial(disk, j.entries)
      BY <2>2, <3>1 DEF Torn, Live
    <3>3. WrittenBy(disk', j.entries)
      BY <3>2, LiveSave, PartialIs DEF Types
    <3>4. Placed'
      BY <1>1, <1>2, <3>3, PlacedWritten
    <3>5. Surviving'
      <4> SUFFICES ASSUME NEW t \in kept, NEW r \in Ref, Secured([ref |-> r, text |-> t])
                   PROVE  Secured([ref |-> r, text |-> t])'
        BY <1>1 DEF Safekept, Surviving
      <4> DEFINE k == [ref |-> r, text |-> t]
      <4>1. k \in InPlace /\ Secured(k)
        BY DEF Safekept, Surviving, InPlace
      <4> HIDE DEF k
      <4>2. Secured(k)'
        BY <1>1, <1>2, <3>2, <3>3, <4>1, SecuredWritten
      <4> QED BY <4>2 DEF k
    <3> QED BY <3>4, <3>5
  <2> QED BY <2>1, <2>2 DEF Crash
<1> QED BY <1>3, <1>4 DEF Safekept

LEMMA SafekeptInit ==
  ASSUME Apart, Autosaving, Init
  PROVE  Safekept
<1>1. /\ ~ here /\ docs = 0 /\ cache = NoCache /\ minted = 0 /\ written = 0 /\ jobs = {}
      /\ kept = {} /\ disk.tabs = {}
      /\ disk.file = [r \in Ref |-> IF r \in AtFirst THEN Empty ELSE NoText]
  BY DEF Init
<1>2. Now = {} /\ Cached = {} /\ Live = {}
  BY <1>1 DEF Now, Cached, Live
<1>3. Around = Files(disk)
  BY <1>1, <1>2 DEF Around
<1>4. ASSUME NEW e \in Around
      PROVE  e.ref = Named(CHOOSE name \in UserNames : TRUE) /\ e.text = Empty
  <2>1. PICK r \in Ref : disk.file[r] # NoText /\ e = [ref |-> r, text |-> disk.file[r]]
    BY <1>3 DEF Files
  <2>2. r \in AtFirst /\ e.ref = r /\ e.text = Empty
    BY <1>1, <2>1
  <2> QED BY <2>2 DEF AtFirst, Autosaving, Named
<1>5. Placed
  <2>1. Empty.of <= docs /\ \A name : Named(name).at # "shared"
    BY <1>1 DEF Empty, Named
  <2> QED BY <1>1, <1>4, <2>1 DEF Placed
<1> QED BY <1>1, <1>2, <1>5 DEF Safekept, Queued, Forward, Surviving

LEMMA SafekeptUser ==
  ASSUME Apart, Autosaving, Orderly, Orderly', Safekept, UserStep
  PROVE  Safekept'
<1>1. ASSUME NEW i \in DOMAIN tabs PROVE here
  BY DEF Orderly, Away
<1>2. ASSUME NEW i \in DOMAIN tabs, NEW name \in UserNames,
             \/ RequestRename(i, name) \/ RequestPromotion(i, name) \/ RequestSharedRename(i, name)
             \/ RequestSave(i)
      PROVE  FALSE
  BY <1>2 DEF RequestRename, RequestPromotion, RequestSharedRename, RequestSave, Request,
              Autosaving, SharedKinds
<1>3. ASSUME NEW name \in UserNames, OpenShared(name) PROVE FALSE
  <2>1. Shared(name) \in Ref /\ Shared(name).at = "shared" /\ disk.file[Shared(name)] # NoText
    BY <1>3, RefsAre DEF OpenShared, Shared
  <2>2. [ref |-> Shared(name), text |-> disk.file[Shared(name)]] \in Around
    BY <2>1, AroundHas DEF Files
  <2> QED BY <2>1, <2>2 DEF Safekept, Placed
<1>4. CASE NewScript
  BY <1>4, SafekeptNewScript
<1>5. ASSUME NEW name \in Relations, ConvertGenerated(name) PROVE Safekept'
  BY <1>5, SafekeptConverted
<1>6. ASSUME NEW i \in DOMAIN tabs, Edit(i) \/ CloseTab(i) PROVE Safekept'
  BY <1>1, <1>6, SafekeptEdit, SafekeptClosed
<1>7. ASSUME NEW name \in UserNames, OpenNamed(name) PROVE Safekept'
  BY <1>7, SafekeptReopened
<1>8. CASE SwitchAway
  BY <1>8, SafekeptSwitchedAway
<1>9. CASE SwitchHere
  BY <1>9, SafekeptSwitchedHere
<1>10. ASSUME NEW i \in DOMAIN tabs, RequestSave(i) PROVE FALSE
  BY <1>10 DEF RequestSave, Request, Autosaving, SharedKinds
<1> QED BY <1>2, <1>3, <1>4, <1>5, <1>6, <1>7, <1>8, <1>9, <1>10 DEF UserStep

LEMMA SafekeptTask ==
  ASSUME Apart, Autosaving, Orderly, Orderly', Safekept, TaskStep
  PROVE  Safekept'
<1>1. Types /\ Types'
  BY DEF Orderly
<1>2. \A j \in jobs : j.kind = "save"
  BY DEF Safekept, Queued
<1>3. CASE DebounceFires
  BY <1>3, SafekeptDebounced
<1>4. ASSUME NEW j \in jobs, SaveRefused(j) PROVE Safekept'
  <2>1. UNCHANGED <<tabs, here, docs, kept, disk, written, minted, cache>> /\ jobs' \subseteq jobs
    BY <1>4 DEF SaveRefused, tabVars
  <2> QED BY <1>1, <2>1, SafekeptStill
<1>5. ASSUME NEW j \in jobs, SaveLands(j) PROVE Safekept'
  BY <1>1, <1>5, SafekeptLanded
<1>6. ASSUME NEW j \in jobs, SaveFails(j) PROVE Safekept'
  BY <1>1, <1>6, SafekeptFailed
<1>7. ASSUME NEW j \in jobs,
             \/ RenameFences(j) \/ RenameMoves(j) \/ RenameFails(j) \/ RenameApplied(j)
             \/ SharedWritten(j) \/ SharedMoves(j) \/ SharedCleaned(j) \/ SharedApplied(j)
      PROVE  FALSE
  BY <1>2, <1>7 DEF RenameFences, RenameMoves, RenameFails, RenameApplied,
                    SharedWritten, SharedMoves, SharedCleaned, SharedApplied
<1> QED BY <1>3, <1>4, <1>5, <1>6, <1>7 DEF TaskStep

LEMMA SafekeptNext ==
  ASSUME Apart, Autosaving, Orderly, Safekept, [Next]_vars
  PROVE  Orderly' /\ Safekept'
<1>1. NamesKept
  BY DEF NamesKept, NamesApart, Autosaving
<1>2. Orderly' /\ Types /\ Types'
  BY <1>1, OrderlyNext DEF Orderly
<1>3. CASE UserStep
  BY <1>2, <1>3, SafekeptUser
<1>4. CASE TaskStep
  BY <1>2, <1>4, SafekeptTask
<1>5. ASSUME NEW name \in UserNames, SharedGone(name) PROVE FALSE
  <2>1. Shared(name) \in Ref /\ Shared(name).at = "shared" /\ disk.file[Shared(name)] # NoText
    BY <1>5, RefsAre DEF SharedGone, Shared
  <2>2. [ref |-> Shared(name), text |-> disk.file[Shared(name)]] \in Around
    BY <2>1, AroundHas DEF Files
  <2> QED BY <2>1, <2>2 DEF Safekept, Placed
<1>6. CASE Crash
  BY <1>2, <1>6, SafekeptCrashed
<1>7. CASE UNCHANGED vars
  <2>1. UNCHANGED <<tabs, here, docs, kept, disk, written, minted, cache>> /\ jobs' \subseteq jobs
    BY <1>7 DEF vars, tabVars
  <2> QED BY <1>2, <2>1, SafekeptStill
<1> QED BY <1>2, <1>3, <1>4, <1>5, <1>6, <1>7 DEF Next

(* Once an autosave has put a text on the disk, that text or a later version *)
(* stays there until its tab is closed, whatever is opened, edited and       *)
(* closed in between, in whatever order the autosaves run, wherever one is   *)
(* cut short and whenever the process ends (AutosavedTextSurvives).          *)
THEOREM AutosavedTextSurvivesHolds ==
  ASSUME Apart, Autosaving
  PROVE  Spec => []AutosavedTextSurvives
<1>1. Init => Orderly /\ Safekept
  BY OrderlyInit, SafekeptInit
<1>2. Orderly /\ Safekept /\ [Next]_vars => Orderly' /\ Safekept'
  BY SafekeptNext
<1>3. Orderly /\ Safekept => AutosavedTextSurvives
  <2> SUFFICES ASSUME Orderly, Safekept, NEW t \in kept
               PROVE  \E u \in Findable \ {NoText} : u.of = t.of /\ u.n >= t.n
    BY DEF AutosavedTextSurvives
  <2>1. PICK r \in Ref : Secured([ref |-> r, text |-> t])
    BY DEF Safekept, Surviving
  <2> DEFINE u == disk.file[r]
  <2>2. u # NoText /\ Later(u, t) /\ \E e \in disk.tabs : e.ref = r
    BY <2>1 DEF Secured
  <2>3. PICK e \in disk.tabs : e.ref = r
    BY <2>2
  <2>4. e.ref.at # "shared"
    BY DEF Safekept, Placed
  <2>5. [ref |-> r, text |-> u] \in Loaded(disk)
    BY <2>2, <2>3, <2>4, LoadedHas
  <2> HIDE DEF u
  <2>6. u \in Findable
    BY <2>2, <2>5 DEF Findable, TextsOf
  <2> QED BY <2>2, <2>6 DEF Later
<1> QED BY <1>1, <1>2, <1>3, PTL DEF Spec

-----------------------------------------------------------------------------
(* Autosaved texts survive, where scripts are named.                         *)

(* Writes do not fail and are not cut short, and nothing is saved to the     *)
(* library; all else may be done.                                            *)
Naming == NamesKept /\ Ops \cap ({"torn"} \cup SharedKinds) = {}

\* A text is on the disk, in a tab that would open or under a name.
StoredIn(d, t) ==
  \/ \E e \in Loaded(d) : e.text = t
  \/ \E name \in UserNames : d.file[Named(name)] = t

\* tabs.toml lists each script once, and the named ones have their files.
ListedIn(d) ==
  /\ OneEach(d.tabs)
  /\ \A e \in d.tabs : /\ e.draft => e.ref.at = "shared"
                       /\ e.ref.at = "named" => d.file[e.ref] # NoText

SavesOrRenames ==
  \A j \in jobs : j.kind \in {"save", "rename"} /\ (j.kind = "save" => OneEach(j.entries))

Filedkept ==
  /\ OneTabEach(tabs) /\ OneEach(Cached) /\ SavesOrRenames /\ ListedIn(disk)
  /\ kept \subseteq Text /\ \A t \in kept : StoredIn(disk, t)

LEMMA FiledStep ==
  ASSUME Apart, Types, Types', Filedkept, OneTabEach(tabs'),
         cache' \in {cache, NoCache, Snapshot(tabs), Snapshot(tabs')},
         \A j \in jobs' \ jobs :
           j.kind = "rename" \/ (j.kind = "save" /\ j.entries \in {Snapshot(tabs), Snapshot(tabs')}),
         ListedIn(disk'), kept' \subseteq kept,
         \A t \in Text : StoredIn(disk, t) => StoredIn(disk', t)
  PROVE  Filedkept'
<1>1. OneEach(Snapshot(tabs)) /\ OneEach(Snapshot(tabs'))
  BY SnapshotOneEach DEF Types, Filedkept
<1>2. OneEach(Cached')
  BY <1>1 DEF Cached, Filedkept, OneEach
<1>3. SavesOrRenames'
  BY <1>1 DEF SavesOrRenames, Filedkept
<1>4. kept' \subseteq Text /\ \A t \in kept' : StoredIn(disk', t)
  BY DEF Filedkept
<1> QED BY <1>2, <1>3, <1>4 DEF Filedkept

\* As long as what is new is of the directory.
LEMMA OneTabKept ==
  ASSUME OneTabEach(tabs), SingleTabs(tabs'),
         \A i \in DOMAIN tabs' : tabs'[i].ref.at = "shared" => i \in DOMAIN tabs /\ tabs'[i].ref = tabs[i].ref
  PROVE  OneTabEach(tabs')
<1> SUFFICES ASSUME NEW i \in DOMAIN tabs', NEW k \in DOMAIN tabs', tabs'[i].ref = tabs'[k].ref
             PROVE  i = k
  BY DEF OneTabEach
<1>1. CASE tabs'[i].ref.at # "shared"
  BY <1>1 DEF SingleTabs
<1>2. CASE tabs'[i].ref.at = "shared"
  BY <1>2 DEF OneTabEach
<1> QED BY <1>1, <1>2

LEMMA StoredStill ==
  ASSUME UNCHANGED disk, Filedkept
  PROVE  ListedIn(disk') /\ \A t \in Text : StoredIn(disk, t) => StoredIn(disk', t)
  BY DEF Filedkept

LEMMA FiledNew ==
  ASSUME Apart, Orderly, Orderly', Filedkept, FreeIds # {}, NEW ref \in Ref, ref.at # "shared",
         NEW text \in Text, NEW base \in Text \cup {NoText}, NEW dirty \in BOOLEAN,
         tabs' = WithTab(ref, text, base, dirty)
  PROVE  OneTabEach(tabs')
<1>1. PICK id \in FreeIds : NewTab(id, ref, text, base)
  BY WithTabEffect DEF Orderly, Types
<1>2. /\ DOMAIN tabs' = DOMAIN tabs \cup {id} /\ tabs'[id].ref = ref
      /\ \A i \in DOMAIN tabs : tabs'[i] = tabs[i]
  BY <1>1 DEF NewTab
<1>3. \A i \in DOMAIN tabs' : tabs'[i].ref.at = "shared" => i \in DOMAIN tabs /\ tabs'[i].ref = tabs[i].ref
  BY <1>2
<1> QED BY <1>3, OneTabKept DEF Orderly, Filedkept

LEMMA AutosavedEntries ==
  ASSUME NEW skip, Autosave(skip)
  PROVE  /\ cache' = Snapshot(tabs')
         /\ \A j \in jobs' \ jobs : j.kind = "save" /\ j.entries = Snapshot(tabs')
  BY DEF Autosave, SaveJob

LEMMA FiledNewScript ==
  ASSUME Apart, Orderly, Orderly', Filedkept, NewScript
  PROVE  Filedkept'
<1>1. /\ FreeIds # {} /\ next <= MaxDocs /\ UNCHANGED <<disk, kept>> /\ Autosave(0)
      /\ tabs' = WithTab(Scratch(next), [of |-> docs + 1, n |-> 0], NoText, FALSE)
  BY DEF NewScript, Notify
<1>2. next \in Nat /\ next > 0 /\ docs \in Nat /\ Types /\ Types'
  BY DEF Orderly, Types
<1>3. Scratch(next) \in Ref /\ Scratch(next).at # "shared" /\ [of |-> docs + 1, n |-> 0] \in Text
  <2>1. next \in ScratchNames
    BY <1>1, <1>2 DEF ScratchNames, Apart
  <2> QED BY <1>2, <2>1, RefsAre DEF Text
<1>4. OneTabEach(tabs')
  BY <1>1, <1>3, FiledNew, Zenon
<1> QED BY <1>1, <1>2, <1>4, AutosavedEntries, StoredStill, FiledStep

LEMMA FiledConverted ==
  ASSUME Apart, Orderly, Orderly', Filedkept, NEW name \in Relations, ConvertGenerated(name)
  PROVE  Filedkept'
<1>1. /\ FreeIds # {} /\ UNCHANGED <<disk, kept>> /\ Autosave(0)
      /\ tabs' = WithTab(Scratch(name), [of |-> docs + 1, n |-> 0], NoText, TRUE)
  BY DEF ConvertGenerated, Notify
<1>2. docs \in Nat /\ Types /\ Types'
  BY DEF Orderly, Types
<1>3. Scratch(name) \in Ref /\ Scratch(name).at # "shared" /\ [of |-> docs + 1, n |-> 0] \in Text
  <2>1. name \in ScratchNames
    BY DEF ScratchNames
  <2> QED BY <1>2, <2>1, RefsAre DEF Text
<1>4. OneTabEach(tabs')
  BY <1>1, <1>3, FiledNew, Zenon
<1> QED BY <1>1, <1>2, <1>4, AutosavedEntries, StoredStill, FiledStep

LEMMA FiledReopened ==
  ASSUME Apart, Orderly, Orderly', Filedkept, NEW name \in UserNames, OpenNamed(name)
  PROVE  Filedkept'
<1> DEFINE ref == Named(name)
           text == disk.file[ref]
           new == [ref |-> ref, draft |-> FALSE]
<1>1. /\ FreeIds # {} /\ kept' = kept /\ Autosave(1) /\ text # NoText
      /\ tabs' = WithTab(ref, text, NoText, FALSE)
      /\ disk' = [disk EXCEPT !.tabs = @ \cup {new}]
  BY DEF OpenNamed
<1>2. ref \in Ref /\ ref.at = "named" /\ IsDisk(disk) /\ Types /\ Types'
  BY RefsAre DEF Orderly, Types
<1>3. text \in Text
  BY <1>1, <1>2 DEF IsDisk
<1>4. OneTabEach(tabs')
  <2> HIDE DEF ref, text
  <2>1. ref.at # "shared" /\ FALSE \in BOOLEAN /\ NoText \in Text \cup {NoText}
    BY <1>2
  <2> QED BY <1>1, <1>2, <1>3, <2>1, FiledNew, Zenon
<1>5. disk'.file = disk.file /\ disk'.draft = disk.draft /\ disk'.tabs = disk.tabs \cup {new}
  BY <1>1, <1>2 DEF IsDisk
<1>6. ListedIn(disk')
  <2>1. \A e \in disk.tabs : e.ref = ref => e = new
    <3> SUFFICES ASSUME NEW e \in disk.tabs, e.ref = ref PROVE e = new
      OBVIOUS
    <3>1. e \in [ref : Ref, draft : BOOLEAN]
      BY <1>2 DEF IsDisk
    <3>2. ~ e.draft
      BY <1>2 DEF Filedkept, ListedIn
    <3>3. e = [ref |-> e.ref, draft |-> e.draft] /\ e.draft \in BOOLEAN
      BY <3>1
    <3>4. e.draft = FALSE
      BY <3>2, <3>3, Zenon
    <3> QED BY <3>3, <3>4
  <2>2. new.ref = ref /\ ~ new.draft
    OBVIOUS
  <2>3. OneEach(disk'.tabs)
    <3> HIDE DEF new, ref
    <3> QED BY <1>5, <2>1, <2>2 DEF OneEach, Filedkept, ListedIn
  <2>4. \A e \in disk'.tabs : /\ e.draft => e.ref.at = "shared"
                              /\ e.ref.at = "named" => disk'.file[e.ref] # NoText
    <3>1. \A e \in disk.tabs : /\ e.draft => e.ref.at = "shared"
                               /\ e.ref.at = "named" => disk'.file[e.ref] # NoText
      BY <1>5 DEF Filedkept, ListedIn
    <3>2. disk'.file[new.ref] # NoText
      BY <1>1, <1>5, <2>2
    <3> HIDE DEF new
    <3> QED BY <1>5, <2>2, <3>1, <3>2
  <2> QED BY <2>3, <2>4 DEF ListedIn
<1>7. Loaded(disk) \subseteq Loaded(disk')
  BY <1>5 DEF Loaded
<1>8. \A t \in Text : StoredIn(disk, t) => StoredIn(disk', t)
  BY <1>5, <1>7 DEF StoredIn
<1> HIDE DEF text
<1> QED BY <1>1, <1>2, <1>4, <1>6, <1>8, AutosavedEntries, FiledStep

LEMMA FiledOpenShared ==
  ASSUME Apart, Orderly, Orderly', Filedkept, NEW name \in UserNames, OpenShared(name)
  PROVE  Filedkept'
<1> DEFINE ref == Shared(name)
           text == disk.file[ref]
<1>1. /\ FreeIds # {} /\ UNCHANGED <<disk, kept>> /\ Autosave(0) /\ text # NoText
      /\ tabs' = WithTab(ref, text, text, FALSE) /\ ~ IsOpen(ref)
  BY DEF OpenShared, Notify
<1>2. ref \in Ref /\ IsDisk(disk) /\ Types /\ Types' /\ IsTabs(tabs)
  BY RefsAre DEF Orderly, Types
<1>3. text \in Text /\ text \in Text \cup {NoText}
  BY <1>1, <1>2 DEF IsDisk
<1> HIDE DEF ref, text
<1>4. PICK id \in FreeIds : NewTab(id, ref, text, text)
  BY <1>1, <1>2, <1>3, WithTabEffect
<1>5. OneTabEach(tabs')
  <2>1. /\ DOMAIN tabs' = DOMAIN tabs \cup {id} /\ tabs'[id].ref = ref
        /\ \A i \in DOMAIN tabs : tabs'[i] = tabs[i]
    BY <1>4 DEF NewTab
  <2>2. \A i \in DOMAIN tabs : tabs[i].ref # ref
    BY <1>1 DEF IsOpen
  <2>3. OneTabEach(tabs)
    BY DEF Filedkept
  <2> QED BY <2>1, <2>2, <2>3 DEF OneTabEach
<1> QED BY <1>1, <1>2, <1>5, AutosavedEntries, StoredStill, FiledStep

\* The tabs keep their refs, or some are closed, and nothing is written.
LEMMA FiledAsWere ==
  ASSUME Apart, Orderly, Orderly', Filedkept, DOMAIN tabs' \subseteq DOMAIN tabs,
         \A i \in DOMAIN tabs' : tabs'[i].ref = tabs[i].ref, UNCHANGED disk, kept' \subseteq kept,
         cache' \in {cache, NoCache, Snapshot(tabs), Snapshot(tabs')},
         \A j \in jobs' \ jobs :
           j.kind = "rename" \/ (j.kind = "save" /\ j.entries \in {Snapshot(tabs), Snapshot(tabs')})
  PROVE  Filedkept'
<1>1. OneTabEach(tabs')
  BY DEF OneTabEach, Filedkept
<1> QED BY <1>1, StoredStill, FiledStep DEF Orderly

LEMMA FiledRenaming ==
  ASSUME Apart, Orderly, Orderly', Filedkept, UNCHANGED <<tabs, cache, disk, kept>>,
         \A j \in jobs' \ jobs : j.kind = "rename"
  PROVE  Filedkept'
<1>1. SavesOrRenames'
  BY DEF Filedkept, SavesOrRenames
<1> QED BY <1>1 DEF Filedkept, Cached

LEMMA FiledLanded ==
  ASSUME Apart, Orderly, Orderly', Filedkept, NEW j \in jobs, SaveLands(j)
  PROVE  Filedkept'
<1>1. /\ j.kind = "save" /\ UNCHANGED <<tabs, cache>> /\ jobs' \subseteq jobs
      /\ disk' = Persisted(disk, j.entries) /\ kept' \subseteq TextsOf(j.entries)
  BY DEF SaveLands, tabVars
<1>2. IsDisk(disk) /\ j.entries \in Snapshots /\ OneEach(j.entries)
  BY <1>1, JobType DEF Orderly, Types, SaveJobs, Filedkept, SavesOrRenames
<1>3. disk'.tabs = {Flag(e) : e \in j.entries} /\ \A e \in j.entries : AgreesOn(disk', e)
  BY <1>1, <1>2, PersistedIs
<1>4. Loaded(disk') = j.entries
  BY <1>2, <1>3, LoadedIs
<1>5. ListedIn(disk')
  <2>1. \A x \in disk'.tabs : \E e \in j.entries : x = Flag(e) /\ x.ref = e.ref
    BY <1>3, FlagIs
  <2>2. OneEach(disk'.tabs)
    BY <1>2, <2>1 DEF OneEach
  <2>3. ASSUME NEW x \in disk'.tabs
        PROVE  /\ x.draft => x.ref.at = "shared"
               /\ x.ref.at = "named" => disk'.file[x.ref] # NoText
    <3>1. PICK e \in j.entries : x = Flag(e) /\ x.ref = e.ref
      BY <2>1
    <3>2. x.draft => x.ref.at = "shared"
      BY <3>1, FlagIs
    <3>3. e.ref.at # "shared" => e.text # NoText
      BY <1>2 DEF Snapshots, Entry
    <3>4. x.ref.at = "named" => disk'.file[x.ref] # NoText
      BY <1>3, <3>1, <3>3 DEF AgreesOn
    <3> QED BY <3>2, <3>4
  <2> QED BY <2>2, <2>3 DEF ListedIn
<1>6. kept' \subseteq Text /\ \A t \in kept' : StoredIn(disk', t)
  <2>1. \A t \in kept' : t # NoText /\ \E e \in j.entries : e.text = t
    BY <1>1 DEF TextsOf
  <2>2. \A e \in j.entries : e.text \in Text \cup {NoText}
    BY <1>2 DEF Snapshots, Entry
  <2> QED BY <1>4, <2>1, <2>2 DEF StoredIn
<1> QED BY <1>1, <1>5, <1>6 DEF Filedkept, Cached, SavesOrRenames

\* A scratch script is given its name.
LEMMA FiledMoved ==
  ASSUME Apart, Naming, Orderly, Orderly', Filedkept, NEW j \in jobs, RenameMoves(j)
  PROVE  Filedkept'
<1> DEFINE from == j.from
           to == j.to
           moved == [j EXCEPT !.stage = "apply"]
<1>1. /\ j.kind = "rename" /\ UNCHANGED <<tabs, cache, kept>> /\ CanMove(j)
      /\ disk' = Retargeted(Moved(disk, from, to), from, to)
      /\ jobs' = (jobs \ {j}) \cup {moved}
  BY DEF RenameMoves, tabVars, Naming
<1>2. /\ j \in RenameJobs /\ from \in Ref /\ from.at = "scratch" /\ to \in Ref /\ to.at = "named"
      /\ Types /\ Types' /\ IsDisk(disk)
  BY <1>1, JobType DEF RenameJobs, Orderly, Renaming, Types
<1>3. disk.file[to] = NoText /\ disk.file[from] # NoText
  BY <1>1 DEF CanMove
<1>4. moved.kind = "rename"
  BY <1>2 DEF RenameJobs
<1> HIDE DEF moved, from, to
<1> DEFINE Moves(e) == IF e.ref = from THEN [e EXCEPT !.ref = to] ELSE e
           m == Moved(disk, from, to)
<1>5. /\ m.file = [disk.file EXCEPT ![to] = disk.file[from], ![from] = NoText]
      /\ m.draft = disk.draft /\ m.tabs = disk.tabs /\ IsDisk(m)
  BY <1>2, MovedType DEF Moved, IsDisk
<1>6. /\ disk'.file = [disk.file EXCEPT ![to] = disk.file[from], ![from] = NoText]
      /\ disk'.draft = disk.draft /\ disk'.tabs = {Moves(e) : e \in disk.tabs}
  <2> HIDE DEF m
  <2>1. disk' = [m EXCEPT !.tabs = {Moves(e) : e \in m.tabs}]
    BY <1>1 DEF Retargeted, m
  <2> QED BY <1>5, <2>1 DEF IsDisk
<1>7. /\ disk'.file[to] = disk.file[from] /\ disk'.file[from] = NoText
      /\ \A r \in Ref \ {from, to} : disk'.file[r] = disk.file[r]
  BY <1>2, <1>6 DEF IsDisk
<1>8. \A e \in disk.tabs : e.ref # to /\ e \in [ref : Ref, draft : BOOLEAN]
  BY <1>2, <1>3 DEF Filedkept, ListedIn, IsDisk
<1>9. \A e \in disk.tabs : /\ e.ref = from => Moves(e).ref = to /\ ~ Moves(e).draft
                           /\ e.ref # from => Moves(e) = e
  <2> SUFFICES ASSUME NEW e \in disk.tabs, e.ref = from PROVE Moves(e).ref = to /\ ~ Moves(e).draft
    OBVIOUS
  <2>1. ~ e.draft /\ e \in [ref : Ref, draft : BOOLEAN]
    BY <1>2, <1>8 DEF Filedkept, ListedIn
  <2>2. Moves(e).ref = to /\ Moves(e).draft = e.draft
    BY <2>1
  <2> QED BY <2>1, <2>2
<1>10. ASSUME NEW e \in disk.tabs, NEW x \in disk.tabs, Moves(e).ref = Moves(x).ref PROVE e = x
  <2>1. e.ref = x.ref
    BY <1>8, <1>9, <1>10
  <2> QED BY <2>1 DEF Filedkept, ListedIn, OneEach
<1> HIDE DEF Moves, m
<1>11. ListedIn(disk')
  <2>1. OneEach(disk'.tabs)
    BY <1>6, <1>10 DEF OneEach
  <2>2. ASSUME NEW e \in disk.tabs
        PROVE  /\ Moves(e).draft => Moves(e).ref.at = "shared"
               /\ Moves(e).ref.at = "named" => disk'.file[Moves(e).ref] # NoText
    <3>1. CASE e.ref = from
      BY <1>3, <1>7, <1>9, <3>1
    <3>2. CASE e.ref # from
      <4>1. Moves(e) = e /\ e.ref \in Ref \ {from, to}
        BY <1>8, <1>9, <3>2
      <4>2. disk'.file[e.ref] = disk.file[e.ref]
        BY <1>7, <4>1
      <4>3. /\ e.draft => e.ref.at = "shared"
            /\ e.ref.at = "named" => disk.file[e.ref] # NoText
        BY DEF Filedkept, ListedIn
      <4> QED BY <4>1, <4>2, <4>3
    <3> QED BY <3>1, <3>2
  <2> QED BY <1>6, <2>1, <2>2 DEF ListedIn
<1>12. ASSUME NEW t \in Text, StoredIn(disk, t) PROVE StoredIn(disk', t)
  <2>0. to = Named(to.name) /\ to.name \in UserNames
    BY <1>2, RefShape
  <2>1. CASE \E name \in UserNames : disk.file[Named(name)] = t
    <3>1. PICK name \in UserNames : disk.file[Named(name)] = t
      BY <2>1
    <3>2. Named(name) \in Ref /\ Named(name) # from /\ Named(name) # to
      BY <1>2, <1>3, <3>1, RefsAre DEF Apart, Named
    <3> QED BY <1>7, <3>1, <3>2 DEF StoredIn
  <2>2. CASE \E e \in Loaded(disk) : e.text = t
    <3> DEFINE textOf(d, e) == IF e.ref.at # "shared" THEN d.file[e.ref]
                               ELSE IF e.draft THEN d.draft[e.ref.name] ELSE NoText
               shown(d) == {x \in d.tabs : (x.ref.at # "shared" \/ x.draft) => textOf(d, x) # NoText}
    <3>1. PICK e \in disk.tabs : e \in shown(disk) /\ textOf(disk, e) = t
      BY <2>2 DEF Loaded
    <3>2. CASE e.ref = from
      <4>1. disk'.file[Named(to.name)] = t
        BY <1>2, <1>7, <2>0, <3>1, <3>2
      <4> QED BY <2>0, <4>1 DEF StoredIn
    <3>3. CASE e.ref # from
      <4>1. Moves(e) = e /\ e.ref \in Ref \ {from, to} /\ e \in disk'.tabs
        BY <1>6, <1>8, <1>9, <3>3
      <4>2. textOf(disk', e) = textOf(disk, e)
        BY <1>6, <1>7, <4>1
      <4>3. e \in shown(disk')
        BY <3>1, <4>1, <4>2
      <4>4. [ref |-> e.ref, text |-> textOf(disk', e)] \in Loaded(disk')
        BY <4>3 DEF Loaded
      <4>5. [ref |-> e.ref, text |-> textOf(disk', e)].text = t
        BY <3>1, <4>2
      <4> QED BY <4>4, <4>5 DEF StoredIn
    <3> QED BY <3>2, <3>3
  <2> QED BY <1>12, <2>1, <2>2 DEF StoredIn
<1>13. OneTabEach(tabs') /\ OneEach(Cached')
  BY <1>1 DEF Filedkept, Cached
<1>14. SavesOrRenames'
  BY <1>1, <1>4 DEF Filedkept, SavesOrRenames
<1>15. kept' \subseteq Text /\ \A t \in kept' : StoredIn(disk', t)
  BY <1>1, <1>12 DEF Filedkept
<1> QED BY <1>11, <1>13, <1>14, <1>15 DEF Filedkept

LEMMA FiledApplied ==
  ASSUME Apart, Orderly, Orderly', Filedkept, NEW j \in jobs, RenameApplied(j)
  PROVE  Filedkept'
<1>1. UNCHANGED <<disk, kept>> /\ j \in RenameJobs /\ Types /\ Types'
  BY JobType DEF RenameApplied, Orderly
<1>2. CASE j.tab \in DOMAIN tabs
  <2>1. /\ tabs' = [tabs EXCEPT ![j.tab].ref = j.to, ![j.tab].base = NoText]
        /\ jobs' = (jobs \ {j}) \cup {SaveJob(minted + 1, Snapshot(tabs'))}
        /\ cache' = Snapshot(tabs')
    BY <1>2 DEF RenameApplied
  <2>2. /\ DOMAIN tabs' = DOMAIN tabs /\ tabs'[j.tab].ref = j.to
        /\ \A i \in DOMAIN tabs : i # j.tab => tabs'[i] = tabs[i]
    <3>1. tabs[j.tab] \in Tab
      BY <1>1, <1>2 DEF Types, IsTabs
    <3> QED BY <1>2, <2>1, <3>1 DEF Tab
  <2>3. j.to.at # "shared"
    BY <1>1 DEF RenameJobs
  <2>4. OneTabEach(tabs')
    <3>1. \A i \in DOMAIN tabs' : tabs'[i].ref.at = "shared" => i \in DOMAIN tabs /\ tabs'[i].ref = tabs[i].ref
      BY <2>2, <2>3
    <3> QED BY <3>1, OneTabKept DEF Orderly, Filedkept
  <2>5. \A k \in jobs' \ jobs : k.kind = "save" /\ k.entries = Snapshot(tabs')
    BY <2>1 DEF SaveJob
  <2> QED BY <1>1, <2>1, <2>4, <2>5, StoredStill, FiledStep
<1>3. CASE j.tab \notin DOMAIN tabs
  <2>1. jobs' = jobs \ {j} /\ tabs' = tabs /\ cache' = cache
    BY <1>3 DEF RenameApplied
  <2> QED BY <1>1, <2>1, FiledAsWere
<1> QED BY <1>2, <1>3

LEMMA FiledSwitchedHere ==
  ASSUME Apart, Orderly, Orderly', Filedkept, SwitchHere
  PROVE  Filedkept'
<1>1. ~ here /\ UNCHANGED <<cache, jobs, disk, kept>>
  BY DEF SwitchHere
<1>2. Types /\ Types' /\ IsTabs(tabs) /\ IsDisk(disk) /\ docs \in Nat
  BY DEF Orderly, Types
<1>3. OneTabEach(tabs')
  <2>1. CASE SwitchedFrom = {}
    <3>1. /\ FreeIds # {} /\ docs < MaxDocs
          /\ tabs' = WithTab(Scratch(1), [of |-> docs + 1, n |-> 0], NoText, FALSE)
      BY <2>1 DEF SwitchHere, SwitchedFrom
    <3>2. Scratch(1) \in Ref /\ Scratch(1).at # "shared" /\ [of |-> docs + 1, n |-> 0] \in Text
      <4>1. 1 \in ScratchNames
        BY <1>2, <3>1 DEF ScratchNames, Apart
      <4> QED BY <1>2, <4>1, RefsAre DEF Text
    <3> QED BY <3>1, <3>2, FiledNew, Zenon
  <2>2. CASE SwitchedFrom # {}
    <3>1. Cardinality(SwitchedFrom) <= Cardinality(FreeIds) /\ tabs' = RestoredTabs(SwitchedFrom)
      BY <2>2 DEF SwitchHere, SwitchedFrom
    <3>2. SwitchedFrom \in Snapshots
      BY <1>2, SwitchedFromType
    <3>3. PICK ids \in [SwitchedFrom -> FreeIds] : RestoredAs(SwitchedFrom, ids)
      BY <1>2, <3>1, <3>2, RestoredTabsEffect
    <3>4. OneEach(SwitchedFrom)
      <4>1. CASE cache # NoCache
        BY <4>1 DEF SwitchedFrom, Cached, Filedkept
      <4>2. CASE cache = NoCache
        <5>1. OneEach(Loaded(disk))
          BY <1>2, LoadedShared DEF Filedkept, ListedIn, Listing
        <5> QED BY <4>2, <5>1 DEF SwitchedFrom
      <4> QED BY <4>1, <4>2
    <3>5. \A e \in SwitchedFrom : tabs'[ids[e]].ref = e.ref
      <4>1. \A e \in SwitchedFrom : tabs'[ids[e]] = Restored(e, disk)
        BY <3>3 DEF RestoredAs
      <4>2. \A e : Restored(e, disk).ref = e.ref
        BY DEF Restored
      <4> QED BY <4>1, <4>2
    <3> QED BY <3>3, <3>4, <3>5 DEF RestoredAs, OneEach, OneTabEach
  <2> QED BY <2>1, <2>2
<1>4. cache' = cache /\ jobs' \ jobs = {} /\ kept' \subseteq kept
  BY <1>1
<1> QED BY <1>1, <1>2, <1>3, <1>4, StoredStill, FiledStep

LEMMA FiledGone ==
  ASSUME Apart, Orderly, Orderly', Filedkept, NEW name \in UserNames, SharedGone(name)
  PROVE  Filedkept'
<1>1. /\ UNCHANGED <<tabs, cache, jobs, kept>> /\ disk' = [disk EXCEPT !.file[Shared(name)] = NoText]
      /\ Types /\ Types' /\ IsDisk(disk)
  BY DEF SharedGone, tabVars, Orderly, Types
<1>2. /\ disk'.tabs = disk.tabs /\ disk'.draft = disk.draft
      /\ \A r \in Ref : r.at # "shared" => disk'.file[r] = disk.file[r]
  BY <1>1, RefsAre DEF IsDisk, Shared
<1>3. \A e \in disk.tabs : e.ref \in Ref
  BY <1>1 DEF IsDisk
<1>4. ListedIn(disk')
  BY <1>2, <1>3 DEF ListedIn, Filedkept
<1>5. Loaded(disk') = Loaded(disk)
  BY <1>2, <1>3 DEF Loaded
<1>6. \A n \in UserNames : disk'.file[Named(n)] = disk.file[Named(n)]
  BY <1>2, RefsAre
<1>7. \A t \in Text : StoredIn(disk, t) => StoredIn(disk', t)
  BY <1>5, <1>6 DEF StoredIn
<1>8. OneTabEach(tabs') /\ cache' = cache /\ jobs' \ jobs = {} /\ kept' \subseteq kept
  BY <1>1 DEF Filedkept
<1> QED BY <1>1, <1>4, <1>7, <1>8, FiledStep

LEMMA FiledUser ==
  ASSUME Apart, Naming, Orderly, Orderly', Filedkept, UserStep
  PROVE  Filedkept'
<1>1. ASSUME NEW i \in DOMAIN tabs, NEW name \in UserNames,
             RequestPromotion(i, name) \/ RequestSharedRename(i, name)
      PROVE  FALSE
  BY <1>1 DEF RequestPromotion, RequestSharedRename, Request, Naming, SharedKinds
<1>2. ASSUME NEW i \in DOMAIN tabs, RequestSave(i) PROVE FALSE
  BY <1>2 DEF RequestSave, Request, Naming, SharedKinds
<1>3. CASE NewScript
  BY <1>3, FiledNewScript
<1>4. ASSUME NEW name \in Relations, ConvertGenerated(name) PROVE Filedkept'
  BY <1>4, FiledConverted
<1>5. ASSUME NEW i \in DOMAIN tabs, Edit(i) PROVE Filedkept'
  <2>1. IsTabs(tabs)
    BY DEF Orderly, Types
  <2>2. DOMAIN tabs' = DOMAIN tabs /\ \A k \in DOMAIN tabs : tabs'[k].ref = tabs[k].ref
    BY <1>5, <2>1, EditEffect
  <2>3. UNCHANGED <<disk, kept>> /\ (Autosave(0) \/ UNCHANGED <<jobs, cache>>)
    BY <1>5 DEF Edit, Notify
  <2> QED BY <2>2, <2>3, AutosavedEntries, FiledAsWere
<1>6. ASSUME NEW i \in DOMAIN tabs, CloseTab(i) PROVE Filedkept'
  <2>1. /\ tabs' = [k \in DOMAIN tabs \ {i} |-> tabs[k]] /\ Autosave(0)
        /\ UNCHANGED disk /\ kept' \subseteq kept
    BY <1>6 DEF CloseTab, Notify
  <2> QED BY <2>1, AutosavedEntries, FiledAsWere
<1>7. ASSUME NEW name \in UserNames, OpenNamed(name) PROVE Filedkept'
  BY <1>7, FiledReopened
<1>8. ASSUME NEW name \in UserNames, OpenShared(name) PROVE Filedkept'
  BY <1>8, FiledOpenShared
<1>9. ASSUME NEW i \in DOMAIN tabs, NEW name \in UserNames, RequestRename(i, name) PROVE Filedkept'
  <2>1. UNCHANGED <<tabs, cache, disk, kept>> /\ \A j \in jobs' \ jobs : j.kind = "rename"
    BY <1>9 DEF RequestRename, tabVars
  <2> QED BY <2>1, FiledRenaming
<1>10. CASE SwitchAway
  <2>1. /\ UNCHANGED <<disk, kept>> /\ tabs' = NoTabs /\ cache' = Snapshot(tabs)
        /\ \A j \in jobs' \ jobs : j.kind = "save" /\ j.entries = Snapshot(tabs)
    BY <1>10 DEF SwitchAway, SaveJob
  <2> QED BY <2>1, FiledAsWere DEF NoTabs
<1>11. CASE SwitchHere
  BY <1>11, FiledSwitchedHere
<1> QED BY <1>1, <1>2, <1>3, <1>4, <1>5, <1>6, <1>7, <1>8, <1>9, <1>10, <1>11 DEF UserStep

LEMMA FiledTask ==
  ASSUME Apart, Naming, Orderly, Orderly', Filedkept, TaskStep
  PROVE  Filedkept'
<1>1. \A j \in jobs : j.kind \in {"save", "rename"}
  BY DEF Filedkept, SavesOrRenames
<1>2. CASE DebounceFires
  <2>1. UNCHANGED <<tabs, disk, kept>> /\ (Autosave(0) \/ UNCHANGED <<jobs, cache>>)
    BY <1>2 DEF DebounceFires, Notify
  <2> QED BY <2>1, AutosavedEntries, FiledAsWere
<1>3. ASSUME NEW j \in jobs, SaveRefused(j) \/ RenameFails(j) PROVE Filedkept'
  <2>1. UNCHANGED <<tabs, cache, disk, kept>> /\ jobs' \subseteq jobs
    BY <1>3 DEF SaveRefused, RenameFails, tabVars
  <2> QED BY <2>1, FiledAsWere
<1>4. ASSUME NEW j \in jobs, SaveLands(j) PROVE Filedkept'
  BY <1>4, FiledLanded
<1>5. ASSUME NEW j \in jobs, SaveFails(j) PROVE FALSE
  BY <1>5 DEF SaveFails, Naming
<1>6. ASSUME NEW j \in jobs, RenameFences(j) PROVE Filedkept'
  <2>1. UNCHANGED <<tabs, cache, disk, kept>> /\ jobs' = (jobs \ {j}) \cup {[j EXCEPT !.stage = "move"]}
    BY <1>6 DEF RenameFences, tabVars
  <2>2. j.kind = "rename" /\ j \in RenameJobs
    BY <1>6, JobType DEF RenameFences, Orderly
  <2>3. [j EXCEPT !.stage = "move"].kind = "rename"
    BY <2>2 DEF RenameJobs
  <2>4. \A k \in jobs' \ jobs : k.kind = "rename"
    BY <2>1, <2>3
  <2> QED BY <2>1, <2>4, FiledRenaming
<1>7. ASSUME NEW j \in jobs, RenameMoves(j) PROVE Filedkept'
  BY <1>7, FiledMoved
<1>8. ASSUME NEW j \in jobs, RenameApplied(j) PROVE Filedkept'
  BY <1>8, FiledApplied
<1>9. ASSUME NEW j \in jobs,
             SharedWritten(j) \/ SharedMoves(j) \/ SharedCleaned(j) \/ SharedApplied(j)
      PROVE  FALSE
  BY <1>1, <1>9 DEF SharedWritten, SharedMoves, SharedCleaned, SharedApplied
<1> QED BY <1>2, <1>3, <1>4, <1>5, <1>6, <1>7, <1>8, <1>9 DEF TaskStep

LEMMA FiledNext ==
  ASSUME Apart, Naming, Orderly, Filedkept, [Next]_vars
  PROVE  Orderly' /\ Filedkept'
<1>1. Orderly'
  BY OrderlyNext DEF Naming
<1>2. CASE UserStep
  BY <1>1, <1>2, FiledUser
<1>3. CASE TaskStep
  BY <1>1, <1>3, FiledTask
<1>4. ASSUME NEW name \in UserNames, SharedGone(name) PROVE Filedkept'
  BY <1>1, <1>4, FiledGone
<1>5. CASE Crash
  <2>1. UNCHANGED <<disk, kept>> /\ tabs' = NoTabs /\ cache' = NoCache /\ jobs' = {}
    BY <1>5 DEF Crash, Naming
  <2> QED BY <1>1, <2>1, FiledAsWere DEF NoTabs
<1>6. CASE UNCHANGED vars
  <2>1. UNCHANGED <<tabs, cache, jobs, disk, kept>>
    BY <1>6 DEF vars, tabVars
  <2> QED BY <1>1, <2>1, FiledAsWere
<1> QED BY <1>1, <1>2, <1>3, <1>4, <1>5, <1>6 DEF Next

LEMMA FiledInit == Init => Filedkept
  BY DEF Init, NoTabs, Filedkept, OneTabEach, OneEach, Cached, SavesOrRenames, ListedIn

(* The same, where scripts are saved under names: a rename deletes no text   *)
(* that was autosaved, nor replaces one, whatever has been saved under its   *)
(* old or its new name by the time it runs (AutosavedTextSurvives).          *)
THEOREM NamedTextSurvivesHolds ==
  ASSUME Apart, Naming
  PROVE  Spec => []AutosavedTextSurvives
<1>1. Init => Orderly /\ Filedkept
  BY OrderlyInit, FiledInit
<1>2. Orderly /\ Filedkept /\ [Next]_vars => Orderly' /\ Filedkept'
  BY FiledNext
<1>3. Orderly /\ Filedkept => AutosavedTextSurvives
  <2> SUFFICES ASSUME Orderly, Filedkept, NEW t \in kept
               PROVE  \E u \in Findable \ {NoText} : u.of = t.of /\ u.n >= t.n
    BY DEF AutosavedTextSurvives
  <2>1. t \in Text /\ t # NoText /\ StoredIn(disk, t)
    BY DEF Filedkept, Apart
  <2>2. t \in Findable
    <3>1. CASE \E e \in Loaded(disk) : e.text = t
      BY <2>1, <3>1 DEF Findable, TextsOf
    <3>2. ASSUME NEW name \in UserNames, disk.file[Named(name)] = t PROVE t \in Findable
      <4>1. Named(name) \in DOMAIN disk.file /\ Named(name).at # "scratch"
        BY RefsAre DEF Orderly, Types, IsDisk, Named
      <4> QED BY <3>2, <4>1 DEF Findable
    <3> QED BY <2>1, <3>1, <3>2 DEF StoredIn
  <2>3. t.n >= t.n
    BY <2>1 DEF Text
  <2> QED BY <2>1, <2>2, <2>3
<1> QED BY <1>1, <1>2, <1>3, PTL DEF Spec
=============================================================================
