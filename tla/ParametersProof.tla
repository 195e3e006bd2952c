-------------------------- MODULE ParametersProof --------------------------
(* What is proved of the values remembered for a script's parameters: cache  *)
(* and files are histories of the runs confirmed, for any scripts, texts and *)
(* values, any number of connections, runs and writes under way.             *)
EXTENDS Parameters, TLAPS, Recursion

-----------------------------------------------------------------------------
(* One list.                                                                 *)

KeepStep(list, v, n, kept) == IF list[n] = v THEN kept ELSE Append(kept, list[n])
Keeps(list, v, f) ==
  f = [n \in 0..Len(list) |-> IF n = 0 THEN <<>> ELSE KeepStep(list, v, n, f[n - 1])]

\* The function that Others defines by recursion exists.
LEMMA OthersSteps ==
  ASSUME NEW S, NEW list \in Seq(S), NEW v
  PROVE  \E f : Keeps(list, v, f) /\ Others(list, v) = f[Len(list)]
<1> DEFINE N == Len(list)
           T == Seq(S)
           none == <<>>
           step == [i \in 1..N |-> [r \in T |-> KeepStep(list, v, i, r)]]
           kept == CHOOSE f : Keeps(list, v, f)
<1>1. N \in Nat /\ none \in T
  OBVIOUS
<1>2. \A i \in 1..N, r \in T : KeepStep(list, v, i, r) \in T
  BY DEF KeepStep
<1>3. step \in [1..N -> [T -> T]]
  BY <1>2
<1>4. PICK f \in [0..N -> T] :
        f[0] = none /\ \A i \in 1..N : f[i] = step[i][f[i - 1]]
  <2> HIDE DEF step, N, T, none
  <2> QED BY <1>1, <1>3, RecursiveFunction
<1>5. Keeps(list, v, f)
  <2>1. ASSUME NEW i \in 1..N PROVE step[i][f[i - 1]] = KeepStep(list, v, i, f[i - 1])
    <3>1. f[i - 1] \in T
      BY <1>1
    <3> HIDE DEF T
    <3> QED BY <3>1
  <2> HIDE DEF step
  <2>2. f = [i \in 0..N |-> IF i = 0 THEN none ELSE KeepStep(list, v, i, f[i - 1])]
    <3> HIDE DEF none, T
    <3> QED BY <1>1, <1>4, <2>1
  <2> QED BY <2>2 DEF Keeps
<1>6. Keeps(list, v, kept)
  BY <1>5
<1>7. Others(list, v) = kept[N]
  BY Zenon DEF Others, Keeps, KeepStep
<1> QED BY <1>6, <1>7

\* Of a list of different values Others leaves out one place at most: the
\* place "at", one after the last if the value is not in the list.
LEMMA OthersEffect ==
  ASSUME NEW S, NEW list \in Seq(S), NEW v,
         \A m, n \in DOMAIN list : list[m] = list[n] => m = n
  PROVE  \E at \in 1..Len(list) + 1 :
           /\ \A n \in DOMAIN list : list[n] = v <=> n = at
           /\ Others(list, v) \in Seq(S)
           /\ Len(Others(list, v)) = IF at \in DOMAIN list THEN Len(list) - 1 ELSE Len(list)
           /\ \A n \in DOMAIN Others(list, v) :
                Others(list, v)[n] = list[IF n < at THEN n ELSE n + 1]
<1> DEFINE N == Len(list)
<1>1. N \in Nat /\ DOMAIN list = 1..N /\ \A n \in 1..N : list[n] \in S
  OBVIOUS
<1>2. PICK at \in 1..N + 1 : \A n \in 1..N : list[n] = v <=> n = at
  <2>1. CASE \E n \in 1..N : list[n] = v
    BY <1>1, <2>1
  <2>2. CASE ~ \E n \in 1..N : list[n] = v
    <3>1. N + 1 \in 1..N + 1 /\ N + 1 \notin 1..N
      BY <1>1
    <3> QED BY <2>2, <3>1
  <2> QED BY <2>1, <2>2
<1>3. PICK f : Keeps(list, v, f) /\ Others(list, v) = f[N]
  BY OthersSteps
<1> DEFINE Kept(k, r) ==
             /\ r \in Seq(S)
             /\ Len(r) = IF k < at THEN k ELSE k - 1
             /\ \A n \in DOMAIN r : r[n] = list[IF n < at THEN n ELSE n + 1]
           P == {k \in 0..N : Kept(k, f[k])}
<1>4. 0 \in P
  <2>1. f[0] = <<>>
    BY <1>1, <1>3 DEF Keeps
  <2>2. <<>> \in Seq(S) /\ Len(<<>>) = 0 /\ DOMAIN <<>> = {}
    OBVIOUS
  <2>3. 0 < at
    BY <1>1, <1>2
  <2> DEFINE none == f[0]
  <2>4. none \in Seq(S) /\ Len(none) = 0 /\ DOMAIN none = {}
    BY <2>1, <2>2
  <2> HIDE DEF none
  <2>5. Kept(0, none)
    BY <2>3, <2>4
  <2>6. 0 \in 0..N
    BY <1>1
  <2> HIDE DEF Kept, N
  <2> QED BY <2>5, <2>6 DEF none
<1>5. ASSUME NEW k \in 1..N, k - 1 \in P PROVE k \in P
  <2>1. f[k] = KeepStep(list, v, k, f[k - 1])
    BY <1>1, <1>3 DEF Keeps
  <2> DEFINE r == f[k - 1]
  <2>2. Kept(k - 1, r)
    BY <1>5
  <2>3. list[k] \in S
    BY <1>1
  <2> HIDE DEF r, N
  <2>4. CASE list[k] = v
    <3>1. k = at
      BY <1>2, <2>4
    <3>2. f[k] = r
      BY <2>1, <2>4 DEF KeepStep, r
    <3> QED BY <1>1, <1>2, <2>2, <3>1, <3>2
  <2>5. CASE list[k] # v
    <3>1. k # at
      BY <1>2, <2>5
    <3>2. f[k] = Append(r, list[k])
      BY <2>1, <2>5 DEF KeepStep, r
    <3>3. /\ Append(r, list[k]) \in Seq(S)
          /\ Len(Append(r, list[k])) = Len(r) + 1
          /\ \A n \in 1..Len(r) : Append(r, list[k])[n] = r[n]
          /\ Append(r, list[k])[Len(r) + 1] = list[k]
      BY <2>2, <2>3
    <3>4. Len(r) + 1 = IF k < at THEN k ELSE k - 1
      BY <1>1, <1>2, <2>2, <3>1
    <3>5. ASSUME NEW n \in 1..Len(r) + 1
          PROVE  Append(r, list[k])[n] = list[IF n < at THEN n ELSE n + 1]
      <4>1. CASE n \in 1..Len(r)
        BY <2>2, <3>3, <4>1
      <4>2. CASE n = Len(r) + 1
        <5>1. k = IF n < at THEN n ELSE n + 1
          BY <1>1, <1>2, <3>1, <3>4, <4>2
        <5> QED BY <3>3, <4>2, <5>1
      <4> QED BY <2>2, <4>1, <4>2
    <3>6. DOMAIN Append(r, list[k]) = 1..Len(r) + 1
      BY <2>2, <3>3
    <3>7. Kept(k, f[k])
      BY <3>2, <3>3, <3>4, <3>5, <3>6
    <3> QED BY <3>7 DEF N
  <2> QED BY <2>4, <2>5
<1>6. 0..N \subseteq P
  <2> HIDE DEF P, N
  <2> QED BY <1>1, <1>4, <1>5, UpTo
<1>7. Kept(N, f[N])
  BY <1>1, <1>6
<1> HIDE DEF N
<1> QED
  <2>1. (IF N < at THEN N ELSE N - 1) = IF at \in 1..N THEN N - 1 ELSE N
    BY <1>1, <1>2
  <2> QED BY <1>1, <1>2, <1>3, <1>7, <2>1 DEF N

\* A value typed is at the front, before what the list had of other values, in
\* their order: the place n has what was at From(gone, n).
From(gone, n) == IF n <= gone THEN n - 1 ELSE n

PutFirst(list, v, new, gone) ==
  LET all == IF gone \in DOMAIN list THEN Len(list) ELSE Len(list) + 1
  IN /\ \A n \in DOMAIN list : list[n] = v <=> n = gone
     /\ new[1] = v
     /\ Len(new) = IF all > Cap THEN Cap ELSE all
     /\ \A n \in 2..Len(new) :
          From(gone, n) \in DOMAIN list /\ new[n] = list[From(gone, n)]

LEMMA RecordedList ==
  ASSUME NEW V, NEW list \in Seq(V), NEW v \in V, Cap \in Nat, Cap > 0,
         \A m, n \in DOMAIN list : list[m] = list[n] => m = n
  PROVE  /\ Capped(<<v>> \o Others(list, v)) \in Seq(V)
         /\ \E gone \in 1..Len(list) + 1 :
              PutFirst(list, v, Capped(<<v>> \o Others(list, v)), gone)
<1> DEFINE others == Others(list, v)
           whole == <<v>> \o others
           new == Capped(whole)
           N == Len(list)
<1>1. N \in Nat /\ DOMAIN list = 1..N
  OBVIOUS
<1>2. PICK at \in 1..N + 1 :
        /\ \A n \in 1..N : list[n] = v <=> n = at
        /\ others \in Seq(V)
        /\ Len(others) = IF at \in 1..N THEN N - 1 ELSE N
        /\ \A n \in DOMAIN others : others[n] = list[IF n < at THEN n ELSE n + 1]
  <2>1. PICK at \in 1..Len(list) + 1 :
          /\ \A n \in DOMAIN list : list[n] = v <=> n = at
          /\ Others(list, v) \in Seq(V)
          /\ Len(Others(list, v)) = IF at \in DOMAIN list THEN Len(list) - 1 ELSE Len(list)
          /\ \A n \in DOMAIN Others(list, v) :
               Others(list, v)[n] = list[IF n < at THEN n ELSE n + 1]
    <3> HIDE DEF N, others
    <3> QED BY OthersEffect
  <2> QED BY <1>1, <2>1
<1> DEFINE all == IF at \in 1..N THEN N ELSE N + 1
<1> HIDE DEF N, others
<1>3. /\ whole \in Seq(V) /\ Len(whole) = Len(others) + 1 /\ whole[1] = v
      /\ \A n \in 2..Len(whole) : whole[n] = others[n - 1]
  BY <1>2
<1>4. Len(whole) = all
  BY <1>1, <1>2, <1>3
<1>5. ASSUME NEW n \in 2..all PROVE From(at, n) \in 1..N /\ whole[n] = list[From(at, n)]
  <2>1. n - 1 \in DOMAIN others
    BY <1>1, <1>2, <1>3, <1>4, <1>5
  <2>2. whole[n] = list[IF n - 1 < at THEN n - 1 ELSE (n - 1) + 1]
    BY <1>2, <1>3, <1>4, <2>1
  <2>3. (IF n - 1 < at THEN n - 1 ELSE (n - 1) + 1) = From(at, n)
    BY <1>1, <1>2 DEF From
  <2>4. From(at, n) \in 1..N
    BY <1>1, <1>2, <1>5 DEF From
  <2> QED BY <2>2, <2>3, <2>4
<1> HIDE DEF whole, all
<1>6. /\ new \in Seq(V) /\ Len(new) = IF all > Cap THEN Cap ELSE all
      /\ \A n \in 1..Len(new) : new[n] = whole[n]
      /\ all \in Nat /\ all > 0 /\ Len(new) > 0 /\ Len(new) <= all
  <2>1. all \in Nat /\ all > 0
    BY <1>1, <1>2, <1>3, <1>4
  <2>2. CASE Len(whole) > Cap
    <3>1. new = SubSeq(whole, 1, Cap)
      BY <2>2 DEF Capped
    <3> HIDE DEF new
    <3> QED BY <1>3, <1>4, <2>1, <2>2, <3>1
  <2>3. CASE ~ (Len(whole) > Cap)
    <3>1. new = whole
      BY <2>3 DEF Capped
    <3> HIDE DEF new
    <3> QED BY <1>3, <1>4, <2>1, <2>3, <3>1
  <2> QED BY <2>2, <2>3
<1> HIDE DEF new
<1>7. new[1] = v
  BY <1>3, <1>6
<1>8. \A n \in 2..Len(new) : From(at, n) \in 1..N /\ new[n] = list[From(at, n)]
  BY <1>5, <1>6
<1>9. PutFirst(list, v, new, at)
  BY <1>1, <1>2, <1>6, <1>7, <1>8 DEF PutFirst, all, N
<1> QED BY <1>6, <1>9 DEF N, new, whole, others

\* The runs that the values of a list are of.
ShowsUses(list, runs, p, at) ==
  LET uses == Uses(runs, p)
      Value(i) == runs[i].values[p[2]]
  IN /\ at \in [DOMAIN list -> uses]
     /\ \A n \in DOMAIN list :
          list[n] = Value(at[n]) /\ \A i \in uses : Value(i) = list[n] => i <= at[n]
     /\ \A m, n \in DOMAIN list : m < n => at[n] < at[m]
     /\ \A i \in uses :
          \/ \E n \in DOMAIN list : list[n] = Value(i)
          \/ Len(list) = Cap /\ \A n \in DOMAIN list : i < at[n]
     /\ Len(list) <= Cap

LEMMA RecentShowsUses ==
  ASSUME NEW list, NEW runs, NEW p
  PROVE  IsRecent(list, runs, p) <=> \E at : ShowsUses(list, runs, p, at)
  BY Zenon DEF IsRecent, ShowsUses

\* One run more is a use of its own parameters.
LEMMA UsesOfMore ==
  ASSUME NEW R, NEW runs \in Seq(R), NEW run \in R, NEW p
  PROVE  /\ Uses(Append(runs, run), p) =
              Uses(runs, p) \cup (IF p[1] = run.script /\ p[2] \in DOMAIN run.values
                                  THEN {Len(runs) + 1} ELSE {})
         /\ Uses(runs, p) \subseteq 1..Len(runs)
         /\ \A i \in 1..Len(runs) : Append(runs, run)[i] = runs[i]
         /\ Append(runs, run)[Len(runs) + 1] = run
<1> DEFINE more == Append(runs, run)
<1>1. /\ Len(runs) \in Nat /\ DOMAIN runs = 1..Len(runs)
      /\ DOMAIN more = 1..Len(runs) + 1
      /\ \A i \in 1..Len(runs) : more[i] = runs[i]
      /\ more[Len(runs) + 1] = run
  OBVIOUS
<1>2. DOMAIN more = DOMAIN runs \cup {Len(runs) + 1}
  BY <1>1
<1> HIDE DEF more
<1>3. Uses(more, p) = Uses(runs, p) \cup
        (IF p[1] = run.script /\ p[2] \in DOMAIN run.values THEN {Len(runs) + 1} ELSE {})
  <2>1. ASSUME NEW i
        PROVE  i \in Uses(more, p) <=>
                 i \in Uses(runs, p) \/ (i = Len(runs) + 1 /\ p[1] = run.script
                                          /\ p[2] \in DOMAIN run.values)
    BY <1>1, <1>2 DEF Uses
  <2> QED BY <2>1
<1> QED BY <1>1, <1>3 DEF more, Uses

\* Recording a value typed.
LEMMA RecordedRecent ==
  ASSUME NEW V, NEW R, NEW runs \in Seq(R), NEW run \in R, NEW p, NEW list \in Seq(V),
         p[1] = run.script, p[2] \in DOMAIN run.values, run.values[p[2]] \in V,
         Cap \in Nat, Cap > 0, IsRecent(list, runs, p)
  PROVE  LET new == Capped(<<run.values[p[2]]>> \o Others(list, run.values[p[2]]))
         IN new \in Seq(V) /\ IsRecent(new, Append(runs, run), p)
<1> DEFINE v == run.values[p[2]]
           new == Capped(<<v>> \o Others(list, v))
           uses == Uses(runs, p)
           more == Append(runs, run)
           k == Len(runs) + 1
           N == Len(list)
           Value(i) == runs[i].values[p[2]]
           Value2(i) == more[i].values[p[2]]
<1>1. PICK at : ShowsUses(list, runs, p, at)
  BY RecentShowsUses
<1>2. /\ at \in [1..N -> uses] /\ N \in Nat /\ N <= Cap /\ DOMAIN list = 1..N
      /\ \A n \in 1..N : list[n] = Value(at[n])
      /\ \A n \in 1..N, i \in uses : Value(i) = list[n] => i <= at[n]
      /\ \A m, n \in 1..N : m < n => at[n] < at[m]
      /\ \A i \in uses :
          \/ \E n \in 1..N : list[n] = Value(i)
          \/ N = Cap /\ \A n \in 1..N : i < at[n]
  <2>1. N \in Nat /\ DOMAIN list = 1..N
    OBVIOUS
  <2>2. at \in [1..N -> uses] /\ N <= Cap
    BY <1>1, <2>1 DEF ShowsUses
  <2>3. \A n \in 1..N : list[n] = Value(at[n])
    BY <1>1, <2>1 DEF ShowsUses
  <2>4. \A n \in 1..N, i \in uses : Value(i) = list[n] => i <= at[n]
    BY <1>1, <2>1 DEF ShowsUses
  <2>5. \A m, n \in 1..N : m < n => at[n] < at[m]
    BY <1>1, <2>1 DEF ShowsUses
  <2>6. \A i \in uses :
          \/ \E n \in 1..N : list[n] = Value(i)
          \/ N = Cap /\ \A n \in 1..N : i < at[n]
    BY <1>1, <2>1 DEF ShowsUses
  <2> HIDE DEF N, Value, uses
  <2> QED BY <2>1, <2>2, <2>3, <2>4, <2>5, <2>6
<1>3. /\ Uses(more, p) = uses \cup {k} /\ k \in Nat
      /\ \A i \in uses : i \in Nat /\ i < k /\ Value2(i) = Value(i)
      /\ Value2(k) = v
  <2>1. Len(runs) \in Nat
    OBVIOUS
  <2>2. Uses(more, p) = uses \cup {k} /\ uses \subseteq 1..Len(runs)
    BY UsesOfMore
  <2>3. (\A i \in 1..Len(runs) : more[i] = runs[i]) /\ more[k] = run
    BY UsesOfMore
  <2> HIDE DEF more
  <2> QED BY <2>1, <2>2, <2>3
<1> HIDE DEF Value, Value2, uses, N, more, k
<1>4. \A m, n \in 1..N : list[m] = list[n] => m = n
  <2> SUFFICES ASSUME NEW m \in 1..N, NEW n \in 1..N, list[m] = list[n], m < n
               PROVE  FALSE
    BY <1>2
  <2>1. at[m] \in uses /\ at[n] \in uses
    BY <1>2
  <2>2. at[m] <= at[n] /\ at[n] < at[m]
    BY <1>2, <2>1
  <2> QED BY <1>3, <2>1, <2>2
<1>5. PICK gone \in 1..N + 1 : PutFirst(list, v, new, gone) /\ new \in Seq(V)
  <2>1. \A m, n \in DOMAIN list : list[m] = list[n] => m = n
    BY <1>2, <1>4
  <2> QED BY <2>1, RecordedList DEF N
<1> HIDE DEF new, v
<1> DEFINE L == Len(new)
           at2 == [n \in 1..L |-> IF n = 1 THEN k ELSE at[From(gone, n)]]
<1>6. /\ new \in Seq(V) /\ new[1] = v /\ L \in Nat /\ DOMAIN new = 1..L
      /\ 1 <= L /\ L <= Cap /\ (L = Cap \/ L = IF gone \in 1..N THEN N ELSE N + 1)
      /\ \A n \in 2..L : From(gone, n) \in 1..N /\ new[n] = list[From(gone, n)] /\ From(gone, n) # gone
      /\ N = Cap => L = Cap
      /\ \A n \in 1..N : list[n] = v <=> n = gone
  <2>1. L \in Nat /\ DOMAIN new = 1..L
    BY <1>5
  <2>2. /\ new[1] = v /\ \A n \in 1..N : list[n] = v <=> n = gone
        /\ L = IF (IF gone \in 1..N THEN N ELSE N + 1) > Cap THEN Cap
               ELSE IF gone \in 1..N THEN N ELSE N + 1
        /\ \A n \in 2..L : From(gone, n) \in 1..N /\ new[n] = list[From(gone, n)]
    BY <1>2, <1>5 DEF PutFirst, N
  <2> HIDE DEF L
  <2>3. 1 <= L /\ L <= Cap /\ (L = Cap \/ L = IF gone \in 1..N THEN N ELSE N + 1)
        /\ (N = Cap => L = Cap)
    BY <1>2, <2>2
  <2>4. \A n \in 2..L : From(gone, n) # gone
    BY <2>1, <1>2 DEF From
  <2> QED BY <1>5, <2>1, <2>2, <2>3, <2>4
<1> HIDE DEF L
<1>7. ASSUME NEW n \in 2..L
      PROVE  /\ n \in 1..L /\ n # 1 /\ From(gone, n) \in 1..N
             /\ at2[n] = at[From(gone, n)] /\ at2[n] \in uses /\ new[n] = list[From(gone, n)]
             /\ new[n] = Value(at2[n]) /\ new[n] # v /\ at2[n] < k
  <2>1. n \in 1..L /\ n # 1 /\ at2[n] = at[From(gone, n)]
    BY <1>6
  <2>2. From(gone, n) \in 1..N /\ new[n] = list[From(gone, n)] /\ From(gone, n) # gone
    BY <1>6
  <2> HIDE DEF at2
  <2>3. at2[n] \in uses /\ new[n] = Value(at2[n])
    BY <1>2, <2>1, <2>2
  <2>4. new[n] # v
    BY <1>6, <2>2
  <2>5. at2[n] < k
    BY <1>3, <2>3 DEF k
  <2> QED BY <2>1, <2>2, <2>3, <2>4, <2>5
<1>8. at2[1] = k /\ 1 \in 1..L
  BY <1>6
<1> HIDE DEF at2
<1>9. at2 \in [1..L -> uses \cup {k}]
  <2>1. at2 = [n \in 1..L |-> at2[n]]
    BY DEF at2
  <2>2. \A n \in 1..L : n = 1 \/ n \in 2..L
    BY <1>6
  <2> QED BY <1>7, <1>8, <2>1, <2>2
<1>10. ASSUME NEW n \in 1..L
       PROVE  new[n] = Value2(at2[n])
              /\ \A i \in uses \cup {k} : Value2(i) = new[n] => i <= at2[n]
  <2>1. CASE n = 1
    BY <1>3, <1>6, <1>8, <2>1 DEF k
  <2>2. CASE n # 1
    <3>1. n \in 2..L
      BY <1>6, <2>2
    <3>2. new[n] = Value2(at2[n])
      BY <1>3, <1>7, <3>1
    <3>3. Value2(k) # new[n]
      BY <1>3, <1>7, <3>1
    <3>4. ASSUME NEW i \in uses, Value2(i) = new[n] PROVE i <= at2[n]
      BY <1>2, <1>3, <1>7, <3>1, <3>4
    <3> QED BY <3>2, <3>3, <3>4
  <2> QED BY <2>1, <2>2
<1>11. ASSUME NEW m \in 1..L, NEW n \in 1..L, m < n PROVE at2[n] < at2[m]
  <2>1. n \in 2..L
    BY <1>6, <1>11
  <2>2. CASE m = 1
    BY <1>7, <1>8, <2>1, <2>2
  <2>3. CASE m # 1
    <3>1. m \in 2..L
      BY <1>6, <2>3
    <3>2. From(gone, m) < From(gone, n)
      BY <1>5, <1>6, <1>11, <2>1, <3>1 DEF From
    <3> QED BY <1>2, <1>7, <2>1, <3>1, <3>2
  <2> QED BY <2>2, <2>3
<1>12. ASSUME NEW i \in uses \cup {k}
       PROVE  \/ \E n \in 1..L : new[n] = Value2(i)
              \/ L = Cap /\ \A n \in 1..L : i < at2[n]
  <2>1. CASE i = k
    BY <1>3, <1>6, <1>8, <2>1
  <2>2. CASE i \in uses /\ N = Cap /\ \A n \in 1..N : i < at[n]
    <3>1. L = Cap
      BY <1>6, <2>2
    <3>2. ASSUME NEW n \in 1..L PROVE i < at2[n]
      <4>1. CASE n = 1
        BY <1>3, <1>8, <2>2, <4>1 DEF k
      <4>2. CASE n # 1
        <5>1. n \in 2..L
          BY <1>6, <4>2
        <5> QED BY <1>7, <2>2, <5>1
      <4> QED BY <4>1, <4>2
    <3> QED BY <3>1, <3>2
  <2>3. CASE i \in uses /\ \E n \in 1..N : list[n] = Value(i)
    <3>1. PICK m \in 1..N : list[m] = Value(i)
      BY <2>3
    <3>2. Value2(i) = Value(i)
      BY <1>3, <2>3
    <3>3. CASE m = gone
      BY <1>5, <1>6, <1>8, <3>1, <3>2, <3>3
    <3>4. CASE m # gone
      <4> DEFINE n == IF m < gone THEN m + 1 ELSE m
      <4>1. n \in Nat /\ n >= 2 /\ From(gone, n) = m
        BY <1>2, <1>5, <3>1, <3>4 DEF From
      <4>2. CASE n <= L
        <5>1. n \in 2..L
          BY <1>6, <4>1, <4>2
        <5> HIDE DEF n
        <5> QED BY <1>7, <3>1, <3>2, <4>1, <5>1
      <4>3. CASE n > L
        <5>1. L = Cap
          BY <1>2, <1>5, <1>6, <3>1, <3>4, <4>3
        <5>2. i <= at[m]
          BY <1>2, <2>3, <3>1
        <5>3. ASSUME NEW q \in 1..L PROVE i < at2[q]
          <6>1. CASE q = 1
            BY <1>3, <1>8, <2>3, <6>1 DEF k
          <6>2. CASE q # 1
            <7>1. q \in 2..L
              BY <1>6, <6>2
            <7>2. From(gone, q) < m
              BY <1>5, <1>6, <4>1, <4>3, <7>1 DEF From
            <7>3. at[m] < at[From(gone, q)] /\ at2[q] = at[From(gone, q)] /\ From(gone, q) \in 1..N
              BY <1>2, <1>7, <3>1, <7>1, <7>2
            <7>4. at[m] \in uses /\ at[From(gone, q)] \in uses
              <8> QED BY <1>2, <3>1, <7>3
            <7> QED BY <1>3, <2>3, <5>2, <7>3, <7>4
          <6> QED BY <6>1, <6>2
        <5> QED BY <5>1, <5>3
      <4> QED BY <1>6, <4>1, <4>2, <4>3
    <3> QED BY <3>3, <3>4
  <2> QED BY <1>2, <2>1, <2>2, <2>3
<1>13. ShowsUses(new, more, p, at2)
  <2>1. \A n \in 1..L : new[n] = Value2(at2[n])
    BY <1>10
  <2>2. \A n \in 1..L, i \in uses \cup {k} : Value2(i) = new[n] => i <= at2[n]
    BY <1>10
  <2> QED BY <1>3, <1>6, <1>9, <1>11, <1>12, <2>1, <2>2 DEF ShowsUses, Value2, L
<1> QED BY <1>6, <1>13, RecentShowsUses DEF new, v, more

-----------------------------------------------------------------------------
(* One file.                                                                 *)

Keys == UNION {{parameter.key : parameter \in DetectParameters(text, DriverOf[c])}
               : text \in ScriptTexts, c \in Conns}
Kept == Values \cup {<<>>}
Fields == UNION {[K -> Kept] : K \in SUBSET Keys}
Runs == [script : Scripts, values : Fields]

\* The history of runs, as the type of what it is.
History(file, runs) ==
  file \in [DOMAIN file -> Seq(Kept)] /\ IsHistoryOf(file, runs)

(* MaxHistory is an unsigned number, and NoValue what no function, record or *)
(* sequence is.                                                              *)
Apart == MaxHistory \in Nat /\ NoValue # [x \in DOMAIN NoValue |-> NoValue[x]]

LEMMA CapPositive ==
  ASSUME Apart
  PROVE  Cap \in Nat /\ Cap > 0
  BY DEF Apart, Cap

LEMMA HistoryIsNotNone ==
  ASSUME Apart, NEW file, NEW runs, History(file, runs)
  PROVE  file # NoValue
<1> SUFFICES ASSUME NoValue \in [DOMAIN NoValue -> Seq(Kept)] PROVE FALSE
  BY DEF History
<1> QED BY DEF Apart

LEMMA NoRuns ==
  ASSUME Apart
  PROVE  History(NoHistory, <<>>)
<1> DEFINE none == <<>>
<1>1. none \in [DOMAIN none -> Seq(Kept)] /\ DOMAIN none = {}
  OBVIOUS
<1> HIDE DEF none
<1>2. IsHistoryOf(none, none)
  BY <1>1 DEF IsHistoryOf
<1> QED BY <1>1, <1>2 DEF History, NoHistory, none

\* A parameter that no run used is one the file has nothing of.
LEMMA Remembered ==
  ASSUME Apart, NEW runs \in Seq(Runs), NEW file, History(file, runs), NEW s, NEW key
  PROVE  /\ HistoryFor(file, s, key) \in Seq(Kept)
         /\ IsRecent(HistoryFor(file, s, key), runs, <<s, key>>)
<1> DEFINE p == <<s, key>>
           none == <<>>
<1>1. CASE p \in DOMAIN file
  <2>1. HistoryFor(file, s, key) = file[p]
    BY <1>1 DEF HistoryFor
  <2> HIDE DEF p
  <2> QED BY <1>1, <2>1 DEF History, IsHistoryOf, p
<1>2. CASE p \notin DOMAIN file
  <2>1. HistoryFor(file, s, key) = none
    BY <1>2 DEF HistoryFor
  <2>2. none \in Seq(Kept) /\ Len(none) = 0 /\ DOMAIN none = {}
    OBVIOUS
  <2>3. Uses(runs, p) = {}
    <3> SUFFICES ASSUME NEW i \in DOMAIN runs, runs[i].script = s, key \in DOMAIN runs[i].values
                 PROVE  FALSE
      BY DEF Uses
    <3>1. p \in {runs[i].script} \X DOMAIN runs[i].values
      OBVIOUS
    <3>2. p \in DOMAIN file
      BY <3>1 DEF History, IsHistoryOf
    <3> QED BY <1>2, <3>2
  <2> HIDE DEF none, p
  <2>4. none \in [DOMAIN none -> Uses(runs, p)]
    BY <2>1, <2>2, <2>3 DEF none
  <2>5. ShowsUses(none, runs, p, none)
    BY <2>2, <2>3, <2>4, CapPositive DEF ShowsUses
  <2> QED BY <2>1, <2>2, <2>5, RecentShowsUses DEF p
<1> QED BY <1>1, <1>2

\* A run confirmed makes the history of the runs before it that of all.
LEMMA RecordedRun ==
  ASSUME Apart, NEW runs \in Seq(Runs), NEW file, History(file, runs),
         NEW s \in Scripts, NEW values \in Fields
  PROVE  History(RecordRun(file, s, values),
                 Append(runs, [script |-> s, values |-> values]))
<1> DEFINE run == [script |-> s, values |-> values]
           more == Append(runs, run)
           new == RecordRun(file, s, values)
           mine == {<<s, key>> : key \in DOMAIN values}
<1>1. /\ run \in Runs /\ run.script = s /\ run.values = values
      /\ \A key \in DOMAIN values : values[key] \in Kept
  BY DEF Runs, Fields
<1>2. DOMAIN new = DOMAIN file \cup mine
  BY DEF RecordRun
<1>3. DOMAIN new = UNION {{more[i].script} \X DOMAIN more[i].values : i \in DOMAIN more}
  <2>1. /\ DOMAIN more = DOMAIN runs \cup {Len(runs) + 1}
        /\ \A i \in DOMAIN runs : more[i] = runs[i]
        /\ more[Len(runs) + 1] = run
    <3> HIDE DEF run
    <3> QED BY <1>1
  <2>2. DOMAIN file = UNION {{runs[i].script} \X DOMAIN runs[i].values : i \in DOMAIN runs}
    BY DEF History, IsHistoryOf
  <2>3. {run.script} \X DOMAIN run.values = mine
    BY <1>1
  <2> HIDE DEF more, run, new, mine
  <2> QED BY <1>2, <2>1, <2>2, <2>3
<1>4. ASSUME NEW p \in DOMAIN new
      PROVE  new[p] \in Seq(Kept) /\ IsRecent(new[p], more, p)
  <2>1. PICK a, key : p = <<a, key>>
    <3>1. CASE p \in mine
      BY <3>1
    <3>2. CASE p \in DOMAIN file
      <4>1. PICK i \in DOMAIN runs : p \in {runs[i].script} \X DOMAIN runs[i].values
        BY <3>2 DEF History, IsHistoryOf
      <4> QED BY <4>1
    <3> QED BY <1>2, <3>1, <3>2
  <2>2. CASE p[1] = s /\ p[2] \in DOMAIN values
    <3> DEFINE old == HistoryFor(file, s, key)
    <3>1. old \in Seq(Kept) /\ IsRecent(old, runs, p)
      BY <2>1, <2>2, Remembered
    <3>2. new[p] = Capped(<<values[p[2]]>> \o Others(old, values[p[2]]))
      BY <1>2, <2>1, <2>2 DEF RecordRun
    <3> HIDE DEF old, new, run
    <3>3. /\ Capped(<<run.values[p[2]]>> \o Others(old, run.values[p[2]])) \in Seq(Kept)
          /\ IsRecent(Capped(<<run.values[p[2]]>> \o Others(old, run.values[p[2]])), more, p)
      <4>1. p[1] = run.script /\ p[2] \in DOMAIN run.values /\ run.values[p[2]] \in Kept
        BY <1>1, <2>2
      <4> QED BY <1>1, <3>1, <4>1, CapPositive, RecordedRecent
    <3> QED BY <1>1, <3>2, <3>3
  <2>3. CASE ~ (p[1] = s /\ p[2] \in DOMAIN values)
    <3>1. p \in DOMAIN file
      BY <1>2, <2>3
    <3>2. new[p] = file[p]
      BY <1>2, <2>3, <3>1 DEF RecordRun
    <3>3. file[p] \in Seq(Kept) /\ IsRecent(file[p], runs, p)
      BY <3>1 DEF History, IsHistoryOf
    <3>4. Uses(more, p) = Uses(runs, p) /\ \A i \in Uses(runs, p) : more[i] = runs[i]
      <4> HIDE DEF run
      <4>1. ~ (p[1] = run.script /\ p[2] \in DOMAIN run.values)
        BY <1>1, <2>3
      <4>2. /\ Uses(more, p) = Uses(runs, p) \cup {}
            /\ Uses(runs, p) \subseteq 1..Len(runs)
            /\ \A i \in 1..Len(runs) : more[i] = runs[i]
        <5> DEFINE extra == IF p[1] = run.script /\ p[2] \in DOMAIN run.values
                            THEN {Len(runs) + 1} ELSE {}
        <5>1. /\ Uses(more, p) = Uses(runs, p) \cup extra
              /\ Uses(runs, p) \subseteq 1..Len(runs)
              /\ \A i \in 1..Len(runs) : more[i] = runs[i]
          BY <1>1, UsesOfMore
        <5>2. extra = {}
          BY <4>1
        <5> HIDE DEF extra, more
        <5> QED BY <5>1, <5>2
      <4> HIDE DEF more
      <4> QED BY <4>2
    <3>5. PICK at : ShowsUses(file[p], runs, p, at)
      BY <3>3, RecentShowsUses
    <3> HIDE DEF more, new
    <3>6. ShowsUses(file[p], more, p, at)
      BY <3>4, <3>5 DEF ShowsUses
    <3> QED BY <3>2, <3>3, <3>6, RecentShowsUses
  <2> QED BY <2>2, <2>3
<1>5. new = [p \in DOMAIN new |-> new[p]]
  BY <1>2 DEF RecordRun
<1> HIDE DEF new, more
<1> QED BY <1>3, <1>4, <1>5 DEF History, IsHistoryOf, new, more

-----------------------------------------------------------------------------
(* The invariant.                                                            *)

\* A run or an attempt is of a connection whose tabs are shown.
Connected ==
  /\ held # NoValue => held \in Conns
  /\ target # NoValue => target \in Conns
  /\ held # NoValue \/ target # NoValue => active \in Conns

\* What the modal asks for was looked up, so the history is in the cache.
Asked ==
  modal # NoValue =>
    /\ active \in Conns /\ history_cache[active] # NoValue
    /\ modal.script \in Scripts /\ modal.fields \in Fields

Logged == log \in [Conns -> Seq(Runs)]

\* Before its file is read nothing is written to it.
Cached ==
  /\ history_cache = [c \in Conns |-> history_cache[c]]
  /\ \A c \in Conns :
       IF history_cache[c] = NoValue
       THEN histories[c].runs = Len(log[c]) /\ \A job \in writes : job.conn # c
       ELSE History(history_cache[c], log[c])

Stored ==
  /\ histories = [c \in Conns |-> [file |-> histories[c].file, runs |-> histories[c].runs]]
  /\ \A c \in Conns : /\ histories[c].runs \in 0..Len(log[c])
                      /\ History(histories[c].file, SubSeq(log[c], 1, histories[c].runs))

\* Writes that are not refused are newer than what is on the disk.
Writing ==
  \A job \in writes :
    /\ job.conn \in Conns /\ job.runs \in 1..Len(log[job.conn])
    /\ History(job.file, SubSeq(log[job.conn], 1, job.runs))
    /\ job.runs >= mark[job.conn] => job.runs >= histories[job.conn].runs

\* The newest write is under way, or done with, unless the file is current.
Marked ==
  /\ mark \in [Conns -> Nat]
  /\ \A c \in Conns :
       /\ mark[c] <= Len(log[c])
       /\ histories[c].runs < Len(log[c]) =>
            mark[c] = Len(log[c]) \/ \E job \in writes : job.conn = c /\ job.runs = Len(log[c])

Invariant == Connected /\ Asked /\ Logged /\ Cached /\ Stored /\ Writing /\ Marked

LEMMA InvariantRemembers ==
  ASSUME Invariant
  PROVE  RemembersRuns
<1>0. DOMAIN log = Conns
  BY DEF Invariant, Logged
<1> SUFFICES ASSUME NEW c \in Conns
             PROVE  /\ history_cache[c] # NoValue => IsHistoryOf(history_cache[c], log[c])
                    /\ IsHistoryOf(histories[c].file, SubSeq(log[c], 1, histories[c].runs))
                    /\ histories[c].runs <= Len(log[c])
                    /\ histories[c].runs < Len(log[c]) =>
                         mark[c] = Len(log[c])
                           \/ \E job \in writes : job.conn = c /\ job.runs = Len(log[c])
  BY <1>0 DEF RemembersRuns
<1>1. history_cache[c] # NoValue => IsHistoryOf(history_cache[c], log[c])
  BY DEF Invariant, Cached, History
<1>2. IsHistoryOf(histories[c].file, SubSeq(log[c], 1, histories[c].runs)) /\ histories[c].runs <= Len(log[c])
  <2>1. Len(log[c]) \in Nat
    BY DEF Invariant, Logged
  <2>2. histories[c].runs \in 0..Len(log[c])
    BY DEF Invariant, Stored
  <2>3. IsHistoryOf(histories[c].file, SubSeq(log[c], 1, histories[c].runs))
    BY DEF Invariant, Stored, History
  <2> QED BY <2>1, <2>2, <2>3
<1>3. histories[c].runs < Len(log[c]) =>
        mark[c] = Len(log[c]) \/ \E job \in writes : job.conn = c /\ job.runs = Len(log[c])
  BY DEF Invariant, Marked
<1> QED BY <1>1, <1>2, <1>3

\* Beginnings of sequences.
LEMMA Beginnings ==
  ASSUME NEW S, NEW list \in Seq(S)
  PROVE  /\ SubSeq(list, 1, Len(list)) = list
         /\ SubSeq(list, 1, 0) = <<>>
         /\ \A n \in 0..Len(list) :
              /\ SubSeq(list, 1, n) \in Seq(S) /\ Len(SubSeq(list, 1, n)) = n
              /\ SubSeq(SubSeq(list, 1, n), 1, n) = SubSeq(list, 1, n)
              /\ \A x \in S : SubSeq(Append(list, x), 1, n) = SubSeq(list, 1, n)
<1>1. SubSeq(list, 1, Len(list)) = list
  OBVIOUS
<1>2. SubSeq(list, 1, 0) = <<>>
  OBVIOUS
<1>3. ASSUME NEW n \in 0..Len(list)
      PROVE  /\ SubSeq(list, 1, n) \in Seq(S) /\ Len(SubSeq(list, 1, n)) = n
             /\ SubSeq(SubSeq(list, 1, n), 1, n) = SubSeq(list, 1, n)
  OBVIOUS
<1>4. ASSUME NEW n \in 0..Len(list), NEW x \in S
      PROVE  SubSeq(Append(list, x), 1, n) = SubSeq(list, 1, n)
  OBVIOUS
<1> QED BY <1>1, <1>2, <1>3, <1>4

LEMMA InvariantInit ==
  ASSUME Apart, ParametersInit
  PROVE  Invariant
<1> DEFINE none == <<>>
<1>1. /\ active = NoValue /\ held = NoValue /\ target = NoValue /\ modal = NoValue
      /\ history_cache = [c \in Conns |-> NoValue] /\ mark = [c \in Conns |-> 0] /\ writes = {}
      /\ histories = [c \in Conns |-> [file |-> NoHistory, runs |-> 0]]
      /\ log = [c \in Conns |-> none]
  BY DEF ParametersInit
<1>2. none \in Seq(Runs) /\ Len(none) = 0 /\ SubSeq(none, 1, 0) = none
  OBVIOUS
<1>3. History(NoHistory, none)
  BY NoRuns
<1> HIDE DEF none
<1>4. ASSUME NEW c \in Conns
      PROVE  /\ history_cache[c] = NoValue /\ mark[c] = 0 /\ histories[c].runs = 0
             /\ histories[c].file = NoHistory /\ log[c] = none
  BY <1>1
<1>5. Connected /\ Asked
  BY <1>1 DEF Connected, Asked
<1>6. Logged
  BY <1>1, <1>2 DEF Logged
<1>7. Cached
  <2>1. history_cache = [c \in Conns |-> history_cache[c]]
    BY <1>1
  <2>2. ASSUME NEW c \in Conns PROVE histories[c].runs = Len(log[c])
    BY <1>2, <1>4
  <2>3. ASSUME NEW c \in Conns
        PROVE  IF history_cache[c] = NoValue
               THEN histories[c].runs = Len(log[c]) /\ \A job \in writes : job.conn # c
               ELSE History(history_cache[c], log[c])
    BY <1>1, <1>4, <2>2
  <2> QED BY <2>1, <2>3, Zenon DEF Cached
<1>8. Stored
  <2>1. histories = [c \in Conns |-> [file |-> histories[c].file, runs |-> histories[c].runs]]
    BY <1>1
  <2>2. ASSUME NEW c \in Conns
        PROVE  /\ histories[c].runs \in 0..Len(log[c])
               /\ History(histories[c].file, SubSeq(log[c], 1, histories[c].runs))
    <3>1. Len(log[c]) = 0 /\ SubSeq(log[c], 1, histories[c].runs) = none
      BY <1>2, <1>4
    <3>2. History(histories[c].file, SubSeq(log[c], 1, histories[c].runs))
      BY <1>3, <1>4, <3>1, Zenon
    <3>3. histories[c].runs = 0
      BY <1>4
    <3> QED BY <3>1, <3>2, <3>3
  <2> QED BY <2>1, <2>2, Zenon DEF Stored
<1>9. Writing /\ Marked
  BY <1>1, <1>2, <1>4 DEF Writing, Marked
<1> QED BY <1>5, <1>6, <1>7, <1>8, <1>9 DEF Invariant

\* What is looked up is the history of all the runs, in the cache or not.
LEMMA LookedUp ==
  ASSUME Apart, Invariant, NEW c \in Conns
  PROVE  History(ParamHistory(c), log[c]) /\ ParamHistory(c) # NoValue
<1>1. History(ParamHistory(c), log[c])
  <2>1. CASE history_cache[c] # NoValue
    BY <2>1 DEF Invariant, Cached, ParamHistory
  <2>2. CASE history_cache[c] = NoValue
    <3>1. SubSeq(log[c], 1, histories[c].runs) = log[c]
      BY <2>2, Beginnings DEF Invariant, Cached, Logged
    <3> QED BY <2>2, <3>1 DEF Invariant, Stored, ParamHistory
  <2> QED BY <2>1, <2>2
<1> QED BY <1>1, HistoryIsNotNone

\* Nothing of the history changes.
LEMMA NothingRecorded ==
  ASSUME Invariant, UNCHANGED <<history_cache, histories, mark, writes, log>>
  PROVE  Logged' /\ Cached' /\ Stored' /\ Writing' /\ Marked'
<1>1. history_cache' = history_cache /\ histories' = histories /\ mark' = mark /\ writes' = writes /\ log' = log
  OBVIOUS
<1>2. Logged'
  BY <1>1 DEF Invariant, Logged
<1>3. Cached'
  BY <1>1 DEF Invariant, Cached
<1>4. Stored'
  BY <1>1 DEF Invariant, Stored
<1>5. Writing'
  BY <1>1 DEF Invariant, Writing
<1>6. Marked'
  BY <1>1 DEF Invariant, Marked
<1> QED BY <1>2, <1>3, <1>4, <1>5, <1>6

LEMMA InvariantConnect ==
  ASSUME Invariant, NEW c \in Conns, Connect(c)
  PROVE  Invariant'
<1>1. Logged' /\ Cached' /\ Stored' /\ Writing' /\ Marked'
  BY NothingRecorded DEF Connect
<1>2. Connected' /\ Asked'
  BY DEF Connect, Invariant, Connected, Asked
<1> QED BY <1>1, <1>2 DEF Invariant

LEMMA InvariantResolves ==
  ASSUME Invariant, Resolves
  PROVE  Invariant'
<1>1. Logged' /\ Cached' /\ Stored' /\ Writing' /\ Marked'
  BY NothingRecorded DEF Resolves
<1>2. Connected' /\ Asked'
  BY DEF Resolves, Invariant, Connected, Asked
<1> QED BY <1>1, <1>2 DEF Invariant

LEMMA InvariantFill ==
  ASSUME Invariant, modal # NoValue, NEW values \in [DOMAIN modal.fields -> Values], Fill(values)
  PROVE  Invariant'
<1>1. Logged' /\ Cached' /\ Stored' /\ Writing' /\ Marked'
  BY NothingRecorded DEF Fill
<1>2. values \in Fields
  BY DEF Invariant, Asked, Fields, Kept
<1>3. modal'.script = modal.script /\ modal'.fields = values
  BY DEF Fill
<1>4. Connected' /\ Asked'
  BY <1>2, <1>3 DEF Fill, Invariant, Connected, Asked
<1> QED BY <1>1, <1>4 DEF Invariant

LEMMA InvariantCancel ==
  ASSUME Invariant, Cancel
  PROVE  Invariant'
<1>1. Logged' /\ Cached' /\ Stored' /\ Writing' /\ Marked'
  BY NothingRecorded DEF Cancel
<1>2. Connected' /\ Asked'
  BY DEF Cancel, Invariant, Connected, Asked
<1> QED BY <1>1, <1>2 DEF Invariant

\* The history is looked up in its file once.
LEMMA InvariantRun ==
  ASSUME Apart, Invariant, NEW script \in Scripts, NEW text \in ScriptTexts, Run(script, text)
  PROVE  Invariant'
<1> DEFINE driver == DriverOf[held]
           parameters == DetectParameters(text, driver)
           keys == {p.key : p \in parameters}
<1>1. /\ modal = NoValue /\ held # NoValue /\ RunOrAsk(script, text, driver, parameters)
      /\ UNCHANGED <<active, held, target, histories, mark, writes, log>>
  BY DEF Run
<1>2. held \in Conns /\ active \in Conns
  BY <1>1 DEF Invariant, Connected
<1>3. Connected'
  BY <1>1 DEF Invariant, Connected
<1>4. CASE parameters = {}
  <2>1. UNCHANGED <<modal, history_cache>>
    BY <1>1, <1>4 DEF RunOrAsk
  <2>2. Logged' /\ Cached' /\ Stored' /\ Writing' /\ Marked'
    BY <1>1, <2>1, NothingRecorded
  <2>3. Asked'
    BY <1>1, <2>1 DEF Asked
  <2> QED BY <1>3, <2>2, <2>3 DEF Invariant
<1>5. CASE parameters # {}
  <2> DEFINE history == ParamHistory(active)
             Newest(list) == IF list = <<>> THEN <<>> ELSE list[1]
             fields == [key \in keys |-> Newest(HistoryFor(history, script, key))]
  <2>1. /\ modal' = [script |-> script, text |-> text, driver |-> driver,
                     parameters |-> parameters, fields |-> fields]
        /\ history_cache' = [history_cache EXCEPT ![active] = history]
    BY <1>1, <1>5 DEF RunOrAsk, RequestParameters
  <2>2. History(history, log[active]) /\ history # NoValue
    BY <1>2, LookedUp
  <2>3. keys \in SUBSET Keys
    <3>1. keys \in {{parameter.key : parameter \in DetectParameters(t, DriverOf[c])}
                    : t \in ScriptTexts, c \in Conns}
      BY <1>2
    <3> HIDE DEF keys
    <3> QED BY <3>1 DEF Keys
  <2>4. ASSUME NEW key \in keys PROVE Newest(HistoryFor(history, script, key)) \in Kept
    <3> DEFINE list == HistoryFor(history, script, key)
    <3>1. list \in Seq(Kept)
      <4>1. log[active] \in Seq(Runs)
        BY <1>2 DEF Invariant, Logged
      <4> HIDE DEF history
      <4> QED BY <2>2, <4>1, Remembered
    <3> HIDE DEF list
    <3>2. CASE list = <<>>
      BY <3>2 DEF Kept, list
    <3>3. CASE list # <<>>
      <4>1. list[1] \in Kept
        BY <3>1, <3>3
      <4> QED BY <3>3, <4>1 DEF list
    <3> QED BY <3>2, <3>3
  <2>5. fields \in Fields
    <3> HIDE DEF keys, Newest, history
    <3> QED BY <2>3, <2>4 DEF Fields
  <2> HIDE DEF fields, history, parameters, driver
  <2>6. history_cache = [c \in Conns |-> history_cache[c]]
    BY DEF Invariant, Cached
  <2>7. /\ history_cache' = [c \in Conns |-> history_cache'[c]] /\ history_cache'[active] = history
        /\ \A c \in Conns : c # active => history_cache'[c] = history_cache[c]
    BY <1>2, <2>1, <2>6
  <2>8. Asked'
    <3>1. modal'.script = script /\ modal'.fields = fields
      BY <2>1
    <3> QED BY <1>1, <1>2, <2>2, <2>5, <2>7, <3>1 DEF Asked
  <2>9. Cached'
    <3>1. ASSUME NEW c \in Conns
          PROVE  IF history_cache'[c] = NoValue
                 THEN histories'[c].runs = Len(log'[c]) /\ \A job \in writes' : job.conn # c
                 ELSE History(history_cache'[c], log'[c])
      <4>1. CASE c = active
        BY <1>1, <2>2, <2>7, <4>1
      <4>2. CASE c # active
        BY <1>1, <2>7, <4>2 DEF Invariant, Cached
      <4> QED BY <4>1, <4>2
    <3> QED BY <2>7, <3>1 DEF Cached
  <2>10. Logged' /\ Stored' /\ Writing' /\ Marked'
    <3>1. Logged'
      BY <1>1 DEF Invariant, Logged
    <3>2. Stored'
      BY <1>1 DEF Invariant, Stored
    <3>3. Writing'
      BY <1>1 DEF Invariant, Writing
    <3>4. Marked'
      BY <1>1 DEF Invariant, Marked
    <3> QED BY <3>1, <3>2, <3>3, <3>4
  <2> QED BY <1>3, <2>8, <2>9, <2>10 DEF Invariant
<1> QED BY <1>4, <1>5

\* A run is confirmed: its values are remembered with it.
LEMMA InvariantConfirm ==
  ASSUME Apart, Invariant, Confirm
  PROVE  Invariant'
<1> DEFINE a == active
           run == [script |-> modal.script, values |-> modal.fields]
           more == Append(log[a], run)
           history == ParamHistory(a)
           file == RecordRun(history, modal.script, modal.fields)
           new == [conn |-> a, runs |-> Len(log'[a]), file |-> file]
<1>1. /\ modal # NoValue /\ modal' = NoValue
      /\ log' = [log EXCEPT ![a] = more]
      /\ history_cache' = [history_cache EXCEPT ![a] = file]
      /\ writes' = writes \cup {new}
      /\ UNCHANGED <<active, held, target, histories, mark>>
  BY DEF Confirm, Persist
<1>2. a \in Conns /\ modal.script \in Scripts /\ modal.fields \in Fields
  BY <1>1 DEF Invariant, Asked
<1>3. run \in Runs
  BY <1>2 DEF Runs
<1> HIDE DEF run
<1>4. /\ log \in [Conns -> Seq(Runs)]
      /\ history_cache = [c \in Conns |-> history_cache[c]]
      /\ \A c \in Conns : Len(log[c]) \in Nat
  BY DEF Invariant, Logged, Cached
<1>5. more \in Seq(Runs) /\ Len(more) = Len(log[a]) + 1
  BY <1>2, <1>3, <1>4
<1>6. History(history, log[a])
  BY <1>2, LookedUp
<1>7. History(file, more) /\ file # NoValue
  <2> HIDE DEF history
  <2>1. History(file, more)
    BY <1>2, <1>4, <1>6, RecordedRun DEF run
  <2> HIDE DEF file, more
  <2> QED BY <2>1, HistoryIsNotNone
<1>8. \A n \in 0..Len(log[a]) : SubSeq(more, 1, n) = SubSeq(log[a], 1, n)
  BY <1>2, <1>3, <1>4, Beginnings
<1>9. SubSeq(more, 1, Len(more)) = more
  BY <1>5, Beginnings
<1> HIDE DEF file, more, history
<1>10. /\ log'[a] = more /\ history_cache'[a] = file
       /\ \A c \in Conns : c # a => log'[c] = log[c] /\ history_cache'[c] = history_cache[c]
       /\ log' \in [Conns -> Seq(Runs)] /\ history_cache' = [c \in Conns |-> history_cache'[c]]
  BY <1>1, <1>2, <1>4, <1>5
<1>11. new.conn = a /\ new.runs = Len(more) /\ new.file = file
  BY <1>10
<1> HIDE DEF new
<1>12. Connected' /\ Asked' /\ Logged'
  BY <1>1, <1>10 DEF Invariant, Connected, Asked, Logged
<1>13. Cached'
  <2>1. ASSUME NEW c \in Conns
        PROVE  IF history_cache'[c] = NoValue
               THEN histories'[c].runs = Len(log'[c]) /\ \A job \in writes' : job.conn # c
               ELSE History(history_cache'[c], log'[c])
    <3>1. CASE c = a
      BY <1>7, <1>10, <3>1
    <3>2. CASE c # a
      BY <1>1, <1>10, <1>11, <3>2 DEF Invariant, Cached
    <3> QED BY <3>1, <3>2
  <2> QED BY <1>10, <2>1 DEF Cached
<1>14. \A c \in Conns : histories[c].runs \in 0..Len(log[c]) /\ mark[c] \in Nat /\ mark[c] <= Len(log[c])
  BY DEF Invariant, Stored, Marked
<1>15. Stored'
  <2>1. histories' = [c \in Conns |-> [file |-> histories'[c].file, runs |-> histories'[c].runs]]
    BY <1>1 DEF Invariant, Stored
  <2>2. ASSUME NEW c \in Conns
        PROVE  /\ histories'[c].runs \in 0..Len(log'[c])
               /\ History(histories'[c].file, SubSeq(log'[c], 1, histories'[c].runs))
    <3>1. histories'[c].runs = histories[c].runs /\ histories'[c].file = histories[c].file
      BY <1>1
    <3>2. CASE c = a
      <4>1. SubSeq(log'[c], 1, histories[c].runs) = SubSeq(log[c], 1, histories[c].runs)
        BY <1>2, <1>8, <1>10, <1>14, <3>2
      <4>2. histories[c].runs \in 0..Len(log'[c])
        BY <1>2, <1>4, <1>5, <1>10, <1>14, <3>2
      <4> QED BY <3>1, <4>1, <4>2 DEF Invariant, Stored
    <3>3. CASE c # a
      BY <1>10, <3>1, <3>3 DEF Invariant, Stored
    <3> QED BY <3>2, <3>3
  <2> QED BY <2>1, <2>2, Zenon DEF Stored
<1>16. Writing'
  <2>1. ASSUME NEW job \in writes'
        PROVE  /\ job.conn \in Conns /\ job.runs \in 1..Len(log'[job.conn])
               /\ History(job.file, SubSeq(log'[job.conn], 1, job.runs))
               /\ job.runs >= mark'[job.conn] => job.runs >= histories'[job.conn].runs
    <3>1. CASE job = new
      <4>1. Len(more) \in 1..Len(more)
        BY <1>2, <1>4, <1>5
      <4>2. Len(more) >= histories[a].runs
        BY <1>2, <1>4, <1>5, <1>14
      <4>3. job.conn = a /\ job.runs = Len(more) /\ job.file = file
        BY <1>11, <3>1
      <4>4. History(job.file, SubSeq(log'[job.conn], 1, job.runs))
        BY <1>7, <1>9, <1>10, <4>3, Zenon
      <4> QED BY <1>1, <1>2, <1>10, <4>1, <4>2, <4>3, <4>4
    <3>2. CASE job \in writes
      <4>1. /\ job.conn \in Conns /\ job.runs \in 1..Len(log[job.conn])
            /\ History(job.file, SubSeq(log[job.conn], 1, job.runs))
            /\ job.runs >= mark[job.conn] => job.runs >= histories[job.conn].runs
        BY <3>2 DEF Invariant, Writing
      <4>2. CASE job.conn = a
        <5>1. SubSeq(log'[a], 1, job.runs) = SubSeq(log[a], 1, job.runs)
          BY <1>8, <1>10, <4>1, <4>2
        <5>2. job.runs \in 1..Len(log'[a])
          BY <1>2, <1>4, <1>5, <1>10, <4>1, <4>2
        <5> QED BY <1>1, <4>1, <4>2, <5>1, <5>2
      <4>3. CASE job.conn # a
        BY <1>1, <1>10, <4>1, <4>3
      <4> QED BY <4>2, <4>3
    <3> QED BY <1>1, <3>1, <3>2
  <2> QED BY <2>1 DEF Writing
<1>17. Marked'
  <2>1. ASSUME NEW c \in Conns
        PROVE  /\ mark'[c] <= Len(log'[c])
               /\ histories'[c].runs < Len(log'[c]) =>
                    mark'[c] = Len(log'[c])
                      \/ \E job \in writes' : job.conn = c /\ job.runs = Len(log'[c])
    <3>1. CASE c = a
      <4>1. mark[a] <= Len(more)
        BY <1>2, <1>4, <1>5, <1>14
      <4>2. new \in writes' /\ new.conn = a /\ new.runs = Len(log'[a])
        BY <1>1, <1>10, <1>11
      <4> QED BY <1>1, <1>10, <3>1, <4>1, <4>2
    <3>2. CASE c # a
      BY <1>1, <1>10, <3>2 DEF Invariant, Marked
    <3> QED BY <3>1, <3>2
  <2>2. mark' \in [Conns -> Nat]
    BY <1>1 DEF Invariant, Marked
  <2> QED BY <2>1, <2>2 DEF Marked
<1> QED BY <1>12, <1>13, <1>15, <1>16, <1>17 DEF Invariant

\* A write comes to its end: refused, done or failed.
LEMMA InvariantWrite ==
  ASSUME Apart, Invariant, NEW job \in writes, Write(job)
  PROVE  Invariant'
<1> DEFINE a == job.conn
<1>1. /\ writes' = writes \ {job}
      /\ UNCHANGED <<active, held, target, modal, history_cache, log>>
  BY DEF Write
<1>2. /\ a \in Conns /\ job.runs \in 1..Len(log[a])
      /\ History(job.file, SubSeq(log[a], 1, job.runs))
      /\ job.runs >= mark[a] => job.runs >= histories[a].runs
  BY DEF Invariant, Writing
<1>3. /\ mark \in [Conns -> Nat]
      /\ histories = [c \in Conns |-> [file |-> histories[c].file, runs |-> histories[c].runs]]
      /\ \A c \in Conns : /\ Len(log[c]) \in Nat /\ mark[c] \in Nat /\ mark[c] <= Len(log[c])
                          /\ histories[c].runs \in 0..Len(log[c])
  BY DEF Invariant, Logged, Stored, Marked
<1>4. Connected' /\ Asked' /\ Logged'
  BY <1>1 DEF Invariant, Connected, Asked, Logged
<1>5. /\ history_cache[a] # NoValue
      /\ \A c \in Conns : c # a => histories'[c] = histories[c] /\ mark'[c] = mark[c]
  <2>1. history_cache[a] # NoValue
    BY <1>2 DEF Invariant, Cached
  <2>2. ASSUME NEW c \in Conns, c # a PROVE histories'[c] = histories[c] /\ mark'[c] = mark[c]
    BY <1>3, <2>2 DEF Write
  <2> QED BY <2>1, <2>2
<1>6. Cached'
  <2>1. ASSUME NEW c \in Conns
        PROVE  IF history_cache'[c] = NoValue
               THEN histories'[c].runs = Len(log'[c]) /\ \A k \in writes' : k.conn # c
               ELSE History(history_cache'[c], log'[c])
    BY <1>1, <1>5 DEF Invariant, Cached
  <2>2. history_cache' = [c \in Conns |-> history_cache'[c]]
    BY <1>1 DEF Invariant, Cached
  <2> QED BY <2>1, <2>2 DEF Cached
<1>7. \/ job.runs < mark[a] /\ histories'[a] = histories[a] /\ mark'[a] = mark[a]
      \/ /\ job.runs >= mark[a] /\ mark'[a] = job.runs
         /\ \/ histories'[a].file = job.file /\ histories'[a].runs = job.runs
            \/ histories'[a] = histories[a]
  <2>1. CASE job.runs < mark[a]
    BY <2>1 DEF Write
  <2>2. CASE ~ (job.runs < mark[a])
    <3>1. mark'[a] = job.runs /\ job.runs >= mark[a]
      BY <1>2, <1>3, <2>2 DEF Write
    <3>2. \/ histories' = [histories EXCEPT ![job.conn] = [file |-> job.file, runs |-> job.runs]]
          \/ UNCHANGED histories
      BY <2>2 DEF Write
    <3>3. \/ histories'[a].file = job.file /\ histories'[a].runs = job.runs
          \/ histories'[a] = histories[a]
      BY <1>2, <1>3, <3>2
    <3> QED BY <3>1, <3>3
  <2> QED BY <2>1, <2>2
<1>8. /\ mark' \in [Conns -> Nat]
      /\ histories' = [c \in Conns |-> [file |-> histories'[c].file, runs |-> histories'[c].runs]]
  <2>1. CASE job.runs < mark[a]
    BY <1>3, <2>1 DEF Write
  <2>2. CASE ~ (job.runs < mark[a])
    <3>1. mark' \in [Conns -> Nat]
      BY <1>2, <1>3, <2>2 DEF Write
    <3>2. \/ histories' = [histories EXCEPT ![job.conn] = [file |-> job.file, runs |-> job.runs]]
          \/ UNCHANGED histories
      BY <2>2 DEF Write
    <3> QED BY <1>2, <1>3, <3>1, <3>2
  <2> QED BY <2>1, <2>2
<1>9. Stored'
  <2>1. ASSUME NEW c \in Conns
        PROVE  /\ histories'[c].runs \in 0..Len(log'[c])
               /\ History(histories'[c].file, SubSeq(log'[c], 1, histories'[c].runs))
    <3>1. CASE histories'[c] = histories[c]
      BY <1>1, <3>1 DEF Invariant, Stored
    <3>2. CASE c = a /\ histories'[a].file = job.file /\ histories'[a].runs = job.runs
      <4>1. job.runs \in 0..Len(log[a])
        BY <1>2, <1>3
      <4> QED BY <1>1, <1>2, <3>2, <4>1
    <3> QED BY <1>5, <1>7, <3>1, <3>2
  <2> QED BY <1>8, <2>1, Zenon DEF Stored
<1>10. Writing'
  <2>1. ASSUME NEW k \in writes'
        PROVE  /\ k.conn \in Conns /\ k.runs \in 1..Len(log'[k.conn])
               /\ History(k.file, SubSeq(log'[k.conn], 1, k.runs))
               /\ k.runs >= mark'[k.conn] => k.runs >= histories'[k.conn].runs
    <3>1. /\ k.conn \in Conns /\ k.runs \in 1..Len(log[k.conn])
          /\ History(k.file, SubSeq(log[k.conn], 1, k.runs))
          /\ k.runs >= mark[k.conn] => k.runs >= histories[k.conn].runs
      BY <1>1 DEF Invariant, Writing
    <3>2. k.runs >= mark'[k.conn] => k.runs >= histories'[k.conn].runs
      <4>1. CASE k.conn = a
        <5>1. k.runs \in Nat /\ job.runs \in Nat /\ mark[a] \in Nat /\ histories[a].runs \in Nat
          BY <1>2, <1>3, <3>1
        <5> QED BY <1>2, <1>7, <3>1, <4>1, <5>1
      <4>2. CASE k.conn # a
        BY <1>5, <3>1, <4>2
      <4> QED BY <4>1, <4>2
    <3> QED BY <1>1, <3>1, <3>2
  <2> QED BY <2>1 DEF Writing
<1>11. Marked'
  <2>1. ASSUME NEW c \in Conns
        PROVE  /\ mark'[c] <= Len(log'[c])
               /\ histories'[c].runs < Len(log'[c]) =>
                    mark'[c] = Len(log'[c])
                      \/ \E k \in writes' : k.conn = c /\ k.runs = Len(log'[c])
    <3>1. histories[c].runs < Len(log[c]) =>
            mark[c] = Len(log[c]) \/ \E k \in writes : k.conn = c /\ k.runs = Len(log[c])
      BY DEF Invariant, Marked
    <3>2. CASE c = a
      <4>1. mark'[c] <= Len(log[c])
        BY <1>2, <1>3, <1>7, <3>2
      <4>2. ASSUME histories'[a].runs < Len(log[a])
            PROVE  mark'[a] = Len(log[a])
                     \/ \E k \in writes' : k.conn = a /\ k.runs = Len(log[a])
        <5> DEFINE n == Len(log[a])
                   r == histories[a].runs
                   m == mark[a]
        <5>0. n \in Nat /\ r \in Nat /\ m \in Nat /\ m <= n /\ job.runs \in 1..n
          BY <1>2, <1>3
        <5>1. r < n
          <6>1. histories'[a].runs = r \/ (histories'[a].runs = job.runs /\ job.runs >= r)
            BY <1>2, <1>7
          <6> HIDE DEF r
          <6> QED BY <4>2, <5>0, <6>1
        <5>2. CASE mark[a] = Len(log[a])
          BY <1>2, <1>3, <1>7, <5>2
        <5>3. CASE \E k \in writes : k.conn = a /\ k.runs = Len(log[a])
          <6>1. PICK k \in writes : k.conn = a /\ k.runs = Len(log[a])
            BY <5>3
          <6>2. CASE k = job
            <7>1. job.runs = n
              BY <6>1, <6>2
            <7>2. ~ (job.runs < m)
              BY <5>0, <7>1
            <7> QED BY <1>7, <7>1, <7>2
          <6>3. CASE k # job
            BY <1>1, <6>1, <6>3
          <6> QED BY <6>2, <6>3
        <5> QED BY <3>1, <3>2, <5>1, <5>2, <5>3
      <4> QED BY <1>1, <3>2, <4>1, <4>2
    <3>3. CASE c # a
      <4>1. \A k \in writes : k.conn = c => k \in writes'
        BY <1>1, <3>3
      <4> QED BY <1>1, <1>3, <1>5, <3>1, <3>3, <4>1
    <3> QED BY <3>2, <3>3
  <2> QED BY <1>8, <2>1 DEF Marked
<1> QED BY <1>4, <1>6, <1>9, <1>10, <1>11 DEF Invariant

\* Another process knows the runs its files are about.
LEMMA InvariantRestart ==
  ASSUME Apart, Invariant, Restart
  PROVE  Invariant'
<1>1. /\ active' = NoValue /\ held' = NoValue /\ target' = NoValue /\ modal' = NoValue
      /\ history_cache' = [c \in Conns |-> NoValue] /\ mark' = [c \in Conns |-> 0] /\ writes' = {}
      /\ log' = [c \in Conns |-> SubSeq(log[c], 1, histories[c].runs)]
      /\ histories' = histories
  BY DEF Restart
<1>2. ASSUME NEW c \in Conns
      PROVE  /\ log'[c] = SubSeq(log[c], 1, histories[c].runs) /\ log'[c] \in Seq(Runs)
             /\ Len(log'[c]) = histories[c].runs /\ histories[c].runs \in Nat
             /\ SubSeq(log'[c], 1, histories[c].runs) = log'[c]
             /\ history_cache'[c] = NoValue /\ mark'[c] = 0
  <2>1. log[c] \in Seq(Runs) /\ histories[c].runs \in 0..Len(log[c])
    BY DEF Invariant, Logged, Stored
  <2>2. log'[c] = SubSeq(log[c], 1, histories[c].runs) /\ history_cache'[c] = NoValue /\ mark'[c] = 0
    BY <1>1
  <2>3. Len(log[c]) \in Nat
    BY <2>1
  <2> QED BY <2>1, <2>2, <2>3, Beginnings
<1>3. Connected' /\ Asked' /\ Writing'
  BY <1>1 DEF Connected, Asked, Writing
<1>4. Logged'
  BY <1>1, <1>2 DEF Logged
<1>5. Cached'
  <2>1. history_cache' = [c \in Conns |-> history_cache'[c]]
    BY <1>1
  <2>2. ASSUME NEW c \in Conns
        PROVE  IF history_cache'[c] = NoValue
               THEN histories'[c].runs = Len(log'[c]) /\ \A job \in writes' : job.conn # c
               ELSE History(history_cache'[c], log'[c])
    BY <1>1, <1>2
  <2> QED BY <2>1, <2>2, Zenon DEF Cached
<1>6. Stored'
  <2>1. histories' = [c \in Conns |-> [file |-> histories'[c].file, runs |-> histories'[c].runs]]
    BY <1>1 DEF Invariant, Stored
  <2>2. ASSUME NEW c \in Conns
        PROVE  /\ histories'[c].runs \in 0..Len(log'[c])
               /\ History(histories'[c].file, SubSeq(log'[c], 1, histories'[c].runs))
    <3>1. History(histories[c].file, SubSeq(log[c], 1, histories[c].runs))
      BY DEF Invariant, Stored
    <3>2. History(histories'[c].file, SubSeq(log'[c], 1, histories'[c].runs))
      BY <1>1, <1>2, <3>1
    <3>3. histories'[c].runs \in 0..Len(log'[c])
      BY <1>1, <1>2
    <3> QED BY <3>2, <3>3
  <2> QED BY <2>1, <2>2, Zenon DEF Stored
<1>7. Marked'
  <2>1. mark' \in [Conns -> Nat]
    BY <1>1
  <2>2. ASSUME NEW c \in Conns
        PROVE  mark'[c] <= Len(log'[c]) /\ ~ (histories'[c].runs < Len(log'[c]))
    BY <1>1, <1>2
  <2> QED BY <2>1, <2>2 DEF Marked
<1> QED BY <1>3, <1>4, <1>5, <1>6, <1>7 DEF Invariant

(* What is remembered is what was typed: cache and files are the histories   *)
(* of the runs confirmed, whatever writes overtake each other or fail and    *)
(* whenever the program ends, and a file that is behind has its newest write *)
(* under way, or had it fail.                                                *)
THEOREM RemembersRunsHolds ==
  ASSUME Apart
  PROVE  ParametersSpec => []RemembersRuns
<1>1. ParametersInit => Invariant
  BY InvariantInit
<1>2. Invariant /\ [ParametersNext]_parameterVars => Invariant'
  <2> SUFFICES ASSUME Invariant, [ParametersNext]_parameterVars PROVE Invariant'
    OBVIOUS
  <2>1. CASE \E c \in Conns : Connect(c)
    BY <2>1, InvariantConnect
  <2>2. CASE Resolves
    BY <2>2, InvariantResolves
  <2>3. CASE \E script \in Scripts, text \in ScriptTexts : Run(script, text)
    BY <2>3, InvariantRun
  <2>4. CASE modal # NoValue /\ \E values \in [DOMAIN modal.fields -> Values] : Fill(values)
    BY <2>4, InvariantFill
  <2>5. CASE Confirm
    BY <2>5, InvariantConfirm
  <2>6. CASE Cancel
    BY <2>6, InvariantCancel
  <2>7. CASE \E job \in writes : Write(job)
    BY <2>7, InvariantWrite
  <2>8. CASE Restart
    BY <2>8, InvariantRestart
  <2>9. CASE UNCHANGED parameterVars
    <3>1. Logged' /\ Cached' /\ Stored' /\ Writing' /\ Marked'
      BY <2>9, NothingRecorded DEF parameterVars
    <3>2. Connected' /\ Asked'
      BY <2>9 DEF parameterVars, Invariant, Connected, Asked
    <3> QED BY <3>1, <3>2 DEF Invariant
  <2> QED BY <2>1, <2>2, <2>3, <2>4, <2>5, <2>6, <2>7, <2>8, <2>9 DEF ParametersNext
<1>3. Invariant => RemembersRuns
  BY InvariantRemembers
<1> QED BY <1>1, <1>2, <1>3, PTL DEF ParametersSpec

=============================================================================
