-------------------------- MODULE EngineApiProofs ---------------------------
(***************************************************************************)
(* Theorems about EngineApi.                                               *)
(*                                                                         *)
(* DetectNtfsFixedDrives is a choice among all lists, so it says something *)
(* only once it is known that there is a sorted one: the first part proves *)
(* that, by taking the smallest counterexample.  Sorted lists are why a    *)
(* drive that is at two positions has shared the first with another.       *)
(***************************************************************************)
EXTENDS EngineApi, FiniteSetTheorems, FunctionTheorems, SequenceTheorems,
        WellFoundedInduction, TLAPS

(* Sorted lists *)

Increasing(s) == \A i, j \in DOMAIN s : i < j => s[i] < s[j]

SortedList(S) ==
    CHOOSE s \in [1 .. Cardinality(S) -> S] : \A i, j \in DOMAIN s : i < j => s[i] < s[j]

\* A set of numbers has a least member.
LEMMA LeastOf ==
    ASSUME NEW T \in SUBSET Nat, T # {}
    PROVE  \E n \in T : \A m \in T : n <= m
<1> DEFINE R == {ss \in Nat \X Nat : ss[1] < ss[2]}
<1>1. IsWellFoundedOn(R, Nat)
  BY NatLessThanWellFounded DEF OpToRel
<1>2. PICK x \in T : \A y \in T : ~(<<y, x>> \in R)
  <2> HIDE DEF R
  <2> QED BY <1>1, WFMin
<1>3. ASSUME NEW y \in T PROVE x <= y
  <2>1. ~(y < x)
    BY <1>2, Zenon
  <2> QED BY <2>1
<1> QED BY <1>2, <1>3

\* A finite set of numbers, unless it is empty, has a greatest member.
LEMMA GreatestOf ==
    ASSUME NEW T \in SUBSET Nat, IsFiniteSet(T), T # {}
    PROVE  \E n \in T : \A m \in T : m <= n
<1> DEFINE Bad == {S \in SUBSET T : S # {} /\ ~\E n \in S : \A m \in S : m <= n}
           R == StrictSubsetOrdering(T)
<1>1. ASSUME Bad # {} PROVE FALSE
  <2>1. IsWellFoundedOn(R, FiniteSubsetsOf(T))
    BY FS_StrictSubsetOrderingWellFounded
  <2>2. Bad \subseteq FiniteSubsetsOf(T)
    BY FS_Subset DEF FiniteSubsetsOf
  <2>3. PICK S \in Bad : \A U \in Bad : ~(<<U, S>> \in R)
    <3> HIDE DEF Bad, R
    <3> QED BY <1>1, <2>1, <2>2, WFMin
  <2>4. PICK x \in S : TRUE
    OBVIOUS
  <2>5. S \ {x} \in SUBSET T /\ <<S \ {x}, S>> \in R
    BY <2>4, Zenon DEF StrictSubsetOrdering
  <2>6. S \ {x} \notin Bad
    BY <2>3, <2>5
  <2> QED BY <2>4, <2>6
<1> QED BY <1>1

\* A larger number comes last.
LEMMA GreatestComesLast ==
    ASSUME NEW S \in SUBSET Nat, IsFiniteSet(S), NEW m \in Nat, \A n \in S : n < m,
           NEW s \in [1 .. Cardinality(S) -> S], Increasing(s)
    PROVE  LET t == [i \in 1 .. Cardinality(S) + 1 |-> IF i = Cardinality(S) + 1 THEN m ELSE s[i]]
           IN  /\ Cardinality(S \cup {m}) = Cardinality(S) + 1
               /\ t \in [1 .. Cardinality(S \cup {m}) -> S \cup {m}]
               /\ Increasing(t)
<1> DEFINE n == Cardinality(S)
           t == [i \in 1 .. n + 1 |-> IF i = n + 1 THEN m ELSE s[i]]
<1>1. n \in Nat
  BY FS_CardinalityType
<1>2. m \notin S
  OBVIOUS
<1>3. Cardinality(S \cup {m}) = n + 1
  BY <1>2, FS_AddElement
<1>4. \A i \in 1 .. n : s[i] \in S
  OBVIOUS
<1>5. \A i \in 1 .. n + 1 : i # n + 1 => i \in 1 .. n
  BY <1>1
<1>6. t \in [1 .. n + 1 -> S \cup {m}]
  BY <1>4, <1>5
<1>7. ASSUME NEW i \in 1 .. n + 1, NEW j \in 1 .. n + 1, i < j PROVE t[i] < t[j]
  <2>1. i \in 1 .. n /\ t[i] = s[i]
    BY <1>1, <1>7
  <2>2. CASE j = n + 1
    BY <2>1, <2>2, <1>4
  <2>3. CASE j # n + 1
    BY <2>1, <2>3, <1>1, <1>7 DEF Increasing
  <2> QED BY <2>2, <2>3
<1>8. Increasing(t)
  BY <1>7 DEF Increasing
<1> QED BY <1>3, <1>6, <1>8

LEMMA SortedExists ==
    ASSUME NEW T \in SUBSET Nat, IsFiniteSet(T)
    PROVE  \E s \in [1 .. Cardinality(T) -> T] : Increasing(s)
<1> DEFINE Bad == {S \in SUBSET T : ~\E s \in [1 .. Cardinality(S) -> S] : Increasing(s)}
           R == StrictSubsetOrdering(T)
<1>1. ASSUME Bad # {} PROVE FALSE
  <2>1. IsWellFoundedOn(R, FiniteSubsetsOf(T))
    BY FS_StrictSubsetOrderingWellFounded
  <2>2. Bad \subseteq FiniteSubsetsOf(T)
    BY FS_Subset DEF FiniteSubsetsOf
  <2>3. PICK S \in Bad : \A U \in Bad : ~(<<U, S>> \in R)
    <3> HIDE DEF Bad, R
    <3> QED BY <1>1, <2>1, <2>2, WFMin
  <2>4. S \in SUBSET Nat /\ IsFiniteSet(S) /\ S \subseteq T
    BY FS_Subset
  <2>5. CASE S = {}
    <3>1. Cardinality(S) = 0
      BY <2>5, FS_EmptySet
    <3>2. [i \in 1 .. 0 |-> 0] \in [1 .. Cardinality(S) -> S]
      BY <3>1
    <3>3. Increasing([i \in 1 .. 0 |-> 0])
      BY DEF Increasing
    <3> QED BY <3>2, <3>3
  <2>6. CASE S # {}
    <3>1. PICK m \in S : \A n \in S : n <= m
      BY <2>4, <2>6, GreatestOf
    <3> DEFINE U == S \ {m}
    <3>2. U \in SUBSET Nat /\ IsFiniteSet(U) /\ U \in SUBSET T /\ m \in Nat
      BY <2>4, FS_RemoveElement
    <3>3. U \notin Bad
      BY <2>3, <2>4, <3>1, <3>2, Zenon DEF StrictSubsetOrdering
    <3>4. PICK s \in [1 .. Cardinality(U) -> U] : Increasing(s)
      BY <3>2, <3>3
    <3>5. \A n \in U : n < m
      BY <2>4, <3>1
    <3>6. U \cup {m} = S
      BY <3>1
    <3> HIDE DEF U
    <3>7. \E t \in [1 .. Cardinality(U \cup {m}) -> U \cup {m}] : Increasing(t)
      BY <3>2, <3>4, <3>5, GreatestComesLast, Zenon
    <3> QED BY <3>6, <3>7
  <2> QED BY <2>5, <2>6
<1> QED BY <1>1

\* SortedList is one.
LEMMA SortedListSorts ==
    ASSUME NEW S \in SUBSET Nat, IsFiniteSet(S)
    PROVE  SortedList(S) \in [1 .. Cardinality(S) -> S] /\ Increasing(SortedList(S))
BY SortedExists DEF SortedList, Increasing
-----------------------------------------------------------------------------
(* The types *)

\* The build threads and the watchers reach only indexes that are there.
ReachInv ==
    /\ DOMAIN drives \subseteq DOMAIN volumes
    /\ building \subseteq DOMAIN drives
    /\ call = "joined" => at # 0
    /\ building # {} => call \in {"building", "terminated"}

LEMMA DetectIsSorted ==
    ASSUME attached \in SUBSET Drive
    PROVE  /\ DetectNtfsFixedDrives = SortedList(attached)
           /\ DetectNtfsFixedDrives \in Seq(Drive)
           /\ DOMAIN DetectNtfsFixedDrives = 1 .. Cardinality(attached)
           /\ Len(DetectNtfsFixedDrives) = Cardinality(attached)
           /\ Cardinality(attached) \in Nat
<1>1. attached \in SUBSET Nat /\ IsFiniteSet(attached)
  BY EngineApiAssumption, FS_Subset
<1>2. DetectNtfsFixedDrives = SortedList(attached)
  BY DEF DetectNtfsFixedDrives, SortedList
<1> DEFINE s == SortedList(attached)
           n == Cardinality(attached)
<1>3. n \in Nat /\ s \in [1 .. n -> attached]
  BY <1>1, SortedListSorts, FS_CardinalityType
<1>4. s \in Seq(Drive) /\ DOMAIN s = 1 .. n /\ Len(s) = n
  <2> HIDE DEF s, n
  <2>1. s \in [1 .. n -> Drive]
    BY <1>3
  <2> QED BY <2>1, <1>3
<1> QED BY <1>2, <1>3, <1>4

\* What the vector's assignment leaves is what was there, except for what is
\* assigned.
LEMMA StorageOverwritten ==
    ASSUME TypeOK, NEW s \in Seq(Drive)
    PROVE  /\ Storage \in Seq(Drive)
           /\ LeftBeyond(s) \in Seq(Drive)
           /\ DOMAIN Storage \subseteq DOMAIN (s \o LeftBeyond(s))
           /\ DOMAIN s \subseteq DOMAIN (s \o LeftBeyond(s))
           /\ \A i \in DOMAIN (s \o LeftBeyond(s)) :
                 (s \o LeftBeyond(s))[i] = IF i \in DOMAIN s THEN s[i] ELSE Storage[i]
           /\ \A i \in DOMAIN (s \o LeftBeyond(s)) : i \in DOMAIN s \/ i \in DOMAIN Storage
<1>1. Storage \in Seq(Drive)
  BY ConcatProperties DEF TypeOK, Storage
<1> DEFINE st == Storage
           n == Len(st)
           m == Len(s)
           rest == LeftBeyond(s)
<1>2. n \in Nat /\ m \in Nat /\ DOMAIN st = 1 .. n /\ DOMAIN s = 1 .. m
  <2> HIDE DEF st
  <2> QED BY <1>1, LenProperties DEF st
<1>3. \A i \in m + 1 .. n : st[i] \in Drive
  BY <1>1, <1>2, ElementOfSeq
<1>4. /\ rest \in Seq(Drive)
      /\ Len(rest) = IF m + 1 <= n THEN n - (m + 1) + 1 ELSE 0
      /\ \A i \in 1 .. n - (m + 1) + 1 : rest[i] = st[(m + 1) + i - 1]
  <2> HIDE DEF st, n, m
  <2>1. m + 1 \in Int /\ n \in Int
    BY <1>2
  <2> QED BY <1>3, <2>1, SubSeqProperties DEF LeftBeyond, st, n, m
<1> DEFINE both == s \o rest
           k == IF m <= n THEN n ELSE m
<1>5. Len(rest) = k - m /\ k \in Nat
  <2> HIDE DEF rest, n, m
  <2> QED BY <1>2, <1>4
<1>6. /\ both \in Seq(Drive) /\ Len(both) = k
      /\ \A i \in 1 .. k : both[i] = IF i <= m THEN s[i] ELSE rest[i - m]
  <2> HIDE DEF rest, n, k
  <2>1. /\ both \in Seq(Drive) /\ Len(both) = m + Len(rest)
        /\ \A i \in 1 .. m + Len(rest) : both[i] = IF i <= m THEN s[i] ELSE rest[i - m]
    BY <1>4, ConcatProperties
  <2>2. m + Len(rest) = k
    BY <1>2, <1>5
  <2> QED BY <2>1, <2>2
<1>7. DOMAIN both = 1 .. k
  BY <1>6, LenProperties
<1>8. ASSUME NEW i \in 1 .. k PROVE both[i] = IF i \in 1 .. m THEN s[i] ELSE st[i]
  <2>1. CASE i <= m
    BY <1>2, <1>6, <1>8, <2>1
  <2>2. CASE i > m
    <3>1. i - m \in 1 .. n - (m + 1) + 1 /\ (m + 1) + (i - m) - 1 = i /\ i \notin 1 .. m
      BY <1>2, <1>8, <2>2
    <3>2. both[i] = rest[i - m]
      BY <1>2, <1>6, <1>8, <2>2
    <3> HIDE DEF rest, st, n, m, k, both
    <3> QED BY <1>4, <3>1, <3>2
  <2> QED BY <1>2, <1>5, <2>1, <2>2
<1>9. 1 .. n \subseteq 1 .. k /\ 1 .. m \subseteq 1 .. k /\ \A i \in 1 .. k : i \in 1 .. m \/ i \in 1 .. n
  BY <1>2
<1> HIDE DEF rest, st, n, m, k, both
<1> QED BY <1>1, <1>2, <1>4, <1>7, <1>8, <1>9 DEF rest, st, both

Inv == TypeOK /\ ReachInv

LEMMA PutVolume ==
    ASSUME volumes \in Seq(Volume), NEW i \in DOMAIN volumes, NEW v \in Volume,
           volumes' = [volumes EXCEPT ![i] = v]
    PROVE  /\ volumes' \in Seq(Volume)
           /\ DOMAIN volumes' = DOMAIN volumes
           /\ volumes'[i] = v
           /\ \A j \in DOMAIN volumes : j # i => volumes'[j] = volumes[j]
<1>1. DOMAIN volumes = 1 .. Len(volumes)
  BY LenProperties
<1>2. /\ [volumes EXCEPT ![i] = v] \in Seq(Volume)
      /\ Len([volumes EXCEPT ![i] = v]) = Len(volumes)
  BY <1>1, ExceptSeq
<1> QED BY <1>1, <1>2

\* Building and tailing change one index.
LEMMA OneVolumePut ==
    ASSUME Inv,
           \/ \E w \in DOMAIN watchers : WatcherApplies(w)
           \/ \E i \in building : BuildLoads(i) \/ BuildScans(i) \/ BuildFails(i)
    PROVE  \/ UNCHANGED volumes
           \/ \E i \in DOMAIN volumes, v \in Volume : volumes' = [volumes EXCEPT ![i] = v]
<1> USE DEF Inv, TypeOK, ReachInv
<1>1. \A i \in DOMAIN volumes : volumes[i] \in Volume
  BY LenProperties
<1>2. \A i \in DOMAIN drives : drives[i] \in Drive
  BY LenProperties
<1>3. ASSUME NEW w \in DOMAIN watchers, WatcherApplies(w)
      PROVE  \E i \in DOMAIN volumes, v \in Volume : volumes' = [volumes EXCEPT ![i] = v]
  <2> DEFINE k == watchers[w].volume
  <2>1. PICK f \in File, origin \in {watchers[w].drive, None} :
            volumes' = [volumes EXCEPT ![k].records[f] = origin]
    BY <1>3 DEF WatcherApplies
  <2>2. k \in DOMAIN volumes /\ watchers[w] \in Watcher
    BY LenProperties
  <2>3. origin \in Origin
    BY <2>2 DEF Watcher, Origin
  <2> DEFINE v == [volumes[k] EXCEPT !.records = [volumes[k].records EXCEPT ![f] = origin]]
  <2>4. v \in Volume
    BY <1>1, <2>2, <2>3 DEF Volume, Records
  <2>5. volumes' = [volumes EXCEPT ![k] = v]
    BY <2>1
  <2> QED BY <2>2, <2>4, <2>5
<1>4. ASSUME NEW i \in building, BuildLoads(i) \/ BuildScans(i)
      PROVE  \E j \in DOMAIN volumes, v \in Volume : volumes' = [volumes EXCEPT ![j] = v]
  <2>1. i \in DOMAIN volumes /\ drives[i] \in Drive
    BY <1>2
  <2>2. PICK found \in Records :
            volumes' = [volumes EXCEPT ![i] = [letter |-> drives[i], records |-> found]]
    <3>1. CASE BuildLoads(i)
      BY <3>1 DEF BuildLoads, BuildTarget
    <3>2. CASE BuildScans(i)
      <4>1. PICK found \in [File -> {drives[i], None}] :
                volumes' = [volumes EXCEPT ![i] = [letter |-> drives[i], records |-> found]]
        BY <3>2 DEF BuildScans, BuildTarget
      <4>2. {drives[i], None} \subseteq Origin
        BY <2>1 DEF Origin
      <4>3. found \in Records
        BY <4>2, Zenon DEF Records
      <4> QED BY <4>1, <4>3
    <3> QED BY <1>4, <3>1, <3>2
  <2>3. [letter |-> drives[i], records |-> found] \in Volume
    BY <2>1 DEF Volume, Origin
  <2> QED BY <2>1, <2>2, <2>3
<1>5. ASSUME NEW i \in building, BuildFails(i)
      PROVE  \/ UNCHANGED volumes
             \/ \E j \in DOMAIN volumes, v \in Volume : volumes' = [volumes EXCEPT ![j] = v]
  <2>1. i \in DOMAIN volumes /\ drives[i] \in Drive
    BY <1>2
  <2> DEFINE v == [volumes[i] EXCEPT !.letter = drives[i]]
  <2>2. v \in Volume
    BY <1>1, <2>1 DEF Volume, Origin
  <2>3. UNCHANGED volumes \/ volumes' = [volumes EXCEPT ![i] = v]
    BY <1>5 DEF BuildFails, BuildTarget
  <2> QED BY <2>1, <2>2, <2>3
<1> QED BY <1>3, <1>4, <1>5

LEMMA GrownByUnbuilt ==
    ASSUME volumes \in Seq(Volume), NEW n \in Nat
    PROVE  /\ Grown(n) \in Seq(Volume)
           /\ Len(Grown(n)) = Len(volumes) + n
           /\ DOMAIN Grown(n) = 1 .. Len(volumes) + n
           /\ DOMAIN volumes = 1 .. Len(volumes)
           /\ \A i \in DOMAIN volumes : i \in DOMAIN Grown(n) /\ Grown(n)[i] = volumes[i]
           /\ \A i \in DOMAIN Grown(n) : i \notin DOMAIN volumes => Grown(n)[i] = Unbuilt
<1> DEFINE more == [i \in 1 .. n |-> Unbuilt]
<1>1. Unbuilt \in Volume
  BY DEF Unbuilt, Volume, NoRecords, Records, Origin
<1>2. more \in Seq(Volume) /\ Len(more) = n /\ \A i \in 1 .. n : more[i] = Unbuilt
  <2> HIDE DEF Unbuilt
  <2> QED BY <1>1
<1>3. Grown(n) = volumes \o more
  BY DEF Grown
<1>4. DOMAIN volumes = 1 .. Len(volumes) /\ Len(volumes) \in Nat
  BY LenProperties
<1> HIDE DEF more
<1>5. /\ Grown(n) \in Seq(Volume) /\ Len(Grown(n)) = Len(volumes) + n
      /\ \A i \in 1 .. Len(volumes) + n :
            Grown(n)[i] = IF i <= Len(volumes) THEN volumes[i] ELSE more[i - Len(volumes)]
  <2>1. /\ volumes \o more \in Seq(Volume)
        /\ Len(volumes \o more) = Len(volumes) + Len(more)
        /\ \A i \in 1 .. Len(volumes) + Len(more) :
              (volumes \o more)[i] = IF i <= Len(volumes) THEN volumes[i] ELSE more[i - Len(volumes)]
    BY <1>2, ConcatProperties, Zenon
  <2> QED BY <1>2, <1>3, <2>1, Zenon
<1>6. DOMAIN Grown(n) = 1 .. Len(volumes) + n
  BY <1>5, LenProperties
<1>7. \A i \in 1 .. Len(volumes) + n : i > Len(volumes) => i - Len(volumes) \in 1 .. n
  BY <1>4
<1> QED BY <1>2, <1>4, <1>5, <1>6, <1>7

LEMMA InvInit == Init => Inv
<1> SUFFICES ASSUME Init PROVE Inv
  OBVIOUS
<1> USE DEF Init
<1>1. /\ volumes \in Seq(Volume) /\ driveLetters \in Seq(Drive) /\ beyond \in Seq(Drive)
      /\ drives \in Seq(Drive) /\ watchers \in Seq(Watcher)
  BY EmptySeq
<1>2. DOMAIN drives = {} /\ DOMAIN watchers = {} /\ DOMAIN volumes = {}
  OBVIOUS
<1> QED BY <1>1, <1>2 DEF Inv, TypeOK, ReachInv, Calls

LEMMA InvNext == Inv /\ [Next]_vars => Inv'
<1> SUFFICES ASSUME Inv, [Next]_vars PROVE Inv'
  OBVIOUS
<1> USE DEF Inv
<1>0. CASE UNCHANGED vars
  BY <1>0 DEF TypeOK, ReachInv, vars, machineVars, stateVars, callVars
<1>1. CASE Move
  BY <1>1, EngineApiAssumption
     DEF Move, TypeOK, ReachInv, machineVars, stateVars, callVars
<1>2. CASE \/ \E w \in DOMAIN watchers : WatcherApplies(w)
           \/ \E i \in building : BuildLoads(i) \/ BuildScans(i) \/ BuildFails(i)
  <2>1. volumes' \in Seq(Volume) /\ DOMAIN volumes' = DOMAIN volumes
    BY <1>2, OneVolumePut, PutVolume DEF TypeOK
  <2>2. steady' \in SUBSET (Nat \X File) /\ building' \subseteq building
    BY <1>2 DEF TypeOK, WatcherApplies, BuildLoads, BuildScans, BuildFails, buildRest
  <2>3. UNCHANGED <<machineVars, builds, driveLetters, beyond, given, running, results, watchers,
                    call, drives, at, cap, snapshots>>
    BY <1>2 DEF WatcherApplies, BuildLoads, BuildScans, BuildFails, buildRest
  <2> QED BY <2>1, <2>2, <2>3 DEF TypeOK, ReachInv, machineVars
<1>3. ASSUME NEW w \in DOMAIN watchers, WatcherEnds(w) PROVE Inv'
  <2> DEFINE r == [watchers[w] EXCEPT !.state = "ended"]
  <2>1. watchers[w] \in Watcher /\ DOMAIN watchers = 1 .. Len(watchers)
    BY LenProperties DEF TypeOK
  <2>2. r \in Watcher /\ r.volume = watchers[w].volume
    BY <2>1 DEF Watcher
  <2>3. watchers' = [watchers EXCEPT ![w] = r]
    BY <1>3 DEF WatcherEnds
  <2> HIDE DEF r
  <2>4. /\ watchers' \in Seq(Watcher) /\ DOMAIN watchers' = DOMAIN watchers
        /\ \A k \in DOMAIN watchers : watchers'[k].volume = watchers[k].volume
    BY <2>1, <2>2, <2>3, ExceptSeq DEF TypeOK
  <2> QED BY <1>3, <2>4 DEF WatcherEnds, TypeOK, ReachInv, machineVars, stateVars, callVars
<1>4. CASE BuildBegin
  <2> DEFINE s == DetectNtfsFixedDrives
  <2>1. /\ s \in Seq(Drive) /\ Len(s) = Cardinality(attached) /\ Cardinality(attached) \in Nat
        /\ DOMAIN s = 1 .. Cardinality(attached)
    BY DetectIsSorted DEF TypeOK
  <2> HIDE DEF s
  <2>2. driveLetters' = s /\ beyond' = LeftBeyond(s)
    BY <1>4 DEF BuildBegin, s
  <2>3. driveLetters' \in Seq(Drive) /\ beyond' \in Seq(Drive)
    BY <2>1, <2>2, StorageOverwritten
  <2>31. given' \in SUBSET (Nat \X Drive)
    <3>1. \A i \in DOMAIN s : <<i, s[i]>> \in Nat \X Drive
      BY <2>1, LenProperties
    <3>2. given' = given \cup {<<i, s[i]>> : i \in DOMAIN s}
      BY <1>4, <2>2 DEF BuildBegin
    <3> QED BY <3>1, <3>2 DEF TypeOK
  <2>4. UNCHANGED <<machineVars, watchers, running, results, at, cap, steady, snapshots>>
        /\ builds' \in Nat /\ call # "joined" /\ call' # "joined" /\ call' \in Calls
    BY <1>4 DEF BuildBegin, TypeOK, Calls
  <2>5. /\ volumes' \in Seq(Volume) /\ DOMAIN volumes \subseteq DOMAIN volumes'
        /\ drives' \in Seq(Drive)
        /\ building' \subseteq DOMAIN drives' /\ DOMAIN drives' \subseteq DOMAIN volumes'
        /\ building' # {} => call' = "building"
    <3>1. CASE /\ drives' = s /\ volumes' = Grown(Len(drives')) /\ building' = DOMAIN drives'
               /\ call' = "building"
      <4>1. volumes' = Grown(Len(s)) /\ Len(s) \in Nat
        BY <3>1, <2>1
      <4>2. /\ volumes' \in Seq(Volume) /\ DOMAIN volumes \subseteq DOMAIN volumes'
            /\ DOMAIN volumes' = 1 .. Len(volumes) + Len(s)
        BY <4>1, GrownByUnbuilt DEF TypeOK
      <4>3. Len(volumes) \in Nat
        BY LenProperties DEF TypeOK
      <4>4. 1 .. Len(s) \subseteq 1 .. Len(volumes) + Len(s)
        BY <4>1, <4>3
      <4> QED BY <3>1, <2>1, <4>2, <4>4
    <3>2. CASE /\ \E made \in 0 .. Cardinality(attached) : volumes' = Grown(made)
               /\ UNCHANGED <<call, drives, building>>
      <4>1. PICK made \in Nat : volumes' = Grown(made)
        BY <3>2, <2>1
      <4>2. volumes' \in Seq(Volume) /\ DOMAIN volumes \subseteq DOMAIN volumes'
        BY <4>1, GrownByUnbuilt DEF TypeOK
      <4>3. building = {}
        BY <1>4 DEF BuildBegin, ReachInv
      <4> QED BY <3>2, <4>2, <4>3 DEF TypeOK, ReachInv
    <3> QED BY <1>4, <3>1, <3>2 DEF BuildBegin, s
  <2> QED BY <2>3, <2>31, <2>4, <2>5 DEF TypeOK, ReachInv, machineVars
<1>5. CASE BuildTerminates
  BY <1>5 DEF BuildTerminates, TypeOK, ReachInv, Calls, machineVars, stateVars, callVars
<1>6. CASE BuildJoin
  BY <1>6 DEF BuildJoin, TypeOK, ReachInv, Calls, machineVars, stateVars
<1>7. CASE BuildWatch
  <2>1. at \in DOMAIN drives /\ at \in DOMAIN volumes /\ drives[at] \in Drive /\ at \in Nat \ {0}
    BY <1>7, LenProperties DEF BuildWatch, TypeOK, ReachInv
  <2> DEFINE r == [drive |-> drives[at], volume |-> at, state |-> "tailing"]
  <2>2. r \in Watcher /\ r.volume = at
    BY <2>1 DEF Watcher
  <2>3. UNCHANGED watchers \/ watchers' = Append(watchers, r)
    BY <1>7 DEF BuildWatch
  <2> HIDE DEF r
  <2>4. /\ watchers' \in Seq(Watcher)
        /\ \A w \in DOMAIN watchers' : watchers'[w].volume \in DOMAIN volumes
    <3>1. CASE watchers' = Append(watchers, r)
      <4>1. watchers \in Seq(Watcher) /\ DOMAIN watchers = 1 .. Len(watchers) /\ Len(watchers) \in Nat
        BY LenProperties DEF TypeOK
      <4>2. /\ watchers' \in Seq(Watcher) /\ DOMAIN watchers' = 1 .. Len(watchers) + 1
            /\ \A w \in 1 .. Len(watchers) + 1 :
                  watchers'[w] = IF w \in 1 .. Len(watchers) THEN watchers[w] ELSE r
        BY <3>1, <4>1, <2>2, AppendProperties, LenProperties
      <4> QED BY <4>1, <4>2, <2>1, <2>2 DEF TypeOK
    <3>2. CASE UNCHANGED watchers
      BY <3>2 DEF TypeOK
    <3> QED BY <2>3, <3>1, <3>2
  <2>5. at' = at + 1
    BY <1>7 DEF BuildWatch
  <2> QED BY <1>7, <2>1, <2>4, <2>5 DEF BuildWatch, TypeOK, ReachInv, machineVars, stateVars
<1>8. CASE BuildReturns
  <2>1. drives' \in Seq(Drive) /\ DOMAIN drives' = {} /\ building = {}
    BY <1>8, EmptySeq DEF BuildReturns, ReachInv
  <2> QED BY <1>8, <2>1 DEF BuildReturns, TypeOK, ReachInv, Calls, machineVars, stateVars
<1>9. CASE SearchBegin
  <2>1. DOMAIN volumes \subseteq Nat
    BY LenProperties DEF TypeOK
  <2>2. steady' \in SUBSET (Nat \X File) /\ cap' \in Nat
    BY <1>9, <2>1, EngineApiAssumption DEF SearchBegin
  <2> QED BY <1>9, <2>2 DEF SearchBegin, searchRest, TypeOK, ReachInv, Calls, machineVars
<1>10. CASE SearchVolume
  <2>1. PICK part \in SUBSET Entries(at) : results' = results \cup ({at} \X part)
    BY <1>10 DEF SearchVolume, Found
  <2>2. results' \in SUBSET (Nat \X File)
    BY <2>1 DEF Entries, TypeOK
  <2> QED BY <1>10, <2>2 DEF SearchVolume, searchRest, TypeOK, ReachInv, Calls, machineVars
<1>11. CASE SearchReturns \/ SearchFails
  BY <1>11 DEF SearchReturns, SearchFails, searchRest, TypeOK, ReachInv, Calls, machineVars
<1>12. CASE SaveBegin \/ SaveReturns
  BY <1>12 DEF SaveBegin, SaveReturns, TypeOK, ReachInv, Calls, machineVars, stateVars
<1>13. CASE SaveVolume
  <2>1. volumes[at].records \in Records
    <3>1. volumes[at] \in Volume
      BY <1>13, LenProperties DEF SaveVolume, TypeOK
    <3> QED BY <3>1 DEF Volume
  <2>2. snapshots' \in [Drive -> Records \cup {NoSnapshot}]
    <3>1. CASE UNCHANGED snapshots
      BY <3>1 DEF TypeOK
    <3>2. ASSUME NEW letter \in LetterRead(at),
                 snapshots' = [snapshots EXCEPT ![letter] = volumes[at].records]
          PROVE  snapshots' \in [Drive -> Records \cup {NoSnapshot}]
      BY <3>2, <2>1 DEF TypeOK
    <3> QED BY <1>13, <3>1, <3>2 DEF SaveVolume
  <2> QED BY <1>13, <2>2 DEF SaveVolume, TypeOK, ReachInv, Calls, machineVars, stateVars
<1>14. CASE DestroyBegin \/ DestroyEnd
  BY <1>14 DEF DestroyBegin, DestroyEnd, TypeOK, ReachInv, Calls, machineVars, stateVars, callVars
<1> QED
  BY <1>0, <1>1, <1>2, <1>3, <1>4, <1>5, <1>6, <1>7, <1>8, <1>9, <1>10, <1>11, <1>12,
     <1>13, <1>14 DEF Next, Build, Search, Save, Destroy

-----------------------------------------------------------------------------
(* Positions and drives *)

\* A drive is at a position only if a smaller one was at each position before.
GivenInv ==
    \A g \in given : \A i \in 1 .. g[1] - 1 : \E d \in Drive : <<i, d>> \in given /\ d < g[2]

\* The locals of a build and the storage of driveLetters, cut-off end included,
\* hold what their positions were given.
PlacesInv ==
    /\ \A i \in DOMAIN drives : i \in DOMAIN Storage /\ <<i, drives[i]>> \in given
    /\ \A i \in DOMAIN Storage : <<i, Storage[i]>> \in given

\* So do the indexes, and the watchers at them.
VolumesInv ==
    /\ \A i \in DOMAIN volumes :
          volumes[i].letter # None =>
              i \in DOMAIN Storage /\ <<i, volumes[i].letter>> \in given
    /\ OwnRecordsOnly
    /\ \A w \in DOMAIN watchers :
          /\ <<watchers[w].volume, watchers[w].drive>> \in given
          /\ volumes[watchers[w].volume].letter # None

ApartInv == GivenInv /\ PlacesInv /\ VolumesInv /\ SnapshotsOfTheirDrive

\* Two drives of one position are displaced, both of them.
LEMMA SharedIsDisplaced ==
    ASSUME TypeOK, NEW i, NEW d, NEW e, <<i, d>> \in given, <<i, e>> \in given
    PROVE  d = e \/ {d, e} \subseteq Displaced
<1>1. d \in Drive /\ e \in Drive
  BY DEF TypeOK
<1>2. ASSUME d # e PROVE d \in Displaced
  <2> DEFINE p == <<i, d>>
             q == <<i, e>>
  <2>1. p \in given /\ q \in given /\ p[1] = q[1] /\ p[2] = d /\ q[2] # d
    BY <1>2
  <2> HIDE DEF p, q
  <2> QED BY <1>1, <2>1 DEF Displaced
<1>3. ASSUME d # e PROVE e \in Displaced
  <2> DEFINE p == <<i, e>>
             q == <<i, d>>
  <2>1. p \in given /\ q \in given /\ p[1] = q[1] /\ p[2] = e /\ q[2] # e
    BY <1>3
  <2> HIDE DEF p, q
  <2> QED BY <1>1, <2>1 DEF Displaced
<1> QED BY <1>2, <1>3

\* What is displaced remains so.
LEMMA DisplacedGrows ==
    ASSUME given \subseteq given' PROVE Displaced \subseteq Displaced'
BY DEF Displaced

\* A file of an index is one of the drive whose letter it has, unless both were
\* displaced.
LEMMA RecordIsOwn ==
    ASSUME OwnRecordsOnly, NEW i \in DOMAIN volumes, NEW f \in File
    PROVE  \/ volumes[i].records[f] \in {volumes[i].letter, None}
           \/ {volumes[i].records[f], volumes[i].letter} \subseteq Displaced
BY DEF OwnRecordsOnly, Entries

\* So an index without a letter has no files.
LEMMA NamelessIsEmpty ==
    ASSUME OwnRecordsOnly, NEW i \in DOMAIN volumes, NEW f \in Entries(i)
    PROVE  volumes[i].letter # None
<1>1. None \notin Displaced
  BY EngineApiAssumption DEF Displaced
<1> QED BY <1>1, RecordIsOwn DEF Entries

\* One index is changed, and keeps to what its position was given.
LEMMA PutKeepsVolumes ==
    ASSUME Inv, VolumesInv, NEW i \in DOMAIN volumes, NEW v \in Volume,
           volumes' = [volumes EXCEPT ![i] = v],
           UNCHANGED <<driveLetters, beyond, given, watchers>>,
           v.letter # None => i \in DOMAIN Storage /\ <<i, v.letter>> \in given,
           volumes[i].letter # None => v.letter # None,
           \A f \in File : \/ v.records[f] \in {v.letter, None}
                           \/ {v.records[f], v.letter} \subseteq Displaced
    PROVE  VolumesInv'
<1>1. /\ DOMAIN volumes' = DOMAIN volumes /\ volumes'[i] = v
      /\ \A j \in DOMAIN volumes : j # i => volumes'[j] = volumes[j]
  BY PutVolume DEF Inv, TypeOK
<1>2. Storage' = Storage /\ Displaced' = Displaced
  BY DEF Storage, Displaced
<1>3. \A j \in DOMAIN volumes' :
          volumes'[j].letter # None =>
              j \in DOMAIN Storage' /\ <<j, volumes'[j].letter>> \in given'
  BY <1>1, <1>2 DEF VolumesInv
<1>4. ASSUME NEW j \in DOMAIN volumes', NEW f \in File, volumes'[j].records[f] # None
      PROVE  \/ volumes'[j].records[f] = volumes'[j].letter
             \/ {volumes'[j].records[f], volumes'[j].letter} \subseteq Displaced'
  <2>1. CASE j = i
    BY <1>1, <1>2, <1>4, <2>1
  <2>2. CASE j # i
    BY <1>1, <1>2, <1>4, <2>2, RecordIsOwn DEF VolumesInv
  <2> QED BY <2>1, <2>2
<1>5. OwnRecordsOnly'
  BY <1>4 DEF OwnRecordsOnly, Entries
<1>6. \A w \in DOMAIN watchers : watchers[w].volume \in DOMAIN volumes
  BY DEF Inv, TypeOK
<1>7. \A w \in DOMAIN watchers' :
          /\ <<watchers'[w].volume, watchers'[w].drive>> \in given'
          /\ volumes'[watchers'[w].volume].letter # None
  BY <1>1, <1>6 DEF VolumesInv
<1> QED BY <1>3, <1>5, <1>7 DEF VolumesInv

LEMMA ApartInit == Init => ApartInv
<1> SUFFICES ASSUME Init PROVE ApartInv
  OBVIOUS
<1> USE DEF Init
<1>1. DOMAIN drives = {} /\ DOMAIN watchers = {} /\ DOMAIN volumes = {}
  OBVIOUS
<1>2. Storage = <<>>
  BY ConcatEmptySeq, EmptySeq DEF Storage
<1>3. GivenInv /\ PlacesInv
  BY <1>1, <1>2 DEF GivenInv, PlacesInv
<1>4. VolumesInv
  BY <1>1 DEF VolumesInv, OwnRecordsOnly
<1>5. SnapshotsOfTheirDrive
  BY DEF SnapshotsOfTheirDrive
<1> QED BY <1>3, <1>4, <1>5 DEF ApartInv

\* Nothing but a build gives drives to positions.
LEMMA ApartUnchanged ==
    ASSUME ApartInv, UNCHANGED <<volumes, driveLetters, beyond, given, watchers, snapshots>>,
           drives' = drives \/ drives' = <<>>
    PROVE  ApartInv'
<1>1. Storage' = Storage /\ Displaced' = Displaced
  BY DEF Storage, Displaced
<1>2. VolumesInv'
  BY <1>1 DEF ApartInv, VolumesInv, OwnRecordsOnly, Entries
<1>3. PlacesInv'
  <2>1. CASE drives' = drives
    BY <1>1, <2>1 DEF ApartInv, PlacesInv
  <2>2. CASE drives' = <<>>
    <3>1. DOMAIN drives' = {}
      BY <2>2
    <3> QED BY <1>1, <3>1 DEF ApartInv, PlacesInv
  <2> QED BY <2>1, <2>2
<1>4. SnapshotsOfTheirDrive'
  BY <1>1 DEF ApartInv, SnapshotsOfTheirDrive
<1>5. GivenInv'
  BY DEF ApartInv, GivenInv
<1> QED BY <1>2, <1>3, <1>4, <1>5 DEF ApartInv

LEMMA ApartWhenBuildBegins ==
    ASSUME Inv, ApartInv, BuildBegin
    PROVE  ApartInv'
<1> DEFINE s == DetectNtfsFixedDrives
           st == s \o LeftBeyond(s)
           n == Cardinality(attached)
<1>1. s \in Seq(Drive) /\ Len(s) = n /\ n \in Nat /\ DOMAIN s = 1 .. n
  BY DetectIsSorted DEF Inv, TypeOK
<1>2. \A i, j \in DOMAIN s : i < j => s[i] < s[j]
  <2>1. attached \in SUBSET Nat /\ IsFiniteSet(attached)
    BY EngineApiAssumption, FS_Subset DEF Inv, TypeOK
  <2>2. Increasing(SortedList(attached))
    BY <2>1, SortedListSorts
  <2> QED BY <2>2, DetectIsSorted DEF Inv, TypeOK, Increasing
<1>3. Storage' = st
  BY DEF BuildBegin, Storage
<1>4. given' = given \cup {<<i, s[i]>> : i \in DOMAIN s}
  BY DEF BuildBegin
<1> HIDE DEF s, n
<1>5. /\ DOMAIN Storage \subseteq DOMAIN st /\ DOMAIN s \subseteq DOMAIN st
      /\ \A i \in DOMAIN st : st[i] = IF i \in DOMAIN s THEN s[i] ELSE Storage[i]
      /\ \A i \in DOMAIN st : i \in DOMAIN s \/ i \in DOMAIN Storage
  BY <1>1, StorageOverwritten DEF Inv
<1> HIDE DEF st
<1>6. given \subseteq given' /\ \A i \in DOMAIN s : <<i, s[i]>> \in given'
  BY <1>4
<1>7. Displaced \subseteq Displaced'
  BY <1>6, DisplacedGrows
<1>8. GivenInv'
  <2> SUFFICES ASSUME NEW g \in given', NEW i \in 1 .. g[1] - 1
               PROVE  \E d \in Drive : <<i, d>> \in given' /\ d < g[2]
    BY DEF GivenInv
  <2>1. CASE g \in given
    BY <2>1, <1>6 DEF ApartInv, GivenInv
  <2>2. ASSUME NEW j \in DOMAIN s, g = <<j, s[j]>>
        PROVE  \E d \in Drive : <<i, d>> \in given' /\ d < g[2]
    <3>1. g[1] = j /\ g[2] = s[j] /\ j \in 1 .. n
      BY <1>1, <2>2
    <3>2. i \in DOMAIN s /\ i < j
      BY <1>1, <3>1
    <3>3. s[i] \in Drive
      BY <1>1, <3>2, LenProperties
    <3>4. <<i, s[i]>> \in given' /\ s[i] < g[2]
      BY <1>2, <1>6, <3>1, <3>2
    <3> QED BY <3>3, <3>4
  <2> QED BY <1>4, <2>1, <2>2
<1>9. PlacesInv'
  <2>1. \A i \in DOMAIN st : <<i, st[i]>> \in given'
    BY <1>5, <1>6 DEF ApartInv, PlacesInv
  <2>2. drives' = s \/ drives' = drives
    BY DEF BuildBegin, s
  <2>3. \A i \in DOMAIN drives' : i \in DOMAIN st /\ <<i, drives'[i]>> \in given'
    BY <2>2, <1>5, <1>6 DEF ApartInv, PlacesInv
  <2> QED BY <1>3, <2>1, <2>3 DEF PlacesInv
<1>10. PICK k \in Nat : volumes' = Grown(k)
  BY <1>1 DEF BuildBegin, s, n
<1>11. /\ \A i \in DOMAIN volumes : i \in DOMAIN volumes' /\ volumes'[i] = volumes[i]
       /\ \A i \in DOMAIN volumes' : i \notin DOMAIN volumes => volumes'[i] = Unbuilt
  BY <1>10, GrownByUnbuilt DEF Inv, TypeOK
<1>12. Unbuilt.letter = None /\ \A f \in File : Unbuilt.records[f] = None
  BY DEF Unbuilt, NoRecords
<1>13. \A i \in DOMAIN volumes' :
           volumes'[i].letter # None =>
               i \in DOMAIN Storage' /\ <<i, volumes'[i].letter>> \in given'
  <2> SUFFICES ASSUME NEW i \in DOMAIN volumes', volumes'[i].letter # None
               PROVE  i \in DOMAIN Storage' /\ <<i, volumes'[i].letter>> \in given'
    OBVIOUS
  <2>1. i \in DOMAIN volumes /\ volumes'[i] = volumes[i]
    BY <1>11, <1>12
  <2> QED BY <2>1, <1>3, <1>5, <1>6 DEF ApartInv, VolumesInv
<1>14. OwnRecordsOnly'
  <2> SUFFICES ASSUME NEW i \in DOMAIN volumes', NEW f \in File, volumes'[i].records[f] # None
               PROVE  \/ volumes'[i].records[f] = volumes'[i].letter
                      \/ {volumes'[i].records[f], volumes'[i].letter} \subseteq Displaced'
    BY DEF OwnRecordsOnly, Entries
  <2>1. i \in DOMAIN volumes /\ volumes'[i] = volumes[i]
    BY <1>11, <1>12
  <2> QED BY <2>1, <1>7, RecordIsOwn DEF ApartInv, VolumesInv
<1>15. \A w \in DOMAIN watchers' :
           /\ <<watchers'[w].volume, watchers'[w].drive>> \in given'
           /\ volumes'[watchers'[w].volume].letter # None
  BY <1>6, <1>11 DEF BuildBegin, ApartInv, VolumesInv, Inv, TypeOK
<1>16. VolumesInv'
  BY <1>13, <1>14, <1>15 DEF VolumesInv
<1>17. SnapshotsOfTheirDrive'
  BY <1>7 DEF BuildBegin, ApartInv, SnapshotsOfTheirDrive
<1> QED BY <1>8, <1>9, <1>16, <1>17 DEF ApartInv

LEMMA ApartWhenOneIsBuilt ==
    ASSUME Inv, ApartInv, NEW i \in building, BuildLoads(i) \/ BuildScans(i) \/ BuildFails(i)
    PROVE  ApartInv'
<1>1. /\ i \in DOMAIN volumes /\ drives[i] \in Drive /\ drives[i] # None
      /\ volumes[i] \in Volume /\ <<i, drives[i]>> \in given
  <2>1. i \in DOMAIN drives /\ i \in DOMAIN volumes
    BY DEF Inv, ReachInv
  <2>2. volumes[i] \in Volume /\ drives[i] \in Drive
    BY <2>1, LenProperties DEF Inv, TypeOK
  <2> QED BY <2>1, <2>2, EngineApiAssumption DEF ApartInv, PlacesInv
<1>2. i \in DOMAIN Storage
  BY DEF Inv, ReachInv, ApartInv, PlacesInv
<1>3. UNCHANGED <<driveLetters, beyond, given, watchers, drives, snapshots>>
  BY DEF BuildLoads, BuildScans, BuildFails, buildRest
<1>4. Displaced' = Displaced /\ Storage' = Storage
  BY <1>3 DEF Displaced, Storage
<1>5. PlacesInv' /\ SnapshotsOfTheirDrive' /\ GivenInv'
  BY <1>3, <1>4 DEF ApartInv, PlacesInv, SnapshotsOfTheirDrive, GivenInv
<1>6. ASSUME NEW found \in Records,
             \A f \in File : \/ found[f] \in {drives[i], None}
                             \/ {found[f], drives[i]} \subseteq Displaced,
             volumes' = [volumes EXCEPT ![i] = [letter |-> drives[i], records |-> found]]
      PROVE  VolumesInv'
  <2> DEFINE v == [letter |-> drives[i], records |-> found]
  <2>1. /\ v \in Volume /\ v.letter = drives[i]
        /\ \A f \in File : \/ v.records[f] \in {v.letter, None}
                           \/ {v.records[f], v.letter} \subseteq Displaced
    BY <1>1, <1>6 DEF Volume, Origin
  <2>2. volumes' = [volumes EXCEPT ![i] = v]
    BY <1>6
  <2> HIDE DEF v
  <2> QED BY <2>1, <2>2, <1>1, <1>2, <1>3, PutKeepsVolumes DEF ApartInv
<1>7. CASE BuildLoads(i)
  <2>1. PICK found \in Records :
            /\ \A f \in File : found[f] \in {snapshots[drives[i]][f], drives[i], None}
            /\ volumes' = [volumes EXCEPT ![i] = [letter |-> drives[i], records |-> found]]
    BY <1>7 DEF BuildLoads, BuildTarget
  <2>2. \A f \in File : \/ snapshots[drives[i]][f] \in {drives[i], None}
                        \/ {snapshots[drives[i]][f], drives[i]} \subseteq Displaced
    BY <1>1, <1>7 DEF BuildLoads, ApartInv, SnapshotsOfTheirDrive
  <2>3. \A f \in File : \/ found[f] \in {drives[i], None}
                        \/ {found[f], drives[i]} \subseteq Displaced
    BY <2>1, <2>2
  <2>4. VolumesInv'
    BY <1>6, <2>1, <2>3, Zenon
  <2> QED BY <1>5, <2>4 DEF ApartInv
<1>8. CASE BuildScans(i)
  <2>1. PICK found \in [File -> {drives[i], None}] :
            volumes' = [volumes EXCEPT ![i] = [letter |-> drives[i], records |-> found]]
    BY <1>8 DEF BuildScans, BuildTarget
  <2>2. {drives[i], None} \subseteq Origin
    BY <1>1 DEF Origin
  <2>3. found \in Records /\ \A f \in File : found[f] \in {drives[i], None}
    BY <2>2, Zenon DEF Records
  <2>4. VolumesInv'
    BY <1>6, <2>1, <2>3, Zenon
  <2> QED BY <1>5, <2>4 DEF ApartInv
<1>9. CASE BuildFails(i)
  <2> DEFINE v == [volumes[i] EXCEPT !.letter = drives[i]]
  <2>1. v \in Volume /\ v.letter = drives[i] /\ v.records = volumes[i].records
    BY <1>1 DEF Volume, Origin
  <2>2. ASSUME NEW f \in File
        PROVE  \/ v.records[f] \in {v.letter, None}
               \/ {v.records[f], v.letter} \subseteq Displaced
    <3> DEFINE r == volumes[i].records[f]
               old == volumes[i].letter
    <3>1. r = None \/ r = old \/ {r, old} \subseteq Displaced
      BY <1>1, RecordIsOwn DEF ApartInv, VolumesInv
    <3>2. CASE r # None
      <4>1. old # None
        BY <1>1, <3>2, NamelessIsEmpty DEF ApartInv, VolumesInv, Entries
      <4>2. <<i, old>> \in given
        BY <1>1, <4>1 DEF ApartInv, VolumesInv
      <4>3. old = drives[i] \/ {old, drives[i]} \subseteq Displaced
        BY <1>1, <4>2, SharedIsDisplaced DEF Inv
      <4> HIDE DEF v, r, old
      <4> QED BY <2>1, <3>1, <3>2, <4>3 DEF r
    <3> HIDE DEF v
    <3> QED BY <2>1, <3>2
  <2>3. CASE volumes' = [volumes EXCEPT ![i] = v]
    <3>1. VolumesInv'
      <4> HIDE DEF v
      <4> QED BY <2>1, <2>2, <2>3, <1>1, <1>2, <1>3, PutKeepsVolumes DEF ApartInv
    <3> QED BY <1>5, <3>1 DEF ApartInv
  <2>4. CASE UNCHANGED volumes
    BY <1>3, <2>4, ApartUnchanged
  <2> QED BY <1>9, <2>3, <2>4 DEF BuildFails, BuildTarget
<1> QED BY <1>7, <1>8, <1>9

LEMMA ApartWhenWatcherApplies ==
    ASSUME Inv, ApartInv, NEW w \in DOMAIN watchers, WatcherApplies(w)
    PROVE  ApartInv'
<1> DEFINE k == watchers[w].volume
           d == watchers[w].drive
<1>1. watchers[w] \in Watcher /\ k \in DOMAIN volumes
  BY LenProperties DEF Inv, TypeOK
<1>2. /\ volumes[k] \in Volume /\ volumes[k].letter # None
      /\ k \in DOMAIN Storage /\ <<k, volumes[k].letter>> \in given /\ <<k, d>> \in given
  BY <1>1, LenProperties DEF Inv, TypeOK, ApartInv, VolumesInv
<1>3. PICK f \in File, origin \in {d, None} :
          volumes' = [volumes EXCEPT ![k].records[f] = origin]
  BY DEF WatcherApplies
<1>4. UNCHANGED <<driveLetters, beyond, given, watchers, drives, snapshots>>
  BY DEF WatcherApplies
<1>5. /\ origin \in Origin
      /\ origin \in {volumes[k].letter, None} \/ {origin, volumes[k].letter} \subseteq Displaced
  <2>1. d = volumes[k].letter \/ {d, volumes[k].letter} \subseteq Displaced
    BY <1>2, SharedIsDisplaced DEF Inv
  <2> QED BY <1>1, <2>1 DEF Watcher, Origin
<1> DEFINE v == [volumes[k] EXCEPT !.records = [volumes[k].records EXCEPT ![f] = origin]]
<1>6. \A g \in File : \/ volumes[k].records[g] \in {volumes[k].letter, None}
                      \/ {volumes[k].records[g], volumes[k].letter} \subseteq Displaced
  BY <1>1, RecordIsOwn DEF ApartInv, VolumesInv
<1>7. v \in Volume /\ v.letter = volumes[k].letter
  BY <1>2, <1>5 DEF Volume, Records
<1>8. \A g \in File : v.records[g] = IF g = f THEN origin ELSE volumes[k].records[g]
  BY <1>2 DEF Volume, Records
<1>9. volumes' = [volumes EXCEPT ![k] = v]
  BY <1>3
<1>10. VolumesInv'
  <2> HIDE DEF v, k, d
  <2>1. \A g \in File : \/ v.records[g] \in {v.letter, None}
                        \/ {v.records[g], v.letter} \subseteq Displaced
    BY <1>5, <1>6, <1>7, <1>8
  <2> QED BY <2>1, <1>1, <1>2, <1>4, <1>7, <1>9, PutKeepsVolumes DEF ApartInv
<1>11. Storage' = Storage /\ Displaced' = Displaced
  BY <1>4 DEF Storage, Displaced
<1>12. PlacesInv' /\ SnapshotsOfTheirDrive' /\ GivenInv'
  BY <1>4, <1>11 DEF ApartInv, PlacesInv, SnapshotsOfTheirDrive, GivenInv
<1> QED BY <1>10, <1>12 DEF ApartInv

LEMMA ApartWhenWatched ==
    ASSUME Inv, ApartInv, BuildWatch
    PROVE  ApartInv'
<1>1. UNCHANGED <<volumes, driveLetters, beyond, given, drives, snapshots>>
  BY DEF BuildWatch, stateVars
<1>2. CASE UNCHANGED watchers
  BY <1>1, <1>2, ApartUnchanged
<1>3. CASE /\ Entries(at) # {}
           /\ watchers' = Append(watchers,
                  [drive |-> drives[at], volume |-> at, state |-> "tailing"])
  <2> DEFINE r == [drive |-> drives[at], volume |-> at, state |-> "tailing"]
  <2>1. at \in DOMAIN drives /\ at \in DOMAIN volumes
    BY DEF BuildWatch, Inv, ReachInv
  <2>2. volumes[at].letter # None
    BY <1>3, <2>1, NamelessIsEmpty DEF ApartInv, VolumesInv
  <2>3. <<at, drives[at]>> \in given /\ drives[at] \in Drive /\ at \in Nat \ {0}
    BY <2>1, LenProperties DEF Inv, TypeOK, ApartInv, PlacesInv
  <2>4. r \in Watcher /\ r.volume = at /\ r.drive = drives[at]
    BY <2>3 DEF Watcher
  <2>5. watchers' = Append(watchers, r)
    BY <1>3
  <2> HIDE DEF r
  <2>6. watchers \in Seq(Watcher) /\ DOMAIN watchers = 1 .. Len(watchers) /\ Len(watchers) \in Nat
    BY LenProperties DEF Inv, TypeOK
  <2>7. /\ watchers' \in Seq(Watcher) /\ DOMAIN watchers' = 1 .. Len(watchers) + 1
        /\ \A k \in 1 .. Len(watchers) + 1 :
              watchers'[k] = IF k \in 1 .. Len(watchers) THEN watchers[k] ELSE r
    BY <2>4, <2>5, <2>6, AppendProperties, LenProperties
  <2>8. \A k \in DOMAIN watchers' :
            /\ <<watchers'[k].volume, watchers'[k].drive>> \in given
            /\ volumes[watchers'[k].volume].letter # None
    BY <2>2, <2>3, <2>4, <2>6, <2>7 DEF ApartInv, VolumesInv
  <2>9. Storage' = Storage /\ Displaced' = Displaced
    BY <1>1 DEF Storage, Displaced
  <2>10. VolumesInv'
    BY <1>1, <2>8, <2>9 DEF ApartInv, VolumesInv, OwnRecordsOnly, Entries
  <2>11. PlacesInv' /\ SnapshotsOfTheirDrive' /\ GivenInv'
    BY <1>1, <2>9 DEF ApartInv, PlacesInv, SnapshotsOfTheirDrive, GivenInv
  <2> QED BY <2>10, <2>11 DEF ApartInv
<1> QED BY <1>2, <1>3 DEF BuildWatch

LEMMA ApartWhenSaved ==
    ASSUME Inv, ApartInv, SaveVolume
    PROVE  ApartInv'
<1>1. UNCHANGED <<volumes, driveLetters, beyond, given, drives, watchers>>
  BY DEF SaveVolume, stateVars
<1>2. CASE UNCHANGED snapshots
  BY <1>1, <1>2, ApartUnchanged
<1>3. ASSUME volumes[at].letter \in attached, NEW letter \in LetterRead(at),
             snapshots' = [snapshots EXCEPT ![letter] = volumes[at].records]
      PROVE  ApartInv'
  <2> DEFINE own == volumes[at].letter
  <2>1. at \in DOMAIN volumes /\ own # None
    BY <1>3, EngineApiAssumption DEF SaveVolume, Inv, TypeOK
  <2>2. at \in DOMAIN Storage /\ <<at, own>> \in given
    BY <2>1 DEF ApartInv, VolumesInv
  <2>3. letter = Storage[at] /\ <<at, letter>> \in given
    BY <2>2 DEF LetterRead, ApartInv, PlacesInv
  <2>4. letter = own \/ {letter, own} \subseteq Displaced
    BY <2>2, <2>3, SharedIsDisplaced DEF Inv
  <2>5. \A f \in File : \/ volumes[at].records[f] \in {own, None}
                        \/ {volumes[at].records[f], own} \subseteq Displaced
    BY <2>1, RecordIsOwn DEF ApartInv, VolumesInv
  <2> HIDE DEF own
  <2>6. \A f \in File : \/ volumes[at].records[f] \in {letter, None}
                        \/ {volumes[at].records[f], letter} \subseteq Displaced
    BY <2>4, <2>5
  <2>7. \A d \in Drive : snapshots'[d] = IF d = letter THEN volumes[at].records ELSE snapshots[d]
    BY <1>3 DEF Inv, TypeOK
  <2>8. Storage' = Storage /\ Displaced' = Displaced
    BY <1>1 DEF Storage, Displaced
  <2>9. SnapshotsOfTheirDrive'
    BY <2>6, <2>7, <2>8 DEF ApartInv, SnapshotsOfTheirDrive
  <2>10. VolumesInv' /\ PlacesInv' /\ GivenInv'
    BY <1>1, <2>8 DEF ApartInv, VolumesInv, PlacesInv, GivenInv, OwnRecordsOnly, Entries
  <2> QED BY <2>9, <2>10 DEF ApartInv
<1> QED BY <1>2, <1>3 DEF SaveVolume

LEMMA ApartNext == Inv /\ ApartInv /\ [Next]_vars => ApartInv'
<1> SUFFICES ASSUME Inv, ApartInv, [Next]_vars PROVE ApartInv'
  OBVIOUS
<1>1. ASSUME NEW w \in DOMAIN watchers, WatcherApplies(w) PROVE ApartInv'
  BY <1>1, ApartWhenWatcherApplies
<1>2. ASSUME NEW w \in DOMAIN watchers, WatcherEnds(w) PROVE ApartInv'
  <2> DEFINE r == [watchers[w] EXCEPT !.state = "ended"]
  <2>1. watchers[w] \in Watcher /\ DOMAIN watchers = 1 .. Len(watchers)
    BY LenProperties DEF Inv, TypeOK
  <2>2. r \in Watcher /\ r.volume = watchers[w].volume /\ r.drive = watchers[w].drive
    BY <2>1 DEF Watcher
  <2>3. watchers' = [watchers EXCEPT ![w] = r]
    BY <1>2 DEF WatcherEnds
  <2> HIDE DEF r
  <2>4. /\ DOMAIN watchers' = DOMAIN watchers
        /\ \A k \in DOMAIN watchers : /\ watchers'[k].volume = watchers[k].volume
                                      /\ watchers'[k].drive = watchers[k].drive
    BY <2>1, <2>2, <2>3, ExceptSeq DEF Inv, TypeOK
  <2>5. UNCHANGED <<volumes, driveLetters, beyond, given, drives, snapshots>>
    BY <1>2 DEF WatcherEnds, stateVars, callVars
  <2>6. Storage' = Storage /\ Displaced' = Displaced
    BY <2>5 DEF Storage, Displaced
  <2>7. VolumesInv'
    BY <2>4, <2>5, <2>6 DEF ApartInv, VolumesInv, OwnRecordsOnly, Entries
  <2> QED BY <2>5, <2>6, <2>7 DEF ApartInv, PlacesInv, SnapshotsOfTheirDrive, GivenInv
<1>3. CASE BuildBegin
  BY <1>3, ApartWhenBuildBegins
<1>4. ASSUME NEW i \in building, BuildLoads(i) \/ BuildScans(i) \/ BuildFails(i)
      PROVE  ApartInv'
  BY <1>4, ApartWhenOneIsBuilt
<1>5. CASE BuildWatch
  BY <1>5, ApartWhenWatched
<1>6. CASE SaveVolume
  BY <1>6, ApartWhenSaved
<1>7. CASE \/ Move \/ BuildTerminates \/ BuildJoin \/ BuildReturns \/ Search \/ SaveBegin
           \/ SaveReturns \/ Destroy \/ UNCHANGED vars
  <2>1. /\ UNCHANGED <<volumes, driveLetters, beyond, given, watchers, snapshots>>
        /\ drives' = drives \/ drives' = <<>>
    BY <1>7 DEF Move, BuildTerminates, BuildJoin, BuildReturns, Search, SearchBegin,
           SearchVolume, SearchReturns, SearchFails, SaveBegin, SaveReturns, Destroy,
           DestroyBegin, DestroyEnd, vars, stateVars, callVars, searchRest
  <2> QED BY <2>1, ApartUnchanged
<1> QED BY <1>1, <1>2, <1>3, <1>4, <1>5, <1>6, <1>7 DEF Next, Build, Save

LEMMA ApartIsEnough == ASSUME Inv, ApartInv PROVE MixingIsAccounted
<1>1. ASSUME NEW i \in DOMAIN volumes, NEW j \in DOMAIN volumes, i < j,
             volumes[i].letter = volumes[j].letter, volumes[i].letter # None
      PROVE  volumes[i].letter \in Displaced
  <2> DEFINE d == volumes[i].letter
             g == <<j, d>>
  <2>1. <<i, d>> \in given /\ g \in given /\ d \in Drive /\ g[1] = j /\ g[2] = d
    BY <1>1 DEF Inv, TypeOK, ApartInv, VolumesInv
  <2>2. i \in Nat \ {0} /\ j \in Nat
    BY LenProperties DEF Inv, TypeOK
  <2>3. i \in 1 .. j - 1
    BY <1>1, <2>2
  <2> HIDE DEF d, g
  <2>4. PICK e \in Drive : <<i, e>> \in given /\ e < d
    BY <2>1, <2>3 DEF ApartInv, GivenInv
  <2>5. e # d
    BY <2>1, <2>4, EngineApiAssumption
  <2>6. d \in Displaced
    BY <2>1, <2>4, <2>5, SharedIsDisplaced DEF Inv
  <2> QED BY <2>6 DEF d
<1>2. OneIndexPerDrive
  <2> SUFFICES ASSUME NEW i \in DOMAIN volumes, NEW j \in DOMAIN volumes,
                      volumes[i].letter = volumes[j].letter, Entries(i) # {}
               PROVE  i = j \/ volumes[i].letter \in Displaced
    BY DEF OneIndexPerDrive
  <2>1. volumes[i].letter # None
    BY NamelessIsEmpty DEF ApartInv, VolumesInv
  <2>2. i \in Nat /\ j \in Nat
    BY LenProperties DEF Inv, TypeOK
  <2>3. CASE i < j
    BY <1>1, <2>1, <2>3
  <2>4. CASE j < i
    BY <1>1, <2>1, <2>4
  <2> QED BY <2>2, <2>3, <2>4
<1> QED BY <1>2 DEF ApartInv, VolumesInv, MixingIsAccounted
-----------------------------------------------------------------------------
(* What EC_Search returns *)

\* What has been found is in the indexes passed; what is still steady is in
\* the indexes, and if it is in one that was passed it has been found, unless
\* the cap was reached.
SearchInv ==
    call = "searching" =>
        /\ at # 0 /\ IsFiniteSet(results) /\ Cardinality(results) <= cap
        /\ \A e \in results : e[1] < at
        /\ \A e \in steady : e[1] \in DOMAIN volumes /\ e[2] \in Entries(e[1])
        /\ Cardinality(results) < cap => \A e \in steady : e[1] < at => e \in results

LEMMA SearchInvInit == Init => SearchInv
BY FS_EmptySet DEF Init, SearchInv

\* What is found in an index is at most what is left of the cap, and all there
\* is if it is less.
LEMMA FoundShape ==
    ASSUME NEW entries, IsFiniteSet(entries), NEW limit \in Nat \ {0}, NEW part \in Found(entries, limit)
    PROVE  /\ part \subseteq entries /\ IsFiniteSet(part)
           /\ Cardinality(part) \in Nat /\ Cardinality(part) <= limit
           /\ Cardinality(part) < limit => part = entries
<1>1. Cardinality(entries) \in Nat
  BY FS_CardinalityType
<1>2. part \subseteq entries /\ IsFiniteSet(part) /\ Cardinality(part) \in Nat
  BY FS_Subset, FS_CardinalityType DEF Found
<1>3. IF Cardinality(entries) <= limit THEN part = entries ELSE Cardinality(part) = limit
  BY DEF Found
<1> QED BY <1>1, <1>2, <1>3

LEMMA SearchInvVolume ==
    ASSUME Inv, SearchInv, SearchVolume PROVE SearchInv'
<1> DEFINE c == Cardinality(results)
<1>1. /\ call = "searching" /\ at \in DOMAIN volumes /\ at \in Nat /\ c \in Nat /\ cap \in Nat
      /\ c < cap /\ IsFiniteSet(results)
      /\ at' = at + 1 /\ UNCHANGED <<call, cap, steady, volumes>>
  BY FS_CardinalityType DEF SearchVolume, MoreWanted, searchRest, Inv, TypeOK, SearchInv
<1>2. PICK part \in Found(Entries(at), cap - c) : results' = results \cup ({at} \X part)
  BY <1>1 DEF SearchVolume
<1>3. IsFiniteSet(Entries(at)) /\ cap - c \in Nat \ {0}
  <2>1. Entries(at) \in SUBSET File
    BY DEF Entries
  <2> QED BY <1>1, <2>1, EngineApiAssumption, FS_Subset
<1>4. /\ part \subseteq Entries(at) /\ IsFiniteSet(part)
      /\ Cardinality(part) \in Nat /\ Cardinality(part) <= cap - c
      /\ Cardinality(part) < cap - c => part = Entries(at)
  BY <1>2, <1>3, FoundShape
<1> DEFINE more == {at} \X part
<1>5. IsFiniteSet(more) /\ Cardinality(more) = Cardinality(part)
  <2>1. IsFiniteSet({at}) /\ Cardinality({at}) = 1
    BY FS_Singleton
  <2>2. IsFiniteSet(more) /\ Cardinality(more) = 1 * Cardinality(part)
    BY <2>1, <1>4, FS_Product
  <2> QED BY <2>2, <1>4
<1>6. results \cap more = {}
  BY <1>1 DEF SearchInv
<1>7. IsFiniteSet(results') /\ Cardinality(results') = c + Cardinality(part)
  <2> HIDE DEF more
  <2>1. /\ IsFiniteSet(results \cup more)
        /\ Cardinality(results \cup more) = c + Cardinality(more) - Cardinality(results \cap more)
    BY <1>1, <1>5, FS_Union
  <2>2. Cardinality(results \cap more) = 0
    BY <1>6, FS_EmptySet
  <2> QED BY <1>1, <1>2, <1>4, <1>5, <2>1, <2>2 DEF more
<1>8. \A e \in results' : e[1] < at'
  <2>1. \A e \in results : e[1] \in Nat /\ e[1] < at
    BY <1>1 DEF SearchInv, Inv, TypeOK
  <2> QED BY <1>1, <1>2, <2>1
<1>9. \A e \in steady' : e[1] \in DOMAIN volumes' /\ e[2] \in Entries(e[1])'
  BY <1>1 DEF SearchInv, Entries
<1>10. ASSUME Cardinality(results') < cap', NEW e \in steady', e[1] < at' PROVE e \in results'
  <2>1. part = Entries(at)
    BY <1>1, <1>4, <1>7, <1>10
  <2>2. e \in Nat \X File /\ e \in steady /\ e[2] \in Entries(e[1])
    BY <1>1, <1>10 DEF SearchInv, Inv, TypeOK
  <2>3. CASE e[1] = at
    <3>1. e \in {at} \X part
      BY <2>1, <2>2, <2>3
    <3> QED BY <3>1, <1>2
  <2>4. CASE e[1] < at
    BY <1>1, <1>2, <2>2, <2>4 DEF SearchInv
  <2> QED BY <1>1, <1>10, <2>2, <2>3, <2>4
<1>11. Cardinality(results') <= cap'
  BY <1>1, <1>4, <1>7
<1> QED BY <1>1, <1>7, <1>8, <1>9, <1>10, <1>11 DEF SearchInv

LEMMA SearchInvNext == Inv /\ SearchInv /\ [Next]_vars => SearchInv'
<1> SUFFICES ASSUME Inv, SearchInv, [Next]_vars PROVE SearchInv'
  OBVIOUS
<1>1. CASE UNCHANGED <<results, cap, call, at, steady, volumes>>
  BY <1>1 DEF SearchInv, Entries
<1>2. CASE call' # "searching"
  BY <1>2 DEF SearchInv
<1>3. ASSUME NEW w \in DOMAIN watchers, WatcherApplies(w) PROVE SearchInv'
  <2> DEFINE k == watchers[w].volume
  <2>1. PICK f \in File, origin \in {watchers[w].drive, None} :
            /\ volumes' = [volumes EXCEPT ![k].records[f] = origin]
            /\ steady' = steady \ {<<k, f>>}
    BY <1>3 DEF WatcherApplies
  <2>2. UNCHANGED <<results, cap, call, at>>
    BY <1>3 DEF WatcherApplies
  <2>3. ASSUME NEW e \in steady', call = "searching"
        PROVE  e[1] \in DOMAIN volumes' /\ e[2] \in Entries(e[1])'
    <3>1. e \in Nat \X File /\ e[1] \in DOMAIN volumes /\ e[2] \in Entries(e[1])
      BY <2>1, <2>3 DEF SearchInv, Inv, TypeOK
    <3>2. ~(e[1] = k /\ e[2] = f)
      BY <2>1, <2>3, <3>1
    <3>3. volumes[e[1]] \in Volume
      BY <3>1, LenProperties DEF Inv, TypeOK
    <3>4. DOMAIN volumes' = DOMAIN volumes
      BY <2>1
    <3>5. volumes'[e[1]].records[e[2]] = volumes[e[1]].records[e[2]]
      <4>1. CASE e[1] # k
        BY <4>1, <2>1, <3>1
      <4>2. CASE e[1] = k
        BY <4>2, <2>1, <3>1, <3>2, <3>3 DEF Volume, Records
      <4> QED BY <4>1, <4>2
    <3> QED BY <3>1, <3>4, <3>5 DEF Entries
  <2> QED BY <2>1, <2>2, <2>3 DEF SearchInv
<1>4. ASSUME NEW i \in building, BuildLoads(i) \/ BuildScans(i) \/ BuildFails(i)
      PROVE  SearchInv'
  <2>1. call # "searching" /\ UNCHANGED call
    BY <1>4 DEF BuildLoads, BuildScans, BuildFails, buildRest, Inv, ReachInv
  <2> QED BY <2>1, <1>2
<1>5. CASE SearchBegin
  <2>1. /\ results' = {} /\ at' = 1 /\ cap' \in Nat /\ volumes' = volumes
        /\ steady' = {e \in (DOMAIN volumes) \X File : e[2] \in Entries(e[1])}
    BY <1>5, EngineApiAssumption DEF SearchBegin, searchRest
  <2>2. IsFiniteSet(results') /\ Cardinality(results') <= cap'
    BY <2>1, FS_EmptySet
  <2>3. \A e \in steady' : e[1] \in DOMAIN volumes' /\ e[2] \in Entries(e[1])' /\ ~(e[1] < at')
    <3>1. DOMAIN volumes = 1 .. Len(volumes)
      BY LenProperties DEF Inv, TypeOK
    <3> QED BY <2>1, <3>1 DEF Entries
  <2> QED BY <2>1, <2>2, <2>3 DEF SearchInv
<1>6. CASE SearchVolume
  BY <1>6, SearchInvVolume
<1>7. CASE SearchReturns \/ SearchFails
  BY <1>7, <1>2 DEF SearchReturns, SearchFails
<1>8. CASE \/ Move \/ \E w \in DOMAIN watchers : WatcherEnds(w) \/ UNCHANGED vars
  BY <1>8, <1>1 DEF Move, WatcherEnds, vars, stateVars, callVars
<1>9. CASE \/ BuildBegin \/ BuildTerminates \/ BuildJoin \/ BuildWatch \/ BuildReturns
            \/ Save \/ Destroy
  <2>1. call' # "searching"
    BY <1>9 DEF BuildBegin, BuildTerminates, BuildJoin, BuildWatch, BuildReturns, Save,
           SaveBegin, SaveVolume, SaveReturns, Destroy, DestroyBegin, DestroyEnd,
           stateVars, callVars
  <2> QED BY <2>1, <1>2
<1>10. CASE UNCHANGED vars
  BY <1>10, <1>1 DEF vars, stateVars, callVars
<1> QED BY <1>3, <1>4, <1>5, <1>6, <1>7, <1>8, <1>9, <1>10 DEF Next, Build, Search

-----------------------------------------------------------------------------
(* Theorems *)

LEMMA InvAlways == Spec => []Inv
BY InvInit, InvNext, PTL DEF Spec

\* Nothing of EC_State, of a call's locals or of a build thread reaches beyond
\* its vectors: a watcher and a build thread always have their index, in any
\* order of calls, builds that fail half-way and drives that come and go.
THEOREM HandleTyped == Spec => []TypeOK
BY InvAlways, PTL DEF Inv

\* EC_Search never returns more than maxResults, over any number of indexes,
\* and if it returns less it has missed nothing that was indexed all the time.
THEOREM SearchAlwaysExhaustive == Spec => []SearchIsExhaustive
<1>1. SearchInv => SearchIsExhaustive
  BY DEF SearchInv, SearchIsExhaustive
<1> QED BY <1>1, SearchInvInit, SearchInvNext, InvAlways, PTL DEF Spec

\* Matching drives, indexes, watchers and snapshots by position, in vectors that
\* keep what earlier builds made, mixes up drives that have shared a position
\* and no other, through any number of builds and saves and whatever drives come
\* and go.
THEOREM MixingAlwaysAccounted == Spec => []MixingIsAccounted
<1>1. Inv /\ ApartInv => MixingIsAccounted
  BY ApartIsEnough
<1> QED BY <1>1, ApartInit, ApartNext, InvAlways, PTL DEF Spec
=============================================================================
