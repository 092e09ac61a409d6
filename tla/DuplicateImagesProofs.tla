----------------------- MODULE DuplicateImagesProofs ------------------------
(***************************************************************************)
(* Proofs about DuplicateImages, for any number of files and folders,      *)
(* whatever is alike, and any number of batches, menus and messages.       *)
(***************************************************************************)
EXTENDS DuplicateImages, SequenceTheorems, FiniteSetTheorems, TLAPS

-----------------------------------------------------------------------------
(* Lists *)

LEMMA PathsAreNumbers ==
    /\ IsFiniteSet(Path) /\ Path \subseteq Nat
    /\ Cardinality(Path) \in Nat
  BY DuplicateImagesAssumption, FS_CardinalityType

LEMMA ListOf ==
    ASSUME NEW S, NEW n \in Nat, NEW s \in [1 .. n -> S]
    PROVE  s \in Seq(S)
  OBVIOUS

LEMMA SeqMonotone ==
    ASSUME NEW S, NEW T, S \subseteq T, NEW s \in Seq(S)
    PROVE  s \in Seq(T)
<1> DEFINE n == Len(s)
<1>1. n \in Nat /\ s \in [1 .. n -> S]
  BY LenProperties
<1> HIDE DEF n
<1>2. s \in [1 .. n -> T]
  BY <1>1
<1> QED
  BY <1>1, <1>2, ListOf

LEMMA SortedList ==
    ASSUME NEW S, S \subseteq Nat, IsFiniteSet(S), NEW s \in InOrder(S, <)
    PROVE  /\ s \in Seq(S) /\ DOMAIN s = 1 .. Len(s) /\ Len(s) \in Nat
           /\ \A i, j \in DOMAIN s : i < j => s[i] < s[j]
           /\ \A i, j \in DOMAIN s : s[i] = s[j] => i = j
           /\ ToSet(s) = S
<1> DEFINE n == Cardinality(S)
<1>1. n \in Nat
  BY FS_CardinalityType
<1>2. s \in [1 .. n -> S] /\ \A t \in S : \E i \in 1 .. n : s[i] = t
  BY DEF InOrder, Bijection, Injection, Surjection
<1>3. \A i, j \in DOMAIN s : s[i] = s[j] => i = j
  BY DEF InOrder, Bijection, Injection, IsInjective
<1>4. \A i, j \in DOMAIN s : i < j => s[i] < s[j]
  BY DEF InOrder
<1> HIDE DEF n
<1>5. s \in Seq(S)
  BY <1>1, <1>2, ListOf
<1>6. ToSet(s) = S
  BY <1>2 DEF ToSet
<1> QED
  BY <1>3, <1>4, <1>5, <1>6, LenProperties

LEMMA EarlierList ==
    ASSUME NEW S, IsFiniteSet(S), NEW s \in InOrder(S, Earlier)
    PROVE  /\ s \in Seq(S) /\ DOMAIN s = 1 .. Len(s) /\ Len(s) \in Nat
           /\ \A i, j \in DOMAIN s : s[i] = s[j] => i = j
<1> DEFINE n == Cardinality(S)
<1>1. n \in Nat
  BY FS_CardinalityType
<1>2. s \in [1 .. n -> S]
  BY DEF InOrder, Bijection, Injection
<1>3. \A i, j \in DOMAIN s : s[i] = s[j] => i = j
  BY DEF InOrder, Bijection, Injection, IsInjective
<1> HIDE DEF n
<1>4. s \in Seq(S)
  BY <1>1, <1>2, ListOf
<1> QED
  BY <1>3, <1>4, LenProperties

LEMMA PairSet ==
    ASSUME NEW p \in Path \X Path
    PROVE  ToSet(p) = {p[1], p[2]} /\ p[1] \in Path /\ p[2] \in Path
  BY DEF ToSet

(* A list of some elements of another, no position twice.                    *)
LEMMA Picked ==
    ASSUME NEW S, NEW s \in Seq(S), NEW m \in Nat, NEW at \in [1 .. m -> DOMAIN s]
    PROVE  /\ [k \in 1 .. m |-> s[at[k]]] \in Seq(S)
           /\ DOMAIN [k \in 1 .. m |-> s[at[k]]] = 1 .. m
           /\ \A k \in 1 .. m : [i \in 1 .. m |-> s[at[i]]][k] = s[at[k]]
<1>1. \A i \in DOMAIN s : s[i] \in S
  BY LenProperties, ElementOfSeq
<1>2. [k \in 1 .. m |-> s[at[k]]] \in [1 .. m -> S]
  BY <1>1
<1> QED
  BY <1>2

LEMMA RemovedAt ==
    ASSUME NEW S, NEW s \in Seq(S), NEW i \in DOMAIN s
    PROVE  RemoveAt(s, i) = [k \in 1 .. Len(s) - 1 |-> s[IF k < i THEN k ELSE k + 1]]
<1> DEFINE n == Len(s)
           a == SubSeq(s, 1, i - 1)
           b == SubSeq(s, i + 1, n)
           r == a \o b
<1>1. n \in Nat /\ DOMAIN s = 1 .. n /\ i \in 1 .. n /\ \A j \in 1 .. n : s[j] \in S
  BY LenProperties, ElementOfSeq
<1>2. /\ a \in Seq(S) /\ Len(a) = IF 1 <= i - 1 THEN i - 1 - 1 + 1 ELSE 0
      /\ \A k \in 1 .. i - 1 - 1 + 1 : a[k] = s[1 + k - 1]
  <2>1. 1 \in Int /\ i - 1 \in Int /\ \A j \in 1 .. i - 1 : s[j] \in S
    BY <1>1
  <2> QED
    BY <2>1, SubSeqProperties
<1>3. /\ b \in Seq(S) /\ Len(b) = IF i + 1 <= n THEN n - (i + 1) + 1 ELSE 0
      /\ \A k \in 1 .. n - (i + 1) + 1 : b[k] = s[i + 1 + k - 1]
  <2>1. i + 1 \in Int /\ n \in Int /\ \A j \in i + 1 .. n : s[j] \in S
    BY <1>1
  <2> HIDE DEF n
  <2> QED
    BY <2>1, SubSeqProperties
<1> HIDE DEF a, b, n
<1>4. Len(a) = i - 1 /\ Len(b) = n - i /\ Len(a) + Len(b) = n - 1
  <2>1. n \in Nat /\ i \in 1 .. n
    BY <1>1
  <2>2. Len(a) = i - 1
    BY <1>2, <2>1
  <2>3. Len(b) = n - i
    BY <1>3, <2>1
  <2> QED
    BY <2>1, <2>2, <2>3
<1>5. /\ r \in Seq(S) /\ Len(r) = Len(a) + Len(b)
      /\ \A k \in 1 .. Len(a) + Len(b) : r[k] = IF k <= Len(a) THEN a[k] ELSE b[k - Len(a)]
  BY <1>2, <1>3, ConcatProperties
<1> HIDE DEF r
<1>6. ASSUME NEW k \in 1 .. n - 1 PROVE r[k] = s[IF k < i THEN k ELSE k + 1]
  <2>1. r[k] = IF k <= i - 1 THEN a[k] ELSE b[k - (i - 1)]
    BY <1>4, <1>5
  <2>2. CASE k < i
    <3>1. k \in 1 .. i - 1 - 1 + 1 /\ 1 + k - 1 = k /\ k <= i - 1
      BY <1>1, <2>2
    <3> QED
      BY <1>2, <2>1, <2>2, <3>1
  <2>3. CASE ~(k < i)
    <3>1. /\ k - (i - 1) \in 1 .. n - (i + 1) + 1 /\ i + 1 + (k - (i - 1)) - 1 = k + 1
          /\ ~(k <= i - 1)
      BY <1>1, <2>3
    <3>2. b[k - (i - 1)] = s[i + 1 + (k - (i - 1)) - 1]
      BY <1>3, <3>1
    <3> QED
      BY <2>1, <2>3, <3>1, <3>2
  <2> QED
    BY <2>2, <2>3
<1>7. r = [k \in 1 .. n - 1 |-> r[k]]
  <2>1. r \in [1 .. Len(r) -> S]
    BY <1>5, LenProperties
  <2> QED
    BY <1>4, <1>5, <2>1
<1>8. r = [k \in 1 .. n - 1 |-> s[IF k < i THEN k ELSE k + 1]]
  BY <1>6, <1>7
<1> QED
  BY <1>8 DEF RemoveAt, r, a, b, n
-----------------------------------------------------------------------------
(* The inductive invariant *)

Row == [shows : Path \X Path, checked : SUBSET {1, 2}]
Scanning == {"hash", "features", "scanned"}

TypeInv ==
    /\ TypeOK
    /\ pairs \in Seq(Path \X Path) /\ table \in Seq(Row) /\ todo \in Seq(Path)

(* The list is sorted by its first paths, so that no pair can be there twice *)
(* the other way round.                                                      *)
PairsInv ==
    /\ \A i, j \in DOMAIN pairs : pairs[i] = pairs[j] => i = j
    /\ \A i \in DOMAIN pairs : pairs[i][1] < pairs[i][2]

(* The rows are those of the pairs the dialog was opened with that are left. *)
RowsInv ==
    /\ phase \in Scanning =>
          table = <<>> /\ keeper = Nobody /\ job = "none" /\ modal = "none"
    /\ phase \notin Scanning =>
          /\ DOMAIN table = DOMAIN pairs
          /\ \A i \in DOMAIN table : table[i].shows = pairs[i] /\ pairs[i] \in scanned
    /\ modal = "question" => job = "none"

Found(folders) == UNION {Walk[r] : r \in ToSet(folders)}

(* What the scan pairs is below the roots; of what the dialog was opened     *)
(* with, two paths lead to one file only if the roots gave it both.          *)
SpellInv ==
    /\ phase \in Scanning =>
          /\ respelled = Respelled(roots)
          /\ \A i \in DOMAIN pairs : pairs[i][1] \in Found(roots) /\ pairs[i][2] \in Found(roots)
    /\ scanned \subseteq Path \X Path
    /\ \A a, b \in scanned : \A p \in ToSet(a), q \in ToSet(b) :
          p # q /\ FileOf[p] = FileOf[q] => FileOf[p] \in respelled

(* A file goes, by a path outside of it, for one of the priority folder.     *)
GoesFor(f, folder) ==
    \E pair \in scanned : \E gone, kept \in ToSet(pair) :
        /\ FileOf[gone] = f /\ Folder[gone] # folder
        /\ Folder[kept] = folder

(* The files the batch has not come to.                                      *)
Due == {FileOf[p] : p \in ToSet(todo)}

(* With one priority folder, what is ticked, what a batch still has to take  *)
(* and what has gone went for a file of it.                                  *)
KeeperInv ==
    keeper # Several =>
        /\ \A i \in DOMAIN table : table[i].checked \subseteq Outside(pairs[i], keeper)
        /\ \A f \in (File \ disk) \cup Due : GoesFor(f, keeper)

Inv == TypeInv /\ PairsInv /\ RowsInv /\ SpellInv /\ KeeperInv

-----------------------------------------------------------------------------
(* What the scan finds *)

LEMMA IncreasingOnce ==
    ASSUME NEW n \in Nat, NEW s, DOMAIN s = 1 .. n, \A i \in DOMAIN s : s[i] \in Nat,
           \A i, j \in DOMAIN s : i < j => s[i] < s[j]
    PROVE  \A i, j \in DOMAIN s : s[i] = s[j] => i = j
<1> SUFFICES ASSUME NEW i \in 1 .. n, NEW j \in 1 .. n, s[i] = s[j], i # j PROVE FALSE
  OBVIOUS
<1>1. i < j \/ j < i
  OBVIOUS
<1>2. s[i] < s[j] \/ s[j] < s[i]
  BY <1>1
<1>3. s[i] \in Nat /\ s[j] \in Nat
  OBVIOUS
<1> QED
  BY <1>2, <1>3

LEMMA AlikeShape ==
    ASSUME NEW S, S \subseteq Path, NEW list \in Seq(S),
           \A i, j \in DOMAIN list : i < j => list[i] < list[j],
           NEW stop, NEW related, NEW found \in Alike(list, stop, related)
    PROVE  /\ found \in Seq(Path \X Path)
           /\ \A i, j \in DOMAIN found : found[i] = found[j] => i = j
           /\ \A i \in DOMAIN found : found[i][1] < found[i][2] /\ found[i] \in related
           /\ \A i \in DOMAIN found : found[i][1] \in S /\ found[i][2] \in S
<1> DEFINE at == {p \in Positions(list) :
                     Earlier(p, stop) /\ <<list[p[1]], list[p[2]]>> \in related}
<1>1. DOMAIN list = 1 .. Len(list) /\ Len(list) \in Nat /\ \A i \in DOMAIN list : list[i] \in S
  BY LenProperties, ElementOfSeq
<1>6. S \subseteq Nat
  BY PathsAreNumbers
<1>7. \A i, j \in DOMAIN list : list[i] = list[j] => i = j
  BY <1>1, <1>6, IncreasingOnce
<1>2. IsFiniteSet(at)
  <2> DEFINE D == DOMAIN list
  <2>1. IsFiniteSet(D)
    BY <1>1, FS_Interval
  <2>2. IsFiniteSet(D \X D)
    <3> HIDE DEF D
    <3> QED
      BY <2>1, FS_Product
  <2>3. at \subseteq D \X D
    BY DEF Positions
  <2> QED
    BY <2>2, <2>3, FS_Subset
<1>3. PICK order \in InOrder(at, Earlier) :
          found = [k \in DOMAIN order |-> <<list[order[k][1]], list[order[k][2]]>>]
  BY DEF Alike
<1>4. /\ order \in Seq(at) /\ DOMAIN order = 1 .. Len(order) /\ Len(order) \in Nat
      /\ \A i, j \in DOMAIN order : order[i] = order[j] => i = j
  <2> HIDE DEF at
  <2> QED
    BY <1>2, <1>3, EarlierList
<1>5. ASSUME NEW k \in DOMAIN order
      PROVE  /\ order[k][1] \in DOMAIN list /\ order[k][2] \in DOMAIN list
             /\ order[k][1] < order[k][2] /\ order[k] = <<order[k][1], order[k][2]>>
             /\ <<list[order[k][1]], list[order[k][2]]>> \in related
  <2>1. order[k] \in at
    <3> HIDE DEF at
    <3> QED
      BY <1>4, ElementOfSeq
  <2> QED
    BY <2>1 DEF Positions
<1>8. \A k \in DOMAIN order : /\ found[k] = <<list[order[k][1]], list[order[k][2]]>>
                              /\ found[k] \in Path \X Path /\ found[k] \in related
                              /\ found[k][1] < found[k][2]
                              /\ found[k][1] \in S /\ found[k][2] \in S
  BY <1>1, <1>3, <1>5
<1>9. found \in Seq(Path \X Path)
  <2>1. found \in [1 .. Len(order) -> Path \X Path]
    <3>1. found = [k \in 1 .. Len(order) |-> <<list[order[k][1]], list[order[k][2]]>>]
      BY <1>3, <1>4
    <3> QED
      BY <1>4, <1>8, <3>1
  <2> QED
    BY <1>4, <2>1, ListOf
<1>10. DOMAIN found = DOMAIN order
  BY <1>3
<1>11. ASSUME NEW i \in DOMAIN found, NEW j \in DOMAIN found, found[i] = found[j] PROVE i = j
  <2>1. i \in DOMAIN order /\ j \in DOMAIN order
    BY <1>10
  <2>2. /\ list[order[i][1]] = list[order[j][1]]
        /\ list[order[i][2]] = list[order[j][2]]
    BY <1>8, <1>11, <2>1
  <2>3. order[i][1] = order[j][1] /\ order[i][2] = order[j][2]
    BY <1>5, <1>7, <2>1, <2>2
  <2>4. order[i] = order[j]
    BY <1>5, <2>1, <2>3
  <2> QED
    BY <1>4, <2>1, <2>4
<1> QED
  BY <1>8, <1>9, <1>10, <1>11

LEMMA ImagesShape ==
    ASSUME NEW S, S \subseteq Path, NEW list \in InOrder(S, <)
    PROVE  /\ list \in Seq(S) /\ DOMAIN list = 1 .. Len(list) /\ Len(list) \in Nat
           /\ \A i, j \in DOMAIN list : i < j => list[i] < list[j]
           /\ ToSet(list) = S
  BY PathsAreNumbers, FS_Subset, SortedList

(* What the roots give under two paths is respelled.                         *)
LEMMA FoundTwice ==
    ASSUME NEW folders, NEW p \in Path, NEW q \in Path,
           p \in Found(folders), q \in Found(folders), p # q, FileOf[p] = FileOf[q]
    PROVE  FileOf[p] \in Respelled(folders)
<1>1. PICK r \in ToSet(folders), t \in ToSet(folders) : p \in Walk[r] /\ q \in Walk[t]
  BY DEF Found
<1>2. FileOf[p] \in File
  BY DEF File
<1> QED
  BY <1>1, <1>2 DEF Respelled

LEMMA HashPassPairs ==
    ASSUME TypeInv, HashPass
    PROVE  /\ pairs' \in Seq(Path \X Path) /\ PairsInv'
           /\ \A i \in DOMAIN pairs' : pairs'[i][1] \in Found(roots) /\ pairs'[i][2] \in Found(roots)
<1> DEFINE Near == PathsOf(NearDuplicate \cup {{f} : f \in File})
<1>1. PICK list \in ListImages(roots), readable \in SUBSET There :
          \E n \in 0 .. Len(list) : \E hashed \in InOrder({list[i] : i \in 1 .. n} \cap readable, <) :
              pairs' \in Alike(hashed, End(hashed), Near)
  BY DEF HashPass
<1>2. PICK n \in 0 .. Len(list) : \E hashed \in InOrder({list[i] : i \in 1 .. n} \cap readable, <) :
              pairs' \in Alike(hashed, End(hashed), Near)
  BY <1>1
<1> DEFINE S == {list[i] : i \in 1 .. n} \cap readable
<1>3. S \subseteq Path /\ S \subseteq Found(roots)
  <2> DEFINE L == There \cap Found(roots)
  <2>1. L \subseteq Path /\ list \in InOrder(L, <)
    BY <1>1 DEF There, ListImages, Found
  <2> HIDE DEF L
  <2>2. list \in Seq(L) /\ DOMAIN list = 1 .. Len(list) /\ Len(list) \in Nat
    BY <2>1, ImagesShape
  <2>3. \A i \in 1 .. n : list[i] \in L
    BY <2>2, ElementOfSeq
  <2>4. L \subseteq Found(roots)
    BY DEF L
  <2> QED
    BY <2>1, <2>3, <2>4
<1>4. PICK hashed \in InOrder(S, <) : pairs' \in Alike(hashed, End(hashed), Near)
  BY <1>2
<1> HIDE DEF S, Near
<1>5. hashed \in Seq(S) /\ \A i, j \in DOMAIN hashed : i < j => hashed[i] < hashed[j]
  BY <1>3, ImagesShape
<1>6. /\ pairs' \in Seq(Path \X Path)
      /\ \A i, j \in DOMAIN pairs' : pairs'[i] = pairs'[j] => i = j
      /\ \A i \in DOMAIN pairs' : pairs'[i][1] < pairs'[i][2]
      /\ \A i \in DOMAIN pairs' : pairs'[i][1] \in S /\ pairs'[i][2] \in S
  <2>1. /\ pairs' \in Seq(Path \X Path)
        /\ \A i, j \in DOMAIN pairs' : pairs'[i] = pairs'[j] => i = j
        /\ \A i \in DOMAIN pairs' : pairs'[i][1] < pairs'[i][2] /\ pairs'[i] \in Near
        /\ \A i \in DOMAIN pairs' : pairs'[i][1] \in S /\ pairs'[i][2] \in S
    BY <1>3, <1>4, <1>5, AlikeShape
  <2> QED
    BY <2>1
<1> QED
  BY <1>3, <1>6 DEF PairsInv

LEMMA FeaturePassPairs ==
    ASSUME TypeInv, PairsInv, FeaturePass
    PROVE  /\ pairs' \in Seq(Path \X Path) /\ PairsInv'
           /\ \A i \in DOMAIN pairs' :
                 \/ i \in DOMAIN pairs /\ pairs'[i] = pairs[i]
                 \/ pairs'[i][1] \in Found(roots) /\ pairs'[i][2] \in Found(roots)
<1> DEFINE Related(readable) ==
        {pair \in PathsOf(SharedFeatures) :
            ToSet(pair) \subseteq readable /\ pair \notin ToSet(pairs)}
<1>1. PICK list \in ListImages(roots), readable \in SUBSET There :
          \E stop \in Positions(list) \cup {End(list)} :
              \E found \in Alike(list, stop, Related(readable)) : pairs' = pairs \o found
  BY DEF FeaturePass
<1>2. PICK stop \in Positions(list) \cup {End(list)} :
          \E found \in Alike(list, stop, Related(readable)) : pairs' = pairs \o found
  BY <1>1
<1>3. PICK found \in Alike(list, stop, Related(readable)) : pairs' = pairs \o found
  BY <1>2
<1> DEFINE S == There \cap Found(roots)
<1>4. S \subseteq Path /\ list \in InOrder(S, <) /\ S \subseteq Found(roots)
  BY DEF There, ListImages, Found
<1>5. list \in Seq(S) /\ \A i, j \in DOMAIN list : i < j => list[i] < list[j]
  <2> HIDE DEF S
  <2> QED
    BY <1>4, ImagesShape
<1>6. /\ found \in Seq(Path \X Path)
      /\ \A i, j \in DOMAIN found : found[i] = found[j] => i = j
      /\ \A i \in DOMAIN found : found[i][1] < found[i][2] /\ found[i] \in Related(readable)
      /\ \A i \in DOMAIN found : found[i][1] \in Found(roots) /\ found[i][2] \in Found(roots)
  <2> HIDE DEF S, Related
  <2>1. /\ found \in Seq(Path \X Path)
        /\ \A i, j \in DOMAIN found : found[i] = found[j] => i = j
        /\ \A i \in DOMAIN found : found[i][1] < found[i][2] /\ found[i] \in Related(readable)
        /\ \A i \in DOMAIN found : found[i][1] \in S /\ found[i][2] \in S
    BY <1>4, <1>5, AlikeShape
  <2> QED
    BY <1>4, <2>1
<1>7. \A i \in DOMAIN found, j \in DOMAIN pairs : found[i] # pairs[j]
  BY <1>6 DEF ToSet
<1> DEFINE m == Len(pairs)
           n == Len(found)
<1>8. m \in Nat /\ DOMAIN pairs = 1 .. m /\ n \in Nat /\ DOMAIN found = 1 .. n
  BY <1>6, LenProperties DEF TypeInv
<1>9. /\ pairs' \in Seq(Path \X Path) /\ Len(pairs') = m + n
      /\ \A i \in 1 .. m + n : pairs'[i] = IF i <= m THEN pairs[i] ELSE found[i - m]
  BY <1>3, <1>6, ConcatProperties DEF TypeInv
<1>10. DOMAIN pairs' = 1 .. m + n
  BY <1>9, LenProperties
<1> HIDE DEF m, n, Related
<1>11. ASSUME NEW i \in DOMAIN pairs'
       PROVE  \/ i \in DOMAIN pairs /\ pairs'[i] = pairs[i]
              \/ /\ i \notin DOMAIN pairs /\ i - m \in DOMAIN found
                 /\ pairs'[i] = found[i - m]
  BY <1>8, <1>9, <1>10
<1>12. \A i \in DOMAIN pairs' : pairs'[i][1] < pairs'[i][2]
  BY <1>6, <1>11 DEF PairsInv
<1>13. ASSUME NEW i \in DOMAIN pairs', NEW j \in DOMAIN pairs', pairs'[i] = pairs'[j]
       PROVE  i = j
  <2>1. CASE i \in DOMAIN pairs /\ j \in DOMAIN pairs
    BY <1>11, <1>13, <2>1 DEF PairsInv
  <2>2. CASE ~(i \in DOMAIN pairs) /\ ~(j \in DOMAIN pairs)
    <3>1. i - m = j - m
      BY <1>6, <1>11, <1>13, <2>2
    <3>2. i \in Nat /\ j \in Nat
      BY <1>8, <1>10
    <3> QED
      BY <1>8, <3>1, <3>2
  <2>3. CASE ~(i \in DOMAIN pairs <=> j \in DOMAIN pairs)
    BY <1>7, <1>11, <1>13, <2>3
  <2> QED
    BY <2>1, <2>2, <2>3
<1> QED
  BY <1>6, <1>9, <1>11, <1>12, <1>13 DEF PairsInv

-----------------------------------------------------------------------------
(* Rows *)

(* Some rows are taken out of both lists, and no others.                     *)
RowsOut(m, at) ==
    /\ m \in Nat /\ at \in [1 .. m -> DOMAIN pairs]
    /\ \A i, j \in 1 .. m : at[i] = at[j] => i = j
    /\ pairs' = [k \in 1 .. m |-> pairs[at[k]]]
    /\ table' = [k \in 1 .. m |-> table[at[k]]]

RowsEdited == UNCHANGED rowVars \/ \E m \in Nat : \E at \in [1 .. m -> DOMAIN pairs] : RowsOut(m, at)

LEMMA PairTypes ==
    ASSUME TypeInv
    PROVE  /\ DOMAIN pairs = 1 .. Len(pairs) /\ Len(pairs) \in Nat
           /\ \A i \in DOMAIN pairs : pairs[i] \in Path \X Path
           /\ DOMAIN table = 1 .. Len(table) /\ Len(table) \in Nat
           /\ \A i \in DOMAIN table : table[i] \in Row
  BY LenProperties, ElementOfSeq DEF TypeInv

LEMMA MenuRemoves ==
    ASSUME TypeInv, RowsInv, MenuNotDuplicate
    PROVE  RowsEdited
<1>1. DOMAIN table = DOMAIN pairs
  BY DEF RowsInv, MenuNotDuplicate
<1>2. CASE menu[1] \in DOMAIN pairs
  <2> DEFINE i == menu[1]
             n == Len(pairs) - 1
             at == [k \in 1 .. n |-> IF k < i THEN k ELSE k + 1]
  <2>1. /\ i \in 1 .. n + 1 /\ DOMAIN pairs = 1 .. n + 1 /\ n \in Nat
        /\ Len(table) - 1 = n
    <3>1. /\ DOMAIN pairs = 1 .. Len(pairs) /\ Len(pairs) \in Nat
          /\ DOMAIN table = 1 .. Len(table) /\ Len(table) \in Nat
      BY PairTypes
    <3>2. Len(table) = Len(pairs)
      BY <1>1, <3>1
    <3> QED
      BY <1>2, <3>1, <3>2
  <2>2. pairs' = RemoveAt(pairs, i) /\ table' = RemoveAt(table, i)
    BY <1>2 DEF MenuNotDuplicate
  <2>3. pairs' = [k \in 1 .. n |-> pairs[IF k < i THEN k ELSE k + 1]]
    BY <1>2, <2>2, RemovedAt DEF TypeInv
  <2>4. table' = [k \in 1 .. n |-> table[IF k < i THEN k ELSE k + 1]]
    <3>1. table' = [k \in 1 .. Len(table) - 1 |-> table[IF k < i THEN k ELSE k + 1]]
      BY <1>1, <1>2, <2>2, RemovedAt DEF TypeInv
    <3> QED
      BY <2>1, <3>1
  <2> HIDE DEF i, n
  <2>5. at \in [1 .. n -> DOMAIN pairs] /\ \A j, k \in 1 .. n : at[j] = at[k] => j = k
    BY <2>1
  <2>6. \A k \in 1 .. n : at[k] = IF k < i THEN k ELSE k + 1
    OBVIOUS
  <2> HIDE DEF at
  <2>7. RowsOut(n, at)
    <3>1. /\ [k \in 1 .. n |-> pairs[IF k < i THEN k ELSE k + 1]] = [k \in 1 .. n |-> pairs[at[k]]]
          /\ [k \in 1 .. n |-> table[IF k < i THEN k ELSE k + 1]] = [k \in 1 .. n |-> table[at[k]]]
      BY <2>6
    <3> QED
      BY <2>1, <2>3, <2>4, <2>5, <3>1 DEF RowsOut
  <2> QED
    BY <2>1, <2>5, <2>7 DEF RowsEdited
<1>3. CASE menu[1] \notin DOMAIN pairs
  BY <1>3 DEF MenuNotDuplicate, RowsEdited
<1> QED
  BY <1>2, <1>3

LEMMA CheckedRemoved ==
    ASSUME TypeInv, DOMAIN table = DOMAIN pairs, RemoveCheckedRows
    PROVE  RowsEdited
<1> DEFINE S == {i \in DOMAIN table : table[i].checked = {}}
<1>1. S \subseteq Nat /\ IsFiniteSet(S) /\ S \subseteq DOMAIN pairs
  <2> DEFINE n == Len(table)
             D == 1 .. n
  <2>1. n \in Nat /\ DOMAIN table = D
    BY PairTypes
  <2>2. IsFiniteSet(D) /\ D \subseteq Nat
    <3> HIDE DEF n
    <3> QED
      BY <2>1, FS_Interval
  <2>3. S \subseteq D
    BY <2>1
  <2> HIDE DEF S, D
  <2>4. S \subseteq Nat /\ IsFiniteSet(S)
    BY <2>2, <2>3, FS_Subset
  <2> QED
    BY <2>1, <2>3, <2>4
<1>2. PICK rest \in InOrder(S, <) :
          /\ pairs' = [k \in DOMAIN rest |-> pairs[rest[k]]]
          /\ table' = [k \in DOMAIN rest |-> table[rest[k]]]
  BY DEF RemoveCheckedRows
<1> HIDE DEF S
<1>3. /\ rest \in Seq(S) /\ DOMAIN rest = 1 .. Len(rest) /\ Len(rest) \in Nat
      /\ \A i, j \in DOMAIN rest : rest[i] = rest[j] => i = j
  BY <1>1, SortedList
<1>4. rest \in [1 .. Len(rest) -> DOMAIN pairs]
  <2>1. rest \in [1 .. Len(rest) -> S]
    BY <1>3, LenProperties
  <2> QED
    BY <1>1, <2>1
<1>5. RowsOut(Len(rest), rest)
  BY <1>2, <1>3, <1>4 DEF RowsOut
<1> QED
  BY <1>3, <1>4, <1>5 DEF RowsEdited

(* Taking rows out leaves the lists as much in step as they were.            *)
LEMMA EditedShape ==
    ASSUME TypeInv, DOMAIN table = DOMAIN pairs, RowsEdited
    PROVE  /\ pairs' \in Seq(Path \X Path) /\ table' \in Seq(Row)
           /\ DOMAIN table' = DOMAIN pairs'
           /\ \A k \in DOMAIN table' : \E i \in DOMAIN table :
                  table'[k] = table[i] /\ pairs'[k] = pairs[i]
           /\ PairsInv => PairsInv'
<1>1. CASE UNCHANGED rowVars
  BY <1>1 DEF rowVars, TypeInv, PairsInv
<1>2. ASSUME NEW m \in Nat, NEW at \in [1 .. m -> DOMAIN pairs], RowsOut(m, at)
      PROVE  /\ pairs' \in Seq(Path \X Path) /\ table' \in Seq(Row)
             /\ DOMAIN table' = DOMAIN pairs'
             /\ \A k \in DOMAIN table' : \E i \in DOMAIN table :
                    table'[k] = table[i] /\ pairs'[k] = pairs[i]
             /\ PairsInv => PairsInv'
  <2>1. /\ pairs' \in Seq(Path \X Path) /\ DOMAIN pairs' = 1 .. m
        /\ \A k \in 1 .. m : pairs'[k] = pairs[at[k]]
    BY <1>2, Picked DEF RowsOut, TypeInv
  <2>2. /\ table' \in Seq(Row) /\ DOMAIN table' = 1 .. m
        /\ \A k \in 1 .. m : table'[k] = table[at[k]]
    BY <1>2, Picked DEF RowsOut, TypeInv
  <2>3. \A k \in 1 .. m : at[k] \in DOMAIN pairs
    OBVIOUS
  <2>4. PairsInv => PairsInv'
    <3> SUFFICES ASSUME PairsInv PROVE PairsInv'
      OBVIOUS
    <3>1. \A i \in DOMAIN pairs' : pairs'[i][1] < pairs'[i][2]
      BY <2>1, <2>3 DEF PairsInv
    <3>2. ASSUME NEW i \in DOMAIN pairs', NEW j \in DOMAIN pairs', pairs'[i] = pairs'[j]
          PROVE  i = j
      <4>1. i \in 1 .. m /\ j \in 1 .. m /\ pairs[at[i]] = pairs[at[j]]
        BY <2>1, <3>2
      <4>2. at[i] = at[j]
        BY <2>3, <4>1 DEF PairsInv
      <4> QED
        BY <1>2, <4>1, <4>2 DEF RowsOut
    <3> QED
      BY <3>1, <3>2 DEF PairsInv
  <2> QED
    BY <2>1, <2>2, <2>3, <2>4
<1> QED
  BY <1>1, <1>2 DEF RowsEdited

LEMMA TickedIs ==
    ASSUME TypeInv, RowsInv, phase \notin Scanning
    PROVE  /\ CheckedPaths = Ticked /\ Ticked \subseteq Path
           /\ \A f : f \in CheckedPaths <=>
                         \E i \in DOMAIN table : \E side \in table[i].checked : f = pairs[i][side]
<1>1. /\ DOMAIN table = DOMAIN pairs
      /\ \A i \in DOMAIN table : table[i].shows = pairs[i]
  BY DEF RowsInv
<1>2. \A f : f \in CheckedPaths <=>
                 \E i \in DOMAIN table : \E side \in table[i].checked : f = pairs[i][side]
  BY <1>1 DEF CheckedPaths
<1>3. \A f : f \in Ticked <=>
                 \E i \in DOMAIN table : \E side \in table[i].checked : f = pairs[i][side]
  BY <1>1 DEF Ticked, ToSet
<1>4. \A i \in DOMAIN table : \A side \in table[i].checked : pairs[i][side] \in Path
  <2> SUFFICES ASSUME NEW i \in DOMAIN table, NEW side \in table[i].checked
               PROVE  pairs[i][side] \in Path
    OBVIOUS
  <2>1. table[i] \in Row /\ pairs[i] \in Path \X Path
    BY <1>1, PairTypes
  <2>2. side = 1 \/ side = 2
    BY <2>1 DEF Row
  <2> QED
    BY <2>1, <2>2
<1>5. CheckedPaths = Ticked
  BY <1>2, <1>3
<1>6. Ticked \subseteq Path
  BY <1>3, <1>4
<1> QED
  BY <1>2, <1>5, <1>6

LEMMA TodoShape ==
    ASSUME TypeInv, RowsInv, phase \notin Scanning, NEW kind, StartJob(kind)
    PROVE  todo' \in Seq(Path) /\ ToSet(todo') = CheckedPaths
<1> DEFINE S == CheckedPaths
<1>1. S \subseteq Path /\ todo' \in InOrder(S, <)
  BY TickedIs DEF StartJob
<1> HIDE DEF S
<1>2. todo' \in Seq(S) /\ ToSet(todo') = S
  BY <1>1, ImagesShape
<1>3. todo' \in Seq(Path)
  BY <1>1, <1>2, SeqMonotone
<1> QED
  BY <1>2, <1>3 DEF S
-----------------------------------------------------------------------------
(* The invariant holds *)

Lists == pairs \in Seq(Path \X Path) /\ table \in Seq(Row) /\ todo \in Seq(Path)

Stash ==
    /\ DOMAIN stash \subseteq {Name[p] : p \in Path} \X (0 .. MaxTime)
    /\ \A d \in DOMAIN stash : stash[d] \in File \cup {Old}

Control ==
    /\ phase \in {"hash", "features", "scanned", "review", "closed"}
    /\ modal \in {"none", "menu", "question", "message"}
    /\ job \in {"none", "quarantine", "delete"} /\ enabled = (job = "none")
    /\ job = "none" => todo = <<>>

(* What TypeOK says of the members of the lists follows from their types.    *)
LEMMA Members ==
    /\ \A s \in Seq(Path \X Path) : ToSet(s) \subseteq Path \X Path
    /\ \A s \in Seq(Path) : ToSet(s) \subseteq Path
    /\ \A s \in Seq(Row) : \A row \in ToSet(s) :
          row.shows \in Path \X Path /\ row.checked \subseteq {1, 2}
<1>1. \A s \in Seq(Path \X Path) : ToSet(s) \subseteq Path \X Path
  BY LenProperties, ElementOfSeq DEF ToSet
<1>2. \A s \in Seq(Path) : ToSet(s) \subseteq Path
  BY LenProperties, ElementOfSeq DEF ToSet
<1>3. \A s \in Seq(Row) : ToSet(s) \subseteq Row
  BY LenProperties, ElementOfSeq DEF ToSet
<1>4. \A row \in Row : row.shows \in Path \X Path /\ row.checked \subseteq {1, 2}
  BY DEF Row
<1> QED
  BY <1>1, <1>2, <1>3, <1>4

LEMMA TypeFrom ==
    ASSUME disk' \subseteq File, time' \in 1 .. MaxTime, Stash', Control', Lists',
           respelled' \subseteq File
    PROVE  TypeInv'
  BY Members DEF TypeInv, TypeOK, Stash, Control, Lists

LEMMA TypeSplit ==
    ASSUME TypeInv
    PROVE  /\ disk \subseteq File /\ time \in 1 .. MaxTime /\ Stash /\ Control /\ Lists
           /\ respelled \subseteq File
  BY DEF TypeInv, TypeOK, Stash, Control, Lists

(* Under no priority folder at all nothing is ticked and nothing has gone.   *)
LEMMA NobodyLoses ==
    ASSUME TypeInv, SpellInv, KeeperInv, keeper = Nobody
    PROVE  disk = File /\ ToSet(todo) = {}
<1>1. Nobody # Several
  BY DEF Nobody, Several
<1>2. \A f : ~GoesFor(f, Nobody)
  <2>1. \A pair \in scanned : \A kept \in ToSet(pair) : Folder[kept] # Nobody
    BY PairSet, DuplicateImagesAssumption DEF SpellInv
  <2> QED
    BY <2>1 DEF GoesFor
<1>3. \A f \in (File \ disk) \cup Due : FALSE
  BY <1>1, <1>2 DEF KeeperInv
<1> QED
  BY <1>3, TypeSplit DEF Due

(* A ticked path goes for the one beside it.                                 *)
LEMMA TickedGoes ==
    ASSUME TypeInv, RowsInv, KeeperInv, phase \notin Scanning, keeper # Several,
           NEW path \in CheckedPaths
    PROVE  GoesFor(FileOf[path], keeper)
<1>1. PICK i \in DOMAIN table : \E side \in table[i].checked : path = pairs[i][side]
  BY TickedIs
<1>2. PICK side \in table[i].checked : path = pairs[i][side]
  BY <1>1
<1>3. side \in Outside(pairs[i], keeper)
  BY <1>2 DEF KeeperInv
<1>4. pairs[i] \in scanned /\ pairs[i] \in Path \X Path
  BY PairTypes DEF RowsInv
<1>5. ToSet(pairs[i]) = {pairs[i][1], pairs[i][2]} /\ pairs[i][1] \in Path /\ pairs[i][2] \in Path
  BY <1>4, PairSet
<1>6. CASE /\ Folder[pairs[i][1]] = keeper /\ Folder[pairs[i][2]] # keeper /\ side = 2
  BY <1>2, <1>4, <1>5, <1>6 DEF GoesFor
<1>7. CASE /\ Folder[pairs[i][1]] # keeper /\ Folder[pairs[i][2]] = keeper /\ side = 1
  BY <1>2, <1>4, <1>5, <1>7 DEF GoesFor
<1> QED
  BY <1>3, <1>6, <1>7 DEF Outside

LEMMA TodoNext ==
    ASSUME TypeInv, todo # <<>>
    PROVE  /\ Head(todo) \in ToSet(todo) /\ Head(todo) \in Path
           /\ Tail(todo) \in Seq(Path) /\ ToSet(Tail(todo)) \subseteq ToSet(todo)
<1> DEFINE n == Len(todo)
<1>1. todo \in Seq(Path) /\ n \in Nat /\ DOMAIN todo = 1 .. n /\ n # 0
  BY LenProperties, EmptySeq DEF TypeInv
<1>2. /\ Head(todo) = todo[1] /\ Tail(todo) \in Seq(Path) /\ Len(Tail(todo)) = n - 1
      /\ \A i \in 1 .. Len(Tail(todo)) : Tail(todo)[i] = todo[i + 1]
  BY <1>1, HeadTailProperties
<1>3. DOMAIN Tail(todo) = 1 .. n - 1
  BY <1>2, LenProperties
<1> HIDE DEF n
<1>4. 1 \in DOMAIN todo /\ \A i \in 1 .. n - 1 : i + 1 \in DOMAIN todo
  BY <1>1
<1>5. todo[1] \in Path
  BY <1>1, <1>4, ElementOfSeq
<1>6. \A i \in DOMAIN Tail(todo) : Tail(todo)[i] = todo[i + 1]
  BY <1>2, <1>3, LenProperties
<1> QED
  BY <1>2, <1>3, <1>4, <1>5, <1>6 DEF ToSet

(* Whatever takes rows away, ticks nothing and takes only files that go for  *)
(* one of the priority folder.                                               *)
LEMMA ReviewStep ==
    ASSUME Inv, phase \notin Scanning, phase' \notin Scanning, RowsEdited,
           keeper' = keeper, scanned' = scanned, respelled' = respelled,
           modal' = "question" => job' = "none",
           disk' \subseteq File, time' \in 1 .. MaxTime, Stash', Control', todo' \in Seq(Path),
           keeper # Several => \A f \in (File \ disk') \cup Due' : GoesFor(f, keeper)
    PROVE  Inv'
<1>1. DOMAIN table = DOMAIN pairs
  BY DEF Inv, RowsInv
<1>2. /\ pairs' \in Seq(Path \X Path) /\ table' \in Seq(Row)
      /\ DOMAIN table' = DOMAIN pairs' /\ PairsInv'
      /\ \A k \in DOMAIN table' : \E i \in DOMAIN table :
             table'[k] = table[i] /\ pairs'[k] = pairs[i]
  BY <1>1, EditedShape DEF Inv
<1>3. TypeInv'
  BY <1>2, TypeSplit, TypeFrom DEF Inv, Lists
<1>4. RowsInv'
  <2>1. \A i \in DOMAIN table : table[i].shows = pairs[i] /\ pairs[i] \in scanned
    BY DEF Inv, RowsInv
  <2>2. \A k \in DOMAIN table' : table'[k].shows = pairs'[k] /\ pairs'[k] \in scanned
    BY <1>2, <2>1
  <2> QED
    BY <1>2, <2>2 DEF RowsInv
<1>5. KeeperInv'
  <2> SUFFICES ASSUME keeper # Several PROVE KeeperInv'
    BY DEF KeeperInv
  <2>1. \A f : GoesFor(f, keeper) => GoesFor(f, keeper)'
    BY DEF GoesFor
  <2>2. \A i \in DOMAIN table : table[i].checked \subseteq Outside(pairs[i], keeper)
    BY DEF Inv, KeeperInv
  <2>3. \A k \in DOMAIN table' : table'[k].checked \subseteq Outside(pairs'[k], keeper')
    BY <1>2, <2>2
  <2> QED
    BY <2>1, <2>3 DEF KeeperInv
<1>6. SpellInv'
  BY DEF Inv, SpellInv
<1> QED
  BY <1>2, <1>3, <1>4, <1>5, <1>6 DEF Inv

(* While a batch runs or a box is open, the dialog is or was.                *)
LEMMA DialogWas ==
    ASSUME Inv, job # "none" \/ modal # "none" \/ Free
    PROVE  phase \notin Scanning
  BY DEF Inv, RowsInv, Free, Scanning

(* Whatever takes no file and ticks no box.                                  *)
LEMMA QuietStep ==
    ASSUME Inv, phase \notin Scanning, phase' \notin Scanning, RowsEdited,
           keeper' = keeper, scanned' = scanned, respelled' = respelled,
           modal' = "question" => job' = "none",
           disk' = disk, stash' = stash, time' \in 1 .. MaxTime, Control', todo' = todo
    PROVE  Inv'
<1>1. disk' \subseteq File /\ Stash' /\ todo' \in Seq(Path)
  BY TypeSplit DEF Inv, Stash, Lists
<1>2. keeper # Several => \A f \in (File \ disk') \cup Due' : GoesFor(f, keeper)
  BY DEF Inv, KeeperInv, Due
<1> QED
  BY <1>1, <1>2, ReviewStep

LEMMA StartJobStep ==
    ASSUME Inv, phase \notin Scanning, NEW kind \in {"quarantine", "delete"}, StartJob(kind),
           UNCHANGED <<fileVars, scanVars, rowVars, keeper, phase>>,
           modal' \in {"none", "menu", "message"}
    PROVE  Inv'
<1>1. TypeInv /\ RowsInv /\ KeeperInv
  BY DEF Inv
<1>2. todo' \in Seq(Path) /\ ToSet(todo') = CheckedPaths
  BY <1>1, TodoShape
<1>3. /\ disk' = disk /\ stash' = stash /\ time' = time /\ scanned' = scanned /\ respelled' = respelled
      /\ keeper' = keeper
      /\ phase' = phase /\ RowsEdited /\ job' = kind /\ enabled' = FALSE
  BY DEF fileVars, scanVars, rowVars, RowsEdited, StartJob
<1>4. disk' \subseteq File /\ time' \in 1 .. MaxTime /\ Stash' /\ Control'
  BY <1>1, <1>3, TypeSplit DEF Stash, Control
<1>5. ASSUME keeper # Several, NEW f \in (File \ disk') \cup Due'
      PROVE  GoesFor(f, keeper)
  <2>1. CASE f \in File \ disk
    BY <1>1, <1>5, <2>1 DEF KeeperInv
  <2>2. CASE f \in Due'
    <3>1. PICK path \in CheckedPaths : f = FileOf[path]
      BY <1>2, <2>2 DEF Due
    <3> QED
      BY <1>1, <1>5, <3>1, TickedGoes
  <2> QED
    BY <1>3, <1>5, <2>1, <2>2
<1> QED
  BY <1>2, <1>3, <1>4, <1>5, ReviewStep

LEMMA BatchStep ==
    ASSUME Inv, QuarantineNext \/ DeleteNext
    PROVE  Inv'
<1>1. TypeInv /\ RowsInv /\ KeeperInv /\ phase \notin Scanning /\ todo # <<>>
  BY DialogWas DEF Inv, QuarantineNext, DeleteNext
<1>2. /\ Head(todo) \in ToSet(todo) /\ Head(todo) \in Path
      /\ Tail(todo) \in Seq(Path) /\ ToSet(Tail(todo)) \subseteq ToSet(todo)
  BY <1>1, TodoNext
<1>3. /\ time' = time /\ scanned' = scanned /\ respelled' = respelled
      /\ keeper' = keeper /\ phase' = phase
      /\ RowsEdited /\ job' = job /\ enabled' = enabled /\ modal' = modal /\ todo' = Tail(todo)
      /\ disk' = disk \/ disk' = disk \ {FileOf[Head(todo)]}
      /\ job \in {"quarantine", "delete"}
  BY DEF QuarantineNext, DeleteNext, MoveToQuarantine, scanVars, rowVars, RowsEdited
<1>4. disk' \subseteq File /\ time' \in 1 .. MaxTime /\ Control' /\ todo' \in Seq(Path)
  BY <1>1, <1>2, <1>3, TypeSplit DEF Control
<1>5. Stash'
  <2>1. CASE stash' = stash
    BY <1>1, <2>1, TypeSplit DEF Stash
  <2>2. CASE MoveToQuarantine(Head(todo)) /\ stash' # stash
    <3> DEFINE to == Destination(Head(todo))
    <3>1. to \in {Name[p] : p \in Path} \X (0 .. MaxTime)
      <4>1. time \in 1 .. MaxTime /\ MaxTime \in Nat
        BY <1>1, TypeSplit, DuplicateImagesAssumption
      <4>2. time \in 0 .. MaxTime /\ 0 \in 0 .. MaxTime
        BY <4>1
      <4> QED
        BY <1>2, <4>2 DEF Destination, Plain
    <3>2. stash' = [d \in DOMAIN stash \cup {to} |-> IF d = to THEN FileOf[Head(todo)] ELSE stash[d]]
      BY <2>2 DEF MoveToQuarantine
    <3> HIDE DEF to
    <3>3. Stash
      BY <1>1, TypeSplit
    <3>4. FileOf[Head(todo)] \in File
      BY <1>2 DEF File
    <3> QED
      BY <3>1, <3>2, <3>3, <3>4 DEF Stash
  <2> QED
    BY <2>1, <2>2 DEF QuarantineNext, DeleteNext
<1>6. keeper # Several => \A f \in (File \ disk') \cup Due' : GoesFor(f, keeper)
  <2>1. (File \ disk') \cup Due' \subseteq (File \ disk) \cup Due
    BY <1>2, <1>3 DEF Due
  <2> QED
    BY <1>1, <2>1 DEF KeeperInv
<1>7. modal' = "question" => job' = "none"
  BY <1>1, <1>3 DEF RowsInv
<1> QED
  BY <1>1, <1>3, <1>4, <1>5, <1>6, <1>7, ReviewStep

LEMMA TickboxStep ==
    ASSUME Inv, NEW row \in DOMAIN table, NEW side \in {1, 2}, Tickbox(row, side)
    PROVE  Inv'
<1>1. TypeInv /\ RowsInv /\ PairsInv /\ SpellInv /\ phase \notin Scanning
  BY DialogWas DEF Inv, Tickbox
<1> DEFINE boxes == IF side \in table[row].checked
                    THEN table[row].checked \ {side} ELSE table[row].checked \cup {side}
<1>2. table' = [table EXCEPT ![row] = [@ EXCEPT !.checked = boxes]]
  BY DEF Tickbox
<1>3. /\ disk' = disk /\ stash' = stash /\ time' = time /\ scanned' = scanned /\ pairs' = pairs
      /\ respelled' = respelled
      /\ phase' = phase /\ job' = job /\ enabled' = enabled /\ todo' = todo /\ modal' = modal
      /\ keeper' = Several
  BY DEF Tickbox, fileVars, scanVars, jobVars
<1>4. \A i \in DOMAIN table : table[i] \in Row
  BY <1>1, PairTypes
<1>5. boxes \in SUBSET {1, 2}
  BY <1>4 DEF Row
<1> HIDE DEF boxes
<1>6. /\ DOMAIN table' = DOMAIN table
      /\ \A i \in DOMAIN table : table'[i] \in Row /\ table'[i].shows = table[i].shows
  BY <1>2, <1>4, <1>5 DEF Row
<1>7. table' \in Seq(Row)
  <2>1. DOMAIN table = 1 .. Len(table) /\ Len(table) \in Nat
    BY <1>1, PairTypes
  <2>2. table' \in [1 .. Len(table) -> Row]
    BY <1>2, <1>6, <2>1
  <2> QED
    BY <2>1, <2>2, ListOf
<1>8. TypeInv'
  BY <1>1, <1>3, <1>7, TypeSplit, TypeFrom DEF Stash, Control, Lists
<1>9. RowsInv' /\ PairsInv' /\ SpellInv'
  BY <1>1, <1>3, <1>6 DEF RowsInv, PairsInv, SpellInv
<1> QED
  BY <1>3, <1>8, <1>9 DEF Inv, KeeperInv

LEMMA AutoSelectStep ==
    ASSUME Inv, NEW folder, AutoSelect(folder)
    PROVE  Inv'
<1>1. TypeInv /\ RowsInv /\ PairsInv /\ SpellInv /\ KeeperInv /\ phase \notin Scanning
  BY DialogWas DEF Inv, AutoSelect
<1>2. DOMAIN table = DOMAIN pairs
  BY <1>1 DEF RowsInv
<1>3. \A i \in DOMAIN table : table[i] \in Row
  BY <1>1, PairTypes
<1>4. table' = [i \in DOMAIN table |->
                   IF Outside(pairs[i], folder) # {}
                   THEN [table[i] EXCEPT !.checked = Outside(pairs[i], folder)]
                   ELSE table[i]]
  BY <1>2 DEF AutoSelect
<1>5. /\ disk' = disk /\ stash' = stash /\ time' = time /\ scanned' = scanned /\ pairs' = pairs
      /\ respelled' = respelled
      /\ phase' = phase /\ job' = job /\ enabled' = enabled /\ todo' = todo /\ modal' = modal
      /\ keeper' = IF keeper \in {Nobody, folder} THEN folder ELSE Several
  BY DEF AutoSelect, fileVars, scanVars, jobVars
<1>6. \A pair : Outside(pair, folder) \subseteq {1, 2}
  BY DEF Outside
<1>7. ASSUME NEW i \in DOMAIN table
      PROVE  /\ table'[i] \in Row /\ table'[i].shows = table[i].shows
             /\ table'[i].checked = Outside(pairs[i], folder)
                \/ /\ Outside(pairs[i], folder) = {}
                   /\ table'[i].checked = table[i].checked
  BY <1>3, <1>4, <1>6 DEF Row
<1>8. DOMAIN table' = DOMAIN table
  BY <1>4
<1>9. table' \in Seq(Row)
  <2>1. DOMAIN table = 1 .. Len(table) /\ Len(table) \in Nat
    BY <1>1, PairTypes
  <2>2. table' \in [1 .. Len(table) -> Row]
    BY <1>4, <1>7, <2>1
  <2> QED
    BY <2>1, <2>2, ListOf
<1>10. TypeInv'
  BY <1>1, <1>5, <1>9, TypeSplit, TypeFrom DEF Stash, Control, Lists
<1>11. RowsInv'
  BY <1>1, <1>5, <1>7, <1>8 DEF RowsInv, Scanning
<1>12. PairsInv' /\ SpellInv'
  BY <1>1, <1>5 DEF PairsInv, SpellInv
<1>13. KeeperInv'
  <2> SUFFICES ASSUME keeper' # Several PROVE KeeperInv'
    BY DEF KeeperInv
  <2>1. keeper' = folder /\ keeper \in {Nobody, folder} /\ keeper # Several
    BY <1>5 DEF Nobody, Several
  <2>2. \A f : GoesFor(f, folder) => GoesFor(f, folder)'
    BY <1>5 DEF GoesFor
  <2>3. \A i \in DOMAIN table : table[i].checked \subseteq Outside(pairs[i], keeper)
    BY <1>1, <2>1 DEF KeeperInv
  <2>4. CASE keeper = folder
    <3>1. \A i \in DOMAIN table : table'[i].checked \subseteq Outside(pairs[i], folder)
      BY <1>7, <2>3, <2>4
    <3>2. \A f \in (File \ disk) \cup Due : GoesFor(f, folder)
      BY <1>1, <2>1, <2>4 DEF KeeperInv
    <3> QED
      BY <1>5, <1>8, <2>1, <2>2, <3>1, <3>2 DEF KeeperInv, Due
  <2>5. CASE keeper = Nobody
    <3>1. ASSUME NEW i \in DOMAIN table PROVE table[i].checked = {}
      <4>1. pairs[i] \in Path \X Path
        BY <1>1, <1>2, PairTypes
      <4>2. Folder[pairs[i][1]] # Nobody /\ Folder[pairs[i][2]] # Nobody
        BY <4>1, DuplicateImagesAssumption
      <4>3. Outside(pairs[i], Nobody) = {}
        BY <4>2 DEF Outside
      <4> QED
        BY <2>3, <2>5, <4>3
    <3>2. \A i \in DOMAIN table : table'[i].checked \subseteq Outside(pairs[i], folder)
      BY <1>7, <3>1
    <3>3. (File \ disk) \cup Due = {}
      BY <1>1, <2>5, NobodyLoses DEF Due
    <3> QED
      BY <1>5, <1>8, <2>1, <3>2, <3>3 DEF KeeperInv, Due
  <2> QED
    BY <2>1, <2>4, <2>5
<1> QED
  BY <1>10, <1>11, <1>12, <1>13 DEF Inv

(* While the scan goes on there are no rows, and nothing has gone.           *)
LEMMA ScanStep ==
    ASSUME Inv, phase \in Scanning,
           HashPass \/ FeaturePass \/ CancelScan \/ ImageScanReady
    PROVE  Inv'
<1>1. /\ TypeInv /\ RowsInv /\ PairsInv /\ SpellInv /\ KeeperInv
      /\ table = <<>> /\ keeper = Nobody /\ job = "none" /\ modal = "none"
  BY DEF Inv, RowsInv
<1>2. disk = File /\ Due = {}
  BY <1>1, NobodyLoses DEF Due
<1>3. /\ disk' = disk /\ stash' = stash /\ time' = time /\ keeper' = keeper
      /\ job' = job /\ enabled' = enabled /\ todo' = todo /\ modal' = modal
      /\ respelled' = respelled
  BY DEF HashPass, FeaturePass, CancelScan, ImageScanReady, fileVars, scanVars, jobVars
<1>4. phase' \in {"hash", "features", "scanned", "review", "closed"}
  BY <1>1, TypeSplit DEF HashPass, FeaturePass, CancelScan, ImageScanReady, Control
<1>5. pairs' \in Seq(Path \X Path) /\ PairsInv'
  <2>1. CASE HashPass
    BY <1>1, <2>1, HashPassPairs
  <2>2. CASE FeaturePass
    BY <1>1, <2>2, FeaturePassPairs
  <2>3. CASE CancelScan \/ ImageScanReady
    <3>1. pairs' = pairs
      BY <2>3 DEF CancelScan, ImageScanReady, rowVars
    <3> QED
      BY <1>1, <3>1 DEF PairsInv, TypeInv
  <2> QED
    BY <2>1, <2>2, <2>3
<1>6. CASE ~ImageScanReady
  <2>1. table' = <<>> /\ phase' \in Scanning
    BY <1>1, <1>6 DEF HashPass, FeaturePass, CancelScan, Scanning, rowVars
  <2>2. table' \in Seq(Row) /\ DOMAIN table' = {}
    BY <2>1
  <2>3. TypeInv'
    BY <1>1, <1>3, <1>4, <1>5, <2>2, TypeSplit, TypeFrom DEF Stash, Control, Lists
  <2>4. RowsInv'
    BY <1>1, <1>3, <2>1 DEF RowsInv
  <2>5. KeeperInv'
    BY <1>1, <1>2, <1>3, <2>2 DEF KeeperInv, Due
  <2>6. roots' = roots /\ scanned' = scanned
    BY <1>6 DEF HashPass, FeaturePass, CancelScan, scanVars
  <2>7. \A i \in DOMAIN pairs' : pairs'[i][1] \in Found(roots) /\ pairs'[i][2] \in Found(roots)
    <3>1. CASE HashPass
      BY <1>1, <3>1, HashPassPairs
    <3>2. CASE FeaturePass
      BY <1>1, <3>2, FeaturePassPairs DEF SpellInv
    <3>3. CASE CancelScan
      BY <1>1, <3>3 DEF SpellInv, CancelScan, rowVars
    <3> QED
      BY <1>6, <3>1, <3>2, <3>3
  <2>8. SpellInv'
    BY <1>1, <1>3, <2>1, <2>6, <2>7 DEF SpellInv
  <2> QED
    BY <1>5, <2>3, <2>4, <2>5, <2>8 DEF Inv
<1>7. CASE ImageScanReady
  <2>1. /\ table' = [i \in DOMAIN pairs |-> [shows |-> pairs[i], checked |-> {}]]
        /\ pairs' = pairs /\ scanned' = ToSet(pairs) /\ phase' \notin Scanning
    BY <1>7 DEF ImageScanReady, Scanning
  <2>2. /\ DOMAIN pairs = 1 .. Len(pairs) /\ Len(pairs) \in Nat
        /\ \A i \in DOMAIN pairs : pairs[i] \in Path \X Path
    BY <1>1, PairTypes
  <2>3. table' \in Seq(Row)
    <3>1. \A i \in DOMAIN pairs : [shows |-> pairs[i], checked |-> {}] \in Row
      BY <2>2 DEF Row
    <3>2. table' \in [1 .. Len(pairs) -> Row]
      BY <2>1, <2>2, <3>1
    <3> QED
      BY <2>2, <3>2, ListOf
  <2>4. TypeInv'
    BY <1>1, <1>3, <1>4, <1>5, <2>3, TypeSplit, TypeFrom DEF Stash, Control, Lists
  <2>5. RowsInv'
    BY <1>1, <1>3, <2>1 DEF RowsInv, ToSet
  <2>6. KeeperInv'
    BY <1>1, <1>2, <1>3, <2>1 DEF KeeperInv, Due
  <2>7. SpellInv'
    <3>1. scanned' \subseteq Path \X Path
      BY <1>1, <2>1, Members DEF TypeInv
    <3>2. ASSUME NEW a \in scanned', NEW b \in scanned', NEW p \in ToSet(a), NEW q \in ToSet(b),
                 p # q, FileOf[p] = FileOf[q]
          PROVE  FileOf[p] \in respelled
      <4>1. p \in Path /\ q \in Path
        BY <3>1, PairSet
      <4>2. p \in Found(roots) /\ q \in Found(roots)
        <5>1. \A pair \in ToSet(pairs) : pair[1] \in Found(roots) /\ pair[2] \in Found(roots)
          BY <1>1 DEF SpellInv, ToSet
        <5> QED
          BY <2>1, <3>1, <5>1, PairSet
      <4>3. FileOf[p] \in Respelled(roots)
        BY <3>2, <4>1, <4>2, FoundTwice
      <4> QED
        BY <1>1, <4>3 DEF SpellInv
    <3> QED
      BY <1>3, <2>1, <3>1, <3>2 DEF SpellInv
  <2> QED
    BY <1>5, <2>4, <2>5, <2>6, <2>7 DEF Inv
<1> QED
  BY <1>6, <1>7

LEMMA InvInit ==
    ASSUME Init
    PROVE  Inv
<1>1. /\ disk = File /\ time = 1 /\ pairs = <<>> /\ table = <<>> /\ todo = <<>>
      /\ phase = "hash" /\ modal = "none" /\ job = "none" /\ enabled = TRUE /\ keeper = Nobody
      /\ respelled = Respelled(roots) /\ scanned = {}
  BY DEF Init
<1>2. Stash
  <2>1. PICK names \in SUBSET {Name[p] : p \in Path} : stash = [d \in names \X {Plain} |-> Old]
    BY DEF Init
  <2>2. 0 \in 0 .. MaxTime
    BY DuplicateImagesAssumption
  <2> QED
    BY <2>1, <2>2 DEF Stash, Plain
<1>3. Control /\ Lists
  <2>1. \A S : <<>> \in Seq(S)
    BY EmptySeq
  <2>2. Lists
    BY <1>1, <2>1 DEF Lists
  <2>3. Control
    BY <1>1 DEF Control
  <2> QED
    BY <2>2, <2>3
<1>4. disk \subseteq File /\ time \in 1 .. MaxTime /\ respelled \subseteq File
  BY <1>1, DuplicateImagesAssumption DEF Respelled
<1>5. TypeInv
  BY <1>2, <1>3, <1>4, Members DEF TypeInv, TypeOK, Stash, Control, Lists
<1>6. DOMAIN pairs = {} /\ DOMAIN table = {} /\ ToSet(todo) = {} /\ Due = {}
  BY <1>1 DEF ToSet, Due
<1>7. PairsInv /\ RowsInv /\ SpellInv /\ KeeperInv
  BY <1>1, <1>6 DEF PairsInv, RowsInv, SpellInv, KeeperInv, Scanning
<1> QED
  BY <1>5, <1>7 DEF Inv

LEMMA InvStep ==
    ASSUME Inv, [Next]_vars
    PROVE  Inv'
<1> USE DEF Free, Scanning, RowsEdited, fileVars, scanVars, rowVars, jobVars
<1>0. TypeInv /\ RowsInv /\ time \in 1 .. MaxTime /\ MaxTime \in Nat /\ Control
  BY TypeSplit, DuplicateImagesAssumption DEF Inv
<1>1. CASE UNCHANGED vars
  <2>1. TypeInv'
    BY <1>0, <1>1 DEF vars, TypeInv, TypeOK
  <2>2. PairsInv' /\ RowsInv'
    BY <1>1 DEF vars, Inv, PairsInv, RowsInv
  <2>3. KeeperInv' /\ SpellInv'
    BY <1>1 DEF vars, Inv, KeeperInv, GoesFor, Due, SpellInv
  <2> QED
    BY <2>1, <2>2, <2>3 DEF Inv
<1>2. CASE Tick
  <2>1. time' \in 1 .. MaxTime
    BY <1>0, <1>2 DEF Tick
  <2> QED
    BY <1>0, <1>2, <2>1, DialogWas, QuietStep DEF Tick, Control, RowsInv
<1>3. CASE HashPass \/ FeaturePass \/ CancelScan \/ ImageScanReady
  BY <1>3, ScanStep DEF HashPass, FeaturePass, CancelScan, ImageScanReady
<1>4. CASE \E row \in DOMAIN table : \E side \in {1, 2} : Tickbox(row, side)
  BY <1>4, TickboxStep
<1>5. CASE \E folder \in {Folder[f] : f \in UNION {ToSet(pair) : pair \in scanned}} :
              AutoSelect(folder)
  BY <1>5, AutoSelectStep
<1>6. CASE \E row \in DOMAIN table : ContextMenu(row)
  BY <1>0, <1>6, DialogWas, QuietStep DEF ContextMenu, Control
<1>7. CASE MenuClose
  BY <1>0, <1>7, DialogWas, QuietStep DEF MenuClose, Control
<1>8. CASE MenuNotDuplicate
  <2>1. RowsEdited
    BY <1>0, <1>8, MenuRemoves
  <2> QED
    BY <1>0, <1>8, <2>1, DialogWas, QuietStep DEF MenuNotDuplicate, Control
<1>9. CASE CloseDialog
  BY <1>0, <1>9, DialogWas, QuietStep DEF CloseDialog, Control, RowsInv
<1>10. CASE QuarantineChecked
  BY <1>10, DialogWas, StartJobStep DEF QuarantineChecked
<1>11. CASE DeleteChecked
  BY <1>0, <1>11, DialogWas, QuietStep DEF DeleteChecked, Control
<1>12. CASE AnswerYes
  BY <1>12, DialogWas, StartJobStep DEF AnswerYes
<1>13. CASE AnswerNo
  BY <1>0, <1>13, DialogWas, QuietStep DEF AnswerNo, Control
<1>14. CASE QuarantineNext \/ DeleteNext
  BY <1>14, BatchStep
<1>15. CASE QuarantineDone
  BY <1>0, <1>15, DialogWas, QuietStep DEF QuarantineDone, ShowMessage, Control
<1>16. CASE DeleteDone
  <2>1. phase \notin Scanning /\ DOMAIN table = DOMAIN pairs
    BY <1>0, <1>16, DialogWas DEF DeleteDone, RowsInv
  <2>2. RowsEdited
    BY <1>0, <1>16, <2>1, CheckedRemoved DEF DeleteDone, ShowMessage
  <2> QED
    BY <1>0, <1>16, <2>1, <2>2, QuietStep DEF DeleteDone, ShowMessage, Control
<1>17. CASE CloseMessage
  <2>1. phase \notin Scanning /\ DOMAIN table = DOMAIN pairs
    BY <1>0, <1>17, DialogWas DEF CloseMessage, RowsInv
  <2>2. RowsEdited
    BY <1>0, <1>17, <2>1, CheckedRemoved DEF CloseMessage
  <2> QED
    BY <1>0, <1>17, <2>1, <2>2, QuietStep DEF CloseMessage, Control
<1> QED
  BY <1>1, <1>2, <1>3, <1>4, <1>5, <1>6, <1>7, <1>8, <1>9, <1>10, <1>11, <1>12, <1>13, <1>14,
     <1>15, <1>16, <1>17 DEF Next

(* The lists of image_scanner.py and duplicate_image_manager.py are as Inv   *)
(* says, in every state of every instance.                                   *)
THEOREM InvAlways == Spec => []Inv
<1>1. Init => Inv
  BY InvInit
<1>2. Inv /\ [Next]_vars => Inv'
  BY InvStep
<1> QED
  BY <1>1, <1>2, PTL DEF Spec

(* Whatever the dialog was opened with, and whatever batches, menus and      *)
(* messages do to its lists, they hold what they should: duplicate_image_    *)
(* manager.py's _pairs and rows, and the paths its worker has not come to.   *)
THEOREM ReviewTyped == Spec => []TypeOK
<1>1. Inv => TypeOK
  BY DEF Inv, TypeInv
<1> QED
  BY <1>1, InvAlways, PTL

(* image_scanner.py pairs no path with itself and no two paths twice,        *)
(* however the folders are nested and wherever either pass is stopped; two   *)
(* paths of one file it pairs only if the roots it was given have both.      *)
THEOREM PairsAlwaysDistinct == Spec => []PairsAreDistinct
<1>1. Inv => PairsAreDistinct
  <2> SUFFICES ASSUME Inv PROVE PairsAreDistinct
    OBVIOUS
  <2>1. \A i \in DOMAIN pairs :
            pairs[i][1] \in Nat /\ pairs[i][2] \in Nat /\ pairs[i][1] < pairs[i][2]
    BY PairTypes, PathsAreNumbers DEF Inv, PairsInv
  <2>2. \A pair \in ToSet(pairs) : pair[1] \in Nat /\ pair[2] \in Nat /\ pair[1] < pair[2]
    BY <2>1 DEF ToSet
  <2>3. ASSUME NEW pair \in ToSet(pairs), <<pair[2], pair[1]>> \in ToSet(pairs) PROVE FALSE
    <3>1. pair[1] \in Nat /\ pair[2] \in Nat /\ pair[1] < pair[2] /\ pair[2] < pair[1]
      BY <2>2, <2>3
    <3> QED
      BY <3>1
  <2>4. \A pair \in ToSet(pairs) : pair[1] # pair[2]
    BY <2>2
  <2>5. IsInjective(pairs)
    BY DEF Inv, PairsInv, IsInjective
  <2>6. ASSUME NEW pair \in ToSet(pairs), FileOf[pair[1]] = FileOf[pair[2]]
        PROVE  FileOf[pair[1]] \in respelled
    <3>1. pair \in Path \X Path
      BY Members DEF Inv, TypeInv
    <3>2. CASE phase \in Scanning
      <4>1. pair[1] \in Found(roots) /\ pair[2] \in Found(roots) /\ respelled = Respelled(roots)
        BY <3>2 DEF Inv, SpellInv, ToSet
      <4>2. pair[1] \in Path /\ pair[2] \in Path /\ pair[1] # pair[2]
        BY <2>4, <3>1
      <4> QED
        BY <2>6, <4>1, <4>2, FoundTwice
    <3>3. CASE phase \notin Scanning
      <4>1. pair \in scanned
        BY <3>3 DEF Inv, RowsInv, ToSet
      <4>2. pair[1] \in ToSet(pair) /\ pair[2] \in ToSet(pair) /\ pair[1] # pair[2]
        BY <2>4, <3>1, PairSet
      <4> QED
        BY <2>6, <4>1, <4>2 DEF Inv, SpellInv
    <3> QED
      BY <3>2, <3>3
  <2> QED
    BY <2>3, <2>4, <2>5, <2>6 DEF PairsAreDistinct
<1> QED
  BY <1>1, InvAlways, PTL

(* The rows of the dialog and _pairs stay in step, although the menu, the    *)
(* messages and the ends of batches take rows out of both by position.       *)
THEOREM TableAlwaysShowsPairs == Spec => []TableShowsPairs
<1>1. Inv => TableShowsPairs
  BY DEF Inv, RowsInv, TableShowsPairs, Scanning
<1> QED
  BY <1>1, InvAlways, PTL

(* While only one priority folder has ticked boxes, each file the batches    *)
(* take went by a path outside of it, and the one it was paired with in the  *)
(* folder stays, unless the roots gave that one two paths, which _auto_      *)
(* select_by_priority compares as strings.                                   *)
THEOREM PriorityAlwaysKept == Spec => []PriorityKept
<1>1. Inv => PriorityKept
  <2> SUFFICES ASSUME Inv, keeper # Several, NEW f \in File \ disk
               PROVE  \E pair \in scanned : \E gone, kept \in ToSet(pair) :
                          /\ FileOf[gone] = f /\ Folder[gone] # keeper
                          /\ Folder[kept] = keeper /\ FileOf[kept] \in disk \cup respelled
    BY DEF PriorityKept
  <2>1. \A g \in File \ disk : GoesFor(g, keeper)
    BY DEF Inv, KeeperInv
  <2>2. PICK pair \in scanned : \E gone, kept \in ToSet(pair) :
            FileOf[gone] = f /\ Folder[gone] # keeper /\ Folder[kept] = keeper
    BY <2>1 DEF GoesFor
  <2>3. PICK gone \in ToSet(pair), kept \in ToSet(pair) :
            FileOf[gone] = f /\ Folder[gone] # keeper /\ Folder[kept] = keeper
    BY <2>2
  <2>4. ASSUME FileOf[kept] \notin disk PROVE FileOf[kept] \in respelled
    <3>1. FileOf[kept] \in File
      BY PairSet DEF Inv, SpellInv, File
    <3>2. GoesFor(FileOf[kept], keeper)
      BY <2>1, <2>4, <3>1
    <3>3. PICK other \in scanned : \E path \in ToSet(other) :
              FileOf[path] = FileOf[kept] /\ Folder[path] # keeper
      BY <3>2 DEF GoesFor
    <3>4. PICK path \in ToSet(other) : FileOf[path] = FileOf[kept] /\ Folder[path] # keeper
      BY <3>3
    <3>5. kept # path
      BY <2>3, <3>4
    <3> QED
      BY <3>4, <3>5 DEF Inv, SpellInv
  <2> QED
    BY <2>3, <2>4
<1> QED
  BY <1>1, InvAlways, PTL

(* move_to_quarantine replaces nothing that lies there under its own name,   *)
(* nor what was moved there in an earlier second.                            *)
THEOREM OldQuarantineAlwaysStays == Spec => OldQuarantineStays
<1>1. ASSUME Inv, [Next]_vars, NEW d \in DOMAIN stash, stash'[d] # stash[d]
      PROVE  d[2] = time
  <2>1. stash' # stash
    BY <1>1
  <2>2. QuarantineNext
    BY <1>1, <2>1
    DEF Next, Tick, HashPass, FeaturePass, CancelScan, ImageScanReady, Tickbox, AutoSelect,
        ContextMenu, MenuClose, MenuNotDuplicate, CloseDialog, QuarantineChecked, DeleteChecked,
        AnswerYes, AnswerNo, DeleteNext, QuarantineDone, DeleteDone, CloseMessage, fileVars, vars
  <2> DEFINE f == Head(todo)
  <2>3. stash' = [e \in DOMAIN stash \cup {Destination(f)} |->
                      IF e = Destination(f) THEN FileOf[f] ELSE stash[e]]
    BY <2>1, <2>2 DEF QuarantineNext, MoveToQuarantine
  <2>4. d = Destination(f)
    BY <1>1, <2>3
  <2> QED
    BY <2>4 DEF Destination
<1>2. Inv /\ [Next]_vars => [\A d \in DOMAIN stash : stash'[d] # stash[d] => d[2] = time]_vars
  BY <1>1
<1> QED
  BY <1>2, InvAlways, PTL DEF Spec, OldQuarantineStays

-----------------------------------------------------------------------------
(* Only what was confirmed goes *)

(* The files of what the rows t show ticked.                                 *)
TickedIn(t) ==
    {FileOf[p] : p \in UNION {{row.shows[side] : side \in row.checked} : row \in ToSet(t)}}

LEMMA TickedTyped == \A t \in Seq(Row) : TickedIn(t) \subseteq File
<1> SUFFICES ASSUME NEW t \in Seq(Row), NEW row \in ToSet(t), NEW side \in row.checked
             PROVE  row.shows[side] \in Path
  BY DEF TickedIn, File
<1>1. row.shows \in Path \X Path /\ (side = 1 \/ side = 2)
  BY Members
<1> QED
  BY <1>1

LEMMA DeletionIs ==
    /\ Deletion!Init <=> disk \subseteq File /\ TickedIn(table) = {} /\ Due = {}
    /\ Deletion!Ask <=> /\ TickedIn(table') \subseteq File
                        /\ disk' = disk /\ Due' = Due
    /\ Deletion!Approve <=>
          /\ Due \subseteq Due'
          /\ Due' \subseteq Due \cup TickedIn(table)
          /\ TickedIn(table') \subseteq TickedIn(table)
          /\ disk' = disk
    /\ Deletion!Remove <=>
          /\ disk' \subseteq disk
          /\ disk \ disk' \subseteq Due
          /\ Due' \subseteq Due
          /\ TickedIn(table') \subseteq TickedIn(table)
  BY DEF Deletion!Init, Deletion!Ask, Deletion!Approve, Deletion!Remove, Ticked, TickedIn, ToSet, Due

LEMMA ApproveStep ==
    ASSUME Inv, QuarantineChecked \/ AnswerYes
    PROVE  Deletion!Approve
<1>1. TypeInv /\ RowsInv /\ phase \notin Scanning /\ job = "none"
  BY DialogWas, TypeSplit DEF Inv, QuarantineChecked, AnswerYes, RowsInv, Control
<1>2. todo = <<>>
  BY <1>1, TypeSplit DEF Control
<1>3. ToSet(todo') = CheckedPaths
  BY <1>1, TodoShape DEF QuarantineChecked, AnswerYes
<1>4. {FileOf[p] : p \in CheckedPaths} = TickedIn(table)
  BY <1>1, TickedIs DEF Ticked, TickedIn
<1>5. Due = {} /\ Due' = {FileOf[p] : p \in CheckedPaths}
  BY <1>2, <1>3 DEF ToSet, Due
<1>6. disk' = disk /\ table' = table
  BY DEF QuarantineChecked, AnswerYes, fileVars, rowVars
<1> QED
  BY <1>4, <1>5, <1>6, DeletionIs

LEMMA RemoveStep ==
    ASSUME Inv, QuarantineNext \/ DeleteNext
    PROVE  Deletion!Remove
<1>1. Head(todo) \in ToSet(todo) /\ ToSet(Tail(todo)) \subseteq ToSet(todo)
  BY TodoNext DEF Inv, QuarantineNext, DeleteNext
<1>2. /\ todo' = Tail(todo) /\ table' = table
      /\ disk' = disk \/ disk' = disk \ {FileOf[Head(todo)]}
  BY DEF QuarantineNext, DeleteNext, MoveToQuarantine, rowVars
<1> QED
  BY <1>1, <1>2, DeletionIs DEF Due

LEMMA DeletionStep ==
    ASSUME Inv, Inv', [Next]_vars
    PROVE  [Deletion!Next]_(Deletion!vars)
<1>1. CASE QuarantineChecked \/ AnswerYes
  BY <1>1, ApproveStep DEF Deletion!Next
<1>2. CASE QuarantineNext \/ DeleteNext
  BY <1>2, RemoveStep DEF Deletion!Next
<1>3. CASE disk' = disk /\ todo' = todo
  <2>1. table' \in Seq(Row)
    BY DEF Inv, TypeInv
  <2> QED
    BY <1>3, <2>1, TickedTyped, DeletionIs DEF Deletion!Next, Due
<1> QED
  BY <1>1, <1>2, <1>3
  DEF Next, Tick, HashPass, FeaturePass, CancelScan, ImageScanReady, Tickbox, AutoSelect,
      ContextMenu, MenuClose, MenuNotDuplicate, CloseDialog, DeleteChecked, AnswerNo,
      QuarantineDone, DeleteDone, CloseMessage, fileVars, jobVars, vars

(* duplicate_image_manager.py's worker moves or erases only files that were  *)
(* shown ticked when its button was pressed, or when the question was put,   *)
(* each at most once, whatever is ticked and removed meanwhile: the dialog   *)
(* implements ConfirmedDeletion.                                             *)
THEOREM DialogImplementsDeletion == Spec => OnlyConfirmedGone
<1>1. Init => Deletion!Init
  <2> SUFFICES ASSUME Init PROVE Deletion!Init
    OBVIOUS
  <2>1. disk = File /\ table = <<>> /\ todo = <<>>
    BY DEF Init
  <2> QED
    BY <2>1, DeletionIs DEF TickedIn, ToSet, Due
<1>2. Inv /\ Inv' /\ [Next]_vars => [Deletion!Next]_(Deletion!vars)
  BY DeletionStep
<1> QED
  BY <1>1, <1>2, InvAlways, PTL DEF Spec, OnlyConfirmedGone, Deletion!Spec
=============================================================================
