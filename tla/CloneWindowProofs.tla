------------------------- MODULE CloneWindowProofs --------------------------
(***************************************************************************)
(* Theorems about CloneWindow: it deletes what was confirmed, and no start *)
(* hides a folder the user has stopped hiding, wherever writing            *)
(* settings.ini was cut short.                                             *)
(***************************************************************************)
EXTENDS CloneWindow, FiniteSetTheorems, SequenceTheorems, WellFoundedInduction, TLAPS

(* Reading the folders *)

LEMMA LeastOf ==
    ASSUME NEW T \in SUBSET Nat, T # {}
    PROVE  \E n \in T : \A m \in T : n <= m
<1> DEFINE R == {ss \in Nat \X Nat : ss[1] < ss[2]}
<1>1. IsWellFoundedOn(R, Nat)
  BY NatLessThanWellFounded DEF OpToRel
<1>2. PICK x \in T : \A y \in T : ~(<<y, x>> \in R)
  <2> HIDE DEF R
  <2> QED BY <1>1, WFMin
<1>3. ASSUME NEW y \in T PROVE x <= y
  <2>1. ~(y < x)
    BY <1>2, Zenon
  <2> QED BY <2>1
<1> QED BY <1>2, <1>3

\* Only the identity puts 1 .. n in order.
LEMMA CountingIsOnly ==
    ASSUME NEW n \in Nat, NEW s \in [1 .. n -> 1 .. n],
           \A i, j \in 1 .. n : i < j => s[i] < s[j]
    PROVE  s = [i \in 1 .. n |-> i]
<1> DEFINE Bad == {i \in 1 .. n : s[i] # i}
<1>1. ASSUME Bad # {} PROVE FALSE
  <2>1. PICK i \in Bad : \A j \in Bad : i <= j
    <3>1. Bad \in SUBSET Nat
      OBVIOUS
    <3> QED BY <1>1, <3>1, LeastOf, Zenon
  <2>2. \A j \in 1 .. n : j < i => s[j] = j
    BY <2>1
  <2>3. i \in 1 .. n /\ s[i] \in 1 .. n /\ s[i] # i
    OBVIOUS
  <2>4. ~(s[i] < i)
    <3>1. s[i] < i => s[s[i]] = s[i] /\ s[s[i]] < s[i]
      BY <2>2, <2>3
    <3> QED BY <2>3, <3>1
  <2>5. i < s[i]
    BY <2>3, <2>4
  <2>6. \A a \in 1 .. n, b \in 1 .. n : s[a] = s[b] => a = b
    <3> SUFFICES ASSUME NEW a \in 1 .. n, NEW b \in 1 .. n, s[a] = s[b], a # b PROVE FALSE
      OBVIOUS
    <3>1. a < b \/ b < a
      OBVIOUS
    <3>2. s[a] < s[b] \/ s[b] < s[a]
      BY <3>1
    <3>3. s[a] \in Nat /\ s[b] \in Nat
      OBVIOUS
    <3> QED BY <3>2, <3>3
  <2>7. \A j \in 1 .. n : s[j] # i
    <3> SUFFICES ASSUME NEW j \in 1 .. n, s[j] = i PROVE FALSE
      OBVIOUS
    <3>1. CASE j < i
      BY <2>2, <3>1
    <3>2. CASE i < j
      <4>1. s[i] < s[j]
        BY <2>3, <3>2
      <4> QED BY <2>3, <2>5, <4>1
    <3>3. CASE i = j
      BY <2>3, <3>3
    <3> QED BY <3>1, <3>2, <3>3
  <2>8. Cardinality((1 .. n) \ {i}) < Cardinality(1 .. n) /\ IsFiniteSet((1 .. n) \ {i})
        /\ IsFiniteSet(1 .. n)
    <3> DEFINE D == 1 .. n
    <3>1. IsFiniteSet(D) /\ Cardinality(D) = n /\ i \in D
      BY <2>3, FS_Interval
    <3> HIDE DEF D
    <3>2. IsFiniteSet(D \ {i}) /\ Cardinality(D \ {i}) = n - 1
      BY <3>1, FS_RemoveElement
    <3> QED BY <3>1, <3>2 DEF D
  <2>9. s \in [1 .. n -> (1 .. n) \ {i}]
    BY <2>7
  <2>10. \E a, b \in 1 .. n : a # b /\ s[a] = s[b]
    <3> DEFINE D == 1 .. n
               U == D \ {i}
    <3>1. IsFiniteSet(D) /\ IsFiniteSet(U) /\ Cardinality(U) < Cardinality(D) /\ s \in [D -> U]
      BY <2>8, <2>9
    <3>2. \E a, b \in D : a # b /\ s[a] = s[b]
      <4> HIDE DEF D, U
      <4> QED BY <3>1, FS_PigeonHole, Zenon
    <3> QED BY <3>2
  <2> QED BY <2>6, <2>10
<1>2. \A i \in 1 .. n : s[i] = i
  BY <1>1
<1> QED BY <1>2

\* What LoadExcludeFolders makes of the section.
LoadOf(count, folder) ==
    LET present == {i \in 1 .. count : i \in DOMAIN folder}
        keys == CHOOSE s \in [1 .. Cardinality(present) -> present] :
                    \A i, j \in DOMAIN s : i < j => s[i] < s[j]
    IN  [i \in DOMAIN keys |-> folder[keys[i]]]

LEMMA LoadIsLoadOf ==
    /\ LoadExcludeFolders = LoadOf(ini.count, ini.folder)
    /\ LoadExcludeFolders' = LoadOf(ini'.count, ini'.folder)
BY DEF LoadExcludeFolders, LoadOf

\* Without a gap in the keys, the list is as it was written.
LEMMA LoadWithoutGap ==
    ASSUME NEW count \in Nat, NEW n \in Nat, n <= count, NEW folder, DOMAIN folder = 1 .. n
    PROVE  LoadOf(count, folder) = [i \in 1 .. n |-> folder[i]]
<1> DEFINE present == {i \in 1 .. count : i \in DOMAIN folder}
           keys == CHOOSE s \in [1 .. Cardinality(present) -> present] :
                       \A i, j \in DOMAIN s : i < j => s[i] < s[j]
<1>1. present = 1 .. n
  OBVIOUS
<1>2. Cardinality(present) = n
  <2>1. Cardinality(1 .. n) = n
    BY FS_Interval
  <2> HIDE DEF present
  <2> QED BY <1>1, <2>1
<1>3. [i \in 1 .. n |-> i] \in [1 .. n -> 1 .. n]
  OBVIOUS
<1>4. \E s \in [1 .. n -> 1 .. n] : \A i, j \in DOMAIN s : i < j => s[i] < s[j]
  <2>1. \A i, j \in DOMAIN [i \in 1 .. n |-> i] :
            i < j => [k \in 1 .. n |-> k][i] < [k \in 1 .. n |-> k][j]
    OBVIOUS
  <2> QED BY <1>3, <2>1
<1>5. keys = CHOOSE s \in [1 .. n -> 1 .. n] : \A i, j \in DOMAIN s : i < j => s[i] < s[j]
  <2> HIDE DEF present
  <2> QED BY <1>1, <1>2
<1>6. keys \in [1 .. n -> 1 .. n] /\ \A i, j \in 1 .. n : i < j => keys[i] < keys[j]
  <2> HIDE DEF keys
  <2>1. keys \in [1 .. n -> 1 .. n] /\ \A i, j \in DOMAIN keys : i < j => keys[i] < keys[j]
    BY <1>4, <1>5
  <2> QED BY <2>1
<1>7. keys = [i \in 1 .. n |-> i]
  <2> HIDE DEF keys
  <2> QED BY <1>6, CountingIsOnly
<1>8. LoadOf(count, folder) = [i \in DOMAIN keys |-> folder[keys[i]]]
  BY DEF LoadOf
<1> HIDE DEF keys
<1> QED BY <1>7, <1>8
-----------------------------------------------------------------------------
(* Writing settings.ini *)

\* What is left to be written after p writes.
LEMMA CutOff ==
    ASSUME NEW S, NEW s \in Seq(S), NEW p \in 0 .. Len(s)
    PROVE  LET w == SubSeq(s, p + 1, Len(s))
           IN  /\ w \in Seq(S)
               /\ w = <<>> <=> p = Len(s)
               /\ p = 0 => w = s
               /\ p # Len(s) => Head(w) = s[p + 1] /\ Tail(w) = SubSeq(s, (p + 1) + 1, Len(s))
<1> DEFINE n == Len(s)
           w == SubSeq(s, p + 1, n)
           u == SubSeq(s, (p + 1) + 1, n)
<1>1. n \in Nat /\ \A i \in 1 .. n : s[i] \in S
  BY LenProperties, ElementOfSeq
<1>2. /\ w \in Seq(S)
      /\ Len(w) = IF p + 1 <= n THEN n - (p + 1) + 1 ELSE 0
      /\ \A i \in 1 .. n - (p + 1) + 1 : w[i] = s[(p + 1) + i - 1]
  <2>1. p + 1 \in Int /\ n \in Int /\ \A i \in p + 1 .. n : s[i] \in S
    BY <1>1
  <2> HIDE DEF n
  <2> QED BY <2>1, SubSeqProperties
<1>3. Len(w) = n - p
  <2> HIDE DEF w
  <2> QED BY <1>1, <1>2
<1>4. /\ u \in Seq(S)
      /\ Len(u) = IF (p + 1) + 1 <= n THEN n - ((p + 1) + 1) + 1 ELSE 0
      /\ \A i \in 1 .. n - ((p + 1) + 1) + 1 : u[i] = s[((p + 1) + 1) + i - 1]
  <2>1. (p + 1) + 1 \in Int /\ n \in Int /\ \A i \in (p + 1) + 1 .. n : s[i] \in S
    BY <1>1
  <2> HIDE DEF n
  <2> QED BY <2>1, SubSeqProperties
<1>5. w = <<>> <=> p = n
  <2> HIDE DEF w
  <2>1. w = <<>> <=> Len(w) = 0
    BY <1>2, EmptySeq
  <2> QED BY <1>1, <1>3, <2>1
<1>6. ASSUME p = 0 PROVE w = s
  <2>1. \A i \in 1 .. n : w[i] = s[i]
    <3> HIDE DEF w, n
    <3> QED BY <1>1, <1>2, <1>6
  <2>2. Len(w) = n
    BY <1>1, <1>3, <1>6
  <2> HIDE DEF w
  <2> QED BY <1>2, <2>1, <2>2, SeqEqual
<1>7. ASSUME p # n PROVE Head(w) = s[p + 1] /\ Tail(w) = u
  <2> HIDE DEF w, u
  <2>1. w # <<>>
    BY <1>5, <1>7
  <2>2. /\ Head(w) = w[1] /\ Tail(w) \in Seq(S) /\ Len(Tail(w)) = Len(w) - 1
        /\ \A i \in 1 .. Len(Tail(w)) : Tail(w)[i] = w[i + 1]
    BY <1>2, <2>1, HeadTailProperties
  <2>3. 1 \in 1 .. n - (p + 1) + 1 /\ (p + 1) + 1 - 1 = p + 1
    BY <1>1, <1>7
  <2>4. Head(w) = s[p + 1]
    BY <1>2, <2>2, <2>3
  <2>5. Len(Tail(w)) = Len(u)
    <3>1. p \in Nat /\ n \in Nat /\ p < n
      BY <1>1, <1>7
    <3>2. Len(u) = (n - p) - 1
      <4> HIDE DEF n
      <4> QED BY <1>4, <3>1
    <3> QED BY <1>3, <2>2, <3>2
  <2>6. ASSUME NEW i \in 1 .. Len(Tail(w)) PROVE Tail(w)[i] = u[i]
    <3>1. i + 1 \in 1 .. n - (p + 1) + 1 /\ i \in 1 .. n - ((p + 1) + 1) + 1
          /\ (p + 1) + (i + 1) - 1 = ((p + 1) + 1) + i - 1
      BY <1>1, <1>3, <2>2
    <3>2. w[i + 1] = s[(p + 1) + (i + 1) - 1]
      BY <1>2, <3>1
    <3>3. u[i] = s[((p + 1) + 1) + i - 1]
      BY <1>4, <3>1
    <3> QED BY <2>2, <3>1, <3>2, <3>3
  <2>7. Tail(w) = u
    BY <1>4, <2>2, <2>5, <2>6, SeqEqual
  <2> QED BY <2>4, <2>7
<1> QED BY <1>2, <1>5, <1>6, <1>7

FolderWrite == [key : {"ExcludeFolders", "Count", "Folder"}, at : Nat, to : Nat \cup Folder]

SaveOf(folders) ==
    <<[key |-> "ExcludeFolders", at |-> 0, to |-> 0],
      [key |-> "Count", at |-> 0, to |-> Len(folders)]>>
    \o [i \in DOMAIN folders |-> [key |-> "Folder", at |-> i, to |-> folders[i]]]

LEMMA SaveOfShape ==
    ASSUME NEW x \in Seq(Folder)
    PROVE  /\ Len(x) \in Nat
           /\ SaveOf(x) \in Seq(FolderWrite)
           /\ Len(SaveOf(x)) = Len(x) + 2
           /\ SaveOf(x)[1] = [key |-> "ExcludeFolders", at |-> 0, to |-> 0]
           /\ SaveOf(x)[2] = [key |-> "Count", at |-> 0, to |-> Len(x)]
           /\ \A i \in 1 .. Len(x) : SaveOf(x)[i + 2] = [key |-> "Folder", at |-> i, to |-> x[i]]
<1> DEFINE n == Len(x)
           a == [key |-> "ExcludeFolders", at |-> 0, to |-> 0]
           b == [key |-> "Count", at |-> 0, to |-> Len(x)]
           f == [i \in DOMAIN x |-> [key |-> "Folder", at |-> i, to |-> x[i]]]
           g == <<a, b>>
<1>1. n \in Nat /\ DOMAIN x = 1 .. n /\ \A i \in 1 .. n : x[i] \in Folder
  BY LenProperties, ElementOfSeq
<1>2. a \in FolderWrite /\ b \in FolderWrite
  BY <1>1 DEF FolderWrite
<1>3. \A i \in 1 .. n : [key |-> "Folder", at |-> i, to |-> x[i]] \in FolderWrite
  BY <1>1 DEF FolderWrite
<1>4. f \in [1 .. n -> FolderWrite]
  <2> HIDE DEF n
  <2> QED BY <1>1, <1>3
<1>5. f \in Seq(FolderWrite) /\ Len(f) = n
  <2> HIDE DEF f, n
  <2> QED BY <1>1, <1>4
<1>6. g \in Seq(FolderWrite) /\ Len(g) = 2 /\ g[1] = a /\ g[2] = b
  <2> HIDE DEF a, b
  <2> QED BY <1>2
<1>7. SaveOf(x) = g \o f
  BY DEF SaveOf
<1>8. \A i \in 1 .. n : f[i] = [key |-> "Folder", at |-> i, to |-> x[i]]
  BY <1>1
<1> HIDE DEF f, g, n
<1>9. /\ SaveOf(x) \in Seq(FolderWrite) /\ Len(SaveOf(x)) = 2 + n
      /\ \A i \in 1 .. 2 + n : SaveOf(x)[i] = IF i <= 2 THEN g[i] ELSE f[i - 2]
  <2>1. /\ g \o f \in Seq(FolderWrite) /\ Len(g \o f) = Len(g) + Len(f)
        /\ \A i \in 1 .. Len(g) + Len(f) : (g \o f)[i] = IF i <= Len(g) THEN g[i] ELSE f[i - Len(g)]
    BY <1>5, <1>6, ConcatProperties
  <2> QED BY <1>5, <1>6, <1>7, <2>1
<1>10. \A i \in 1 .. n : i + 2 \in 1 .. 2 + n /\ ~(i + 2 <= 2) /\ (i + 2) - 2 = i
  BY <1>1
<1>11. 1 \in 1 .. 2 + n /\ 2 \in 1 .. 2 + n
  BY <1>1
<1>12. SaveOf(x)[1] = a /\ SaveOf(x)[2] = b
  <2> HIDE DEF a, b
  <2> QED BY <1>1, <1>6, <1>9, <1>11
<1>13. \A i \in 1 .. n : SaveOf(x)[i + 2] = [key |-> "Folder", at |-> i, to |-> x[i]]
  <2> HIDE DEF a, b
  <2>1. \A i \in 1 .. n : SaveOf(x)[i + 2] = f[i]
    BY <1>9, <1>10
  <2> QED BY <1>8, <2>1
<1>14. Len(SaveOf(x)) = n + 2
  BY <1>1, <1>9
<1> HIDE DEF a, b
<1> QED BY <1>1, <1>9, <1>12, <1>13, <1>14 DEF n, a, b

Keys == ToSet(DisplayKeys)
DisplayWrite == [key : Keys, at : {0}, to : SUBSET Style]

\* The section of the folders has no gap.
IniOk ==
    /\ ini \in [count : Nat, folder : Seq(Folder), display : [Keys -> SUBSET Style]]
    /\ Len(ini.folder) <= ini.count

\* After p writes of a save.
Saved(p) ==
    \/ p = 0
    \/ p = 1 /\ ini.count = 0 /\ ini.folder = <<>>
    \/ /\ p >= 2
       /\ ini.count = Len(exclude) /\ Len(ini.folder) = p - 2
       /\ \A i \in 1 .. p - 2 : ini.folder[i] = exclude[i]

\* The list is being written, or has been, even if the process has ended since.
SaveInv ==
    /\ exclude \in Seq(Folder)
    /\ IniOk
    /\ \/ \E p \in 0 .. Len(exclude) + 2 :
             /\ writes = SubSeq(SaveOf(exclude), p + 1, Len(exclude) + 2)
             /\ Saved(p)
       \/ writes \in Seq(DisplayWrite) /\ ini.folder = exclude

LEMMA LoadIsFolder ==
    ASSUME NEW count \in Nat, NEW folder \in Seq(Folder), Len(folder) <= count
    PROVE  LoadOf(count, folder) = folder
<1>1. Len(folder) \in Nat /\ DOMAIN folder = 1 .. Len(folder)
      /\ folder = [i \in 1 .. Len(folder) |-> folder[i]]
  BY LenProperties
<1>2. LoadOf(count, folder) = [i \in 1 .. Len(folder) |-> folder[i]]
  BY <1>1, LoadWithoutGap
<1> QED BY <1>1, <1>2

LEMMA LoadWhenOk ==
    /\ IniOk => LoadExcludeFolders = ini.folder
    /\ IniOk' => LoadExcludeFolders' = ini'.folder
BY LoadIsLoadOf, LoadIsFolder DEF IniOk

\* When nothing is left to be written the file says what the window says.
LEMMA SavedWhenQuiet ==
    ASSUME SaveInv, writes = <<>> PROVE ini.folder = exclude
<1>1. ASSUME NEW p \in 0 .. Len(exclude) + 2,
             writes = SubSeq(SaveOf(exclude), p + 1, Len(exclude) + 2), Saved(p)
      PROVE  ini.folder = exclude
  <2>1. /\ SaveOf(exclude) \in Seq(FolderWrite) /\ Len(SaveOf(exclude)) = Len(exclude) + 2
        /\ Len(exclude) \in Nat
    BY SaveOfShape DEF SaveInv
  <2>2. p = Len(exclude) + 2
    BY <1>1, <2>1, CutOff
  <2>3. Len(ini.folder) = Len(exclude) /\ \A i \in 1 .. Len(exclude) : ini.folder[i] = exclude[i]
    BY <1>1, <2>1, <2>2 DEF Saved
  <2> QED BY <2>3, SeqEqual DEF SaveInv, IniOk
<1> QED BY <1>1 DEF SaveInv

LEMMA SaveBegins ==
    ASSUME IniOk, UNCHANGED ini, exclude' \in Seq(Folder), SaveExcludeFolders(exclude')
    PROVE  SaveInv'
<1>1. /\ SaveOf(exclude') \in Seq(FolderWrite) /\ Len(SaveOf(exclude')) = Len(exclude') + 2
      /\ Len(exclude') \in Nat
  BY SaveOfShape
<1>2. writes' = SaveOf(exclude')
  BY DEF SaveExcludeFolders, SaveOf
<1>3. 0 \in 0 .. Len(SaveOf(exclude')) /\ 0 \in 0 .. Len(exclude') + 2
  BY <1>1
<1>4. writes' = SubSeq(SaveOf(exclude'), 0 + 1, Len(SaveOf(exclude')))
  BY <1>1, <1>2, <1>3, CutOff
<1>5. IniOk'
  BY DEF IniOk
<1>6. Saved(0)'
  BY DEF Saved
<1> QED BY <1>1, <1>3, <1>4, <1>5, <1>6 DEF SaveInv

LEMMA RestIsSaved ==
    ASSUME SaveInv, UNCHANGED <<exclude, settingsVars>> PROVE SaveInv'
BY DEF SaveInv, IniOk, Saved, settingsVars

\* Of a list that is being saved, what is in the file is a beginning.
LEMMA FolderKeyWritten ==
    ASSUME SaveInv, WriteKey, UNCHANGED exclude,
           NEW p \in 0 .. Len(exclude) + 2,
           writes = SubSeq(SaveOf(exclude), p + 1, Len(exclude) + 2), Saved(p)
    PROVE  SaveInv' /\ ToSet(ini'.folder) \subseteq ToSet(exclude)
<1> DEFINE n == Len(exclude)
           s == SaveOf(exclude)
<1>1. /\ n \in Nat /\ s \in Seq(FolderWrite) /\ Len(s) = n + 2
      /\ s[1] = [key |-> "ExcludeFolders", at |-> 0, to |-> 0]
      /\ s[2] = [key |-> "Count", at |-> 0, to |-> n]
      /\ \A i \in 1 .. n : s[i + 2] = [key |-> "Folder", at |-> i, to |-> exclude[i]]
      /\ exclude \in Seq(Folder)
  BY SaveOfShape DEF SaveInv
<1>2. p # n + 2 /\ Head(writes) = s[p + 1] /\ Tail(writes) = SubSeq(s, (p + 1) + 1, n + 2)
  <2>1. writes # <<>>
    BY DEF WriteKey
  <2> HIDE DEF s
  <2> QED BY <1>1, <2>1, CutOff DEF s
<1>3. p + 1 \in 0 .. n + 2
  BY <1>1, <1>2
<1>4. ini' = Written(s[p + 1]) /\ writes' = SubSeq(s, (p + 1) + 1, n + 2)
  BY <1>2 DEF WriteKey
<1>5. /\ ini \in [count : Nat, folder : Seq(Folder), display : [Keys -> SUBSET Style]]
      /\ Len(ini.folder) <= ini.count
  BY DEF SaveInv, IniOk
<1> SUFFICES IniOk' /\ Saved(p + 1)' /\ ToSet(ini'.folder) \subseteq ToSet(exclude)
  BY <1>1, <1>3, <1>4 DEF SaveInv
<1> HIDE DEF s
<1>6. CASE p = 0
  <2>1. ini' = [ini EXCEPT !.count = 0, !.folder = <<>>]
    BY <1>1, <1>4, <1>6 DEF Written
  <2>2. /\ ini'.count = 0 /\ ini'.folder = <<>> /\ Len(ini'.folder) = 0
        /\ ini' \in [count : Nat, folder : Seq(Folder), display : [Keys -> SUBSET Style]]
    BY <1>5, <2>1, EmptySeq
  <2>3. ToSet(ini'.folder) = {}
    BY <2>2 DEF ToSet
  <2> QED BY <1>6, <2>2, <2>3 DEF IniOk, Saved
<1>7. CASE p = 1
  <2>1. ini' = [ini EXCEPT !.count = n]
    BY <1>1, <1>4, <1>7 DEF Written
  <2>2. ini.folder = <<>>
    BY <1>7 DEF Saved
  <2>3. /\ ini'.count = n /\ ini'.folder = <<>> /\ Len(ini'.folder) = 0
        /\ ini' \in [count : Nat, folder : Seq(Folder), display : [Keys -> SUBSET Style]]
    BY <1>1, <1>5, <2>1, <2>2, EmptySeq
  <2>4. ToSet(ini'.folder) = {}
    BY <2>3 DEF ToSet
  <2>5. Saved(p + 1)'
    BY <1>7, <2>3 DEF Saved
  <2> QED BY <1>1, <2>3, <2>4, <2>5 DEF IniOk
<1>8. CASE p >= 2
  <2> DEFINE k == p - 1
             old == ini.folder
             new == [j \in DOMAIN old \cup {k} |-> IF j = k THEN exclude[k] ELSE old[j]]
  <2>1. /\ k \in 1 .. n /\ k + 2 = p + 1 /\ p - 2 = k - 1
        /\ ini.count = n /\ Len(old) = k - 1
        /\ \A i \in 1 .. k - 1 : old[i] = exclude[i]
    BY <1>1, <1>2, <1>8 DEF Saved
  <2>2. s[p + 1] = [key |-> "Folder", at |-> k, to |-> exclude[k]]
    BY <1>1, <2>1
  <2>3. ini' = [ini EXCEPT !.folder = new]
    <3> HIDE DEF k
    <3> QED BY <1>4, <2>2 DEF Written
  <2>4. \A i \in 1 .. n : exclude[i] \in Folder
    BY <1>1, ElementOfSeq
  <2>5. DOMAIN old = 1 .. k - 1
    BY <1>5, <2>1, LenProperties
  <2>6. DOMAIN old \cup {k} = 1 .. k
    BY <2>1, <2>5
  <2>7. \A i \in 1 .. k : new[i] = exclude[i]
    <3> HIDE DEF k, old
    <3>1. \A i \in 1 .. k : i = k \/ i \in 1 .. k - 1
      BY <2>1
    <3> QED BY <2>1, <2>6, <3>1
  <2>8. new \in Seq(Folder) /\ Len(new) = k /\ DOMAIN new = 1 .. k
    <3>1. new = [i \in 1 .. k |-> exclude[i]]
      <4> HIDE DEF k, old
      <4> QED BY <2>6, <2>7
    <3>2. \A i \in 1 .. k : exclude[i] \in Folder
      BY <2>1, <2>4
    <3> HIDE DEF new, k
    <3>3. k \in Nat
      BY <2>1
    <3> QED BY <3>1, <3>2, <3>3
  <2> HIDE DEF new, old
  <2>9. /\ ini'.count = n /\ ini'.folder = new
        /\ ini' \in [count : Nat, folder : Seq(Folder), display : [Keys -> SUBSET Style]]
    BY <1>1, <1>5, <2>1, <2>3, <2>8
  <2>10. ToSet(ini'.folder) \subseteq ToSet(exclude)
    <3>1. 1 .. k \subseteq DOMAIN exclude
      BY <1>1, <2>1, LenProperties
    <3> QED BY <2>7, <2>8, <2>9, <3>1 DEF ToSet
  <2>11. IniOk'
    BY <2>1, <2>8, <2>9 DEF IniOk
  <2>12. Saved(p + 1)'
    <3>1. p + 1 >= 2 /\ (p + 1) - 2 = k
      BY <1>8
    <3> HIDE DEF k
    <3> QED BY <2>7, <2>8, <2>9, <3>1 DEF Saved
  <2> QED BY <2>10, <2>11, <2>12
<1> QED BY <1>6, <1>7, <1>8

LEMMA DisplayKeyWritten ==
    ASSUME SaveInv, WriteKey, UNCHANGED exclude, writes \in Seq(DisplayWrite), ini.folder = exclude
    PROVE  SaveInv' /\ ini'.folder = exclude
<1> DEFINE w == Head(writes)
<1>1. writes # <<>> /\ ini' = Written(w) /\ writes' = Tail(writes)
  BY DEF WriteKey
<1>2. w \in DisplayWrite /\ Tail(writes) \in Seq(DisplayWrite)
  BY <1>1, HeadTailProperties
<1> HIDE DEF w
<1>3. Keys = {"Valid", "FontFace", "FontSize", "Bold", "Italic", "TextColor", "BgColor"}
  BY DEF Keys, ToSet, DisplayKeys
<1>4. w.key \in Keys /\ w.to \in SUBSET Style
  BY <1>2 DEF DisplayWrite
<1>5. w.key \notin {"ExcludeFolders", "Count", "Folder"}
  BY <1>3, <1>4
<1>6. ini' = [ini EXCEPT !.display[w.key] = w.to]
  BY <1>1, <1>5 DEF Written
<1>7. /\ ini'.count = ini.count /\ ini'.folder = ini.folder
      /\ ini' \in [count : Nat, folder : Seq(Folder), display : [Keys -> SUBSET Style]]
  <2>1. ini \in [count : Nat, folder : Seq(Folder), display : [Keys -> SUBSET Style]]
    BY DEF SaveInv, IniOk
  <2> HIDE DEF Keys
  <2> QED BY <1>4, <1>6, <2>1
<1>8. IniOk'
  BY <1>7 DEF SaveInv, IniOk
<1> QED BY <1>1, <1>2, <1>7, <1>8 DEF SaveInv

LEMMA DisplaySaveBegins ==
    ASSUME SaveInv, writes = <<>>, UNCHANGED <<ini, exclude>>, NEW style \in Style,
           SaveDisplaySettings(style)
    PROVE  SaveInv'
<1> DEFINE d == DisplayKeys
           w == [i \in DOMAIN d |-> [key |-> d[i], at |-> 0, to |-> {style}]]
<1>1. DOMAIN d = 1 .. 7 /\ \A i \in 1 .. 7 : d[i] \in Keys
  BY DEF DisplayKeys, Keys, ToSet
<1> HIDE DEF d
<1>2. \A i \in 1 .. 7 : [key |-> d[i], at |-> 0, to |-> {style}] \in DisplayWrite
  BY <1>1 DEF DisplayWrite
<1>3. w \in [1 .. 7 -> DisplayWrite]
  BY <1>1, <1>2
<1>4. w \in Seq(DisplayWrite)
  <2>1. 7 \in Nat /\ Seq(DisplayWrite) = UNION {[1 .. n -> DisplayWrite] : n \in Nat}
    BY SeqDef
  <2> HIDE DEF w
  <2> QED BY <1>3, <2>1, Zenon
<1>5. writes' = w
  BY DEF SaveDisplaySettings, d
<1>6. ini.folder = exclude
  BY SavedWhenQuiet
<1> HIDE DEF w
<1> QED BY <1>4, <1>5, <1>6 DEF SaveInv, IniOk

\* No write brings a folder into the file that is not hidden now.
WritesChosen == ini' # ini => ToSet(LoadExcludeFolders') \subseteq ToSet(exclude')

LEMMA KeyWritten ==
    ASSUME SaveInv, WriteKey, UNCHANGED exclude PROVE SaveInv' /\ WritesChosen
<1>1. SaveInv' /\ ToSet(ini'.folder) \subseteq ToSet(exclude)
  <2>1. ASSUME NEW p \in 0 .. Len(exclude) + 2,
               writes = SubSeq(SaveOf(exclude), p + 1, Len(exclude) + 2), Saved(p)
        PROVE  SaveInv' /\ ToSet(ini'.folder) \subseteq ToSet(exclude)
    BY <2>1, FolderKeyWritten
  <2>2. CASE writes \in Seq(DisplayWrite) /\ ini.folder = exclude
    BY <2>2, DisplayKeyWritten
  <2> QED BY <2>1, <2>2 DEF SaveInv
<1>2. LoadExcludeFolders' = ini'.folder
  BY <1>1, LoadWhenOk DEF SaveInv
<1> QED BY <1>1, <1>2 DEF WritesChosen

-----------------------------------------------------------------------------
(* The steps of the window *)

LEMMA SaveInvInit == Init => SaveInv
<1> SUFFICES ASSUME Init PROVE SaveInv
  OBVIOUS
<1>1. /\ ini = [count |-> 0, folder |-> <<>>, display |-> [k \in Keys |-> {}]]
      /\ exclude = <<>> /\ writes = <<>>
  BY DEF Init, SettingsInit, Unset, Keys
<1>2. <<>> \in Seq(Folder) /\ Len(<<>>) = 0 /\ <<>> \in Seq(DisplayWrite)
  BY EmptySeq
<1>3. [k \in Keys |-> {}] \in [Keys -> SUBSET Style]
  BY Zenon
<1>4. IniOk
  <2> HIDE DEF Keys
  <2> QED BY <1>1, <1>2, <1>3 DEF IniOk
<1> QED BY <1>1, <1>2, <1>4 DEF SaveInv

LEMMA FolderListChanged ==
    ASSUME SaveInv, AddFolder \/ RemoveFolder PROVE exclude' \in Seq(Folder)
<1>1. ASSUME NEW f \in Folder, exclude' = Append(exclude, f) PROVE exclude' \in Seq(Folder)
  BY <1>1, AppendProperties DEF SaveInv
<1>2. ASSUME NEW i \in DOMAIN exclude, exclude' = RemoveAt(exclude, i)
      PROVE  exclude' \in Seq(Folder)
  <2> DEFINE n == Len(exclude)
  <2>1. n \in Nat /\ i \in 1 .. n /\ \A j \in 1 .. n : exclude[j] \in Folder
    BY <1>2, LenProperties, ElementOfSeq DEF SaveInv
  <2>2. /\ 1 \in Int /\ i - 1 \in Int /\ i + 1 \in Int /\ n \in Int
        /\ \A j \in 1 .. i - 1 : exclude[j] \in Folder
        /\ \A j \in i + 1 .. n : exclude[j] \in Folder
    BY <2>1
  <2> HIDE DEF n
  <2>3. SubSeq(exclude, 1, i - 1) \in Seq(Folder)
    BY <2>2, SubSeqProperties
  <2>4. SubSeq(exclude, i + 1, n) \in Seq(Folder)
    BY <2>2, SubSeqProperties
  <2> QED BY <1>2, <2>3, <2>4, ConcatProperties DEF RemoveAt, n
<1> QED BY <1>1, <1>2 DEF AddFolder, RemoveFolder

\* Which steps touch the settings.
LEMMA SettingsSteps ==
    ASSUME [Next]_vars
    PROVE  \/ UNCHANGED <<exclude, settingsVars>>
           \/ AddFolder \/ RemoveFolder \/ FontAndColor \/ WriteSettings \/ Launch
BY DEF Next, SearchFor, Refresh, ClickColumn, Select, RenameKey, EndLabelEdit, AskDelete,
       MenuDelete, AnswerYes, CloseBox, DeletePath, DeleteEnd, CloseFailed, IndexesAdded,
       IndexesBuilt, IndexReady, WatcherHears, Exit, vars, threadRest

LEMMA SaveInvNext == SaveInv /\ [Next]_vars => SaveInv' /\ WritesChosen
<1> SUFFICES ASSUME SaveInv, [Next]_vars PROVE SaveInv' /\ WritesChosen
  OBVIOUS
<1>1. CASE UNCHANGED <<exclude, settingsVars>>
  BY <1>1, RestIsSaved DEF WritesChosen, settingsVars
<1>2. CASE AddFolder \/ RemoveFolder
  <2>1. SaveExcludeFolders(exclude') /\ UNCHANGED ini
    BY <1>2 DEF AddFolder, RemoveFolder
  <2> QED BY <1>2, <2>1, FolderListChanged, SaveBegins DEF WritesChosen, SaveInv
<1>3. CASE FontAndColor
  <2>1. PICK style \in Style : SaveDisplaySettings(style)
    BY <1>3 DEF FontAndColor
  <2>2. writes = <<>> /\ UNCHANGED <<ini, exclude>>
    BY <1>3 DEF FontAndColor, Listening, Responsive
  <2> QED BY <2>1, <2>2, DisplaySaveBegins DEF WritesChosen
<1>4. CASE WriteSettings
  BY <1>4, KeyWritten DEF WriteSettings
<1>5. CASE Launch
  <2>1. exclude' = ini.folder /\ writes' = <<>> /\ ini' = ini
    BY <1>5, LoadWhenOk DEF Launch, SaveInv
  <2>2. exclude' \in Seq(Folder) /\ writes' \in Seq(DisplayWrite) /\ IniOk'
    BY <2>1, EmptySeq DEF SaveInv, IniOk
  <2> QED BY <2>1, <2>2 DEF SaveInv, WritesChosen
<1> QED BY <1>1, <1>2, <1>3, <1>4, <1>5, SettingsSteps

LEMMA QuietIsLoaded == SaveInv => (running /\ writes = <<>> => LoadExcludeFolders = exclude)
BY SavedWhenQuiet, LoadWhenOk DEF SaveInv

\* Wherever a save is cut short, no start hides a folder that the user had
\* stopped hiding or had not chosen; and the list survives a start as it was,
\* once it has been saved, for lists of any length.
THEOREM RemovedFolderAlwaysStaysOut == Spec => RemovedFolderStaysOut
<1>1. SaveInv /\ [Next]_vars =>
          [ini' # ini => ToSet(LoadExcludeFolders') \subseteq ToSet(exclude')]_vars
  BY SaveInvNext DEF WritesChosen
<1>2. SaveInv /\ [Next]_vars => SaveInv'
  BY SaveInvNext
<1> QED BY <1>1, <1>2, SaveInvInit, QuietIsLoaded, PTL DEF Spec, RemovedFolderStaysOut

-----------------------------------------------------------------------------
(* Deletions *)

BoxSet == [kind : {"menu", "delete?", "told", "failed"}, paths : SUBSET File]

\* A question about files is the innermost box only when it is the first, and
\* nothing is being deleted while it is put.
WindowInv ==
    /\ disk \subseteq File /\ query \in Query
    /\ results \in Seq(File)
    /\ boxes \in Seq(BoxSet)
    /\ \A i \in DOMAIN boxes : boxes[i].kind \in {"menu", "delete?"} => i = 1 /\ ~job.on
    /\ job \in [todo : SUBSET File, failed : BOOLEAN, on : BOOLEAN]
    /\ ~job.on => job.todo = {}

\* The rows are paths, whatever is found and however it is sorted.
LEMMA SortedTyped ==
    ASSUME NEW rows \in Seq(File), NEW up, NEW s \in SortResults(rows, up)
    PROVE  s \in Seq(File)
<1> DEFINE D == DOMAIN rows
<1>1. PICK p \in Bijection(D, D) : s = [i \in D |-> rows[p[i]]]
  BY DEF SortResults
<1>2. p \in [D -> D]
  BY DEF Bijection, Injection
<1>3. Len(rows) \in Nat /\ D = 1 .. Len(rows) /\ \A i \in D : rows[i] \in File
  BY LenProperties, ElementOfSeq
<1> DEFINE n == Len(rows)
<1> HIDE DEF D
<1>4. s \in [D -> File]
  BY <1>1, <1>2, <1>3
<1>5. n \in Nat /\ s \in [1 .. n -> File]
  BY <1>3, <1>4
<1> HIDE DEF n
<1> QED BY <1>5

LEMMA ListTyped ==
    ASSUME NEW rows \in SUBSET File
    PROVE  SetToSeq(rows) \in Seq(File)
<1> DEFINE n == Cardinality(rows)
<1>1. IsFiniteSet(rows)
  BY CloneWindowAssumption, FS_Subset
<1>2. n \in Nat /\ ExistsBijection(1 .. n, rows)
  BY <1>1, FS_CardinalityType
<1>3. PICK f \in Bijection(1 .. n, rows) : TRUE
  BY <1>2 DEF ExistsBijection
<1>4. f \in [1 .. n -> rows] /\ IsInjective(f)
  BY <1>3 DEF Bijection, Injection
<1>5. SetToSeq(rows) \in [1 .. n -> rows]
  BY <1>4 DEF SetToSeq
<1> HIDE DEF n
<1>6. SetToSeq(rows) \in Seq(rows)
  BY <1>2, <1>5
<1>7. SetToSeq(rows) \in [1 .. n -> File]
  BY <1>5
<1> QED BY <1>2, <1>7

LEMMA FoundTyped ==
    ASSUME NEW q \in Query, RunSearch(q)
    PROVE  results' \in Seq(File)
<1>1. PICK rows \in Found(q) : results' \in SortResults(SetToSeq(rows), ascending)
  BY DEF RunSearch
<1>2. rows \in SUBSET File
  <2>1. Hits[q] \subseteq File
    BY CloneWindowAssumption
  <2> QED BY <2>1 DEF Found, Visible
<1> QED BY <1>1, <1>2, ListTyped, SortedTyped

\* What is asked about when these boxes are open.
AskedIn(bs) == Below(UNION {b.paths : b \in {c \in ToSet(bs) : c.kind = "delete?"}})

LEMMA AskedInIs ==
    ASSUME NEW bs, NEW r
    PROVE  r \in AskedIn(bs) <=>
               \E i \in DOMAIN bs : bs[i].kind = "delete?" /\ r \in Below(bs[i].paths)
BY DEF AskedIn, Below, ToSet

LEMMA BelowTyped ==
    ASSUME NEW paths \in SUBSET File
    PROVE  Below(paths) \subseteq File
BY CloneWindowAssumption DEF Below

LEMMA BoxPushed ==
    ASSUME NEW bs \in Seq(BoxSet), NEW b \in BoxSet
    PROVE  /\ Append(bs, b) \in Seq(BoxSet)
           /\ DOMAIN Append(bs, b) = 1 .. Len(bs) + 1
           /\ \A i \in DOMAIN bs : Append(bs, b)[i] = bs[i]
           /\ DOMAIN bs = 1 .. Len(bs) /\ Len(bs) \in Nat
           /\ Append(bs, b)[Len(bs) + 1] = b
<1>1. /\ Append(bs, b) \in Seq(BoxSet) /\ Len(Append(bs, b)) = Len(bs) + 1
      /\ \A i \in 1 .. Len(bs) : Append(bs, b)[i] = bs[i]
      /\ Append(bs, b)[Len(bs) + 1] = b
  BY AppendProperties
<1>2. DOMAIN bs = 1 .. Len(bs) /\ Len(bs) \in Nat
  BY LenProperties
<1>3. DOMAIN Append(bs, b) = 1 .. Len(Append(bs, b))
  BY <1>1, LenProperties
<1> QED BY <1>1, <1>2, <1>3

LEMMA BoxPopped ==
    ASSUME NEW bs \in Seq(BoxSet), bs # <<>>
    PROVE  /\ SubSeq(bs, 1, Len(bs) - 1) \in Seq(BoxSet)
           /\ Len(bs) \in Nat /\ Len(bs) >= 1 /\ DOMAIN bs = 1 .. Len(bs)
           /\ DOMAIN SubSeq(bs, 1, Len(bs) - 1) = 1 .. Len(bs) - 1
           /\ \A i \in 1 .. Len(bs) - 1 : SubSeq(bs, 1, Len(bs) - 1)[i] = bs[i]
           /\ Last(bs) = bs[Len(bs)] /\ Last(bs) \in BoxSet
<1> DEFINE n == Len(bs)
           w == SubSeq(bs, 1, n - 1)
<1>1. n \in Nat /\ DOMAIN bs = 1 .. n /\ \A i \in 1 .. n : bs[i] \in BoxSet
  BY LenProperties, ElementOfSeq
<1>2. n # 0
  BY EmptySeq, <1>1
<1>3. /\ w \in Seq(BoxSet) /\ Len(w) = IF 1 <= n - 1 THEN n - 1 - 1 + 1 ELSE 0
      /\ \A i \in 1 .. n - 1 - 1 + 1 : w[i] = bs[1 + i - 1]
  <2>1. 1 \in Int /\ n - 1 \in Int /\ \A i \in 1 .. n - 1 : bs[i] \in BoxSet
    BY <1>1
  <2> HIDE DEF n
  <2> QED BY <2>1, SubSeqProperties
<1>4. DOMAIN w = 1 .. Len(w)
  BY <1>3, LenProperties
<1>5. Last(bs) = bs[n] /\ bs[n] \in BoxSet
  BY <1>1, <1>2 DEF Last
<1>6. DOMAIN w = 1 .. n - 1 /\ \A i \in 1 .. n - 1 : w[i] = bs[i]
  <2> HIDE DEF w, n
  <2>1. n - 1 - 1 + 1 = n - 1 /\ \A i \in 1 .. n - 1 : 1 + i - 1 = i
    BY <1>1
  <2>2. Len(w) = n - 1
    BY <1>1, <1>2, <1>3
  <2> QED BY <1>3, <1>4, <2>1, <2>2
<1> QED BY <1>1, <1>2, <1>3, <1>5, <1>6

LEMMA AskedTyped ==
    ASSUME NEW bs \in Seq(BoxSet)
    PROVE  AskedIn(bs) \subseteq File
<1> SUFFICES ASSUME NEW r \in AskedIn(bs) PROVE r \in File
  OBVIOUS
<1>1. PICK i \in DOMAIN bs : r \in Below(bs[i].paths)
  BY AskedInIs
<1>2. bs[i] \in BoxSet
  BY <1>1, LenProperties, ElementOfSeq
<1>3. bs[i].paths \in SUBSET File
  BY <1>2 DEF BoxSet
<1> QED BY <1>1, <1>3, BelowTyped

LEMMA AskedPushed ==
    ASSUME NEW bs \in Seq(BoxSet), NEW b \in BoxSet, b.kind # "delete?"
    PROVE  AskedIn(Append(bs, b)) = AskedIn(bs)
<1> DEFINE cs == Append(bs, b)
<1>1. /\ DOMAIN cs = 1 .. Len(bs) + 1 /\ DOMAIN bs = 1 .. Len(bs) /\ Len(bs) \in Nat
      /\ \A i \in DOMAIN bs : cs[i] = bs[i]
      /\ cs[Len(bs) + 1] = b
  BY BoxPushed
<1> HIDE DEF cs
<1>2. DOMAIN bs \subseteq DOMAIN cs
      /\ \A i \in DOMAIN cs : i \in DOMAIN bs \/ cs[i].kind # "delete?"
  BY <1>1
<1>3. ASSUME NEW r PROVE r \in AskedIn(cs) <=> r \in AskedIn(bs)
  BY <1>1, <1>2, AskedInIs
<1>4. AskedIn(cs) = AskedIn(bs)
  BY <1>3
<1> QED BY <1>4 DEF cs

LEMMA AskedPopped ==
    ASSUME NEW bs \in Seq(BoxSet), bs # <<>>
    PROVE  /\ AskedIn(SubSeq(bs, 1, Len(bs) - 1)) \subseteq AskedIn(bs)
           /\ Last(bs).kind = "delete?" => Below(Last(bs).paths) \subseteq AskedIn(bs)
<1> DEFINE cs == SubSeq(bs, 1, Len(bs) - 1)
<1>1. /\ Len(bs) \in Nat /\ Len(bs) >= 1 /\ DOMAIN bs = 1 .. Len(bs)
      /\ DOMAIN cs = 1 .. Len(bs) - 1
      /\ \A i \in 1 .. Len(bs) - 1 : cs[i] = bs[i]
      /\ Last(bs) = bs[Len(bs)]
  BY BoxPopped
<1> HIDE DEF cs
<1>2. \A i \in DOMAIN cs : i \in DOMAIN bs /\ cs[i] = bs[i]
  BY <1>1
<1>3. AskedIn(cs) \subseteq AskedIn(bs)
  BY <1>2, AskedInIs
<1>4. Len(bs) \in DOMAIN bs
  BY <1>1
<1>5. Last(bs).kind = "delete?" => Below(Last(bs).paths) \subseteq AskedIn(bs)
  BY <1>1, <1>4, AskedInIs
<1> QED BY <1>3, <1>5 DEF cs

LEMMA DeletionIs ==
    /\ Deletion!Init <=> disk \subseteq File /\ AskedIn(boxes) = {} /\ Below(job.todo) = {}
    /\ Deletion!Ask <=> /\ AskedIn(boxes') \subseteq File
                        /\ disk' = disk /\ Below(job'.todo) = Below(job.todo)
    /\ Deletion!Approve <=>
          /\ Below(job.todo) \subseteq Below(job'.todo)
          /\ Below(job'.todo) \subseteq Below(job.todo) \cup AskedIn(boxes)
          /\ AskedIn(boxes') \subseteq AskedIn(boxes)
          /\ disk' = disk
    /\ Deletion!Remove <=>
          /\ disk' \subseteq disk
          /\ disk \ disk' \subseteq Below(job.todo)
          /\ Below(job'.todo) \subseteq Below(job.todo)
          /\ AskedIn(boxes') \subseteq AskedIn(boxes)
    /\ Deletion!Rename <=>
          /\ \E old \in disk, new \in File \ disk : disk' = (disk \ {old}) \cup {new}
          /\ AskedIn(boxes') = AskedIn(boxes) /\ Below(job'.todo) = Below(job.todo)
BY DEF Deletion!Init, Deletion!Ask, Deletion!Approve, Deletion!Remove, Deletion!Rename,
       AskedIn, Below, ToSet

\* What the boxes and the deletion are after a step.
BoxesAndJob ==
    /\ boxes \in Seq(BoxSet)
    /\ \A i \in DOMAIN boxes : boxes[i].kind \in {"menu", "delete?"} => i = 1 /\ ~job.on
    /\ job \in [todo : SUBSET File, failed : BOOLEAN, on : BOOLEAN]
    /\ ~job.on => job.todo = {}

LEMMA NoJobIs ==
    /\ NoJob \in [todo : SUBSET File, failed : BOOLEAN, on : BOOLEAN]
    /\ NoJob.todo = {} /\ NoJob.on = FALSE
BY DEF NoJob

\* A message is told on top of whatever is open.
LEMMA MessageStep ==
    ASSUME WindowInv, NEW kind \in {"told", "failed"}, Push(kind, {}), job' \in {job, NoJob}
    PROVE  BoxesAndJob' /\ AskedIn(boxes') = AskedIn(boxes)
<1> DEFINE b == [kind |-> kind, paths |-> {}]
<1>1. b \in BoxSet /\ b.kind \notin {"menu", "delete?"}
  BY DEF BoxSet
<1>2. boxes' = Append(boxes, b)
  BY DEF Push
<1> HIDE DEF b
<1>3. /\ boxes' \in Seq(BoxSet)
      /\ DOMAIN boxes' = 1 .. Len(boxes) + 1 /\ DOMAIN boxes = 1 .. Len(boxes) /\ Len(boxes) \in Nat
      /\ \A i \in DOMAIN boxes : boxes'[i] = boxes[i]
      /\ boxes'[Len(boxes) + 1] = b
  BY <1>1, <1>2, BoxPushed DEF WindowInv
<1>4. /\ job' \in [todo : SUBSET File, failed : BOOLEAN, on : BOOLEAN]
      /\ ~job'.on => job'.todo = {}
      /\ ~job.on => ~job'.on
  BY NoJobIs DEF WindowInv
<1>5. \A i \in DOMAIN boxes' : i \in DOMAIN boxes \/ boxes'[i].kind \notin {"menu", "delete?"}
  BY <1>1, <1>3
<1>6. \A i \in DOMAIN boxes' : boxes'[i].kind \in {"menu", "delete?"} => i = 1 /\ ~job'.on
  BY <1>3, <1>4, <1>5 DEF WindowInv
<1>7. AskedIn(boxes') = AskedIn(boxes)
  BY <1>1, <1>2, AskedPushed DEF WindowInv
<1> QED BY <1>3, <1>4, <1>6, <1>7 DEF BoxesAndJob

\* The innermost box is closed.
LEMMA CloseStep ==
    ASSUME WindowInv, boxes # <<>>, boxes' = Popped,
           job' = job \/ (job' \in [todo : SUBSET File, failed : BOOLEAN, on : {TRUE}]
                          /\ TopIs({"delete?"}))
    PROVE  BoxesAndJob' /\ AskedIn(boxes') \subseteq AskedIn(boxes)
<1>1. /\ boxes' \in Seq(BoxSet)
      /\ Len(boxes) \in Nat /\ Len(boxes) >= 1 /\ DOMAIN boxes = 1 .. Len(boxes)
      /\ DOMAIN boxes' = 1 .. Len(boxes) - 1
      /\ \A i \in 1 .. Len(boxes) - 1 : boxes'[i] = boxes[i]
      /\ Last(boxes) = boxes[Len(boxes)]
  BY BoxPopped DEF WindowInv, Popped
<1>2. AskedIn(boxes') \subseteq AskedIn(boxes)
  BY AskedPopped DEF WindowInv, Popped
<1>3. CASE job' = job
  <2>1. \A i \in DOMAIN boxes' : i \in DOMAIN boxes /\ boxes'[i] = boxes[i]
    BY <1>1
  <2> QED BY <1>1, <1>2, <1>3, <2>1 DEF BoxesAndJob, WindowInv
<1>4. CASE job' \in [todo : SUBSET File, failed : BOOLEAN, on : {TRUE}] /\ TopIs({"delete?"})
  <2>1. boxes[Len(boxes)].kind = "delete?" /\ Len(boxes) \in DOMAIN boxes
    BY <1>1, <1>4 DEF TopIs
  <2>2. Len(boxes) = 1
    BY <2>1 DEF WindowInv
  <2>3. DOMAIN boxes' = {}
    BY <1>1, <2>2
  <2> QED BY <1>1, <1>2, <1>4, <2>3 DEF BoxesAndJob
<1> QED BY <1>3, <1>4

\* A box about files is opened, alone.
LEMMA QuestionStep ==
    ASSUME WindowInv, NEW b \in BoxSet, ~job.on, job' = job,
           NEW below \in Seq(BoxSet), boxes' = Append(below, b), below = <<>>
    PROVE  BoxesAndJob' /\ AskedIn(boxes') \subseteq File
<1>1. /\ boxes' \in Seq(BoxSet) /\ DOMAIN boxes' = 1 .. Len(below) + 1
      /\ Len(below) = 0
  BY BoxPushed, EmptySeq
<1>2. \A i \in DOMAIN boxes' : i = 1
  BY <1>1
<1> QED BY <1>1, <1>2, AskedTyped DEF BoxesAndJob, WindowInv

LEMMA AskDeleteStep ==
    ASSUME WindowInv, AskDelete
    PROVE  BoxesAndJob' /\ disk' \subseteq File /\ Deletion!Ask
<1>1. PICK kind \in {"menu", "delete?"} : Push(kind, SelectedPaths)
  BY DEF AskDelete
<1>2. SelectedPaths \subseteq File
  <2>1. \A i \in DOMAIN results : results[i] \in File
    BY LenProperties, ElementOfSeq DEF WindowInv
  <2> QED BY <2>1 DEF SelectedPaths
<1> DEFINE b == [kind |-> kind, paths |-> SelectedPaths]
<1>3. b \in BoxSet
  BY <1>2 DEF BoxSet
<1>4. boxes = <<>> /\ ~job.on /\ job' = job /\ disk' = disk
  BY DEF AskDelete, Listening
<1>5. boxes' = Append(boxes, b) /\ boxes \in Seq(BoxSet)
  BY <1>1 DEF Push, WindowInv
<1> HIDE DEF b
<1>6. BoxesAndJob' /\ AskedIn(boxes') \subseteq File
  BY <1>3, <1>4, <1>5, QuestionStep
<1>7. disk' \subseteq File
  BY <1>4 DEF WindowInv
<1> QED BY <1>4, <1>6, <1>7, DeletionIs

LEMMA MenuDeleteStep ==
    ASSUME WindowInv, MenuDelete
    PROVE  BoxesAndJob' /\ disk' \subseteq File /\ Deletion!Ask
<1>1. boxes # <<>> /\ Last(boxes).kind = "menu" /\ job' = job /\ disk' = disk
      /\ boxes' = Append(Popped, [kind |-> "delete?", paths |-> Last(boxes).paths])
  BY DEF MenuDelete, TopIs
<1>2. /\ Popped \in Seq(BoxSet)
      /\ Len(boxes) \in Nat /\ Len(boxes) >= 1 /\ DOMAIN boxes = 1 .. Len(boxes)
      /\ DOMAIN Popped = 1 .. Len(boxes) - 1
      /\ Last(boxes) = boxes[Len(boxes)] /\ Last(boxes) \in BoxSet
  BY <1>1, BoxPopped DEF WindowInv, Popped
<1>3. Len(boxes) = 1 /\ ~job.on
  <2>1. Len(boxes) \in DOMAIN boxes
    BY <1>2
  <2> QED BY <1>1, <1>2, <2>1 DEF WindowInv
<1>4. Popped = <<>>
  <2>1. DOMAIN Popped = 1 .. Len(Popped) /\ Len(Popped) \in Nat
    BY <1>2, LenProperties
  <2>2. DOMAIN Popped = {}
    BY <1>2, <1>3
  <2>3. Len(Popped) = 0
    BY <2>1, <2>2
  <2> QED BY <1>2, <2>3, EmptySeq
<1> DEFINE b == [kind |-> "delete?", paths |-> Last(boxes).paths]
<1>5. b \in BoxSet
  BY <1>2 DEF BoxSet
<1>6. boxes' = Append(Popped, b)
  BY <1>1
<1> HIDE DEF b
<1>7. BoxesAndJob' /\ AskedIn(boxes') \subseteq File
  BY <1>1, <1>2, <1>3, <1>4, <1>5, <1>6, QuestionStep
<1>8. disk' \subseteq File
  BY <1>1 DEF WindowInv
<1> QED BY <1>1, <1>7, <1>8, DeletionIs

LEMMA AnswerYesStep ==
    ASSUME WindowInv, AnswerYes
    PROVE  BoxesAndJob' /\ disk' \subseteq File /\ Deletion!Approve
<1>1. /\ boxes # <<>> /\ Last(boxes).kind = "delete?" /\ TopIs({"delete?"})
      /\ boxes' = Popped /\ disk' = disk
      /\ job' = [todo |-> Last(boxes).paths, failed |-> FALSE, on |-> TRUE]
  BY DEF AnswerYes, TopIs
<1>2. /\ Len(boxes) \in DOMAIN boxes
      /\ Last(boxes) = boxes[Len(boxes)] /\ Last(boxes) \in BoxSet
  <2>1. /\ Len(boxes) \in Nat /\ Len(boxes) >= 1 /\ DOMAIN boxes = 1 .. Len(boxes)
        /\ Last(boxes) = boxes[Len(boxes)] /\ Last(boxes) \in BoxSet
    BY <1>1, BoxPopped DEF WindowInv
  <2> QED BY <2>1
<1>3. Last(boxes).paths \in SUBSET File
  BY <1>2 DEF BoxSet
<1>4. job' \in [todo : SUBSET File, failed : BOOLEAN, on : {TRUE}] /\ job'.todo = Last(boxes).paths
  BY <1>1, <1>3
<1>5. job.todo = {}
  BY <1>1, <1>2 DEF WindowInv
<1>6. Below(job.todo) = {}
  BY <1>5 DEF Below
<1>7. Below(job'.todo) \subseteq AskedIn(boxes)
  BY <1>1, <1>4, AskedPopped DEF WindowInv
<1>8. BoxesAndJob' /\ AskedIn(boxes') \subseteq AskedIn(boxes)
  BY <1>1, <1>4, CloseStep
<1>9. disk' \subseteq File
  BY <1>1 DEF WindowInv
<1> QED BY <1>1, <1>6, <1>7, <1>8, <1>9, DeletionIs

LEMMA CloseBoxStep ==
    ASSUME WindowInv, CloseBox \/ CloseFailed
    PROVE  BoxesAndJob' /\ disk' \subseteq File /\ Deletion!Ask
<1>1. boxes # <<>> /\ boxes' = Popped /\ job' = job /\ disk' = disk
  BY DEF CloseBox, CloseFailed, TopIs
<1>2. BoxesAndJob' /\ AskedIn(boxes') \subseteq AskedIn(boxes)
  BY <1>1, CloseStep
<1>3. AskedIn(boxes) \subseteq File /\ disk' \subseteq File
  BY <1>1, AskedTyped DEF WindowInv
<1> QED BY <1>1, <1>2, <1>3, DeletionIs

LEMMA DeletePathStep ==
    ASSUME WindowInv, DeletePath
    PROVE  BoxesAndJob' /\ disk' \subseteq File /\ Deletion!Remove
<1>1. PICK p \in job.todo, gone \in SUBSET File :
          /\ gone \subseteq Inside[p]
          /\ disk' = disk \ gone
          /\ job' = [job EXCEPT !.todo = @ \ {p}, !.failed = @ \/ p \notin gone]
  <2>1. PICK p \in job.todo : \E gone \in SUBSET (Inside[p] \cap disk) :
          /\ disk' = disk \ gone
          /\ job' = [job EXCEPT !.todo = @ \ {p}, !.failed = @ \/ p \notin gone]
    BY DEF DeletePath
  <2>2. disk \subseteq File
    BY DEF WindowInv
  <2> QED BY <2>1, <2>2
<1>2. boxes' = boxes /\ job.on
  BY DEF DeletePath
<1>3. /\ job' \in [todo : SUBSET File, failed : BOOLEAN, on : BOOLEAN]
      /\ job'.todo \subseteq job.todo /\ job'.on = job.on
  BY <1>1 DEF WindowInv
<1>4. gone \subseteq Below(job.todo) /\ Below(job'.todo) \subseteq Below(job.todo)
  BY <1>1, <1>3 DEF Below
<1>5. BoxesAndJob'
  BY <1>2, <1>3 DEF BoxesAndJob, WindowInv
<1>6. disk' \subseteq File /\ disk' \subseteq disk /\ disk \ disk' \subseteq Below(job.todo)
  BY <1>1, <1>4 DEF WindowInv
<1> QED BY <1>2, <1>4, <1>5, <1>6, DeletionIs

LEMMA DeleteEndStep ==
    ASSUME WindowInv, DeleteEnd
    PROVE  BoxesAndJob' /\ disk' \subseteq File /\ Deletion!Remove
<1>1. job' = NoJob /\ disk' = disk /\ (Push("failed", {}) \/ boxes' = boxes) /\ boxes = <<>>
  BY DEF DeleteEnd
<1>2. Below(job'.todo) = {}
  BY <1>1, NoJobIs DEF Below
<1>3. disk' \subseteq File /\ disk' \subseteq disk /\ disk \ disk' = {}
  BY <1>1 DEF WindowInv
<1>4. CASE Push("failed", {})
  <2>1. BoxesAndJob' /\ AskedIn(boxes') = AskedIn(boxes)
    BY <1>1, <1>4, MessageStep
  <2> QED BY <1>2, <1>3, <2>1, DeletionIs
<1>5. CASE boxes' = boxes
  <2>1. BoxesAndJob'
    BY <1>1, <1>5, NoJobIs DEF BoxesAndJob, WindowInv
  <2> QED BY <1>2, <1>3, <1>5, <2>1, DeletionIs
<1> QED BY <1>1, <1>4, <1>5

LEMMA LaunchStep ==
    ASSUME WindowInv, Launch
    PROVE  BoxesAndJob' /\ disk' \subseteq File /\ Deletion!Remove
<1>1. job' = NoJob /\ boxes' = <<>> /\ disk' = disk
  BY DEF Launch
<1>2. Below(job'.todo) = {} /\ AskedIn(boxes') = {}
  BY <1>1, NoJobIs, AskedInIs DEF Below
<1>3. BoxesAndJob'
  BY <1>1, NoJobIs, EmptySeq DEF BoxesAndJob
<1>4. disk' \subseteq File /\ disk' \subseteq disk /\ disk \ disk' = {}
  BY <1>1 DEF WindowInv
<1> QED BY <1>2, <1>3, <1>4, DeletionIs

\* A rename is told to have failed, or gives one file a name that nothing has.
LEMMA EndLabelEditStep ==
    ASSUME WindowInv, EndLabelEdit
    PROVE  /\ BoxesAndJob' /\ disk' \subseteq File /\ results' \in Seq(File)
           /\ Deletion!Rename \/ Deletion!Ask
<1>0. job' = job
  BY DEF EndLabelEdit
<1>1. CASE UNCHANGED <<disk, results, boxes>>
  <2>1. BoxesAndJob' /\ disk' \subseteq File /\ results' \in Seq(File)
    BY <1>0, <1>1 DEF BoxesAndJob, WindowInv
  <2>2. AskedIn(boxes) \subseteq File
    BY AskedTyped DEF WindowInv
  <2> QED BY <1>0, <1>1, <2>1, <2>2, DeletionIs
<1>2. CASE Push("told", {}) /\ UNCHANGED <<disk, results>>
  <2>1. BoxesAndJob' /\ AskedIn(boxes') = AskedIn(boxes)
    BY <1>0, <1>2, MessageStep
  <2>2. AskedIn(boxes) \subseteq File
    BY AskedTyped DEF WindowInv
  <2>3. disk' \subseteq File /\ results' \in Seq(File)
    BY <1>2 DEF WindowInv
  <2> QED BY <1>0, <1>2, <2>1, <2>2, <2>3, DeletionIs
<1>3. ASSUME edit \in DOMAIN results, NEW new \in File,
             results[edit] \in disk, new \notin disk,
             disk' = (disk \ {results[edit]}) \cup {new},
             results' = [results EXCEPT ![edit] = new], boxes' = boxes
      PROVE  /\ BoxesAndJob' /\ disk' \subseteq File /\ results' \in Seq(File)
             /\ Deletion!Rename
  <2>1. BoxesAndJob' /\ disk' \subseteq File
    BY <1>0, <1>3 DEF BoxesAndJob, WindowInv
  <2>2. results' \in Seq(File)
    <3>1. /\ Len(results) \in Nat /\ results \in [1 .. Len(results) -> File]
          /\ DOMAIN results = 1 .. Len(results)
      BY LenProperties DEF WindowInv
    <3>2. results' \in [1 .. Len(results) -> File]
      <4> DEFINE n == Len(results)
      <4> HIDE DEF n
      <4>1. results \in [1 .. n -> File]
        BY <3>1 DEF n
      <4>2. results' \in [1 .. n -> File]
        BY <1>3, <4>1
      <4> QED BY <4>2 DEF n
    <3> QED BY <3>1, <3>2
  <2>3. \E old \in disk, next \in File \ disk : disk' = (disk \ {old}) \cup {next}
    <3>1. new \in File \ disk
      BY <1>3
    <3> QED BY <1>3, <3>1
  <2> QED BY <1>0, <1>3, <2>1, <2>2, <2>3, DeletionIs
<1> QED BY <1>1, <1>2, <1>3 DEF EndLabelEdit

\* What the step does to the rows.
LEMMA RowsStep ==
    ASSUME WindowInv, [Next]_vars
    PROVE  results' \in Seq(File) /\ query' \in Query
<1>0. query' \in Query
  BY DEF WindowInv, Next, SearchFor, Refresh, ClickColumn, Select, RenameKey, EndLabelEdit,
         AskDelete, MenuDelete, AnswerYes, CloseBox, DeletePath, DeleteEnd, CloseFailed,
         AddFolder, RemoveFolder, FontAndColor, WriteSettings, IndexesAdded, IndexesBuilt,
         IndexReady, WatcherHears, Exit, Launch, vars, threadRest, listVars
<1>1. CASE \E q \in Query : RunSearch(q)
  BY <1>0, <1>1, FoundTyped
<1>2. CASE ClickColumn
  BY <1>0, <1>2, SortedTyped DEF ClickColumn, WindowInv
<1>3. CASE EndLabelEdit
  BY <1>0, <1>3, EndLabelEditStep
<1>4. CASE Launch
  BY <1>0, <1>4, EmptySeq DEF Launch
<1>5. CASE results' = results
  BY <1>0, <1>5 DEF WindowInv
<1>6. query \in Query
  BY DEF WindowInv
<1> QED
  BY <1>1, <1>2, <1>3, <1>4, <1>5, <1>6
  DEF Next, SearchFor, Refresh, Select, RenameKey, AskDelete, MenuDelete, AnswerYes, CloseBox,
      DeletePath, DeleteEnd, CloseFailed, AddFolder, RemoveFolder, FontAndColor, WriteSettings,
      IndexesAdded, IndexesBuilt, IndexReady, WatcherHears, Exit, vars, threadRest, listVars

LEMMA DeletionStep ==
    ASSUME WindowInv, [Next]_vars
    PROVE  WindowInv' /\ [Deletion!Next]_(Deletion!vars)
<1>1. ASSUME BoxesAndJob', disk' \subseteq File PROVE WindowInv'
  BY <1>1, RowsStep DEF BoxesAndJob, WindowInv
<1>2. CASE UNCHANGED <<disk, boxes, job>>
  <2>1. BoxesAndJob' /\ disk' \subseteq File
    BY <1>2 DEF BoxesAndJob, WindowInv
  <2>2. AskedIn(boxes) \subseteq File
    BY AskedTyped DEF WindowInv
  <2>3. Deletion!Ask
    BY <1>2, <2>2, DeletionIs
  <2> QED BY <1>1, <2>1, <2>3 DEF Deletion!Next
<1>3. CASE AskDelete
  BY <1>1, <1>3, AskDeleteStep DEF Deletion!Next
<1>4. CASE MenuDelete
  BY <1>1, <1>4, MenuDeleteStep DEF Deletion!Next
<1>5. CASE AnswerYes
  BY <1>1, <1>5, AnswerYesStep DEF Deletion!Next
<1>6. CASE CloseBox \/ CloseFailed
  BY <1>1, <1>6, CloseBoxStep DEF Deletion!Next
<1>7. CASE DeletePath
  BY <1>1, <1>7, DeletePathStep DEF Deletion!Next
<1>8. CASE DeleteEnd
  BY <1>1, <1>8, DeleteEndStep DEF Deletion!Next
<1>9. CASE Launch
  BY <1>1, <1>9, LaunchStep DEF Deletion!Next
<1>10. CASE EndLabelEdit
  BY <1>1, <1>10, EndLabelEditStep DEF Deletion!Next
<1> QED
  BY <1>2, <1>3, <1>4, <1>5, <1>6, <1>7, <1>8, <1>9, <1>10
  DEF Next, SearchFor, Refresh, ClickColumn, Select, RenameKey, AddFolder, RemoveFolder,
      FontAndColor, WriteSettings, IndexesAdded, IndexesBuilt, IndexReady, WatcherHears, Exit,
      vars, threadRest

LEMMA DeletionInit ==
    ASSUME Init
    PROVE  WindowInv /\ Deletion!Init
<1>1. /\ disk \subseteq File /\ query \in Query /\ results = <<>> /\ boxes = <<>> /\ job = NoJob
  BY DEF Init
<1>2. WindowInv
  BY <1>1, NoJobIs, EmptySeq DEF WindowInv
<1>3. Below(job.todo) = {} /\ AskedIn(boxes) = {}
  BY <1>1, NoJobIs, AskedInIs DEF Below
<1> QED BY <1>1, <1>2, <1>3, DeletionIs

\* main.cpp's window deletes what a question was about that was answered with
\* yes, however the rows are searched, sorted and renamed under the open
\* question: it implements ConfirmedDeletion.
THEOREM WindowImplementsDeletion == Spec => OnlyConfirmedGone
<1>1. Init => WindowInv /\ Deletion!Init
  BY DeletionInit
<1>2. WindowInv /\ [Next]_vars => WindowInv' /\ [Deletion!Next]_(Deletion!vars)
  BY DeletionStep
<1> QED BY <1>1, <1>2, PTL DEF Spec, OnlyConfirmedGone, Deletion!Spec
=============================================================================
