------------------------- MODULE QueryLanguageProofs -------------------------
(***************************************************************************)
(* The answers to queries, for every text and every index: patterns match  *)
(* as globs, the operators are Boolean, ranges and periods end where they  *)
(* are meant to, and the slow search finds what the fast one does.         *)
(*                                                                         *)
(* The loops of query.cpp are recursive functions on 0 .. n or on the      *)
(* positions of WildcardMatch.  Induction over them is by least members    *)
(* (LeastOf): a set of numbers that has a member without the property has  *)
(* a least one.                                                            *)
(***************************************************************************)
EXTENDS QueryLanguage, SequenceTheorems, FiniteSetTheorems, WellFoundedInduction, TLAPS

-----------------------------------------------------------------------------
(* Induction and iteration *)

\* A set of numbers has a least member.
LEMMA LeastOf ==
    ASSUME NEW T \in SUBSET Nat, T # {}
    PROVE  \E n \in T : \A m \in T : n <= m
<1> DEFINE R == {ss \in Nat \X Nat : ss[1] < ss[2]}
<1>1. IsWellFoundedOn(R, Nat)
  BY NatLessThanWellFounded DEF OpToRel
<1>2. PICK x \in T : \A y \in T : ~(<<y, x>> \in R)
  <2> HIDE DEF R
  <2> QED BY <1>1, WFMin
<1>3. ASSUME NEW y \in T PROVE x <= y
  <2>1. ~(y < x)
    BY <1>2, Zenon
  <2> QED BY <2>1
<1> QED BY <1>2, <1>3

\* A set that has 0, and with each number below N the next, has all up to N.
LEMMA Induction ==
    ASSUME NEW N \in Nat, NEW S, 0 \in S,
           \A n \in Nat : n < N /\ n \in S => n + 1 \in S
    PROVE  \A n \in 0 .. N : n \in S
<1> DEFINE T == {n \in 0 .. N : n \notin S}
<1> SUFFICES ASSUME T # {} PROVE FALSE
  OBVIOUS
<1>1. T \in SUBSET Nat
  OBVIOUS
<1>2. PICK n \in T : \A m \in T : n <= m
  <2> HIDE DEF T
  <2> QED BY <1>1, LeastOf
<1>3. n \in Nat /\ n # 0 /\ n <= N
  OBVIOUS
<1>4. n - 1 \in Nat /\ n - 1 < N /\ (n - 1) + 1 = n
  BY <1>3
<1>5. n - 1 \in S
  BY <1>2, <1>3, <1>4
<1> QED BY <1>4, <1>5

Iterates(N, T, a, step, g) ==
    g \in [0 .. N -> T] /\ g[0] = a /\ \A n \in 1 .. N : g[n] = step[n][g[n - 1]]

\* A step that keeps to T can be taken N times from any member of T.
LEMMA Iteration ==
    ASSUME NEW N \in Nat, NEW T, NEW a \in T, NEW step,
           \A n \in 1 .. N : \A s \in T : step[n][s] \in T
    PROVE  \E g : Iterates(N, T, a, step, g)
<1> DEFINE Upto(k, g) == Iterates(k, T, a, step, g)
           S == {k \in 0 .. N : \E g : Upto(k, g)}
<1>1. 0 \in S
  <2>1. Upto(0, [n \in 0 .. 0 |-> a])
    BY DEF Iterates
  <2>2. 0 \in 0 .. N
    OBVIOUS
  <2> HIDE DEF Upto
  <2> QED BY <2>1, <2>2
<1>2. ASSUME NEW k \in Nat, k < N, k \in S PROVE k + 1 \in S
  <2>1. PICK g : Upto(k, g)
    BY <1>2
  <2>2. step[k + 1][g[k]] \in T
    <3>1. k + 1 \in 1 .. N /\ k \in 0 .. k
      <4> HIDE DEF S, Upto
      <4> QED BY <1>2
    <3>2. g[k] \in T
      BY <2>1, <3>1 DEF Iterates
    <3> QED BY <3>1, <3>2
  <2> DEFINE last == step[k + 1][g[k]]
             h == [n \in 0 .. k + 1 |-> IF n = k + 1 THEN last ELSE g[n]]
  <2>3. h[k + 1] = last /\ \A n \in 0 .. k : h[n] = g[n]
    <3> HIDE DEF last
    <3> QED OBVIOUS
  <2>4. h \in [0 .. k + 1 -> T]
    <3> HIDE DEF last
    <3>1. last \in T
      BY <2>2 DEF last
    <3>2. \A n \in 0 .. k + 1 : n # k + 1 => n \in 0 .. k
      OBVIOUS
    <3> QED BY <2>1, <3>1, <3>2 DEF Iterates
  <2>5. Upto(k + 1, h)
    <3> HIDE DEF h
    <3>1. h[0] = a
      <4>1. 0 \in 0 .. k
        OBVIOUS
      <4> QED BY <2>1, <2>3, <4>1 DEF Iterates
    <3>2. ASSUME NEW n \in 1 .. k + 1 PROVE h[n] = step[n][h[n - 1]]
      <4>1. CASE n = k + 1
        <5>1. n - 1 = k /\ k \in 0 .. k
          BY <4>1
        <5> QED BY <2>3, <4>1, <5>1
      <4>2. CASE n # k + 1
        <5>1. n \in 1 .. k /\ n \in 0 .. k /\ n - 1 \in 0 .. k
          BY <4>2
        <5>2. g[n] = step[n][g[n - 1]]
          BY <2>1, <5>1 DEF Iterates
        <5> QED BY <2>3, <5>1, <5>2
      <4> QED BY <4>1, <4>2
    <3> QED BY <2>4, <3>1, <3>2 DEF Iterates
  <2>6. k + 1 \in 0 .. N
    <3> HIDE DEF S
    <3> QED BY <1>2
  <2> HIDE DEF Upto, h
  <2> QED BY <2>5, <2>6
<1>3. N \in S
  <2>1. N \in 0 .. N
    OBVIOUS
  <2> HIDE DEF S
  <2> QED BY <1>1, <1>2, <2>1, Induction
<1> QED
  BY <1>3

-----------------------------------------------------------------------------
(* The three loops *)

State(C) == [tokens : Seq(Seq(C)), current : Seq(C), quoted : BOOLEAN]
Start == [tokens |-> <<>>, current |-> <<>>, quoted |-> FALSE]

LEMMA ReadCharacterType ==
    ASSUME NEW C, NEW s \in State(C), NEW c \in C
    PROVE  ReadCharacter(s, c) \in State(C)
<1>1. s.tokens \in Seq(Seq(C)) /\ s.current \in Seq(C) /\ s.quoted \in BOOLEAN
  BY DEF State
<1>2. Append(s.tokens, s.current) \in Seq(Seq(C)) /\ Append(s.current, c) \in Seq(C)
  BY <1>1
<1> DEFINE cut == IF s.current = <<>> THEN s.tokens ELSE Append(s.tokens, s.current)
<1>3. cut \in Seq(Seq(C))
  BY <1>1, <1>2
<1>4. <<>> \in Seq(C) /\ (c = "|" => Append(cut, <<"|">>) \in Seq(Seq(C)))
  <2> HIDE DEF cut
  <2>1. <<c>> \in Seq(C)
    OBVIOUS
  <2>2. Append(cut, <<c>>) \in Seq(Seq(C))
    BY <1>3, <2>1
  <2> QED BY <2>2
<1>5. ReadCharacter(s, c) =
        IF c = Quote THEN [s EXCEPT !.quoted = ~@]
        ELSE IF c = " " /\ ~s.quoted THEN [s EXCEPT !.tokens = cut, !.current = <<>>]
        ELSE IF c = "|" /\ ~s.quoted THEN [s EXCEPT !.tokens = Append(cut, <<"|">>), !.current = <<>>]
        ELSE [s EXCEPT !.current = Append(@, c)]
  <2>1. Quote # " " /\ Quote # "|" /\ " " # "|"
    BY DEF Quote
  <2> QED BY <2>1, Zenon DEF ReadCharacter
<1> HIDE DEF cut
<1> QED BY <1>1, <1>2, <1>3, <1>4, <1>5 DEF State

LEMMA ReadingDef ==
    ASSUME NEW C, NEW raw \in Seq(C)
    PROVE  /\ Reading(raw) \in [0 .. Len(raw) -> State(C)]
           /\ Reading(raw)[0] = Start
           /\ \A n \in 1 .. Len(raw) : Reading(raw)[n] = ReadCharacter(Reading(raw)[n - 1], raw[n])
<1> DEFINE N == Len(raw)
           Body(g) == [n \in 0 .. N |-> IF n = 0 THEN Start ELSE ReadCharacter(g[n - 1], raw[n])]
           step == [n \in 1 .. N |-> [s \in State(C) |-> ReadCharacter(s, raw[n])]]
<1>1. N \in Nat /\ \A n \in 1 .. N : raw[n] \in C
  OBVIOUS
<1>2. Start \in State(C)
  BY DEF Start, State
<1>3. /\ \A n \in 1 .. N : \A s \in State(C) : step[n][s] \in State(C)
      /\ \A n \in 1 .. N : \A s \in State(C) : step[n][s] = ReadCharacter(s, raw[n])
  <2> HIDE DEF N
  <2>1. \A n \in 1 .. N : \A s \in State(C) : ReadCharacter(s, raw[n]) \in State(C)
    BY <1>1, ReadCharacterType
  <2> QED BY <2>1
<1>4. PICK g : Iterates(N, State(C), Start, step, g)
  <2> HIDE DEF step, N
  <2> QED BY <1>1, <1>2, <1>3, Iteration
<1>5. \A n \in 1 .. N : g[n] = ReadCharacter(g[n - 1], raw[n])
  <2> HIDE DEF step, N
  <2> TAKE n \in 1 .. N
  <2>1. g[n - 1] \in State(C)
    BY <1>1, <1>4 DEF Iterates
  <2> QED BY <1>3, <1>4, <2>1 DEF Iterates
<1>6. g = Body(g)
  <2> HIDE DEF step, N
  <2>1. \A n \in 0 .. N : n # 0 => n \in 1 .. N
    BY <1>1
  <2> QED BY <1>4, <1>5, <2>1 DEF Iterates
<1>7. Reading(raw) = CHOOSE f : f = Body(f)
  BY DEF Reading, Start
<1>8. Reading(raw) = Body(Reading(raw))
  <2> HIDE DEF Body
  <2> QED BY <1>6, <1>7
<1> DEFINE r == Reading(raw)
<1> HIDE DEF step
<1>9. r[0] = Start /\ \A n \in 1 .. N : r[n] = ReadCharacter(r[n - 1], raw[n])
  <2> HIDE DEF r, N
  <2>1. r = Body(r)
    BY <1>8 DEF r
  <2>2. 0 \in 0 .. N /\ \A n \in 1 .. N : n \in 0 .. N /\ n # 0
    BY <1>1
  <2> QED BY <2>1, <2>2
<1>10. \A n \in 0 .. N : r[n] \in State(C)
  <2> DEFINE S == {n \in 0 .. N : r[n] \in State(C)}
  <2> HIDE DEF r, N
  <2>1. 0 \in S
    BY <1>1, <1>2, <1>9
  <2>2. ASSUME NEW n \in Nat, n < N, n \in S PROVE n + 1 \in S
    <3>1. n + 1 \in 1 .. N /\ (n + 1) - 1 = n /\ n + 1 \in 0 .. N
      <4> HIDE DEF S
      <4> QED BY <1>1, <2>2
    <3>2. r[n + 1] = ReadCharacter(r[n], raw[n + 1])
      BY <1>9, <3>1
    <3>3. r[n] \in State(C)
      BY <2>2
    <3>4. r[n + 1] \in State(C)
      BY <1>1, <3>1, <3>2, <3>3, ReadCharacterType
    <3> QED BY <3>1, <3>4
  <2> HIDE DEF S
  <2>3. \A n \in 0 .. N : n \in S
    BY <1>1, <2>1, <2>2, Induction
  <2> QED BY <2>3 DEF S
<1>11. r \in [0 .. N -> State(C)]
  <2> HIDE DEF r, N
  <2>1. r = Body(r)
    BY <1>8 DEF r
  <2> QED BY <1>10, <2>1
<1> QED BY <1>9, <1>11

-----------------------------------------------------------------------------
(* WildcardMatch is what its recursion says: every step is nearer to an end *)

Matched(s) == [s EXCEPT !.i = @ + 1, !.p = @ + 1]
Starred(s) == [s EXCEPT !.p = @ + 1, !.star = s.p, !.from = s.i]
Backed(s) == [s EXCEPT !.i = s.from + 1, !.p = s.star + 1, !.from = @ + 1]

FitsAt(t, pattern, s) == s.p <= Len(pattern) /\ pattern[s.p] \in {"?", t[s.i]}
StarAt(t, pattern, s) == s.p <= Len(pattern) /\ pattern[s.p] = "*"
RestStars(pattern, p) == \A k \in p .. Len(pattern) : pattern[k] = "*"

Step(t, pattern, rest, s) ==
    IF s.i > Len(t) THEN RestStars(pattern, s.p)
    ELSE IF FitsAt(t, pattern, s) THEN rest[Matched(s)]
    ELSE IF StarAt(t, pattern, s) THEN rest[Starred(s)]
    ELSE s.star # 0 /\ rest[Backed(s)]

Distance(l, m, s) ==
    IF s.i > l THEN 0
    ELSE IF s.p > s.star /\ s.from <= s.i THEN (l - s.from) * (m + 2) + (m + 2 - s.p)
    ELSE (l + 1) * (m + 2) + (m + 1 - s.p)

LEMMA Product ==
    ASSUME NEW a \in Int, NEW w \in Int
    PROVE  (a + 1) * w = a * w + w
OBVIOUS

LEMMA ProductNat ==
    ASSUME NEW a \in Nat, NEW w \in Nat
    PROVE  a * w \in Nat
OBVIOUS

LEMMA ProductOrder ==
    ASSUME NEW a \in Nat, NEW b \in Nat, NEW w \in Nat, a <= b
    PROVE  a * w <= b * w
<1>1. PICK d \in Nat : b = a + d
  <2>1. b - a \in Nat /\ b = a + (b - a)
    OBVIOUS
  <2> QED BY <2>1
<1>2. b * w = a * w + d * w
  BY <1>1
<1>3. d * w >= 0 /\ a * w \in Nat /\ b * w \in Nat
  BY ProductNat
<1> QED BY <1>2, <1>3

LEMMA DistanceBound ==
    ASSUME NEW l \in Nat, NEW m \in Nat, NEW s \in [i : Nat, p : 1 .. m + 1, star : 0 .. m, from : Nat]
    PROVE  Distance(l, m, s) \in 0 .. (l + 2) * (m + 2)
<1>1. /\ s.i \in Nat /\ s.p \in 1 .. m + 1 /\ s.star \in 0 .. m /\ s.from \in Nat
      /\ m + 2 \in Nat /\ l + 1 \in Nat
  OBVIOUS
<1>2. (l + 2) * (m + 2) = (l + 1) * (m + 2) + (m + 2)
  BY Product
<1>3. (l + 1) * (m + 2) \in Nat
  BY ProductNat
<1>4. CASE s.i > l
  BY <1>2, <1>3, <1>4 DEF Distance
<1>5. CASE s.i <= l /\ s.p > s.star /\ s.from <= s.i
  <2>1. l - s.from \in Nat /\ l - s.from <= l + 1
    BY <1>1, <1>5
  <2>2. (l - s.from) * (m + 2) <= (l + 1) * (m + 2) /\ (l - s.from) * (m + 2) \in Nat
    BY <1>1, <2>1, ProductOrder, ProductNat
  <2>3. Distance(l, m, s) = (l - s.from) * (m + 2) + (m + 2 - s.p)
    BY <1>1, <1>5 DEF Distance
  <2>4. m + 2 - s.p \in 0 .. m + 2
    BY <1>1
  <2> QED BY <1>2, <1>3, <2>2, <2>3, <2>4
<1>6. CASE s.i <= l /\ ~(s.p > s.star /\ s.from <= s.i)
  <2>1. Distance(l, m, s) = (l + 1) * (m + 2) + (m + 1 - s.p)
    BY <1>1, <1>6 DEF Distance
  <2>2. m + 1 - s.p \in 0 .. m + 2
    BY <1>1
  <2> QED BY <1>2, <1>3, <2>1, <2>2
<1> QED BY <1>1, <1>4, <1>5, <1>6

\* A position with a star behind it is nearer than any without.
LEMMA DistanceOf ==
    ASSUME NEW l \in Nat, NEW m \in Nat, NEW s \in [i : Nat, p : 1 .. m + 1, star : 0 .. m, from : Nat]
    PROVE  LET wide == (l + 1) * (m + 2)
               far == (l - s.from) * (m + 2)
           IN  /\ s.i > l => Distance(l, m, s) = 0
               /\ s.i <= l /\ s.p > s.star /\ s.from <= s.i =>
                      /\ Distance(l, m, s) = far + (m + 2 - s.p)
                      /\ far \in Nat /\ far + (m + 2) <= wide
               /\ s.i <= l /\ ~(s.p > s.star /\ s.from <= s.i) =>
                      Distance(l, m, s) = wide + (m + 1 - s.p)
               /\ wide \in Nat /\ wide >= m + 2
<1>1. /\ s.i \in Nat /\ s.p \in 1 .. m + 1 /\ s.star \in 0 .. m /\ s.from \in Nat
      /\ m + 2 \in Nat /\ l + 1 \in Nat
  OBVIOUS
<1>2. (l + 1) * (m + 2) \in Nat /\ (l + 1) * (m + 2) >= m + 2
  <2>1. (l + 1) * (m + 2) = l * (m + 2) + (m + 2) /\ l * (m + 2) \in Nat
    BY Product, ProductNat
  <2> QED BY <2>1, ProductNat
<1>3. ASSUME s.i <= l, s.p > s.star, s.from <= s.i
      PROVE  (l - s.from) * (m + 2) \in Nat /\ (l - s.from) * (m + 2) + (m + 2) <= (l + 1) * (m + 2)
  <2>1. l - s.from \in Nat /\ (l - s.from) + 1 \in Nat /\ (l - s.from) + 1 <= l + 1
    BY <1>1, <1>3
  <2>2. ((l - s.from) + 1) * (m + 2) = (l - s.from) * (m + 2) + (m + 2)
    BY <1>1, <2>1, Product
  <2>3. ((l - s.from) + 1) * (m + 2) <= (l + 1) * (m + 2)
    BY <1>1, <2>1, ProductOrder
  <2> QED BY <1>1, <2>1, <2>2, <2>3, ProductNat
<1> QED BY <1>1, <1>2, <1>3 DEF Distance

\* The three moves.
LEMMA Moves ==
    ASSUME NEW m \in Nat, NEW s \in [i : Nat, p : 1 .. m + 1, star : 0 .. m, from : Nat]
    PROVE  LET P == [i : Nat, p : 1 .. m + 1, star : 0 .. m, from : Nat]
           IN  /\ s.i \in Nat /\ s.p \in 1 .. m + 1 /\ s.star \in 0 .. m /\ s.from \in Nat
               /\ Matched(s).i = s.i + 1 /\ Matched(s).p = s.p + 1
               /\ Matched(s).star = s.star /\ Matched(s).from = s.from
               /\ s.p <= m => Matched(s) \in P
               /\ Starred(s).i = s.i /\ Starred(s).p = s.p + 1
               /\ Starred(s).star = s.p /\ Starred(s).from = s.i
               /\ s.p <= m => Starred(s) \in P
               /\ Backed(s).i = s.from + 1 /\ Backed(s).p = s.star + 1
               /\ Backed(s).star = s.star /\ Backed(s).from = s.from + 1
               /\ Backed(s) \in P
<1> DEFINE B == 1 .. m + 1
           C == 0 .. m
           P == [i : Nat, p : B, star : C, from : Nat]
<1>1. /\ s \in P /\ s.i \in Nat /\ s.p \in B /\ s.star \in C /\ s.from \in Nat
      /\ s.p \in Nat /\ s.star \in Nat
  OBVIOUS
<1>2. /\ s.i + 1 \in Nat /\ s.from + 1 \in Nat /\ s.star + 1 \in B
      /\ s.p <= m => s.p + 1 \in B /\ s.p \in C
  BY <1>1
<1> HIDE DEF B, C
<1>3. /\ Matched(s).i = s.i + 1 /\ Matched(s).p = s.p + 1
      /\ Matched(s).star = s.star /\ Matched(s).from = s.from
  BY <1>1 DEF Matched
<1>4. /\ Starred(s).i = s.i /\ Starred(s).p = s.p + 1
      /\ Starred(s).star = s.p /\ Starred(s).from = s.i
  BY <1>1 DEF Starred
<1>5. /\ Backed(s).i = s.from + 1 /\ Backed(s).p = s.star + 1
      /\ Backed(s).star = s.star /\ Backed(s).from = s.from + 1
  BY <1>1 DEF Backed
<1>6. s.p <= m => Matched(s) \in P
  BY <1>1, <1>2 DEF Matched
<1>7. s.p <= m => Starred(s) \in P
  BY <1>1, <1>2 DEF Starred
<1>8. Backed(s) \in P
  BY <1>1, <1>2 DEF Backed
<1> QED BY <1>1, <1>3, <1>4, <1>5, <1>6, <1>7, <1>8 DEF B, C

LEMMA Nearer ==
    ASSUME NEW t, NEW pattern, Len(t) \in Nat, Len(pattern) \in Nat,
           NEW s \in Position(pattern), s.i <= Len(t)
    PROVE  /\ FitsAt(t, pattern, s) =>
                  /\ Matched(s) \in Position(pattern)
                  /\ Distance(Len(t), Len(pattern), Matched(s)) < Distance(Len(t), Len(pattern), s)
           /\ StarAt(t, pattern, s) =>
                  /\ Starred(s) \in Position(pattern)
                  /\ Distance(Len(t), Len(pattern), Starred(s)) < Distance(Len(t), Len(pattern), s)
           /\ Backed(s) \in Position(pattern)
           /\ Distance(Len(t), Len(pattern), Backed(s)) < Distance(Len(t), Len(pattern), s)
<1> DEFINE l == Len(t)
           m == Len(pattern)
           P == [i : Nat, p : 1 .. m + 1, star : 0 .. m, from : Nat]
           far == (l - s.from) * (m + 2)
           wide == (l + 1) * (m + 2)
<1>1. l \in Nat /\ m \in Nat /\ Position(pattern) = P
  BY DEF Position
<1>2. s.i \in Nat /\ s.p \in 1 .. m + 1 /\ s.star \in 0 .. m /\ s.from \in Nat /\ s.i <= l /\ s \in P
  BY <1>1
<1>3. /\ s.p > s.star /\ s.from <= s.i =>
            Distance(l, m, s) = far + (m + 2 - s.p) /\ far \in Nat /\ far + (m + 2) <= wide
      /\ ~(s.p > s.star /\ s.from <= s.i) => Distance(l, m, s) = wide + (m + 1 - s.p)
      /\ wide \in Nat /\ wide >= m + 2
  <2> HIDE DEF l, m
  <2>1. l \in Nat /\ m \in Nat /\ s.i <= l /\ s \in P
    BY <1>1, <1>2
  <2> QED BY <2>1, DistanceOf, ZenonT(120)
<1> DEFINE sane == s.p > s.star /\ s.from <= s.i
           ds == Distance(l, m, s)
<1>9. /\ sane => ds = far + (m + 2 - s.p) /\ far \in Nat /\ far + (m + 2) <= wide
      /\ ~sane => ds = wide + (m + 1 - s.p)
      /\ wide \in Nat /\ wide >= m + 2 /\ m \in Nat /\ s.p \in 1 .. m + 1
  BY <1>1, <1>2, <1>3
<1>10. ds \in Nat /\ ds > 0
  <2> HIDE DEF ds, sane, l, m, far, wide
  <2> QED BY <1>9, SMTT(60)
<1>4. ASSUME FitsAt(t, pattern, s)
      PROVE  Matched(s) \in P /\ Distance(l, m, Matched(s)) < Distance(l, m, s)
  <2> DEFINE n == Matched(s)
  <2>1. s.p <= m
    BY <1>4 DEF FitsAt
  <2>2. n \in P /\ n.i = s.i + 1 /\ n.p = s.p + 1 /\ n.star = s.star /\ n.from = s.from
    <3> HIDE DEF m
    <3> QED BY <1>1, <1>2, <2>1, Moves
  <2> HIDE DEF n, P
  <2>3. /\ n.i > l => Distance(l, m, n) = 0
        /\ n.i <= l /\ n.p > n.star /\ n.from <= n.i =>
               Distance(l, m, n) = (l - n.from) * (m + 2) + (m + 2 - n.p)
               /\ (l - n.from) * (m + 2) + (m + 2) <= wide
        /\ n.i <= l /\ ~(n.p > n.star /\ n.from <= n.i) =>
               Distance(l, m, n) = wide + (m + 1 - n.p)
    <3>1. LET w == (l + 1) * (m + 2)
              f == (l - n.from) * (m + 2)
          IN  /\ n.i > l => Distance(l, m, n) = 0
              /\ n.i <= l /\ n.p > n.star /\ n.from <= n.i =>
                     /\ Distance(l, m, n) = f + (m + 2 - n.p)
                     /\ f \in Nat /\ f + (m + 2) <= w
              /\ n.i <= l /\ ~(n.p > n.star /\ n.from <= n.i) =>
                      Distance(l, m, n) = w + (m + 1 - n.p)
      <4>1. n \in P
        BY <2>2
      <4> HIDE DEF l, m, far, wide
      <4> QED BY <1>1, <4>1, DistanceOf, ZenonT(120) DEF P
    <3> HIDE DEF l, m
    <3> QED BY <3>1
  <2>4. (l - n.from) * (m + 2) = far
    BY <2>2
  <2>5. n \in P /\ Distance(l, m, n) < Distance(l, m, s)
    <3> HIDE DEF l, m, far, wide
    <3> DEFINE dn == Distance(l, m, n)
    <3> HIDE DEF dn, ds
    <3> HIDE DEF sane, P
    <3>1. CASE n.i > l
      <4>1. dn = 0
        BY <2>3, <3>1 DEF dn
      <4> QED BY <1>10, <2>2, <4>1 DEF dn, ds
    <3>2. CASE n.i <= l /\ n.p > n.star /\ n.from <= n.i
      <4>1. dn = far + (m + 2 - n.p) /\ far + (m + 2) <= wide
        BY <2>3, <2>4, <3>2 DEF dn
      <4>2. n.p = s.p + 1 /\ s.p <= m
        BY <2>1, <2>2
      <4>3. dn < ds
        <5>1. CASE sane
          BY <1>9, <4>1, <4>2, <5>1, SMTT(60)
        <5>2. CASE ~sane
          <6>1. far \in Int
            BY <1>1, <1>2 DEF far
          <6> QED BY <1>9, <4>1, <4>2, <5>2, <6>1
        <5> QED BY <5>1, <5>2
      <4> QED BY <2>2, <4>3 DEF dn, ds
    <3>3. CASE n.i <= l /\ ~(n.p > n.star /\ n.from <= n.i)
      <4>1. dn = wide + (m + 1 - n.p)
        BY <2>3, <3>3 DEF dn
      <4>2. n.p = s.p + 1 /\ s.p <= m
        BY <2>1, <2>2
      <4>3. ~sane
        BY <1>2, <2>2, <3>3 DEF sane
      <4>4. dn < ds
        BY <1>9, <4>1, <4>2, <4>3, SMTT(60)
      <4> QED BY <2>2, <4>4 DEF dn, ds
    <3>4. n.i > l \/ n.i <= l
      BY <1>1, <1>2, <2>2
    <3> QED BY <3>1, <3>2, <3>3, <3>4
  <2> QED BY <2>5 DEF n
<1>5. ASSUME StarAt(t, pattern, s)
      PROVE  Starred(s) \in P /\ Distance(l, m, Starred(s)) < Distance(l, m, s)
  <2> DEFINE n == Starred(s)
             near == (l - n.from) * (m + 2)
  <2>1. s.p <= m
    BY <1>5 DEF StarAt
  <2>2. n \in P /\ n.i = s.i /\ n.p = s.p + 1 /\ n.star = s.p /\ n.from = s.i
    <3> HIDE DEF m
    <3> QED BY <1>1, <1>2, <2>1, Moves
  <2> HIDE DEF n, P
  <2>3. Distance(l, m, n) = near + (m + 2 - n.p) /\ near + (m + 2) <= wide /\ near \in Nat
    <3>1. n.p > n.star /\ n.from <= n.i /\ n.i <= l
      BY <1>1, <1>2, <2>2
    <3> HIDE DEF l, m
    <3> QED BY <1>1, <2>2, <3>1, DistanceOf, ZenonT(120) DEF P
  <2>4. s.from <= s.i => near <= far
    <3>1. s.from <= s.i => l - n.from \in Nat /\ l - s.from \in Nat /\ l - n.from <= l - s.from
      BY <1>1, <1>2, <2>2
    <3> HIDE DEF l, m
    <3> QED BY <1>1, <3>1, ProductOrder
  <2>5. n \in P /\ Distance(l, m, n) < Distance(l, m, s)
    <3> HIDE DEF l, m, far, wide, near
    <3> QED BY <1>1, <1>2, <1>3, <2>1, <2>2, <2>3, <2>4, SMTT(60)
  <2> QED BY <2>5 DEF n
<1>6. Backed(s) \in P /\ Distance(l, m, Backed(s)) < Distance(l, m, s)
  <2> DEFINE n == Backed(s)
             near == (l - n.from) * (m + 2)
  <2>2. n \in P /\ n.i = s.from + 1 /\ n.p = s.star + 1 /\ n.star = s.star /\ n.from = s.from + 1
    <3> HIDE DEF m
    <3> QED BY <1>1, <1>2, Moves
  <2> HIDE DEF n, P
  <2>3. /\ n.i > l => Distance(l, m, n) = 0
        /\ n.i <= l => Distance(l, m, n) = near + (m + 2 - n.p) /\ near + (m + 2) <= wide
    <3>1. n.p > n.star /\ n.from <= n.i /\ n.i \in Nat
      BY <1>1, <1>2, <2>2
    <3> HIDE DEF l, m
    <3> QED BY <1>1, <2>2, <3>1, DistanceOf, ZenonT(120) DEF P
  <2>4. far = near + (m + 2)
    <3> DEFINE a == l - n.from
    <3>1. a \in Int /\ m + 2 \in Int /\ l - s.from = a + 1
      BY <1>1, <1>2, <2>2
    <3>2. (a + 1) * (m + 2) = a * (m + 2) + (m + 2)
      <4> HIDE DEF a
      <4> QED BY <3>1, Product
    <3> QED BY <3>1, <3>2
  <2>5. near \in Int
    BY <1>1, <1>2, <2>2
  <2>6. n \in P /\ Distance(l, m, n) < Distance(l, m, s)
    <3> HIDE DEF l, m, far, wide, near
    <3> DEFINE dn == Distance(l, m, n)
    <3> HIDE DEF dn, ds
    <3> HIDE DEF sane, P
    <3>1. CASE n.i > l
      <4>1. dn = 0
        BY <2>3, <3>1 DEF dn
      <4> QED BY <1>10, <2>2, <4>1 DEF dn, ds
    <3>2. CASE n.i <= l
      <4>1. dn = near + (m + 2 - n.p) /\ near + (m + 2) <= wide
        BY <2>3, <3>2 DEF dn
      <4>2. n.p = s.star + 1 /\ s.star \in 0 .. m /\ s.p \in 1 .. m + 1
        BY <1>2, <2>2
      <4>3. dn < ds
        <5>1. CASE sane
          BY <1>9, <2>4, <2>5, <4>1, <4>2, <5>1, SMTT(60)
        <5>2. CASE ~sane
          BY <1>9, <2>5, <4>1, <4>2, <5>2, SMTT(60)
        <5> QED BY <5>1, <5>2
      <4> QED BY <2>2, <4>3 DEF dn, ds
    <3>4. n.i > l \/ n.i <= l
      BY <1>1, <1>2, <2>2
    <3> QED BY <3>1, <3>2, <3>4
  <2> QED BY <2>6 DEF n
<1> QED BY <1>1, <1>4, <1>5, <1>6

\* rest is what the recursion says, up to a distance of k.
Settled(t, pattern, rest, k) ==
    \A s \in Position(pattern) :
        Distance(Len(t), Len(pattern), s) < k => rest[s] = Step(t, pattern, rest, s)

\* A step looks at nearer positions only.
LEMMA StepLooksNearer ==
    ASSUME NEW t, NEW pattern, Len(t) \in Nat, Len(pattern) \in Nat,
           NEW f, NEW g, NEW s \in Position(pattern),
           \A n \in Position(pattern) :
               Distance(Len(t), Len(pattern), n) < Distance(Len(t), Len(pattern), s) => f[n] = g[n]
    PROVE  Step(t, pattern, f, s) = Step(t, pattern, g, s)
<1>1. s.i \in Nat
  BY DEF Position
<1>2. CASE s.i > Len(t)
  BY <1>2 DEF Step
<1>3. CASE s.i <= Len(t)
  <2>1. /\ FitsAt(t, pattern, s) => f[Matched(s)] = g[Matched(s)]
        /\ StarAt(t, pattern, s) => f[Starred(s)] = g[Starred(s)]
        /\ f[Backed(s)] = g[Backed(s)]
    BY <1>3, Nearer
  <2> QED BY <2>1 DEF Step
<1> QED BY <1>1, <1>2, <1>3

LEMMA SettlesFurther ==
    ASSUME NEW t, NEW pattern, Len(t) \in Nat, Len(pattern) \in Nat,
           NEW k \in Nat, NEW f, Settled(t, pattern, f, k)
    PROVE  \E g : Settled(t, pattern, g, k + 1) /\ g = [s \in Position(pattern) |-> g[s]]
<1> DEFINE P == Position(pattern)
           d(s) == Distance(Len(t), Len(pattern), s)
           g == [s \in P |-> IF d(s) < k THEN f[s] ELSE Step(t, pattern, f, s)]
<1>1. \A s \in P : d(s) \in Nat
  <2> TAKE s \in P
  <2>1. d(s) \in 0 .. (Len(t) + 2) * (Len(pattern) + 2)
    BY DistanceBound DEF Position
  <2> QED BY <2>1
<1>2. \A s \in P : g[s] = IF d(s) < k THEN f[s] ELSE Step(t, pattern, f, s)
  BY Zenon
<1> HIDE DEF g
<1>3. ASSUME NEW s \in P, d(s) < k + 1 PROVE g[s] = Step(t, pattern, g, s)
  <2>1. g[s] = Step(t, pattern, f, s)
    <3>1. CASE d(s) < k
      BY <1>2, <3>1 DEF Settled
    <3>2. CASE ~(d(s) < k)
      BY <1>2, <3>2
    <3> QED BY <3>1, <3>2
  <2>2. \A n \in P : d(n) < d(s) => f[n] = g[n]
    <3> TAKE n \in P
    <3> HAVE d(n) < d(s)
    <3>1. d(n) < k
      <4> HIDE DEF d
      <4> QED BY <1>1, <1>3
    <3> QED BY <1>2, <3>1
  <2>3. Step(t, pattern, f, s) = Step(t, pattern, g, s)
    BY <2>2, StepLooksNearer
  <2> QED BY <2>1, <2>3
<1>4. Settled(t, pattern, g, k + 1)
  BY <1>3 DEF Settled
<1>5. g = [x \in P |-> g[x]]
  <2> DEFINE e(s) == IF d(s) < k THEN f[s] ELSE Step(t, pattern, f, s)
  <2>1. g = [s \in P |-> e(s)]
    BY DEF g
  <2> HIDE DEF e
  <2> QED BY <2>1
<1> QED BY <1>4, <1>5

\* What WildcardMatch computes at each position.
LEMMA MatchingDef ==
    ASSUME NEW t, NEW pattern, Len(t) \in Nat, Len(pattern) \in Nat, NEW s \in Position(pattern)
    PROVE  Matching(t, pattern)[s] = Step(t, pattern, Matching(t, pattern), s)
<1> DEFINE P == Position(pattern)
           K == (Len(t) + 2) * (Len(pattern) + 2)
           S == {k \in Nat : \E g : Settled(t, pattern, g, k) /\ g = [x \in P |-> g[x]]}
           Body(g) == [x \in P |-> Step(t, pattern, g, x)]
           All(g) == [x \in P |->
            IF x.i > Len(t) THEN \A k \in x.p .. Len(pattern) : pattern[k] = "*"
            ELSE IF x.p <= Len(pattern) /\ pattern[x.p] \in {"?", t[x.i]}
                 THEN g[[x EXCEPT !.i = @ + 1, !.p = @ + 1]]
            ELSE IF x.p <= Len(pattern) /\ pattern[x.p] = "*"
                 THEN g[[x EXCEPT !.p = @ + 1, !.star = x.p, !.from = x.i]]
            ELSE x.star # 0 /\ g[[x EXCEPT !.i = x.from + 1, !.p = x.star + 1, !.from = @ + 1]]]
<1>1. K \in Nat
  BY ProductNat
<1>2. 0 \in S
  <2>1. ASSUME NEW x \in P PROVE ~(Distance(Len(t), Len(pattern), x) < 0)
    <3>1. Distance(Len(t), Len(pattern), x) \in 0 .. K
      BY DistanceBound DEF Position
    <3> QED BY <1>1, <3>1
  <2> DEFINE g == [x \in P |-> FALSE]
  <2>2. Settled(t, pattern, g, 0)
    BY <2>1, Zenon DEF Settled
  <2>3. g = [x \in P |-> g[x]]
    OBVIOUS
  <2> HIDE DEF g
  <2> QED BY <2>2, <2>3
<1>3. ASSUME NEW k \in Nat, k < K + 1, k \in S PROVE k + 1 \in S
  <2>1. PICK f : Settled(t, pattern, f, k)
    BY <1>3
  <2> QED BY <2>1, SettlesFurther
<1>4. K + 1 \in S
  <2>1. K + 1 \in Nat /\ K + 1 \in 0 .. K + 1
    BY <1>1
  <2> HIDE DEF S, K
  <2> QED BY <1>2, <1>3, <2>1, Induction
<1>5. PICK g : Settled(t, pattern, g, K + 1) /\ g = [x \in P |-> g[x]]
  BY <1>4
<1>6. \A x \in P : g[x] = Step(t, pattern, g, x)
  <2> TAKE x \in P
  <2>1. Distance(Len(t), Len(pattern), x) \in 0 .. K
    BY DistanceBound DEF Position
  <2>2. Distance(Len(t), Len(pattern), x) < K + 1
    <3> HIDE DEF K
    <3> QED BY <1>1, <2>1
  <2> QED BY <1>5, <2>2 DEF Settled
<1>7. ASSUME NEW f PROVE All(f) = Body(f)
  BY ZenonT(120) DEF Step, RestStars, FitsAt, StarAt, Matched, Starred, Backed
<1>8. g = All(g)
  <2>1. g = Body(g)
    <3> DEFINE e(x) == Step(t, pattern, g, x)
    <3>1. \A x \in P : g[x] = e(x)
      BY <1>6
    <3>2. g = [x \in P |-> e(x)]
      <4> HIDE DEF e
      <4> QED BY <1>5, <3>1
    <3> QED BY <3>2
  <2> QED BY <1>7, <2>1
<1>9. Matching(t, pattern) = CHOOSE f : f = All(f)
  BY DEF Matching
<1>10. Matching(t, pattern) = All(Matching(t, pattern))
  <2> HIDE DEF All, Body
  <2> QED BY <1>8, <1>9
<1>11. Matching(t, pattern) = Body(Matching(t, pattern))
  BY <1>7, <1>10
<1> QED BY <1>11

-----------------------------------------------------------------------------
(* The definition of matching, character by character *)

\* A cut of the text for the pattern from p on.
CutFrom(t, pattern, p, cut) ==
    /\ cut \in [p .. Len(pattern) + 1 -> 1 .. Len(t) + 1]
    /\ cut[Len(pattern) + 1] = Len(t) + 1
    /\ \A q \in p .. Len(pattern) :
           IF pattern[q] = "*" THEN cut[q] <= cut[q + 1]
           ELSE cut[q + 1] = cut[q] + 1 /\ pattern[q] \in {"?", t[cut[q]]}

GlobFrom(t, pattern, i, p) == \E cut : CutFrom(t, pattern, p, cut) /\ cut[p] = i

LEMMA GlobIsFrom ==
    ASSUME NEW t, NEW pattern, Len(t) \in Nat, Len(pattern) \in Nat, DOMAIN pattern = 1 .. Len(pattern)
    PROVE  Glob(t, pattern) = GlobFrom(t, pattern, 1, 1)
BY Zenon DEF Glob, GlobFrom, CutFrom

LEMMA GlobEnd ==
    ASSUME NEW t, NEW pattern, Len(t) \in Nat, Len(pattern) \in Nat, NEW i \in 1 .. Len(t) + 1
    PROVE  GlobFrom(t, pattern, i, Len(pattern) + 1) <=> i = Len(t) + 1
<1> DEFINE m == Len(pattern)
           l == Len(t)
           cut == [q \in m + 1 .. m + 1 |-> l + 1]
<1>1. cut \in [m + 1 .. m + 1 -> 1 .. l + 1] /\ cut[m + 1] = l + 1
  OBVIOUS
<1>2. \A q \in m + 1 .. m : FALSE
  OBVIOUS
<1>3. CutFrom(t, pattern, m + 1, cut)
  <2> HIDE DEF cut
  <2> QED BY <1>1, <1>2 DEF CutFrom
<1> HIDE DEF cut
<1> QED BY <1>1, <1>3 DEF GlobFrom, CutFrom

LEMMA CutTail ==
    ASSUME NEW t, NEW pattern, Len(t) \in Nat, Len(pattern) \in Nat, NEW p \in 1 .. Len(pattern), NEW cut,
           CutFrom(t, pattern, p, cut)
    PROVE  /\ GlobFrom(t, pattern, cut[p + 1], p + 1)
           /\ cut[p] \in 1 .. Len(t) + 1 /\ cut[p + 1] \in 1 .. Len(t) + 1
<1> DEFINE m == Len(pattern)
           l == Len(t)
           rest == [q \in p + 1 .. m + 1 |-> cut[q]]
<1>1. /\ m \in Nat /\ p + 1 \in p .. m + 1 /\ m + 1 \in p + 1 .. m + 1
      /\ p \in p .. m + 1 /\ p + 1 \in p + 1 .. m + 1
  OBVIOUS
<1>2. \A q \in p + 1 .. m + 1 : q \in p .. m + 1 /\ rest[q] = cut[q]
  OBVIOUS
<1>3. \A q \in p + 1 .. m : q \in p .. m /\ rest[q] = cut[q] /\ rest[q + 1] = cut[q + 1]
  OBVIOUS
<1>4. \A q \in p .. m + 1 : cut[q] \in 1 .. l + 1
  <2> HIDE DEF m, l
  <2> QED BY DEF CutFrom, m, l
<1>5. rest \in [p + 1 .. m + 1 -> 1 .. l + 1]
  BY <1>2, <1>4
<1> HIDE DEF rest
<1>6. CutFrom(t, pattern, p + 1, rest)
  BY <1>1, <1>2, <1>3, <1>5 DEF CutFrom
<1> QED BY <1>1, <1>2, <1>4, <1>6 DEF GlobFrom

LEMMA CutOn ==
    ASSUME NEW t, NEW pattern, Len(t) \in Nat, Len(pattern) \in Nat, NEW p \in 1 .. Len(pattern), NEW cut,
           CutFrom(t, pattern, p + 1, cut), NEW i \in 1 .. Len(t) + 1,
           IF pattern[p] = "*" THEN i <= cut[p + 1]
           ELSE cut[p + 1] = i + 1 /\ pattern[p] \in {"?", t[i]}
    PROVE  GlobFrom(t, pattern, i, p)
<1> DEFINE m == Len(pattern)
           l == Len(t)
           all == [q \in p .. m + 1 |-> IF q = p THEN i ELSE cut[q]]
<1>1. m \in Nat /\ p \in p .. m + 1 /\ p \in 1 .. m
  OBVIOUS
<1>2. all[p] = i /\ \A q \in p + 1 .. m + 1 : all[q] = cut[q]
  OBVIOUS
<1>3. \A q \in p + 1 .. m + 1 : cut[q] \in 1 .. l + 1
  <2> HIDE DEF m, l
  <2> QED BY DEF CutFrom, m, l
<1>4. all \in [p .. m + 1 -> 1 .. l + 1]
  <2>1. \A q \in p .. m + 1 : q # p => q \in p + 1 .. m + 1
    OBVIOUS
  <2>2. i \in 1 .. l + 1
    OBVIOUS
  <2> HIDE DEF m, l
  <2> QED BY <1>3, <2>1, <2>2
<1> HIDE DEF all
<1>5. all[m + 1] = l + 1
  <2>1. m + 1 \in p + 1 .. m + 1
    BY <1>1
  <2> QED BY <1>2, <2>1 DEF CutFrom
<1>6. ASSUME NEW q \in p .. m
      PROVE  IF pattern[q] = "*" THEN all[q] <= all[q + 1]
             ELSE all[q + 1] = all[q] + 1 /\ pattern[q] \in {"?", t[all[q]]}
  <2>1. q + 1 \in p + 1 .. m + 1
    BY <1>1
  <2>2. CASE q = p
    BY <1>2, <2>1, <2>2
  <2>3. CASE q # p
    <3>1. q \in p + 1 .. m + 1 /\ q \in p + 1 .. m
      BY <1>1, <2>3
    <3> QED BY <1>2, <2>1, <3>1 DEF CutFrom
  <2> QED BY <2>2, <2>3
<1>7. CutFrom(t, pattern, p, all)
  BY <1>4, <1>5, <1>6 DEF CutFrom
<1> QED BY <1>2, <1>7 DEF GlobFrom

LEMMA GlobStar ==
    ASSUME NEW t, NEW pattern, Len(t) \in Nat, Len(pattern) \in Nat,
           NEW p \in 1 .. Len(pattern), NEW i \in 1 .. Len(t) + 1, pattern[p] = "*"
    PROVE  GlobFrom(t, pattern, i, p) <=> \E k \in i .. Len(t) + 1 : GlobFrom(t, pattern, k, p + 1)
<1>1. ASSUME GlobFrom(t, pattern, i, p)
      PROVE  \E k \in i .. Len(t) + 1 : GlobFrom(t, pattern, k, p + 1)
  <2>1. PICK cut : CutFrom(t, pattern, p, cut) /\ cut[p] = i
    BY <1>1 DEF GlobFrom
  <2>2. cut[p] <= cut[p + 1]
    <3>1. p \in p .. Len(pattern)
      OBVIOUS
    <3> QED BY <2>1, <3>1 DEF CutFrom
  <2>3. GlobFrom(t, pattern, cut[p + 1], p + 1) /\ cut[p + 1] \in 1 .. Len(t) + 1
    BY <2>1, CutTail
  <2>4. cut[p + 1] \in i .. Len(t) + 1
    BY <2>1, <2>2, <2>3
  <2> QED BY <2>3, <2>4
<1>2. ASSUME NEW k \in i .. Len(t) + 1, GlobFrom(t, pattern, k, p + 1)
      PROVE  GlobFrom(t, pattern, i, p)
  <2>1. PICK cut : CutFrom(t, pattern, p + 1, cut) /\ cut[p + 1] = k
    BY <1>2 DEF GlobFrom
  <2>2. i <= k
    OBVIOUS
  <2> QED BY <2>1, <2>2, CutOn
<1> QED BY <1>1, <1>2

LEMMA GlobOne ==
    ASSUME NEW t, NEW pattern, Len(t) \in Nat, Len(pattern) \in Nat,
           NEW p \in 1 .. Len(pattern), NEW i \in 1 .. Len(t) + 1, pattern[p] # "*"
    PROVE  GlobFrom(t, pattern, i, p) <=>
               i <= Len(t) /\ pattern[p] \in {"?", t[i]} /\ GlobFrom(t, pattern, i + 1, p + 1)
<1>1. ASSUME GlobFrom(t, pattern, i, p)
      PROVE  i <= Len(t) /\ pattern[p] \in {"?", t[i]} /\ GlobFrom(t, pattern, i + 1, p + 1)
  <2>1. PICK cut : CutFrom(t, pattern, p, cut) /\ cut[p] = i
    BY <1>1 DEF GlobFrom
  <2>2. cut[p + 1] = i + 1 /\ pattern[p] \in {"?", t[i]}
    <3>1. p \in p .. Len(pattern)
      OBVIOUS
    <3> QED BY <2>1, <3>1 DEF CutFrom
  <2>3. GlobFrom(t, pattern, cut[p + 1], p + 1) /\ cut[p + 1] \in 1 .. Len(t) + 1
    BY <2>1, CutTail
  <2> QED BY <2>2, <2>3
<1>2. ASSUME i <= Len(t), pattern[p] \in {"?", t[i]}, GlobFrom(t, pattern, i + 1, p + 1)
      PROVE  GlobFrom(t, pattern, i, p)
  <2>1. PICK cut : CutFrom(t, pattern, p + 1, cut) /\ cut[p + 1] = i + 1
    BY <1>2 DEF GlobFrom
  <2> QED BY <1>2, <2>1, CutOn
<1> QED BY <1>1, <1>2

-----------------------------------------------------------------------------
(* WildcardMatch finds a match whenever there is one *)

LEMMA BothTruths ==
    ASSUME NEW A \in BOOLEAN, NEW B \in BOOLEAN, A <=> B
    PROVE  A = B
OBVIOUS

\* Since the last star, or the beginning, every character has been taken.
Seen(t, pattern, s) ==
    /\ s \in Position(pattern)
    /\ s.i = s.from + s.p - 1 - s.star
    /\ s.star < s.p /\ 1 <= s.from /\ s.i <= Len(t) + 1
    /\ s.star = 0 => s.from = 1
    /\ s.star # 0 => pattern[s.star] = "*"
    /\ \A q \in s.star + 1 .. s.p - 1 :
           pattern[q] # "*" /\ pattern[q] \in {"?", t[s.from + q - s.star - 1]}

\* What the answer depends on: the last star, and how much it has taken.
Goal(t, pattern, s) ==
    IF s.star = 0 THEN GlobFrom(t, pattern, 1, 1)
    ELSE \E k \in s.from .. Len(t) + 1 : GlobFrom(t, pattern, k, s.star + 1)

LEMMA SeenTypes ==
    ASSUME NEW t, NEW pattern, Len(t) \in Nat, Len(pattern) \in Nat, NEW s, Seen(t, pattern, s)
    PROVE  /\ s.i \in 1 .. Len(t) + 1 /\ s.p \in 1 .. Len(pattern) + 1 /\ s.star \in 0 .. Len(pattern)
           /\ s.from \in 1 .. Len(t) + 1 /\ s.from <= s.i
           /\ s.i \in Nat /\ s.p \in Nat /\ s.star \in Nat /\ s.from \in Nat
           /\ s.star < s.p /\ s.i = s.from + s.p - 1 - s.star
<1>1. s.i \in Nat /\ s.p \in 1 .. Len(pattern) + 1 /\ s.star \in 0 .. Len(pattern) /\ s.from \in Nat
  BY DEF Seen, Position
<1>2. /\ s.i = s.from + s.p - 1 - s.star
      /\ s.star < s.p /\ 1 <= s.from /\ s.i <= Len(t) + 1
  BY DEF Seen
<1> QED BY <1>1, <1>2, SMTT(60)

\* What follows the star has to be found for what was seen of it.
LEMMA FurtherOn ==
    ASSUME NEW t, NEW pattern, Len(t) \in Nat, Len(pattern) \in Nat, NEW s, Seen(t, pattern, s),
           NEW k \in s.from .. Len(t) + 1, GlobFrom(t, pattern, k, s.star + 1)
    PROVE  LET j == k + (s.p - 1 - s.star)
           IN  j <= Len(t) + 1 /\ GlobFrom(t, pattern, j, s.p)
<1> DEFINE d == s.p - 1 - s.star
           S == {n \in 0 .. d : k + n <= Len(t) + 1 /\ GlobFrom(t, pattern, k + n, s.star + 1 + n)}
<1>1. /\ s.p \in 1 .. Len(pattern) + 1 /\ s.star \in 0 .. Len(pattern) /\ s.from \in 1 .. Len(t) + 1
      /\ s.star < s.p
  BY SeenTypes
<1>2. d \in Nat /\ k \in Nat /\ k >= 1 /\ k <= Len(t) + 1
  BY <1>1
<1>3. 0 \in S
  <2>1. k + 0 = k /\ s.star + 1 + 0 = s.star + 1 /\ 0 \in 0 .. d
    BY <1>1, <1>2
  <2> HIDE DEF d
  <2> QED BY <1>2, <2>1
<1>4. ASSUME NEW n \in Nat, n < d, n \in S PROVE n + 1 \in S
  <2> DEFINE q == s.star + 1 + n
             i == k + n
  <2>1. /\ q \in 1 .. Len(pattern) /\ q \in s.star + 1 .. s.p - 1
        /\ i \in Nat /\ i >= 1 /\ n + 1 \in 0 .. d
        /\ q + 1 = s.star + 1 + (n + 1) /\ i + 1 = k + (n + 1)
    <3> HIDE DEF S
    <3>1. n + 1 <= s.p - 1 - s.star /\ s.p \in Int /\ s.star \in Nat /\ s.p <= Len(pattern) + 1
      BY <1>1, <1>2, <1>4
    <3>2. q \in 1 .. Len(pattern) /\ q \in s.star + 1 .. s.p - 1
      BY <3>1, SMTT(60)
    <3>3. i \in Nat /\ i >= 1 /\ i + 1 = k + (n + 1)
      BY <1>2
    <3>4. n + 1 \in 0 .. d /\ q + 1 = s.star + 1 + (n + 1)
      BY <3>1, SMTT(60)
    <3> QED BY <3>2, <3>3, <3>4
  <2>2. i <= Len(t) + 1 /\ GlobFrom(t, pattern, i, q)
    BY <1>4
  <2>3. pattern[q] # "*"
    BY <2>1 DEF Seen
  <2>4. i \in 1 .. Len(t) + 1
    BY <2>1, <2>2
  <2>5. i <= Len(t) /\ GlobFrom(t, pattern, i + 1, q + 1)
    <3> HIDE DEF i, q
    <3> QED BY <2>1, <2>2, <2>3, <2>4, GlobOne
  <2>6. i + 1 <= Len(t) + 1
    BY <2>1, <2>5
  <2> HIDE DEF d
  <2> QED BY <2>1, <2>5, <2>6
<1>5. d \in S
  <2>1. d \in 0 .. d
    BY <1>2
  <2> HIDE DEF S, d
  <2> QED BY <1>2, <1>3, <1>4, <2>1, Induction
<1>6. s.star + 1 + d = s.p
  BY <1>1, SMTT(60)
<1> HIDE DEF d
<1>7. k + d <= Len(t) + 1 /\ GlobFrom(t, pattern, k + d, s.p)
  BY <1>5, <1>6
<1> QED BY <1>7 DEF d

\* And it is found when the rest is.
LEMMA Behind ==
    ASSUME NEW t, NEW pattern, Len(t) \in Nat, Len(pattern) \in Nat, NEW s, Seen(t, pattern, s),
           GlobFrom(t, pattern, s.i, s.p)
    PROVE  GlobFrom(t, pattern, s.from, s.star + 1)
<1> DEFINE d == s.p - 1 - s.star
           S == {n \in 0 .. d : GlobFrom(t, pattern, s.i - n, s.p - n)}
<1>1. /\ s.p \in 1 .. Len(pattern) + 1 /\ s.star \in 0 .. Len(pattern) /\ s.from \in 1 .. Len(t) + 1
      /\ s.star < s.p /\ s.i \in 1 .. Len(t) + 1 /\ s.i = s.from + s.p - 1 - s.star
  BY SeenTypes
<1>2. d \in Nat
  BY <1>1
<1>3. 0 \in S
  <2>1. s.i - 0 = s.i /\ s.p - 0 = s.p /\ 0 \in 0 .. d
    BY <1>1, <1>2
  <2> HIDE DEF d
  <2> QED BY <2>1
<1>4. ASSUME NEW n \in Nat, n < d, n \in S PROVE n + 1 \in S
  <2> DEFINE q == s.p - (n + 1)
             i == s.i - (n + 1)
  <2>1. /\ q \in 1 .. Len(pattern) /\ q \in s.star + 1 .. s.p - 1
        /\ i \in 1 .. Len(t) + 1 /\ i <= Len(t) /\ n + 1 \in 0 .. d
        /\ q + 1 = s.p - n /\ i + 1 = s.i - n /\ i = s.from + q - s.star - 1
    <3> HIDE DEF S
    <3>1. /\ n + 1 <= s.p - 1 - s.star /\ s.p \in Int /\ s.star \in Nat /\ s.p <= Len(pattern) + 1
          /\ s.i \in Int /\ s.from \in Int /\ s.from >= 1
          /\ s.i = s.from + s.p - 1 - s.star /\ s.i <= Len(t) + 1
      BY <1>1, <1>2, <1>4
    <3>2. q \in 1 .. Len(pattern) /\ q \in s.star + 1 .. s.p - 1
      BY <3>1, SMTT(60)
    <3>3. i \in 1 .. Len(t) + 1 /\ i <= Len(t)
      BY <3>1, SMTT(60)
    <3>4. i + 1 = s.i - n
      BY <3>1
    <3>6. i = s.from + q - s.star - 1
      <4> DEFINE a == s.i
                 b == s.p
                 c == s.star
                 e == s.from
      <4>1. a \in Int /\ b \in Int /\ c \in Int /\ e \in Int /\ a = e + b - 1 - c
        BY <3>1
      <4> HIDE DEF a, b, c, e
      <4>2. a - (n + 1) = e + (b - (n + 1)) - c - 1
        BY <4>1
      <4> QED BY <4>2 DEF a, b, c, e
    <3>5. n + 1 \in 0 .. d /\ q + 1 = s.p - n
      BY <3>1, SMTT(60)
    <3> QED BY <3>2, <3>3, <3>4, <3>5, <3>6
  <2>2. GlobFrom(t, pattern, i + 1, q + 1)
    <3>1. GlobFrom(t, pattern, s.i - n, s.p - n)
      BY <1>4
    <3> QED BY <2>1, <3>1
  <2>3. pattern[q] # "*" /\ pattern[q] \in {"?", t[i]}
    <3> HIDE DEF i, q
    <3> QED BY <2>1 DEF Seen
  <2>5. GlobFrom(t, pattern, i, q)
    <3> HIDE DEF i, q
    <3> QED BY <2>1, <2>2, <2>3, GlobOne
  <2> HIDE DEF d
  <2> QED BY <2>1, <2>5
<1>5. d \in S
  <2>1. d \in 0 .. d
    BY <1>2
  <2> HIDE DEF S, d
  <2> QED BY <1>2, <1>3, <1>4, <2>1, Induction
<1>6. s.i - d = s.from /\ s.p - d = s.star + 1
  BY <1>1, SMTT(60)
<1>7. GlobFrom(t, pattern, s.i - d, s.p - d)
  BY <1>5
<1> QED BY <1>6, <1>7

LEMMA SeenHead ==
    ASSUME NEW t, NEW pattern, Len(t) \in Nat, Len(pattern) \in Nat, NEW s, Seen(t, pattern, s)
    PROVE  GlobFrom(t, pattern, s.from, s.star + 1) <=> GlobFrom(t, pattern, s.i, s.p)
<1>1. s.from \in s.from .. Len(t) + 1 /\ s.from + (s.p - 1 - s.star) = s.i
  BY SeenTypes
<1>2. ASSUME GlobFrom(t, pattern, s.from, s.star + 1) PROVE GlobFrom(t, pattern, s.i, s.p)
  <2>1. GlobFrom(t, pattern, s.from + (s.p - 1 - s.star), s.p)
    BY <1>1, <1>2, FurtherOn
  <2> QED BY <1>1, <2>1
<1> QED BY <1>2, Behind

LEMMA EndOfText ==
    ASSUME NEW t, NEW pattern, Len(t) \in Nat, Len(pattern) \in Nat, NEW s, Seen(t, pattern, s),
           s.i > Len(t)
    PROVE  RestStars(pattern, s.p) <=> Goal(t, pattern, s)
<1> DEFINE l == Len(t)
           m == Len(pattern)
<1>1. /\ s.i = l + 1 /\ s.p \in 1 .. m + 1 /\ s.star \in 0 .. m /\ s.from \in 1 .. l + 1
      /\ s.from <= s.i /\ s.i = s.from + s.p - 1 - s.star /\ m \in Nat /\ l \in Nat
  BY SeenTypes
<1>2. ASSUME RestStars(pattern, s.p) PROVE GlobFrom(t, pattern, s.i, s.p)
  <2> DEFINE cut == [q \in s.p .. m + 1 |-> l + 1]
  <2>1. l + 1 \in 1 .. l + 1 /\ m + 1 \in s.p .. m + 1 /\ s.p \in s.p .. m + 1
    BY <1>1
  <2>2. cut \in [s.p .. m + 1 -> 1 .. l + 1] /\ \A q \in s.p .. m + 1 : cut[q] = l + 1
    <3> HIDE DEF m, l
    <3> QED BY <2>1
  <2>3. \A q \in s.p .. m : q \in s.p .. m + 1 /\ q + 1 \in s.p .. m + 1
    BY <1>1
  <2> HIDE DEF cut
  <2>4. CutFrom(t, pattern, s.p, cut)
    <3>1. \A q \in s.p .. m : pattern[q] = "*" /\ cut[q] = l + 1 /\ cut[q + 1] = l + 1
      BY <1>2, <2>2, <2>3 DEF RestStars
    <3>2. \A q \in s.p .. m : cut[q] <= cut[q + 1]
      BY <1>1, <3>1
    <3>3. cut[m + 1] = l + 1
      BY <2>1, <2>2
    <3> QED BY <2>2, <3>1, <3>2, <3>3 DEF CutFrom
  <2> QED BY <1>1, <2>1, <2>2, <2>4 DEF GlobFrom
<1>3. ASSUME GlobFrom(t, pattern, s.i, s.p) PROVE RestStars(pattern, s.p)
  <2>1. PICK cut : CutFrom(t, pattern, s.p, cut) /\ cut[s.p] = l + 1
    BY <1>1, <1>3 DEF GlobFrom
  <2> DEFINE S == {n \in 0 .. m + 1 - s.p : cut[s.p + n] = l + 1}
  <2>2. 0 \in S
    BY <1>1, <2>1
  <2>3. ASSUME NEW n \in Nat, n < m + 1 - s.p, n \in S
        PROVE  n + 1 \in S /\ pattern[s.p + n] = "*"
    <3> DEFINE q == s.p + n
    <3>1. /\ q \in s.p .. m /\ q + 1 \in s.p .. m + 1 /\ n + 1 \in 0 .. m + 1 - s.p
          /\ s.p + (n + 1) = q + 1
      <4>1. s.p \in Int /\ m \in Int /\ n + 1 <= m + 1 - s.p
        <5> HIDE DEF S
        <5> QED BY <1>1, <2>3
      <4>2. q \in s.p .. m /\ q + 1 \in s.p .. m + 1
        BY <4>1, SMTT(60)
      <4>3. n + 1 \in 0 .. m + 1 - s.p
        BY <4>1
      <4>4. s.p + (n + 1) = q + 1
        BY <4>1
      <4> QED BY <4>2, <4>3, <4>4
    <3>2. cut[q] = l + 1
      BY <2>3
    <3> HIDE DEF q
    <3>3. cut[q + 1] \in 1 .. l + 1
      BY <2>1, <3>1 DEF CutFrom
    <3>4. IF pattern[q] = "*" THEN cut[q] <= cut[q + 1] ELSE cut[q + 1] = cut[q] + 1
      BY <2>1, <3>1 DEF CutFrom
    <3>5. pattern[q] = "*" /\ cut[q + 1] = l + 1
      <4> HIDE DEF l, m
      <4> QED BY <1>1, <3>2, <3>3, <3>4
    <3> QED BY <3>1, <3>5 DEF q
  <2>4. \A n \in 0 .. m + 1 - s.p : n \in S
    <3>1. m + 1 - s.p \in Nat
      BY <1>1
    <3> HIDE DEF S
    <3> QED BY <2>2, <2>3, <3>1, Induction
  <2>5. ASSUME NEW q \in s.p .. m PROVE pattern[q] = "*"
    <3>1. q - s.p \in Nat /\ q - s.p < m + 1 - s.p /\ q - s.p \in 0 .. m + 1 - s.p /\ s.p + (q - s.p) = q
      BY <1>1, SMTT(60)
    <3> HIDE DEF S
    <3> QED BY <2>3, <2>4, <3>1
  <2> QED BY <2>5 DEF RestStars
<1>4. GlobFrom(t, pattern, s.from, s.star + 1) <=> GlobFrom(t, pattern, s.i, s.p)
  BY SeenHead
<1>5. CASE s.star = 0
  <2>1. s.from = 1 /\ s.star + 1 = 1
    BY <1>5 DEF Seen
  <2> QED BY <1>2, <1>3, <1>4, <1>5, <2>1 DEF Goal
<1>6. CASE s.star # 0
  <2>1. ASSUME NEW k \in s.from .. l + 1, GlobFrom(t, pattern, k, s.star + 1) PROVE k = s.from
    <3>1. k + (s.p - 1 - s.star) <= l + 1
      BY <2>1, FurtherOn
    <3> HIDE DEF l, m
    <3> QED BY <1>1, <3>1, SMTT(60)
  <2>2. s.from \in s.from .. l + 1
    BY <1>1
  <2> QED BY <1>2, <1>3, <1>4, <1>6, <2>1, <2>2 DEF Goal
<1> QED BY <1>5, <1>6

LEMMA GoalIsHere ==
    ASSUME NEW t, NEW pattern, Len(t) \in Nat, Len(pattern) \in Nat, NEW s, Seen(t, pattern, s),
           StarAt(t, pattern, s)
    PROVE  GlobFrom(t, pattern, s.i, s.p) <=> Goal(t, pattern, s)
<1> DEFINE l == Len(t)
           m == Len(pattern)
<1>1. /\ s.i \in 1 .. l + 1 /\ s.p \in 1 .. m /\ s.star \in 0 .. m /\ s.from \in 1 .. l + 1
      /\ s.from <= s.i /\ s.i = s.from + s.p - 1 - s.star /\ m \in Nat /\ l \in Nat
  BY SeenTypes DEF StarAt
<1>2. GlobFrom(t, pattern, s.from, s.star + 1) <=> GlobFrom(t, pattern, s.i, s.p)
  BY SeenHead
<1>3. CASE s.star = 0
  <2>1. s.from = 1 /\ s.star + 1 = 1
    BY <1>3 DEF Seen
  <2> QED BY <1>2, <1>3, <2>1 DEF Goal
<1>4. CASE s.star # 0
  <2>1. ASSUME NEW k \in s.from .. l + 1, GlobFrom(t, pattern, k, s.star + 1)
        PROVE  GlobFrom(t, pattern, s.i, s.p)
    <3> DEFINE j == k + (s.p - 1 - s.star)
    <3>1. j <= l + 1 /\ GlobFrom(t, pattern, j, s.p)
      BY <2>1, FurtherOn
    <3>2. j \in s.i .. l + 1 /\ j \in 1 .. l + 1
      BY <1>1, <3>1, SMTT(60)
    <3> HIDE DEF j
    <3>3. pattern[s.p] = "*"
      BY DEF StarAt
    <3>4. PICK e \in j .. l + 1 : GlobFrom(t, pattern, e, s.p + 1)
      BY <1>1, <3>1, <3>2, <3>3, GlobStar
    <3>5. e \in s.i .. l + 1
      BY <1>1, <3>2
    <3> QED BY <1>1, <3>3, <3>4, <3>5, GlobStar
  <2>2. s.from \in s.from .. l + 1
    BY <1>1
  <2> QED BY <1>2, <1>4, <2>1, <2>2 DEF Goal
<1> QED BY <1>3, <1>4

\* A mismatch: the star has to take more.
LEMMA GoalIsFurther ==
    ASSUME NEW t, NEW pattern, Len(t) \in Nat, Len(pattern) \in Nat, NEW s, Seen(t, pattern, s),
           s.i <= Len(t), ~FitsAt(t, pattern, s), ~StarAt(t, pattern, s)
    PROVE  /\ s.star = 0 => ~Goal(t, pattern, s)
           /\ s.star # 0 => (Goal(t, pattern, Backed(s)) <=> Goal(t, pattern, s))
<1> DEFINE l == Len(t)
           m == Len(pattern)
<1>1. /\ s.i \in 1 .. l + 1 /\ s.p \in 1 .. m + 1 /\ s.star \in 0 .. m /\ s.from \in 1 .. l + 1
      /\ s.from <= s.i /\ s.i = s.from + s.p - 1 - s.star /\ m \in Nat /\ l \in Nat
  BY SeenTypes
<1>2. ~GlobFrom(t, pattern, s.i, s.p)
  <2>1. CASE s.p = m + 1
    BY <1>1, <2>1, GlobEnd
  <2>2. CASE s.p # m + 1
    <3>1. s.p \in 1 .. m
      BY <1>1, <2>2
    <3>2. pattern[s.p] # "*" /\ pattern[s.p] \notin {"?", t[s.i]}
      BY <1>1, <3>1 DEF FitsAt, StarAt
    <3> QED BY <1>1, <3>1, <3>2, GlobOne
  <2> QED BY <2>1, <2>2
<1>3. ~GlobFrom(t, pattern, s.from, s.star + 1)
  BY <1>2, SeenHead
<1>4. ASSUME s.star = 0 PROVE ~Goal(t, pattern, s)
  <2>1. s.from = 1 /\ s.star + 1 = 1
    BY <1>4 DEF Seen
  <2> QED BY <1>3, <1>4, <2>1 DEF Goal
<1>5. ASSUME s.star # 0 PROVE Goal(t, pattern, Backed(s)) <=> Goal(t, pattern, s)
  <2>1. Backed(s).star = s.star /\ Backed(s).from = s.from + 1
    BY Moves DEF Seen, Position
  <2>2. \A k : k \in s.from .. l + 1 <=> k = s.from \/ k \in s.from + 1 .. l + 1
    BY <1>1, SMTT(60)
  <2> QED BY <1>3, <1>5, <2>1, <2>2 DEF Goal
<1> QED BY <1>4, <1>5
\* The moves keep to what was seen, and to the goal.
LEMMA SeenMatched ==
    ASSUME NEW t, NEW pattern, Len(t) \in Nat, Len(pattern) \in Nat, NEW s, Seen(t, pattern, s),
           s.i <= Len(t), FitsAt(t, pattern, s), t[s.i] # "*"
    PROVE  Seen(t, pattern, Matched(s)) /\ Goal(t, pattern, Matched(s)) = Goal(t, pattern, s)
<1> DEFINE n == Matched(s)
<1>1. /\ s.i \in 1 .. Len(t) + 1 /\ s.p \in 1 .. Len(pattern) /\ s.star \in 0 .. Len(pattern)
      /\ s.from \in 1 .. Len(t) + 1 /\ s.star < s.p /\ s.i = s.from + s.p - 1 - s.star
  BY SeenTypes DEF FitsAt
<1>2. n \in Position(pattern) /\ n.i = s.i + 1 /\ n.p = s.p + 1 /\ n.star = s.star /\ n.from = s.from
  BY <1>1, Moves, SMTT(60) DEF Seen, Position
<1> HIDE DEF n
<1>3. n.i = n.from + n.p - 1 - n.star /\ n.star < n.p /\ 1 <= n.from /\ n.i <= Len(t) + 1
  BY <1>1, <1>2, SMTT(60)
<1>4. ASSUME NEW q \in n.star + 1 .. n.p - 1
      PROVE  pattern[q] # "*" /\ pattern[q] \in {"?", t[n.from + q - n.star - 1]}
  <2>1. CASE q = s.p
    <3>1. n.from + q - n.star - 1 = s.i
      BY <1>1, <1>2, <2>1
    <3> QED BY <2>1, <3>1 DEF FitsAt
  <2>2. CASE q # s.p
    <3>1. q \in s.star + 1 .. s.p - 1
      BY <1>1, <1>2, <2>2
    <3> QED BY <1>2, <3>1 DEF Seen
  <2> QED BY <2>1, <2>2
<1>5. (n.star = 0 => n.from = 1) /\ (n.star # 0 => pattern[n.star] = "*")
  BY <1>2 DEF Seen
<1>6. Seen(t, pattern, n)
  BY <1>2, <1>3, <1>4, <1>5 DEF Seen
<1>7. Goal(t, pattern, n) = Goal(t, pattern, s)
  BY <1>2 DEF Goal
<1> QED BY <1>6, <1>7 DEF n

LEMMA SeenStarred ==
    ASSUME NEW t, NEW pattern, Len(t) \in Nat, Len(pattern) \in Nat, NEW s, Seen(t, pattern, s),
           s.i <= Len(t), StarAt(t, pattern, s)
    PROVE  Seen(t, pattern, Starred(s)) /\ (Goal(t, pattern, Starred(s)) <=> Goal(t, pattern, s))
<1> DEFINE n == Starred(s)
<1>1. /\ s.i \in 1 .. Len(t) + 1 /\ s.p \in 1 .. Len(pattern) /\ s.star \in 0 .. Len(pattern)
      /\ s.from \in 1 .. Len(t) + 1 /\ s.star < s.p /\ s.i = s.from + s.p - 1 - s.star
  BY SeenTypes DEF StarAt
<1>2. n \in Position(pattern) /\ n.i = s.i /\ n.p = s.p + 1 /\ n.star = s.p /\ n.from = s.i
  BY <1>1, Moves DEF Seen, Position
<1> HIDE DEF n
<1>3. n.i = n.from + n.p - 1 - n.star /\ n.star < n.p /\ 1 <= n.from /\ n.i <= Len(t) + 1 /\ n.star # 0
  BY <1>1, <1>2, SMTT(60)
<1>4. \A q \in n.star + 1 .. n.p - 1 : FALSE
  BY <1>1, <1>2
<1>5. pattern[s.p] = "*"
  BY DEF StarAt
<1>6. Seen(t, pattern, n)
  BY <1>2, <1>3, <1>4, <1>5 DEF Seen
<1>7. Goal(t, pattern, n) <=> GlobFrom(t, pattern, s.i, s.p)
  BY <1>1, <1>2, <1>3, <1>5, GlobStar DEF Goal
<1>8. GlobFrom(t, pattern, s.i, s.p) <=> Goal(t, pattern, s)
  BY GoalIsHere
<1> QED BY <1>6, <1>7, <1>8 DEF n

LEMMA SeenBacked ==
    ASSUME NEW t, NEW pattern, Len(t) \in Nat, Len(pattern) \in Nat, NEW s, Seen(t, pattern, s),
           s.i <= Len(t), s.star # 0
    PROVE  Seen(t, pattern, Backed(s))
<1> DEFINE n == Backed(s)
<1>1. /\ s.i \in 1 .. Len(t) + 1 /\ s.p \in 1 .. Len(pattern) + 1 /\ s.star \in 0 .. Len(pattern)
      /\ s.from \in 1 .. Len(t) + 1 /\ s.from <= s.i
  BY SeenTypes
<1>2. n \in Position(pattern) /\ n.i = s.from + 1 /\ n.p = s.star + 1 /\ n.star = s.star /\ n.from = s.from + 1
  BY <1>1, Moves DEF Seen, Position
<1> HIDE DEF n
<1>3. n.i = n.from + n.p - 1 - n.star /\ n.star < n.p /\ 1 <= n.from /\ n.i <= Len(t) + 1 /\ n.star # 0
  BY <1>1, <1>2, SMTT(60)
<1>4. \A q \in n.star + 1 .. n.p - 1 : FALSE
  BY <1>1, <1>2
<1>5. pattern[n.star] = "*"
  BY <1>2 DEF Seen
<1>6. Seen(t, pattern, n)
  BY <1>2, <1>3, <1>4, <1>5 DEF Seen
<1> QED BY <1>6 DEF n

\* The loop of WildcardMatch answers the question of every position it meets.
LEMMA MatchingIsGoal ==
    ASSUME NEW t, NEW pattern, Len(t) \in Nat, Len(pattern) \in Nat, \A i \in 1 .. Len(t) : t[i] # "*",
           NEW s, Seen(t, pattern, s)
    PROVE  Matching(t, pattern)[s] = Goal(t, pattern, s)
<1> DEFINE P == Position(pattern)
           R == Matching(t, pattern)
           d(x) == Distance(Len(t), Len(pattern), x)
           K == (Len(t) + 2) * (Len(pattern) + 2)
           S == {k \in Nat : \A x \in P : Seen(t, pattern, x) /\ d(x) < k => R[x] = Goal(t, pattern, x)}
<1>1. K \in Nat /\ \A x \in P : d(x) \in 0 .. K
  BY ProductNat, DistanceBound DEF Position
<1>2. 0 \in S
  <2>1. \A x \in P : ~(d(x) < 0)
    <3> HIDE DEF d, K
    <3> QED BY <1>1
  <2> QED BY <2>1
<1>3. ASSUME NEW k \in Nat, k < K + 1, k \in S PROVE k + 1 \in S
  <2>1. ASSUME NEW x \in P, Seen(t, pattern, x), d(x) < k + 1 PROVE R[x] = Goal(t, pattern, x)
    <3>1. R[x] = Step(t, pattern, R, x) /\ Goal(t, pattern, x) \in BOOLEAN
      <4>1. Goal(t, pattern, x) \in BOOLEAN
        BY DEF Goal, GlobFrom
      <4> QED BY <4>1, MatchingDef
    <3>2. \A n \in P : Seen(t, pattern, n) /\ d(n) < d(x) => R[n] = Goal(t, pattern, n)
      <4> TAKE n \in P
      <4> HAVE Seen(t, pattern, n) /\ d(n) < d(x)
      <4>1. d(n) < k
        <5> HIDE DEF d, K
        <5> QED BY <1>1, <2>1
      <4> QED BY <1>3, <4>1
    <3>3. x.i \in Nat /\ x.i >= 1
      BY <2>1, SeenTypes
    <3>4. CASE x.i > Len(t)
      <4>1. RestStars(pattern, x.p) <=> Goal(t, pattern, x)
        BY <2>1, <3>4, EndOfText
      <4>2. RestStars(pattern, x.p) \in BOOLEAN
        BY DEF RestStars
      <4>3. RestStars(pattern, x.p) = Goal(t, pattern, x)
        BY <3>1, <4>1, <4>2, BothTruths
      <4> QED BY <3>1, <3>4, <4>3 DEF Step
    <3>5. CASE x.i <= Len(t) /\ FitsAt(t, pattern, x)
      <4>1. R[x] = R[Matched(x)]
        BY <3>1, <3>3, <3>5 DEF Step
      <4>2. Matched(x) \in P /\ d(Matched(x)) < d(x)
        BY <3>5, Nearer
      <4>3. t[x.i] # "*"
        BY <3>3, <3>5
      <4>4. Seen(t, pattern, Matched(x)) /\ Goal(t, pattern, Matched(x)) = Goal(t, pattern, x)
        BY <2>1, <3>5, <4>3, SeenMatched
      <4> QED BY <3>2, <4>1, <4>2, <4>4
    <3>6. CASE x.i <= Len(t) /\ ~FitsAt(t, pattern, x) /\ StarAt(t, pattern, x)
      <4>1. R[x] = R[Starred(x)]
        BY <3>1, <3>3, <3>6 DEF Step
      <4>2. Starred(x) \in P /\ d(Starred(x)) < d(x)
        BY <3>6, Nearer
      <4>3. Seen(t, pattern, Starred(x)) /\ (Goal(t, pattern, Starred(x)) <=> Goal(t, pattern, x))
        BY <2>1, <3>6, SeenStarred
      <4>4. Goal(t, pattern, Starred(x)) \in BOOLEAN
        BY DEF Goal, GlobFrom
      <4>5. Goal(t, pattern, Starred(x)) = Goal(t, pattern, x)
        BY <3>1, <4>3, <4>4, BothTruths
      <4> QED BY <3>2, <4>1, <4>2, <4>3, <4>5
    <3>7. CASE x.i <= Len(t) /\ ~FitsAt(t, pattern, x) /\ ~StarAt(t, pattern, x)
      <4>1. R[x] = (x.star # 0 /\ R[Backed(x)])
        BY <3>1, <3>3, <3>7 DEF Step
      <4>2. /\ x.star = 0 => ~Goal(t, pattern, x)
            /\ x.star # 0 => (Goal(t, pattern, Backed(x)) <=> Goal(t, pattern, x))
        BY <2>1, <3>7, GoalIsFurther
      <4>3. CASE x.star = 0
        <5>1. R[x] = FALSE
          BY <4>1, <4>3
        <5>2. Goal(t, pattern, x) = FALSE
          BY <3>1, <4>2, <4>3, BothTruths
        <5> QED BY <5>1, <5>2
      <4>4. CASE x.star # 0
        <5>1. Backed(x) \in P /\ d(Backed(x)) < d(x)
          BY <3>7, Nearer
        <5>2. Seen(t, pattern, Backed(x))
          BY <2>1, <3>7, <4>4, SeenBacked
        <5>3. Goal(t, pattern, Backed(x)) \in BOOLEAN
          BY DEF Goal, GlobFrom
        <5>4. Goal(t, pattern, Backed(x)) = Goal(t, pattern, x)
          BY <3>1, <4>2, <4>4, <5>3, BothTruths
        <5>5. R[Backed(x)] = Goal(t, pattern, x)
          BY <3>2, <5>1, <5>2, <5>4
        <5>6. R[x] <=> Goal(t, pattern, x)
          BY <4>1, <4>4, <5>5, Zenon
        <5>7. R[x] \in BOOLEAN
          BY <4>1, Zenon
        <5> QED BY <3>1, <5>6, <5>7, BothTruths
      <4> QED BY <4>3, <4>4
    <3> QED BY <3>3, <3>4, <3>5, <3>6, <3>7
  <2> HIDE DEF d, R
  <2> QED BY <2>1
<1>4. K + 1 \in S
  <2>1. K + 1 \in Nat /\ K + 1 \in 0 .. K + 1
    BY <1>1
  <2> HIDE DEF S, K
  <2> QED BY <1>2, <1>3, <2>1, Induction
<1>5. s \in P /\ d(s) < K + 1
  <2>1. s \in P
    BY DEF Seen
  <2> HIDE DEF d, K
  <2> QED BY <1>1, <2>1
<1> QED BY <1>4, <1>5

LEMMA WildcardIsGlob ==
    ASSUME NEW t, NEW pattern, Len(t) \in Nat, Len(pattern) \in Nat, DOMAIN pattern = 1 .. Len(pattern),
           \A i \in 1 .. Len(t) : t[i] # "*"
    PROVE  WildcardMatch(t, pattern) = Glob(t, pattern)
<1>1. /\ AtStart.i = 1 /\ AtStart.p = 1 /\ AtStart.star = 0 /\ AtStart.from = 1
      /\ AtStart \in Position(pattern)
  BY DEF AtStart, Position
<1>2. Seen(t, pattern, AtStart)
  BY <1>1 DEF Seen
<1>3. Goal(t, pattern, AtStart) = GlobFrom(t, pattern, 1, 1)
  BY <1>1 DEF Goal
<1> QED BY <1>2, <1>3, MatchingIsGoal, GlobIsFrom DEF WildcardMatch

-----------------------------------------------------------------------------
(* Cutting a text into tokens *)

\* Any text is one over its own characters.
LEMMA OwnCharacters ==
    ASSUME NEW C, NEW raw \in Seq(C)
    PROVE  raw \in Seq(ToSet(raw)) /\ ToSet(raw) \subseteq C
BY DEF ToSet

LEMMA TokenizeDef ==
    ASSUME NEW C, NEW raw \in Seq(C)
    PROVE  LET end == Reading(raw)[Len(raw)]
           IN  /\ end \in State(C)
               /\ Tokenize(raw) = IF end.current = <<>> THEN end.tokens ELSE Append(end.tokens, end.current)
               /\ Tokenize(raw) \in Seq(Seq(C))
<1>1. Len(raw) \in 0 .. Len(raw)
  OBVIOUS
<1> DEFINE end == Reading(raw)[Len(raw)]
<1>2. end \in State(C)
  BY <1>1, ReadingDef
<1>3. end.tokens \in Seq(Seq(C)) /\ end.current \in Seq(C)
  <2> HIDE DEF end
  <2> QED BY <1>2 DEF State
<1>4. Tokenize(raw) = IF end.current = <<>> THEN end.tokens ELSE Append(end.tokens, end.current)
  BY DEF Tokenize
<1>5. Tokenize(raw) \in Seq(Seq(C))
  <2> HIDE DEF end
  <2> QED BY <1>3, <1>4
<1> QED BY <1>2, <1>4, <1>5

\* Reading the beginning of a text.
LEMMA ReadingPrefix ==
    ASSUME NEW C, NEW raw \in Seq(C), NEW m \in 0 .. Len(raw)
    PROVE  \A n \in 0 .. m : Reading(raw)[n] = Reading(SubSeq(raw, 1, m))[n]
<1> DEFINE left == SubSeq(raw, 1, m)
           S == {n \in 0 .. m : Reading(raw)[n] = Reading(left)[n]}
<1>1. m \in Nat /\ left \in Seq(C) /\ Len(left) = m /\ \A n \in 1 .. m : left[n] = raw[n]
  OBVIOUS
<1> HIDE DEF left
<1>2. 0 \in S
  BY <1>1, ReadingDef
<1>3. ASSUME NEW n \in Nat, n < m, n \in S PROVE n + 1 \in S
  <2>1. n + 1 \in 1 .. Len(raw) /\ n + 1 \in 1 .. m /\ n + 1 \in 0 .. m /\ (n + 1) - 1 = n
    <3> HIDE DEF S
    <3> QED BY <1>1, <1>3
  <2>2. Reading(raw)[n + 1] = ReadCharacter(Reading(raw)[n], raw[n + 1])
    BY <2>1, ReadingDef
  <2>3. Reading(left)[n + 1] = ReadCharacter(Reading(left)[n], left[n + 1])
    BY <1>1, <2>1, ReadingDef
  <2> QED BY <1>1, <1>3, <2>1, <2>2, <2>3
<1> HIDE DEF S
<1>4. \A n \in 0 .. m : n \in S
  BY <1>1, <1>2, <1>3, Induction
<1> QED BY <1>4 DEF S, left

\* What a character does to each variable of the loop.
LEMMA ReadCharacterParts ==
    ASSUME NEW C, NEW s \in State(C), NEW c \in C
    PROVE  LET cut == IF s.current = <<>> THEN s.tokens ELSE Append(s.tokens, s.current)
               space == c = " " /\ ~s.quoted
               bar == c = "|" /\ ~s.quoted
               n == ReadCharacter(s, c)
           IN  /\ n.tokens = IF space THEN cut ELSE IF bar THEN Append(cut, <<c>>) ELSE s.tokens
               /\ n.current = IF space \/ bar THEN <<>> ELSE IF c = Quote THEN s.current ELSE Append(s.current, c)
               /\ n.quoted = IF c = Quote THEN ~s.quoted ELSE s.quoted
               /\ n \in State(C)
<1> DEFINE cut == IF s.current = <<>> THEN s.tokens ELSE Append(s.tokens, s.current)
<1>1. Quote # " " /\ Quote # "|" /\ " " # "|"
  BY DEF Quote
<1>2. ReadCharacter(s, c) =
        IF c = Quote THEN [s EXCEPT !.quoted = ~@]
        ELSE IF c = " " /\ ~s.quoted THEN [s EXCEPT !.tokens = cut, !.current = <<>>]
        ELSE IF c = "|" /\ ~s.quoted THEN [s EXCEPT !.tokens = Append(cut, <<"|">>), !.current = <<>>]
        ELSE [s EXCEPT !.current = Append(@, c)]
  BY <1>1, Zenon DEF ReadCharacter
<1>3. ReadCharacter(s, c) \in State(C)
  BY ReadCharacterType
<1> HIDE DEF cut
<1> DEFINE n == ReadCharacter(s, c)
<1>4. CASE c = Quote
  <2>1. n = [s EXCEPT !.quoted = ~@]
    BY <1>2, <1>4
  <2>2. n.tokens = s.tokens /\ n.current = s.current /\ n.quoted = ~s.quoted
    <3> HIDE DEF n
    <3> QED BY <2>1 DEF State
  <2> QED BY <1>1, <1>3, <1>4, <2>2
<1>5. CASE c = " " /\ ~s.quoted
  <2>1. n = [s EXCEPT !.tokens = cut, !.current = <<>>]
    BY <1>1, <1>2, <1>5
  <2>2. n.tokens = cut /\ n.current = <<>> /\ n.quoted = s.quoted
    <3> HIDE DEF n
    <3> QED BY <2>1 DEF State
  <2> QED BY <1>1, <1>3, <1>5, <2>2 DEF cut
<1>6. CASE c = "|" /\ ~s.quoted
  <2>1. n = [s EXCEPT !.tokens = Append(cut, <<c>>), !.current = <<>>]
    BY <1>1, <1>2, <1>6
  <2>2. n.tokens = Append(cut, <<c>>) /\ n.current = <<>> /\ n.quoted = s.quoted
    <3> HIDE DEF n
    <3> QED BY <2>1 DEF State
  <2> QED BY <1>1, <1>3, <1>6, <2>2 DEF cut
<1>7. CASE c # Quote /\ ~(c = " " /\ ~s.quoted) /\ ~(c = "|" /\ ~s.quoted)
  <2>1. n = [s EXCEPT !.current = Append(@, c)]
    BY <1>2, <1>7
  <2>2. n.tokens = s.tokens /\ n.current = Append(s.current, c) /\ n.quoted = s.quoted
    <3> HIDE DEF n
    <3> QED BY <2>1 DEF State
  <2> QED BY <1>3, <1>7, <2>2
<1> QED BY <1>4, <1>5, <1>6, <1>7

LEMMA SameState ==
    ASSUME NEW C, NEW s \in State(C), NEW n \in State(C),
           s.tokens = n.tokens, s.current = n.current, s.quoted = n.quoted
    PROVE  s = n
BY DEF State

\* The state of a loop that had cut base off before.
Prefixed(base, s) == [tokens |-> base \o s.tokens, current |-> s.current, quoted |-> s.quoted]

LEMMA PrefixedType ==
    ASSUME NEW C, NEW base \in Seq(Seq(C)), NEW s \in State(C)
    PROVE  /\ Prefixed(base, s) \in State(C)
           /\ Prefixed(base, s).tokens = base \o s.tokens
           /\ Prefixed(base, s).current = s.current
           /\ Prefixed(base, s).quoted = s.quoted
<1>1. s.tokens \in Seq(Seq(C)) /\ s.current \in Seq(C) /\ s.quoted \in BOOLEAN
  BY DEF State
<1>2. base \o s.tokens \in Seq(Seq(C))
  BY <1>1
<1> QED BY <1>1, <1>2 DEF State, Prefixed

LEMMA AppendFront ==
    ASSUME NEW C, NEW base \in Seq(Seq(C)), NEW t \in Seq(Seq(C)), NEW u \in Seq(C)
    PROVE  Append(base \o t, u) = base \o Append(t, u) /\ Append(t, u) \in Seq(Seq(C))
<1>1. base \o t \in Seq(Seq(C)) /\ <<u>> \in Seq(Seq(C))
  OBVIOUS
<1>2. Append(base \o t, u) = (base \o t) \o <<u>>
  BY <1>1, AppendIsConcat
<1>3. Append(t, u) = t \o <<u>> /\ Append(t, u) \in Seq(Seq(C))
  BY AppendIsConcat
<1>4. (base \o t) \o <<u>> = base \o (t \o <<u>>)
  BY <1>1, ConcatAssociative
<1> QED BY <1>2, <1>3, <1>4

LEMMA ReadCharacterPrefixed ==
    ASSUME NEW C, NEW base \in Seq(Seq(C)), NEW s \in State(C), NEW c \in C
    PROVE  ReadCharacter(Prefixed(base, s), c) = Prefixed(base, ReadCharacter(s, c))
<1> DEFINE t == s.tokens
           u == s.current
           p == Prefixed(base, s)
           Cut(x) == IF u = <<>> THEN x ELSE Append(x, u)
           Tokens(x) == IF c = " " /\ ~s.quoted THEN Cut(x)
                        ELSE IF c = "|" /\ ~s.quoted THEN Append(Cut(x), <<c>>) ELSE x
           n == ReadCharacter(s, c)
           np == ReadCharacter(p, c)
<1>1. t \in Seq(Seq(C)) /\ u \in Seq(C) /\ s.quoted \in BOOLEAN /\ <<c>> \in Seq(C)
  BY DEF State
<1>2. Append(base \o t, u) = base \o Append(t, u) /\ Append(t, u) \in Seq(Seq(C))
  BY <1>1, AppendFront
<1>3. Cut(t) \in Seq(Seq(C)) /\ Cut(base \o t) = base \o Cut(t)
  BY <1>1, <1>2
<1>4. Append(base \o Cut(t), <<c>>) = base \o Append(Cut(t), <<c>>)
  <2> HIDE DEF Cut
  <2> QED BY <1>1, <1>3, AppendFront, SMTT(60)
<1>5. p \in State(C) /\ p.tokens = base \o t /\ p.current = u /\ p.quoted = s.quoted
  BY PrefixedType
<1>6. Tokens(base \o t) = base \o Tokens(t)
  <2> HIDE DEF Cut
  <2> QED BY <1>3, <1>4
<1>7. /\ n.tokens = Tokens(t)
      /\ n.current = IF (c = " " /\ ~s.quoted) \/ (c = "|" /\ ~s.quoted) THEN <<>>
                     ELSE IF c = Quote THEN u ELSE Append(u, c)
      /\ n.quoted = IF c = Quote THEN ~s.quoted ELSE s.quoted
      /\ n \in State(C)
  BY ReadCharacterParts
<1>8. /\ np.tokens = LET cut == IF p.current = <<>> THEN p.tokens ELSE Append(p.tokens, p.current)
                     IN  IF c = " " /\ ~p.quoted THEN cut
                         ELSE IF c = "|" /\ ~p.quoted THEN Append(cut, <<c>>) ELSE p.tokens
      /\ np.current = IF (c = " " /\ ~p.quoted) \/ (c = "|" /\ ~p.quoted) THEN <<>>
                      ELSE IF c = Quote THEN p.current ELSE Append(p.current, c)
      /\ np.quoted = IF c = Quote THEN ~p.quoted ELSE p.quoted
      /\ np \in State(C)
  <2> HIDE DEF p
  <2> QED BY <1>5, ReadCharacterParts
<1>9. np.tokens = Tokens(base \o t)
  <2> HIDE DEF p, np, u, t
  <2> QED BY <1>5, <1>8
<1> HIDE DEF n, np, p, Tokens, t, u
<1>10. /\ Prefixed(base, n) \in State(C) /\ Prefixed(base, n).tokens = base \o n.tokens
       /\ Prefixed(base, n).current = n.current /\ Prefixed(base, n).quoted = n.quoted
  <2>1. n \in State(C)
    BY <1>7
  <2> QED BY <2>1, PrefixedType
<1>11. np.tokens = base \o n.tokens
  BY <1>6, <1>7, <1>9
<1>12. np.current = n.current /\ np.quoted = n.quoted
  BY <1>5, <1>7, <1>8
<1>13. np = Prefixed(base, n)
  <2>1. np \in State(C) /\ Prefixed(base, n) \in State(C)
    BY <1>8, <1>10
  <2> QED BY <2>1, <1>10, <1>11, <1>12, SameState
<1> QED BY <1>13 DEF n, np, p

\* Reading the rest of a text.
LEMMA ReadingSuffix ==
    ASSUME NEW C, NEW raw \in Seq(C), NEW m \in 0 .. Len(raw), NEW base \in Seq(Seq(C)),
           Reading(raw)[m] = Prefixed(base, Start)
    PROVE  LET right == SubSeq(raw, m + 1, Len(raw))
           IN  \A n \in 0 .. Len(right) : Reading(raw)[m + n] = Prefixed(base, Reading(right)[n])
<1> DEFINE right == SubSeq(raw, m + 1, Len(raw))
           S == {n \in 0 .. Len(right) : Reading(raw)[m + n] = Prefixed(base, Reading(right)[n])}
<1>1. /\ m \in Nat /\ right \in Seq(C) /\ Len(right) = Len(raw) - m /\ Len(right) \in Nat
      /\ \A n \in 1 .. Len(right) : right[n] = raw[m + n]
  OBVIOUS
<1> HIDE DEF right
<1>2. 0 \in S
  <2>1. Reading(right)[0] = Start /\ m + 0 = m /\ 0 \in 0 .. Len(right)
    BY <1>1, ReadingDef
  <2> QED BY <2>1
<1>3. ASSUME NEW n \in Nat, n < Len(right), n \in S PROVE n + 1 \in S
  <2>1. /\ n + 1 \in 1 .. Len(right) /\ n \in 0 .. Len(right) /\ n + 1 \in 0 .. Len(right) /\ (n + 1) - 1 = n
        /\ m + (n + 1) \in 1 .. Len(raw) /\ (m + (n + 1)) - 1 = m + n
    <3> HIDE DEF S
    <3> QED BY <1>1, <1>3
  <2>2. Reading(raw)[m + (n + 1)] = ReadCharacter(Reading(raw)[m + n], raw[m + (n + 1)])
    BY <2>1, ReadingDef
  <2>3. Reading(right)[n + 1] = ReadCharacter(Reading(right)[n], right[n + 1]) /\ Reading(right)[n] \in State(C)
    BY <1>1, <2>1, ReadingDef, ZenonT(120)
  <2>4. raw[m + (n + 1)] = right[n + 1] /\ right[n + 1] \in C
    BY <1>1, <2>1
  <2>5. Reading(raw)[m + n] = Prefixed(base, Reading(right)[n])
    BY <1>3
  <2>6. Reading(raw)[m + (n + 1)] = Prefixed(base, Reading(right)[n + 1])
    BY <2>2, <2>3, <2>4, <2>5, ReadCharacterPrefixed
  <2> QED BY <2>1, <2>6
<1> HIDE DEF S
<1>4. \A n \in 0 .. Len(right) : n \in S
  BY <1>1, <1>2, <1>3, Induction
<1> QED BY <1>4 DEF S, right

LEMMA StartType ==
    ASSUME NEW C
    PROVE  Start \in State(C) /\ Start.tokens = <<>> /\ Start.current = <<>> /\ Start.quoted = FALSE
BY DEF Start, State

LEMMA SplitAt ==
    ASSUME NEW C, NEW raw \in Seq(C), NEW i \in 1 .. Len(raw)
    PROVE  /\ SubSeq(raw, 1, i - 1) \in Seq(C) /\ Len(SubSeq(raw, 1, i - 1)) = i - 1
           /\ SubSeq(raw, i + 1, Len(raw)) \in Seq(C) /\ Len(SubSeq(raw, i + 1, Len(raw))) = Len(raw) - i
           /\ raw[i] \in C /\ <<raw[i]>> \in Seq(C)
<1>1. i - 1 \in Nat /\ i - 1 <= Len(raw) /\ Len(raw) \in Nat
  OBVIOUS
<1>2. raw[i] \in C
  OBVIOUS
<1>3. SubSeq(raw, 1, i - 1) \in Seq(C) /\ Len(SubSeq(raw, 1, i - 1)) = i - 1
  BY <1>1
<1>4. SubSeq(raw, i + 1, Len(raw)) \in Seq(C) /\ Len(SubSeq(raw, i + 1, Len(raw))) = Len(raw) - i
  BY <1>1
<1>5. <<raw[i]>> \in Seq(C)
  BY <1>2
<1> QED BY <1>2, <1>3, <1>4, <1>5

CutOff(tokens, current) == IF current = <<>> THEN tokens ELSE Append(tokens, current)
Bar(c) == IF c = "|" THEN <<<<c>>>> ELSE <<>>

\* The provers take a concatenation apart; under a name it is compared as a whole.
Onto(base, tokens) == base \o tokens

LEMMA OntoType ==
    ASSUME NEW C, NEW base \in Seq(Seq(C)), NEW t \in Seq(Seq(C))
    PROVE  Onto(base, t) \in Seq(Seq(C)) /\ Onto(base, <<>>) = base
BY ConcatProperties, ConcatEmptySeq DEF Onto

LEMMA CutOffType ==
    ASSUME NEW C, NEW base \in Seq(Seq(C)), NEW t \in Seq(Seq(C)), NEW u \in Seq(C)
    PROVE  CutOff(t, u) \in Seq(Seq(C)) /\ CutOff(Onto(base, t), u) = Onto(base, CutOff(t, u))
<1>1. base \o t \in Seq(Seq(C)) /\ <<u>> \in Seq(Seq(C))
  OBVIOUS
<1>2. Append(base \o t, u) = (base \o t) \o <<u>>
  BY <1>1, AppendIsConcat
<1>3. Append(t, u) = t \o <<u>> /\ Append(t, u) \in Seq(Seq(C))
  BY AppendIsConcat
<1>4. (base \o t) \o <<u>> = base \o (t \o <<u>>)
  BY <1>1, ConcatAssociative
<1>5. Append(base \o t, u) = base \o Append(t, u)
  BY <1>2, <1>3, <1>4
<1>6. CASE u = <<>>
  BY <1>6 DEF CutOff, Onto
<1>7. CASE u # <<>>
  BY <1>3, <1>5, <1>7 DEF CutOff, Onto
<1> QED BY <1>6, <1>7

LEMMA PrefixedOnto ==
    ASSUME NEW C, NEW base \in Seq(Seq(C)), NEW s \in State(C)
    PROVE  /\ Prefixed(base, s) \in State(C)
           /\ Prefixed(base, s).tokens = Onto(base, s.tokens)
           /\ Prefixed(base, s).current = s.current
           /\ Prefixed(base, s).quoted = s.quoted
<1>1. Prefixed(base, s) \in State(C)
  BY PrefixedType
<1>2. Prefixed(base, s) = [tokens |-> Onto(base, s.tokens), current |-> s.current, quoted |-> s.quoted]
  BY Zenon DEF Prefixed, Onto
<1> QED BY <1>1, <1>2

LEMMA TokenizeCutsOff ==
    ASSUME NEW C, NEW raw \in Seq(C)
    PROVE  /\ Reading(raw)[Len(raw)] \in State(C) /\ Tokenize(raw) \in Seq(Seq(C))
           /\ Tokenize(raw) = CutOff(Reading(raw)[Len(raw)].tokens, Reading(raw)[Len(raw)].current)
BY TokenizeDef DEF CutOff

LEMMA BarType ==
    ASSUME NEW C, NEW c \in C
    PROVE  Bar(c) \in Seq(Seq(C)) /\ Bar(" ") = <<>>
<1>1. <<c>> \in Seq(C)
  OBVIOUS
<1>2. <<<<c>>>> \in Seq(Seq(C))
  BY <1>1
<1> QED BY <1>2 DEF Bar

LEMMA StateType ==
    ASSUME NEW C, NEW s \in State(C)
    PROVE  s.tokens \in Seq(Seq(C)) /\ s.current \in Seq(C) /\ s.quoted \in BOOLEAN
BY DEF State

LEMMA AppendIs ==
    ASSUME NEW C, NEW t \in Seq(Seq(C)), NEW c \in C
    PROVE  Append(t, <<c>>) = t \o <<<<c>>>>
<1>1. <<c>> \in Seq(C)
  OBVIOUS
<1> QED BY <1>1, AppendIsConcat

\* What a space or a bar outside quotes does.
LEMMA CutReading ==
    ASSUME NEW C, NEW s \in State(C), NEW c \in C, c = " " \/ c = "|", ~s.quoted
    PROVE  /\ ReadCharacter(s, c) \in State(C)
           /\ ReadCharacter(s, c).tokens = Onto(CutOff(s.tokens, s.current), Bar(c))
           /\ ReadCharacter(s, c).current = <<>>
           /\ ReadCharacter(s, c).quoted = FALSE
<1> DEFINE cut == CutOff(s.tokens, s.current)
           n == ReadCharacter(s, c)
<1>1. c # Quote /\ (c = "|" => c # " ") /\ (c # "|" => c = " ")
  BY DEF Quote
<1>2. /\ n.tokens = IF c = " " /\ ~s.quoted THEN cut
                    ELSE IF c = "|" /\ ~s.quoted THEN Append(cut, <<c>>) ELSE s.tokens
      /\ n.current = IF (c = " " /\ ~s.quoted) \/ (c = "|" /\ ~s.quoted) THEN <<>>
                     ELSE IF c = Quote THEN s.current ELSE Append(s.current, c)
      /\ n.quoted = IF c = Quote THEN ~s.quoted ELSE s.quoted
      /\ n \in State(C)
  BY ReadCharacterParts DEF CutOff
<1>3. cut \in Seq(Seq(C)) /\ s.quoted = FALSE
  BY StateType, CutOffType
<1> HIDE DEF cut, n
<1>4. Append(cut, <<c>>) = cut \o <<<<c>>>> /\ cut \o <<>> = cut
  BY <1>3, AppendIs, ConcatEmptySeq
<1>5. n.tokens = IF c = " " THEN cut ELSE cut \o <<<<c>>>>
  BY <1>1, <1>2, <1>4
<1>6. n.tokens = Onto(cut, Bar(c))
  BY <1>1, <1>4, <1>5 DEF Bar, Onto
<1>7. n.current = <<>> /\ n.quoted = FALSE
  BY <1>1, <1>2, <1>3
<1> QED BY <1>2, <1>6, <1>7 DEF cut, n

LEMMA QuoteReading ==
    ASSUME NEW C, NEW s \in State(C), NEW c \in C
    PROVE  ReadCharacter(s, c).quoted = IF c = Quote THEN ~s.quoted ELSE s.quoted
BY ReadCharacterParts, ZenonT(120)

\* What is read after a cut is read as if it stood alone.
LEMMA ReadingCut ==
    ASSUME NEW C, NEW raw \in Seq(C), NEW i \in 0 .. Len(raw), NEW base \in Seq(Seq(C)),
           Reading(raw)[i] = Prefixed(base, Start)
    PROVE  Tokenize(raw) = Onto(base, Tokenize(SubSeq(raw, i + 1, Len(raw))))
<1> DEFINE right == SubSeq(raw, i + 1, Len(raw))
           E == Reading(raw)[Len(raw)]
           R == Reading(right)[Len(right)]
<1>1. right \in Seq(C) /\ Len(right) = Len(raw) - i
  OBVIOUS
<1>2. \A n \in 0 .. Len(right) : Reading(raw)[i + n] = Prefixed(base, Reading(right)[n])
  BY ReadingSuffix
<1> HIDE DEF right
<1>3. Len(right) \in 0 .. Len(right) /\ i + Len(right) = Len(raw)
  BY <1>1
<1>4. E = Prefixed(base, R)
  BY <1>2, <1>3
<1>5. R \in State(C) /\ Tokenize(right) = CutOff(R.tokens, R.current)
  BY <1>1, TokenizeCutsOff
<1>6. Tokenize(raw) = CutOff(E.tokens, E.current)
  BY TokenizeCutsOff
<1> HIDE DEF E, R
<1>7. E.tokens = Onto(base, R.tokens) /\ E.current = R.current
  BY <1>4, <1>5, PrefixedOnto
<1>8. CutOff(Onto(base, R.tokens), R.current) = Onto(base, CutOff(R.tokens, R.current))
  <2>1. R.tokens \in Seq(Seq(C)) /\ R.current \in Seq(C)
    BY <1>5, StateType
  <2> QED BY <2>1, CutOffType
<1> QED BY <1>5, <1>6, <1>7, <1>8 DEF right

LEMMA IsStart ==
    ASSUME NEW C, NEW base \in Seq(Seq(C)), NEW n \in State(C),
           n.tokens = base, n.current = <<>>, n.quoted = FALSE
    PROVE  n = Prefixed(base, Start)
<1>1. Start \in State(C) /\ Start.tokens = <<>> /\ Start.current = <<>> /\ Start.quoted = FALSE
  BY StartType
<1>2. /\ Prefixed(base, Start) \in State(C) /\ Prefixed(base, Start).tokens = Onto(base, Start.tokens)
      /\ Prefixed(base, Start).current = Start.current /\ Prefixed(base, Start).quoted = Start.quoted
  BY <1>1, PrefixedOnto
<1>3. Onto(base, <<>>) = base
  BY OntoType
<1> QED BY <1>1, <1>2, <1>3, SameState

\* A cut outside quotes cuts the tokens.
CutsAt(raw, i) ==
    (raw[i] = " " \/ raw[i] = "|") /\ Reading(raw)[i - 1].quoted = FALSE

LEMMA TokenizeCut ==
    ASSUME NEW C, NEW raw \in Seq(C), NEW i \in 1 .. Len(raw),
           CutsAt(raw, i)
    PROVE  /\ Before(raw, i) \in Seq(C) /\ After(raw, i) \in Seq(C)
           /\ Bar(raw[i]) \in Seq(Seq(C))
           /\ Tokenize(Before(raw, i)) \in Seq(Seq(C)) /\ Tokenize(After(raw, i)) \in Seq(Seq(C))
           /\ Tokenize(raw) = Onto(Onto(Tokenize(Before(raw, i)), Bar(raw[i])), Tokenize(After(raw, i)))
<1> DEFINE left == SubSeq(raw, 1, i - 1)
           base == Onto(Tokenize(left), Bar(raw[i]))
           L == Reading(raw)[i - 1]
           M == Reading(raw)[i]
<1> HIDE DEF base, L, M
<1>1. left \in Seq(C) /\ Len(left) = i - 1 /\ raw[i] \in C /\ SubSeq(raw, i + 1, Len(raw)) \in Seq(C)
  BY SplitAt
<1>2. i - 1 \in 0 .. Len(raw) /\ i \in 0 .. Len(raw) /\ i - 1 \in 0 .. i - 1
  OBVIOUS
<1>3. L = Reading(left)[Len(left)]
  <2>1. Reading(raw)[i - 1] = Reading(left)[i - 1]
    BY <1>2, ReadingPrefix
  <2> QED BY <1>1, <2>1 DEF L
<1> HIDE DEF left
<1>4. L \in State(C) /\ Tokenize(left) = CutOff(L.tokens, L.current) /\ Tokenize(left) \in Seq(Seq(C))
  BY <1>1, <1>3, TokenizeCutsOff
<1>5. Bar(raw[i]) \in Seq(Seq(C))
  BY <1>1, BarType
<1>6. base \in Seq(Seq(C))
  BY <1>4, <1>5, OntoType DEF base
<1>7. M = ReadCharacter(L, raw[i])
  BY ReadingDef DEF L, M
<1>8. M \in State(C) /\ M.tokens = base /\ M.current = <<>> /\ M.quoted = FALSE
  <2> DEFINE c == raw[i]
  <2>1. ~L.quoted /\ (c = " " \/ c = "|") /\ c \in C
    BY <1>1 DEF L, CutsAt
  <2> HIDE DEF c
  <2>2. /\ ReadCharacter(L, c) \in State(C)
        /\ ReadCharacter(L, c).tokens = Onto(CutOff(L.tokens, L.current), Bar(c))
        /\ ReadCharacter(L, c).current = <<>>
        /\ ReadCharacter(L, c).quoted = FALSE
    BY <1>4, <2>1, CutReading, Zenon
  <2> QED BY <1>4, <1>7, <2>2 DEF base, c
<1>9. M = Prefixed(base, Start)
  BY <1>6, <1>8, IsStart
<1>10. Tokenize(raw) = Onto(base, Tokenize(SubSeq(raw, i + 1, Len(raw))))
  BY <1>2, <1>6, <1>9, ReadingCut DEF M
<1>11. Tokenize(SubSeq(raw, i + 1, Len(raw))) \in Seq(Seq(C))
  BY <1>1, TokenizeCutsOff
<1> QED BY <1>1, <1>4, <1>5, <1>10, <1>11 DEF left, base, Before, After

\* An odd number of quotes were read when the loop is inside quotes.
LEMMA QuotedIsOdd ==
    ASSUME NEW C, NEW raw \in Seq(C)
    PROVE  \A n \in 0 .. Len(raw) :
               LET quotes == {k \in 1 .. n : raw[k] = Quote}
               IN  IsFiniteSet(quotes) /\ (Reading(raw)[n].quoted <=> Cardinality(quotes) % 2 = 1)
<1> DEFINE quotes(n) == {k \in 1 .. n : raw[k] = Quote}
           Odd(n) == IsFiniteSet(quotes(n)) /\ (Reading(raw)[n].quoted <=> Cardinality(quotes(n)) % 2 = 1)
           S == {n \in 0 .. Len(raw) : Odd(n)}
<1>1. 0 \in S
  <2>1. quotes(0) = {}
    OBVIOUS
  <2>2. IsFiniteSet(quotes(0)) /\ Cardinality(quotes(0)) = 0
    BY <2>1, FS_EmptySet
  <2>3. Reading(raw)[0].quoted = FALSE /\ 0 \in 0 .. Len(raw)
    BY ReadingDef DEF Start
  <2> HIDE DEF quotes
  <2> QED BY <2>2, <2>3
<1>2. ASSUME NEW n \in Nat, n < Len(raw), n \in S PROVE n + 1 \in S
  <2> DEFINE s == Reading(raw)[n]
             c == raw[n + 1]
  <2>1. n + 1 \in 1 .. Len(raw) /\ (n + 1) - 1 = n /\ n \in 0 .. Len(raw) /\ n + 1 \in 0 .. Len(raw) /\ c \in C
    <3> HIDE DEF S
    <3> QED BY <1>2
  <2>2. Reading(raw)[n + 1] = ReadCharacter(s, c) /\ s \in State(C)
    BY <2>1, ReadingDef
  <2>3. Reading(raw)[n + 1].quoted = IF c = Quote THEN ~s.quoted ELSE s.quoted
    <3> HIDE DEF s, c
    <3>1. ReadCharacter(s, c).quoted = IF c = Quote THEN ~s.quoted ELSE s.quoted
      BY <2>1, <2>2, QuoteReading
    <3> QED BY <2>2, <3>1
  <2>4. s.quoted \in BOOLEAN
    <3> HIDE DEF s
    <3> QED BY <2>2 DEF State
  <2>5. Odd(n)
    <3> HIDE DEF Odd
    <3> QED BY <1>2
  <2>6. CASE c = Quote
    <3>1. quotes(n + 1) = quotes(n) \cup {n + 1} /\ n + 1 \notin quotes(n)
      BY <2>6
    <3>2. IsFiniteSet(quotes(n)) /\ (s.quoted <=> Cardinality(quotes(n)) % 2 = 1)
      BY <2>5
    <3>3. Cardinality(quotes(n)) \in Nat
      <4> HIDE DEF quotes
      <4> QED BY <3>2, FS_CardinalityType
    <3>4. IsFiniteSet(quotes(n + 1)) /\ Cardinality(quotes(n + 1)) = Cardinality(quotes(n)) + 1
      <4> HIDE DEF quotes
      <4> QED BY <3>1, <3>2, FS_AddElement
    <3>5. Reading(raw)[n + 1].quoted <=> ~s.quoted
      BY <2>3, <2>6
    <3> HIDE DEF quotes, s
    <3>6. Cardinality(quotes(n + 1)) % 2 = 1 <=> ~(Cardinality(quotes(n)) % 2 = 1)
      BY <3>3, <3>4
    <3>7. Odd(n + 1)
      BY <3>2, <3>4, <3>5, <3>6
    <3> HIDE DEF Odd
    <3> QED BY <2>1, <3>7
  <2>7. CASE c # Quote
    <3>1. quotes(n + 1) = quotes(n)
      BY <2>7
    <3>2. Reading(raw)[n + 1].quoted <=> s.quoted
      BY <2>3, <2>7
    <3> HIDE DEF quotes, s
    <3>3. Odd(n + 1)
      BY <2>5, <3>1, <3>2 DEF s
    <3> HIDE DEF Odd
    <3> QED BY <2>1, <3>3
  <2> QED BY <2>6, <2>7
<1> HIDE DEF S
<1>3. \A n \in 0 .. Len(raw) : n \in S
  BY <1>1, <1>2, Induction
<1> QED BY <1>3 DEF S

LEMMA OutsideQuotes ==
    ASSUME NEW C, NEW raw \in Seq(C), NEW i \in 1 .. Len(raw), Balanced(Before(raw, i))
    PROVE  Reading(raw)[i - 1].quoted = FALSE
<1> DEFINE left == SubSeq(raw, 1, i - 1)
<1>1. left \in Seq(C) /\ Len(left) = i - 1 /\ DOMAIN left = 1 .. i - 1 /\ i - 1 \in 0 .. Len(raw) /\ i - 1 \in 0 .. i - 1
  OBVIOUS
<1>2. Balanced(left)
  BY DEF Before
<1>3. Reading(raw)[i - 1] = Reading(SubSeq(raw, 1, i - 1))[i - 1]
  BY <1>1, ReadingPrefix
<1> DEFINE many == Cardinality({k \in 1 .. i - 1 : left[k] = Quote})
<1> HIDE DEF left
<1>4. Reading(left)[i - 1].quoted <=> many % 2 = 1
  BY <1>1, QuotedIsOdd
<1>5. many % 2 = 0
  BY <1>1, <1>2 DEF Balanced
<1>6. ~(many % 2 = 1)
  <2> HIDE DEF many
  <2> QED BY <1>5
<1>7. Reading(raw)[i - 1].quoted \in BOOLEAN
  <2>1. Reading(raw)[i - 1] \in State(C)
    BY <1>1, ReadingDef
  <2> QED BY <2>1, StateType
<1> QED BY <1>3, <1>4, <1>6, <1>7 DEF left

\* A text without spaces, bars and quotes is one token.
LEMMA NextOfSubSeq ==
    ASSUME NEW C, NEW raw \in Seq(C), NEW n \in Nat, n < Len(raw)
    PROVE  Append(SubSeq(raw, 1, n), raw[n + 1]) = SubSeq(raw, 1, n + 1)
<1>1. /\ n + 1 \in Nat /\ SubSeq(raw, 1, n) \in Seq(C) /\ Len(SubSeq(raw, 1, n)) = n
      /\ SubSeq(raw, 1, n + 1) \in Seq(C) /\ Len(SubSeq(raw, 1, n + 1)) = n + 1
      /\ raw[n + 1] \in C
  OBVIOUS
<1>2. \A i \in 1 .. n : SubSeq(raw, 1, n)[i] = raw[i] /\ SubSeq(raw, 1, n + 1)[i] = raw[i]
  OBVIOUS
<1>3. SubSeq(raw, 1, n + 1)[n + 1] = raw[n + 1]
  OBVIOUS
<1> QED BY <1>1, <1>2, <1>3

LEMMA WholeOfSeq ==
    ASSUME NEW C, NEW raw \in Seq(C)
    PROVE  /\ Len(raw) \in Nat /\ SubSeq(raw, 1, 0) = <<>> /\ SubSeq(raw, 1, Len(raw)) = raw
           /\ Append(<<>>, raw) = <<raw>>
           /\ \A k \in 1 .. Len(raw) : raw[k] \in C
<1>1. SubSeq(raw, 1, 0) = <<>> /\ SubSeq(raw, 1, Len(raw)) = raw /\ Len(raw) \in Nat
  OBVIOUS
<1>2. \A k \in 1 .. Len(raw) : raw[k] \in C
  OBVIOUS
<1>3. Append(<<>>, raw) = <<raw>>
  OBVIOUS
<1> QED BY <1>1, <1>2, <1>3

LEMMA WordReading ==
    ASSUME NEW C, NEW s \in State(C), NEW c \in C, c # " ", c # "|", c # Quote
    PROVE  /\ ReadCharacter(s, c).tokens = s.tokens
           /\ ReadCharacter(s, c).current = Append(s.current, c)
           /\ ReadCharacter(s, c).quoted = s.quoted
<1> DEFINE n == ReadCharacter(s, c)
<1>1. n = [s EXCEPT !.current = Append(@, c)]
  BY Zenon DEF ReadCharacter
<1> HIDE DEF n
<1>2. n.tokens = s.tokens /\ n.current = Append(s.current, c) /\ n.quoted = s.quoted
  BY <1>1 DEF State
<1> QED BY <1>2 DEF n

IsWord(raw) == \A k \in 1 .. Len(raw) : raw[k] # " " /\ raw[k] # "|" /\ raw[k] # Quote

LEMMA WordIsRead ==
    ASSUME NEW C, NEW raw \in Seq(C), IsWord(raw)
    PROVE  \A n \in 0 .. Len(raw) :
               /\ Reading(raw)[n].tokens = <<>>
               /\ Reading(raw)[n].current = SubSeq(raw, 1, n)
               /\ Reading(raw)[n].quoted = FALSE
<1> DEFINE Word(n) == /\ Reading(raw)[n].tokens = <<>>
                      /\ Reading(raw)[n].current = SubSeq(raw, 1, n)
                      /\ Reading(raw)[n].quoted = FALSE
           S == {n \in 0 .. Len(raw) : Word(n)}
<1>1. 0 \in S
  <2>1. Reading(raw)[0] = Start /\ SubSeq(raw, 1, 0) = <<>>
    BY ReadingDef, WholeOfSeq
  <2>2. 0 \in 0 .. Len(raw)
    BY WholeOfSeq
  <2> QED BY <2>1, <2>2, StartType
<1>2. ASSUME NEW n \in Nat, n < Len(raw), n \in S PROVE n + 1 \in S
  <2> DEFINE s == Reading(raw)[n]
             c == raw[n + 1]
             m == Reading(raw)[n + 1]
  <2>1. n + 1 \in 1 .. Len(raw) /\ (n + 1) - 1 = n /\ n \in 0 .. Len(raw) /\ n + 1 \in 0 .. Len(raw)
    <3> HIDE DEF S
    <3> QED BY <1>2, WholeOfSeq
  <2>2. m = ReadCharacter(s, c) /\ s \in State(C)
    BY <2>1, ReadingDef
  <2>3. c # " " /\ c # "|" /\ c # Quote /\ c \in C
    BY <2>1, WholeOfSeq DEF IsWord
  <2>4. Word(n)
    <3> HIDE DEF Word
    <3> QED BY <1>2
  <2>5. s.tokens = <<>> /\ s.current = SubSeq(raw, 1, n) /\ s.quoted = FALSE
    BY <2>4
  <2> HIDE DEF s, m, Word
  <2>6. m.tokens = s.tokens /\ m.current = Append(s.current, c) /\ m.quoted = s.quoted
    <3> HIDE DEF c
    <3> QED BY <2>2, <2>3, WordReading
  <2>7. Append(SubSeq(raw, 1, n), c) = SubSeq(raw, 1, n + 1)
    BY <1>2, NextOfSubSeq
  <2> HIDE DEF c
  <2>8. m.tokens = <<>> /\ m.current = SubSeq(raw, 1, n + 1) /\ m.quoted = FALSE
    BY <2>5, <2>6, <2>7
  <2>9. Word(n + 1)
    BY <2>8 DEF m, Word
  <2> QED BY <2>1, <2>9
<1> HIDE DEF S
<1>3. \A n \in 0 .. Len(raw) : n \in S
  <2>1. Len(raw) \in Nat
    BY WholeOfSeq
  <2> QED BY <1>1, <1>2, <2>1, Induction
<1> QED BY <1>3 DEF S

LEMMA OneToken ==
    ASSUME NEW C, NEW raw \in Seq(C), IsWord(raw)
    PROVE  Tokenize(raw) = IF raw = <<>> THEN <<>> ELSE <<raw>>
<1>1. Len(raw) \in 0 .. Len(raw) /\ SubSeq(raw, 1, Len(raw)) = raw /\ Append(<<>>, raw) = <<raw>>
  BY WholeOfSeq
<1>2. Reading(raw)[Len(raw)].tokens = <<>> /\ Reading(raw)[Len(raw)].current = raw
  BY <1>1, WordIsRead
<1>3. Tokenize(raw) = IF raw = <<>> THEN <<>> ELSE Append(<<>>, raw)
  BY <1>2, TokenizeDef
<1> QED BY <1>1, <1>3

IsToggle(token) == Len(token) = 1 /\ token[1] \in OptionWords \cup DOMAIN ResetWords

NoToggle(tokens) == \A k \in 1 .. Len(tokens) : ~IsToggle(tokens[k])

\* Without a word for an option the tokens are what remains.
LEMMA SortingPlain ==
    ASSUME NEW D, NEW tokens \in Seq(D), NoToggle(tokens)
    PROVE  /\ Sorting(tokens)[Len(tokens)].options = {}
           /\ Sorting(tokens)[Len(tokens)].remaining = tokens
<1> DEFINE N == Len(tokens)
           Left(n) == [options |-> {}, remaining |-> SubSeq(tokens, 1, n)]
           Body(g) == [n \in 0 .. N |-> IF n = 0 THEN [options |-> {}, remaining |-> <<>>]
                                        ELSE ReadToken(g[n - 1], tokens[n])]
           g == [n \in 0 .. N |-> Left(n)]
<1>1. N \in Nat /\ Left(0) = [options |-> {}, remaining |-> <<>>] /\ SubSeq(tokens, 1, N) = tokens
  <2>1. SubSeq(tokens, 1, 0) = <<>> /\ SubSeq(tokens, 1, N) = tokens /\ N \in Nat
    BY WholeOfSeq
  <2> QED BY <2>1
<1>2. ASSUME NEW n \in 1 .. N PROVE ReadToken(Left(n - 1), tokens[n]) = Left(n)
  <2>1. ~IsToggle(tokens[n]) /\ n - 1 \in Nat /\ n - 1 < Len(tokens) /\ (n - 1) + 1 = n
    BY WholeOfSeq DEF NoToggle
  <2>2. Append(SubSeq(tokens, 1, n - 1), tokens[n]) = SubSeq(tokens, 1, n)
    BY <2>1, NextOfSubSeq
  <2>3. ReadToken(Left(n - 1), tokens[n]) = [Left(n - 1) EXCEPT !.remaining = Append(@, tokens[n])]
    <3> HIDE DEF Left
    <3> QED BY <2>1, Zenon DEF ReadToken, IsToggle
  <2> QED BY <2>2, <2>3
<1>3. g = Body(g)
  <2>1. \A n \in 0 .. N : n # 0 => n \in 1 .. N /\ n - 1 \in 0 .. N
    BY <1>1
  <2> HIDE DEF N, Left
  <2>2. \A n \in 0 .. N : g[n] = Left(n)
    OBVIOUS
  <2>3. \A n \in 0 .. N : Left(n) = IF n = 0 THEN [options |-> {}, remaining |-> <<>>]
                                    ELSE ReadToken(g[n - 1], tokens[n])
    BY <1>1, <1>2, <2>1, <2>2
  <2> QED BY <2>3
<1>4. Sorting(tokens) = CHOOSE f : f = Body(f)
  BY DEF Sorting
<1> DEFINE r == Sorting(tokens)
<1>5. r = Body(r)
  <2> HIDE DEF Body, g
  <2> QED BY <1>3, <1>4
<1> DEFINE S == {n \in 0 .. N : r[n] = Left(n)}
<1>6. 0 \in S
  <2> HIDE DEF r, N, Left
  <2>1. 0 \in 0 .. N
    BY <1>1
  <2>2. r[0] = [options |-> {}, remaining |-> <<>>]
    BY <1>5, <2>1
  <2> QED BY <1>1, <2>1, <2>2
<1>7. ASSUME NEW n \in Nat, n < N, n \in S PROVE n + 1 \in S
  <2> HIDE DEF r, N, Left
  <2>1. n + 1 \in 1 .. N /\ (n + 1) - 1 = n /\ n + 1 \in 0 .. N /\ n + 1 # 0
    <3> HIDE DEF S
    <3> QED BY <1>1, <1>7
  <2>2. r[n + 1] = ReadToken(r[n], tokens[n + 1])
    BY <1>5, <2>1
  <2>3. r[n] = Left(n)
    BY <1>7
  <2>4. r[n + 1] = Left(n + 1)
    BY <1>2, <2>1, <2>2, <2>3
  <2> QED BY <2>1, <2>4
<1>8. r[N] = Left(N)
  <2> HIDE DEF S, N, r, Left
  <2>1. \A n \in 0 .. N : n \in S
    BY <1>1, <1>6, <1>7, Induction
  <2>2. N \in 0 .. N
    BY <1>1
  <2> QED BY <2>1, <2>2 DEF S
<1>9. r[N].options = {} /\ r[N].remaining = tokens
  <2>1. Left(N).options = {} /\ Left(N).remaining = tokens
    BY <1>1
  <2> HIDE DEF Left, r, N
  <2> QED BY <1>8, <2>1
<1> QED BY <1>9

-----------------------------------------------------------------------------
(* The groups of a query *)

Parts(D) == Seq(Seq(D)) \ {<<>>}

BarToken == <<"|">>

LEMMA PartsType ==
    ASSUME NEW D, NEW g \in Parts(D)
    PROVE  /\ g \in Seq(Seq(D)) /\ Len(g) \in Nat /\ Len(g) >= 1
           /\ Last(g) = g[Len(g)] /\ g[Len(g)] \in Seq(D)
           /\ Front(g) = SubSeq(g, 1, Len(g) - 1)
<1>1. g \in Seq(Seq(D)) /\ g # <<>>
  BY DEF Parts
<1> DEFINE T == Seq(D)
<1>2. g \in Seq(T) /\ g # <<>>
  BY <1>1
<1> HIDE DEF T
<1>3. Len(g) \in Nat /\ Len(g) >= 1
  BY <1>2, EmptySeq
<1>4. g[Len(g)] \in T
  BY <1>2, <1>3
<1> QED BY <1>1, <1>3, <1>4 DEF T, Last, Front

LEMMA PartsMade ==
    ASSUME NEW D, NEW g \in Parts(D), NEW x \in D
    PROVE  [g EXCEPT ![Len(g)] = Append(@, x)] \in Parts(D)
<1>1. g \in Seq(Seq(D)) /\ Len(g) \in Nat /\ Len(g) >= 1 /\ g[Len(g)] \in Seq(D)
  BY PartsType
<1> DEFINE T == Seq(D)
           last == Append(g[Len(g)], x)
           h == [g EXCEPT ![Len(g)] = last]
<1>2. last \in T
  BY <1>1
<1>3. g \in Seq(T)
  BY <1>1
<1> HIDE DEF T, last
<1>4. h \in Seq(T) /\ Len(h) = Len(g)
  BY <1>1, <1>2, <1>3, ExceptSeq
<1>5. h # <<>>
  <2> HIDE DEF h
  <2> QED BY <1>1, <1>4
<1> QED BY <1>4, <1>5 DEF Parts, T, last

LEMMA AppendPart ==
    ASSUME NEW D, NEW g \in Parts(D), NEW e \in Seq(D)
    PROVE  Append(g, e) \in Parts(D)
<1>1. g \in Seq(Seq(D))
  BY PartsType
<1> DEFINE T == Seq(D)
<1>2. g \in Seq(T) /\ e \in T
  BY <1>1
<1> HIDE DEF T
<1>3. Append(g, e) \in Seq(T)
  BY <1>2, AppendProperties
<1>4. Append(g, e) # <<>>
  BY <1>2, AppendProperties
<1> QED BY <1>3, <1>4 DEF T, Parts

LEMMA AddTokenType ==
    ASSUME NEW D, NEW g \in Parts(D), NEW token, token = BarToken \/ ParseTerm(token) \in D
    PROVE  AddToken(g, token) \in Parts(D)
<1>1. CASE token = BarToken
  <2>1. AddToken(g, token) = IF Last(g) = <<>> THEN g ELSE Append(g, <<>>)
    BY <1>1, Zenon DEF AddToken, BarToken
  <2>2. Append(g, <<>>) \in Parts(D)
    <3>1. PICK e : e = <<>>
      OBVIOUS
    <3>2. e \in Seq(D)
      BY <3>1
    <3>3. Append(g, e) \in Parts(D)
      BY <3>2, AppendPart
    <3> QED BY <3>1, <3>3, Zenon
  <2> QED BY <2>1, <2>2, Zenon
<1>2. CASE token # BarToken
  <2> DEFINE x == ParseTerm(token)
  <2>1. AddToken(g, token) = [g EXCEPT ![Len(g)] = Append(@, x)] /\ x \in D
    BY <1>2, Zenon DEF AddToken, BarToken
  <2> HIDE DEF x
  <2>2. [g EXCEPT ![Len(g)] = Append(@, x)] \in Parts(D)
    BY <2>1, PartsMade
  <2> QED BY <2>1, <2>2, Zenon
<1> QED BY <1>1, <1>2

\* The tokens of a query, with the terms they stand for.
TermTokens(tokens, D) ==
    \A k \in 1 .. Len(tokens) : tokens[k] = BarToken \/ ParseTerm(tokens[k]) \in D

LEMMA GroupingDef ==
    ASSUME NEW K, NEW tokens \in Seq(K), NEW D, TermTokens(tokens, D)
    PROVE  /\ \A n \in 0 .. Len(tokens) : Grouping(tokens)[n] \in Parts(D)
           /\ Grouping(tokens)[0] = <<<<>>>>
           /\ \A n \in 1 .. Len(tokens) :
                  Grouping(tokens)[n] = AddToken(Grouping(tokens)[n - 1], tokens[n])
<1> DEFINE N == Len(tokens)
           First == <<<<>>>>
           Body(g) == [n \in 0 .. N |-> IF n = 0 THEN First ELSE AddToken(g[n - 1], tokens[n])]
           step == [n \in 1 .. N |-> [s \in Parts(D) |-> AddToken(s, tokens[n])]]
<1>1. N \in Nat
  BY WholeOfSeq
<1>2. First \in Parts(D)
  <2>1. <<>> \in Seq(D)
    OBVIOUS
  <2>2. <<<<>>>> \in Seq(Seq(D)) /\ <<<<>>>> # <<>>
    BY <2>1
  <2> QED BY <2>2 DEF Parts
<1>3. /\ \A n \in 1 .. N : \A s \in Parts(D) : step[n][s] \in Parts(D)
      /\ \A n \in 1 .. N : \A s \in Parts(D) : step[n][s] = AddToken(s, tokens[n])
  <2>1. \A n \in 1 .. N : tokens[n] = BarToken \/ ParseTerm(tokens[n]) \in D
    BY DEF TermTokens
  <2> HIDE DEF N
  <2>2. \A n \in 1 .. N : \A s \in Parts(D) : AddToken(s, tokens[n]) \in Parts(D)
    BY <2>1, AddTokenType
  <2> QED BY <2>2
<1>4. PICK g : Iterates(N, Parts(D), First, step, g)
  <2> HIDE DEF step, N, First
  <2> QED BY <1>1, <1>2, <1>3, Iteration
<1>5. \A n \in 1 .. N : g[n] = AddToken(g[n - 1], tokens[n])
  <2> HIDE DEF step, N, First
  <2> TAKE n \in 1 .. N
  <2>1. n - 1 \in 0 .. N
    BY <1>1
  <2>2. g[n - 1] \in Parts(D)
    BY <1>4, <2>1 DEF Iterates
  <2> QED BY <1>3, <1>4, <2>2 DEF Iterates
<1>6. g = Body(g)
  <2> HIDE DEF step, N, First
  <2>1. \A n \in 0 .. N : n # 0 => n \in 1 .. N
    BY <1>1
  <2> QED BY <1>4, <1>5, <2>1 DEF Iterates
<1>7. Grouping(tokens) = CHOOSE f : f = Body(f)
  BY DEF Grouping
<1>8. Grouping(tokens) = Body(Grouping(tokens))
  <2> HIDE DEF Body
  <2> QED BY <1>6, <1>7
<1> DEFINE r == Grouping(tokens)
<1> HIDE DEF step
<1>9. r[0] = First /\ \A n \in 1 .. N : r[n] = AddToken(r[n - 1], tokens[n])
  <2> HIDE DEF r, N, First
  <2>1. r = Body(r)
    BY <1>8 DEF r
  <2>2. 0 \in 0 .. N /\ \A n \in 1 .. N : n \in 0 .. N /\ n # 0
    BY <1>1
  <2> QED BY <2>1, <2>2
<1>10. \A n \in 0 .. N : r[n] \in Parts(D)
  <2> DEFINE S == {n \in 0 .. N : r[n] \in Parts(D)}
  <2>a. \A n \in 1 .. N : tokens[n] = BarToken \/ ParseTerm(tokens[n]) \in D
    BY DEF TermTokens
  <2> HIDE DEF r, N, First
  <2>1. 0 \in S
    BY <1>1, <1>2, <1>9
  <2>2. ASSUME NEW n \in Nat, n < N, n \in S PROVE n + 1 \in S
    <3>1. n + 1 \in 1 .. N /\ (n + 1) - 1 = n /\ n + 1 \in 0 .. N
      <4> HIDE DEF S
      <4> QED BY <1>1, <2>2
    <3>2. r[n + 1] = AddToken(r[n], tokens[n + 1])
      BY <1>9, <3>1
    <3>3. r[n] \in Parts(D)
      BY <2>2
    <3>4. r[n + 1] \in Parts(D)
      BY <2>a, <3>1, <3>2, <3>3, AddTokenType
    <3> QED BY <3>1, <3>4
  <2> HIDE DEF S
  <2>3. \A n \in 0 .. N : n \in S
    BY <1>1, <2>1, <2>2, Induction
  <2> QED BY <2>3 DEF S
<1> QED BY <1>9, <1>10

LEMMA FrontType ==
    ASSUME NEW S, NEW s \in Seq(S), Len(s) >= 1
    PROVE  /\ SubSeq(s, 1, Len(s) - 1) \in Seq(S) /\ Len(SubSeq(s, 1, Len(s) - 1)) = Len(s) - 1
           /\ \A i \in 1 .. Len(s) - 1 : SubSeq(s, 1, Len(s) - 1)[i] = s[i]
<1>1. PICK m \in Nat : m = Len(s) - 1
  OBVIOUS
<1>2. m <= Len(s)
  BY <1>1
<1>3. SubSeq(s, 1, m) \in Seq(S)
  BY <1>2
<1>4. Len(SubSeq(s, 1, m)) = m
  BY <1>2
<1>5. \A i \in 1 .. m : SubSeq(s, 1, m)[i] = s[i]
  BY <1>2
<1> QED BY <1>1, <1>3, <1>4, <1>5

\* The groups closed before do not change what a token does.
LEMMA OntoParts ==
    ASSUME NEW D, NEW P \in Seq(Seq(D)), NEW g \in Parts(D)
    PROVE  /\ Onto(P, g) \in Parts(D)
           /\ Len(Onto(P, g)) = Len(P) + Len(g)
           /\ Last(Onto(P, g)) = Last(g)
           /\ Front(Onto(P, g)) = Onto(P, Front(g))
<1> DEFINE T == Seq(D)
           h == P \o g
<1>1. P \in Seq(T) /\ g \in Seq(T) /\ Len(g) \in Nat /\ Len(g) >= 1 /\ Len(P) \in Nat
  BY PartsType
<1> HIDE DEF T
<1>2. h \in Seq(T) /\ Len(h) = Len(P) + Len(g)
  BY <1>1, ConcatProperties
<1>3. h # <<>> /\ h[Len(h)] = g[Len(g)]
  BY <1>1, <1>2
<1>4. SubSeq(h, 1, Len(h) - 1) = P \o SubSeq(g, 1, Len(g) - 1)
  <2> DEFINE a == SubSeq(h, 1, Len(h) - 1)
             f == SubSeq(g, 1, Len(g) - 1)
             b == P \o f
  <2>1. a \in Seq(T) /\ Len(a) = Len(h) - 1 /\ \A i \in 1 .. Len(h) - 1 : a[i] = h[i]
    <3> HIDE DEF h
    <3> QED BY <1>1, <1>2
  <2>2. f \in Seq(T) /\ Len(f) = Len(g) - 1 /\ \A i \in 1 .. Len(g) - 1 : f[i] = g[i]
    BY <1>1, FrontType
  <2> HIDE DEF a, f
  <2>3. b \in Seq(T) /\ Len(b) = Len(P) + (Len(g) - 1)
    <3>1. b \in Seq(T) /\ Len(b) = Len(P) + Len(f)
      BY <1>1, <2>2, ConcatProperties
    <3> HIDE DEF b
    <3> QED BY <2>2, <3>1
  <2>4. ASSUME NEW i \in 1 .. Len(a) PROVE a[i] = b[i]
    <3>1. CASE i <= Len(P)
      <4>1. i \in 1 .. Len(P) /\ i \in 1 .. Len(h) - 1
        BY <1>1, <1>2, <2>1, <3>1
      <4>2. h[i] = P[i] /\ b[i] = P[i]
        BY <1>1, <2>2, <4>1, ConcatProperties
      <4> QED BY <2>1, <4>1, <4>2
    <3>2. CASE i > Len(P)
      <4>1. i - Len(P) \in 1 .. Len(g) - 1 /\ i \in 1 .. Len(h) - 1 /\ i \in Len(P) + 1 .. Len(P) + Len(g)
            /\ i \in Len(P) + 1 .. Len(P) + Len(f)
        BY <1>1, <1>2, <2>1, <2>2, <3>2
      <4>2. h[i] = g[i - Len(P)]
        BY <1>1, <4>1, ConcatProperties
      <4>3. b[i] = f[i - Len(P)]
        BY <1>1, <2>2, <4>1, ConcatProperties
      <4> QED BY <2>1, <2>2, <4>1, <4>2, <4>3
    <3>3. i \in Nat
      BY <1>1, <1>2, <2>1
    <3>4. i <= Len(P) \/ i > Len(P)
      BY <1>1, <3>3
    <3> QED BY <3>1, <3>2, <3>4, Zenon
  <2>5. Len(a) = Len(b)
    BY <1>1, <1>2, <2>1, <2>3
  <2> HIDE DEF b
  <2>6. a = b
    BY <2>1, <2>3, <2>4, <2>5, SeqEqual
  <2> QED BY <2>6 DEF a, b, f
<1> QED BY <1>2, <1>3, <1>4 DEF Parts, T, Onto, Last, Front

LEMMA AddBarOnto ==
    ASSUME NEW D, NEW P \in Seq(Seq(D)), NEW g \in Parts(D), NEW token, token = BarToken
    PROVE  AddToken(Onto(P, g), token) = Onto(P, AddToken(g, token))
<1>1. /\ AddToken(g, token) = IF Last(g) = <<>> THEN g ELSE Append(g, <<>>)
      /\ AddToken(Onto(P, g), token) = IF Last(Onto(P, g)) = <<>> THEN Onto(P, g) ELSE Append(Onto(P, g), <<>>)
  BY Zenon DEF AddToken, BarToken
<1>2. Last(Onto(P, g)) = Last(g)
  BY OntoParts
<1>3. PICK e : e = <<>>
  OBVIOUS
<1>4. Append(Onto(P, g), e) = Onto(P, Append(g, e))
  <2>1. g \in Seq(Seq(D)) /\ e \in Seq(D) /\ P \o g \in Seq(Seq(D)) /\ <<e>> \in Seq(Seq(D))
    <3>1. g \in Seq(Seq(D)) /\ e \in Seq(D)
      BY <1>3, PartsType
    <3> QED BY <3>1
  <2>2. Append(P \o g, e) = (P \o g) \o <<e>>
    BY <2>1, AppendIsConcat
  <2>3. Append(g, e) = g \o <<e>>
    BY <2>1, AppendIsConcat
  <2>4. (P \o g) \o <<e>> = P \o (g \o <<e>>)
    BY <2>1, ConcatAssociative
  <2>5. Append(P \o g, e) = P \o Append(g, e)
    BY <2>2, <2>3, <2>4
  <2> QED BY <2>5, Zenon DEF Onto
<1>5. CASE Last(g) = <<>>
  BY <1>1, <1>2, <1>5, Zenon
<1>6. CASE Last(g) # <<>>
  <2>1. AddToken(g, token) = Append(g, e) /\ AddToken(Onto(P, g), token) = Append(Onto(P, g), e)
    BY <1>1, <1>2, <1>3, <1>6, Zenon
  <2> QED BY <1>4, <2>1, Zenon
<1> QED BY <1>5, <1>6

LEMMA AddTermOnto ==
    ASSUME NEW D, NEW P \in Seq(Seq(D)), NEW g \in Parts(D), NEW token,
           token # BarToken, ParseTerm(token) \in D
    PROVE  AddToken(Onto(P, g), token) = Onto(P, AddToken(g, token))
<1> DEFINE x == ParseTerm(token)
           T == Seq(D)
           last == Append(g[Len(g)], x)
           g2 == [g EXCEPT ![Len(g)] = last]
           h == P \o g
           h2 == [h EXCEPT ![Len(h)] = last]
           k2 == P \o g2
<1>1. /\ AddToken(g, token) = [g EXCEPT ![Len(g)] = Append(@, x)]
      /\ AddToken(h, token) = [h EXCEPT ![Len(h)] = Append(@, x)]
  BY Zenon DEF AddToken, BarToken
<1>2. x \in D /\ g[Len(g)] \in Seq(D)
  BY PartsType
<1>3. last \in T
  <2> HIDE DEF x
  <2> QED BY <1>2
<1>4. P \in Seq(T) /\ g \in Seq(T) /\ Len(g) \in Nat /\ Len(g) >= 1 /\ Len(P) \in Nat
  BY PartsType
<1> HIDE DEF T
<1>5. /\ h \in Seq(T) /\ Len(h) = Len(P) + Len(g)
      /\ \A i \in 1 .. Len(P) : h[i] = P[i]
      /\ \A i \in Len(P) + 1 .. Len(P) + Len(g) : h[i] = g[i - Len(P)]
  <2> HIDE DEF last
  <2> QED BY <1>4, ConcatProperties
<1>6. h[Len(h)] = g[Len(g)]
  <2> HIDE DEF h
  <2>1. Len(h) \in Len(P) + 1 .. Len(P) + Len(g) /\ Len(h) - Len(P) = Len(g)
    BY <1>4, <1>5
  <2> QED BY <1>5, <2>1
<1>7. /\ AddToken(g, token) = g2
      /\ AddToken(h, token) = h2
  <2> HIDE DEF h, x
  <2> QED BY <1>1, <1>6
<1> HIDE DEF last
<1>8. /\ g2 \in Seq(T) /\ Len(g2) = Len(g)
      /\ \A j \in 1 .. Len(g) : g2[j] = IF j = Len(g) THEN last ELSE g[j]
  <2>1. Len(g) \in 1 .. Len(g)
    BY <1>4
  <2> QED BY <1>3, <1>4, <2>1, ExceptSeq
<1>9. /\ h2 \in Seq(T) /\ Len(h2) = Len(h)
      /\ \A j \in 1 .. Len(h) : h2[j] = IF j = Len(h) THEN last ELSE h[j]
  <2> HIDE DEF h
  <2>1. Len(h) \in 1 .. Len(h)
    BY <1>4, <1>5
  <2> QED BY <1>3, <1>5, <2>1, ExceptSeq
<1> HIDE DEF g2, h2, h
<1>10. /\ k2 \in Seq(T) /\ Len(k2) = Len(P) + Len(g)
       /\ \A i \in 1 .. Len(P) : k2[i] = P[i]
       /\ \A i \in Len(P) + 1 .. Len(P) + Len(g) : k2[i] = g2[i - Len(P)]
  <2>1. /\ k2 \in Seq(T) /\ Len(k2) = Len(P) + Len(g2)
        /\ \A i \in 1 .. Len(P) : k2[i] = P[i]
        /\ \A i \in Len(P) + 1 .. Len(P) + Len(g2) : k2[i] = g2[i - Len(P)]
    <3>1. P \in Seq(T) /\ g2 \in Seq(T)
      BY <1>4, <1>8
    <3> QED BY <3>1, ConcatProperties
  <2> HIDE DEF k2
  <2> QED BY <1>8, <2>1
<1> HIDE DEF k2
<1>11. ASSUME NEW i \in 1 .. Len(h2) PROVE h2[i] = k2[i]
  <2>1. i \in 1 .. Len(h) /\ i \in Nat
    BY <1>4, <1>5, <1>9
  <2>2. CASE i <= Len(P)
    <3>1. i \in 1 .. Len(P) /\ i # Len(h)
      BY <1>4, <1>5, <2>1, <2>2
    <3> QED BY <1>5, <1>9, <1>10, <2>1, <3>1
  <2>3. CASE i > Len(P)
    <3>1. i \in Len(P) + 1 .. Len(P) + Len(g) /\ i - Len(P) \in 1 .. Len(g) /\ (i = Len(h) <=> i - Len(P) = Len(g))
      BY <1>4, <1>5, <2>1, <2>3
    <3>2. k2[i] = IF i - Len(P) = Len(g) THEN last ELSE g[i - Len(P)]
      BY <1>8, <1>10, <3>1
    <3>3. h2[i] = IF i = Len(h) THEN last ELSE g[i - Len(P)]
      BY <1>5, <1>9, <2>1, <3>1
    <3> QED BY <3>1, <3>2, <3>3
  <2> QED BY <1>4, <2>1, <2>2, <2>3
<1>12. Len(h2) = Len(k2)
  BY <1>5, <1>9, <1>10
<1>13. h2 = k2
  BY <1>9, <1>10, <1>11, <1>12, SeqEqual
<1>14. AddToken(h, token) = k2
  BY <1>7, <1>13
<1> QED BY <1>7, <1>14, Zenon DEF Onto, h, k2

TermsOf(K) == {ParseTerm(k) : k \in K}

LEMMA TermsOfTokens ==
    ASSUME NEW K, NEW tokens \in Seq(K)
    PROVE  TermTokens(tokens, TermsOf(K))
<1>1. \A k \in 1 .. Len(tokens) : tokens[k] \in K
  BY WholeOfSeq
<1> QED BY <1>1 DEF TermTokens, TermsOf

LEMMA AddTokenOnto ==
    ASSUME NEW D, NEW P \in Seq(Seq(D)), NEW g \in Parts(D), NEW token,
           token = BarToken \/ ParseTerm(token) \in D
    PROVE  AddToken(Onto(P, g), token) = Onto(P, AddToken(g, token))
<1>1. CASE token = BarToken
  BY <1>1, AddBarOnto
<1>2. CASE token # BarToken
  BY <1>2, AddTermOnto
<1> QED BY <1>1, <1>2

LEMMA ClosedType ==
    ASSUME NEW D, NEW g \in Parts(D)
    PROVE  Closed(g) \in Seq(Seq(D))
<1>1. g \in Seq(Seq(D)) /\ Len(g) >= 1 /\ Front(g) = SubSeq(g, 1, Len(g) - 1)
  BY PartsType
<1> DEFINE T == Seq(D)
<1>2. g \in Seq(T)
  BY <1>1
<1> HIDE DEF T
<1>3. SubSeq(g, 1, Len(g) - 1) \in Seq(T)
  BY <1>1, <1>2, FrontType
<1>4. Front(g) \in Seq(T)
  BY <1>1, <1>3, Zenon
<1> QED BY <1>2, <1>4, Zenon DEF Closed, T

LEMMA ClosedOnto ==
    ASSUME NEW D, NEW P \in Seq(Seq(D)), NEW g \in Parts(D)
    PROVE  Closed(Onto(P, g)) = Onto(P, Closed(g))
BY OntoParts, Zenon DEF Closed

\* A bar closes the current group when it has a term.
LEMMA AddBar ==
    ASSUME NEW D, NEW g \in Parts(D), NEW token, token = BarToken
    PROVE  AddToken(g, token) = Onto(Closed(g), <<<<>>>>)
<1>1. AddToken(g, token) = IF Last(g) = <<>> THEN g ELSE Append(g, <<>>)
  BY Zenon DEF AddToken, BarToken
<1>2. g \in Seq(Seq(D)) /\ Len(g) \in Nat /\ Len(g) >= 1 /\ Last(g) = g[Len(g)]
  BY PartsType
<1> DEFINE T == Seq(D)
<1>3. g \in Seq(T) /\ <<>> \in T
  BY <1>2
<1> HIDE DEF T
<1>4. PICK e \in T : e = <<>>
  BY <1>3
<1>5. CASE Last(g) # <<>>
  <2>1. Append(g, e) = g \o <<e>>
    BY <1>3, AppendIsConcat
  <2>2. Closed(g) = g
    BY <1>5, Zenon DEF Closed
  <2>3. AddToken(g, token) = Append(g, e)
    BY <1>1, <1>4, <1>5, Zenon
  <2> QED BY <1>4, <2>1, <2>2, <2>3, Zenon DEF Onto
<1>6. CASE Last(g) = <<>>
  <2> DEFINE f == SubSeq(g, 1, Len(g) - 1)
             h == f \o <<e>>
  <2>1. /\ f \in Seq(T) /\ Len(f) = Len(g) - 1
        /\ \A i \in 1 .. Len(g) - 1 : f[i] = g[i]
    BY <1>2, <1>3, FrontType
  <2> HIDE DEF f
  <2>2. <<e>> \in Seq(T) /\ Len(<<e>>) = 1 /\ <<e>>[1] = e
    OBVIOUS
  <2>3. /\ h \in Seq(T) /\ Len(h) = Len(g)
        /\ \A i \in 1 .. Len(f) : h[i] = f[i]
        /\ \A i \in Len(f) + 1 .. Len(f) + 1 : h[i] = <<e>>[i - Len(f)]
    <3>1. /\ h \in Seq(T) /\ Len(h) = Len(f) + Len(<<e>>)
          /\ \A i \in 1 .. Len(f) : h[i] = f[i]
          /\ \A i \in Len(f) + 1 .. Len(f) + Len(<<e>>) : h[i] = <<e>>[i - Len(f)]
      BY <2>1, <2>2, ConcatProperties
    <3> HIDE DEF h
    <3> QED BY <1>2, <2>1, <2>2, <3>1
  <2> HIDE DEF h
  <2>4. ASSUME NEW i \in 1 .. Len(g) PROVE g[i] = h[i]
    <3>1. CASE i = Len(g)
      <4>1. i \in Len(f) + 1 .. Len(f) + 1 /\ i - Len(f) = 1
        BY <1>2, <2>1, <3>1
      <4>2. h[i] = <<e>>[1]
        BY <2>3, <4>1
      <4>3. h[i] = e
        BY <2>2, <4>2
      <4> QED BY <1>2, <1>4, <1>6, <3>1, <4>3
    <3>2. CASE i # Len(g)
      <4>1. i \in 1 .. Len(f) /\ i \in 1 .. Len(g) - 1
        BY <1>2, <2>1, <3>2
      <4> QED BY <2>1, <2>3, <4>1
    <3> QED BY <3>1, <3>2
  <2>5. g = h
    BY <1>3, <2>3, <2>4, SeqEqual
  <2>6. Closed(g) = f
    BY <1>6, Zenon DEF Closed, f, Front
  <2>7. AddToken(g, token) = g
    BY <1>1, <1>6, Zenon
  <2> QED BY <1>4, <2>5, <2>6, <2>7, Zenon DEF Onto, h
<1> QED BY <1>5, <1>6

LEMMA GroupsAre ==
    ASSUME NEW K, NEW tokens \in Seq(K)
    PROVE  /\ Grouping(tokens)[Len(tokens)] \in Parts(TermsOf(K))
           /\ Groups(tokens) = Closed(Grouping(tokens)[Len(tokens)])
           /\ Groups(tokens) \in Seq(Seq(TermsOf(K)))
<1>1. Len(tokens) \in 0 .. Len(tokens)
  BY WholeOfSeq
<1>2. Grouping(tokens)[Len(tokens)] \in Parts(TermsOf(K))
  BY <1>1, TermsOfTokens, GroupingDef
<1>3. Groups(tokens) = Closed(Grouping(tokens)[Len(tokens)])
  BY Zenon DEF Groups, Closed
<1> QED BY <1>2, <1>3, ClosedType

LEMMA GroupingPrefix ==
    ASSUME NEW K, NEW tokens \in Seq(K), NEW m \in 0 .. Len(tokens)
    PROVE  \A n \in 0 .. m : Grouping(tokens)[n] = Grouping(SubSeq(tokens, 1, m))[n]
<1> DEFINE left == SubSeq(tokens, 1, m)
           S == {n \in 0 .. m : Grouping(tokens)[n] = Grouping(left)[n]}
           D == TermsOf(K)
<1>1. m \in Nat /\ left \in Seq(K) /\ Len(left) = m /\ \A n \in 1 .. m : left[n] = tokens[n]
  OBVIOUS
<1> HIDE DEF left, D
<1>2. TermTokens(tokens, D) /\ TermTokens(left, D)
  BY <1>1, TermsOfTokens DEF D
<1>3. 0 \in S
  <2>1. Grouping(tokens)[0] = <<<<>>>> /\ Grouping(left)[0] = <<<<>>>>
    BY <1>1, <1>2, GroupingDef
  <2>2. 0 \in 0 .. m
    BY <1>1
  <2> QED BY <2>1, <2>2, Zenon
<1>4. ASSUME NEW n \in Nat, n < m, n \in S PROVE n + 1 \in S
  <2>1. n + 1 \in 1 .. Len(tokens) /\ n + 1 \in 1 .. m /\ n + 1 \in 0 .. m /\ (n + 1) - 1 = n
    <3> HIDE DEF S
    <3> QED BY <1>1, <1>4
  <2>2. Grouping(tokens)[n + 1] = AddToken(Grouping(tokens)[n], tokens[n + 1])
    BY <1>2, <2>1, GroupingDef
  <2>3. Grouping(left)[n + 1] = AddToken(Grouping(left)[n], left[n + 1])
    BY <1>1, <1>2, <2>1, GroupingDef
  <2> QED BY <1>1, <1>4, <2>1, <2>2, <2>3
<1> HIDE DEF S
<1>5. \A n \in 0 .. m : n \in S
  BY <1>1, <1>3, <1>4, Induction
<1> QED BY <1>5 DEF S, left

LEMMA RestOfSeq ==
    ASSUME NEW S, NEW s \in Seq(S), NEW m \in 0 .. Len(s)
    PROVE  LET rest == SubSeq(s, m + 1, Len(s))
           IN  /\ m \in Nat /\ rest \in Seq(S) /\ Len(rest) = Len(s) - m /\ Len(rest) \in Nat
               /\ \A n \in 1 .. Len(rest) : rest[n] = s[m + n]
BY SMTT(60)

LEMMA GroupingSuffix ==
    ASSUME NEW K, NEW tokens \in Seq(K), NEW m \in 0 .. Len(tokens), NEW P \in Seq(Seq(TermsOf(K))),
           Grouping(tokens)[m] = Onto(P, <<<<>>>>)
    PROVE  LET right == SubSeq(tokens, m + 1, Len(tokens))
           IN  \A n \in 0 .. Len(right) : Grouping(tokens)[m + n] = Onto(P, Grouping(right)[n])
<1> DEFINE right == SubSeq(tokens, m + 1, Len(tokens))
           S == {n \in 0 .. Len(right) : Grouping(tokens)[m + n] = Onto(P, Grouping(right)[n])}
           D == TermsOf(K)
<1>1. /\ m \in Nat /\ right \in Seq(K) /\ Len(right) = Len(tokens) - m /\ Len(right) \in Nat
      /\ \A n \in 1 .. Len(right) : right[n] = tokens[m + n]
  BY RestOfSeq
<1> HIDE DEF right, D
<1>2. TermTokens(tokens, D) /\ TermTokens(right, D) /\ P \in Seq(Seq(D))
  BY <1>1, TermsOfTokens DEF D
<1>3. 0 \in S
  <2>1. Grouping(right)[0] = <<<<>>>>
    BY <1>1, <1>2, GroupingDef
  <2>2. m + 0 = m /\ 0 \in 0 .. Len(right)
    BY <1>1
  <2>3. Grouping(tokens)[m + 0] = Onto(P, Grouping(right)[0])
    BY <2>1, <2>2, Zenon
  <2> QED BY <2>2, <2>3, Zenon
<1>4. ASSUME NEW n \in Nat, n < Len(right), n \in S PROVE n + 1 \in S
  <2>1. /\ n + 1 \in 1 .. Len(right) /\ n \in 0 .. Len(right) /\ n + 1 \in 0 .. Len(right) /\ (n + 1) - 1 = n
        /\ m + (n + 1) \in 1 .. Len(tokens) /\ (m + (n + 1)) - 1 = m + n
    <3> HIDE DEF S
    <3>1. Len(tokens) \in Nat /\ m <= Len(tokens)
      BY WholeOfSeq
    <3> QED BY <1>1, <1>4, <3>1
  <2>2. Grouping(tokens)[m + (n + 1)] = AddToken(Grouping(tokens)[m + n], tokens[m + (n + 1)])
    BY <1>2, <2>1, GroupingDef
  <2>3. Grouping(right)[n + 1] = AddToken(Grouping(right)[n], right[n + 1]) /\ Grouping(right)[n] \in Parts(D)
    BY <1>1, <1>2, <2>1, GroupingDef
  <2>4. /\ tokens[m + (n + 1)] = right[n + 1]
        /\ right[n + 1] = BarToken \/ ParseTerm(right[n + 1]) \in D
    BY <1>1, <1>2, <2>1 DEF TermTokens
  <2>5. Grouping(tokens)[m + n] = Onto(P, Grouping(right)[n])
    BY <1>4
  <2>6. Grouping(tokens)[m + (n + 1)] = Onto(P, Grouping(right)[n + 1])
    <3> DEFINE g == Grouping(right)[n]
               token == right[n + 1]
    <3>1. AddToken(Onto(P, g), token) = Onto(P, AddToken(g, token))
      <4>1. g \in Parts(D) /\ (token = BarToken \/ ParseTerm(token) \in D)
        BY <2>3, <2>4
      <4> HIDE DEF g, token
      <4> QED BY <1>2, <4>1, AddTokenOnto
    <3> QED BY <2>2, <2>3, <2>4, <2>5, <3>1
  <2> QED BY <2>1, <2>6
<1> HIDE DEF S
<1>5. \A n \in 0 .. Len(right) : n \in S
  BY <1>1, <1>3, <1>4, Induction
<1> QED BY <1>5 DEF S, right

\* A bar between tokens makes the groups of both sides.
LEMMA GroupsCut ==
    ASSUME NEW K, NEW tokens \in Seq(K), NEW m \in 1 .. Len(tokens), tokens[m] = BarToken
    PROVE  Groups(tokens) = Onto(Groups(SubSeq(tokens, 1, m - 1)), Groups(SubSeq(tokens, m + 1, Len(tokens))))
<1> DEFINE left == SubSeq(tokens, 1, m - 1)
           right == SubSeq(tokens, m + 1, Len(tokens))
           D == TermsOf(K)
           L == Grouping(tokens)[m - 1]
           M == Grouping(tokens)[m]
           R == Grouping(right)[Len(right)]
           E == Grouping(tokens)[Len(tokens)]
<1>1. /\ left \in Seq(K) /\ Len(left) = m - 1 /\ right \in Seq(K) /\ Len(right) = Len(tokens) - m
  BY SplitAt
<1>2. /\ m - 1 \in 0 .. Len(tokens) /\ m - 1 \in 0 .. m - 1 /\ m \in 0 .. Len(tokens)
  BY WholeOfSeq
<1>3. L = Grouping(left)[m - 1]
  BY <1>2, GroupingPrefix
<1>4. L \in Parts(D) /\ Closed(L) = Groups(left)
  <2> HIDE DEF left, L, D
  <2> QED BY <1>1, <1>3, GroupsAre DEF D
<1>5. M = AddToken(L, tokens[m])
  BY TermsOfTokens, GroupingDef
<1>6. Closed(L) \in Seq(Seq(D)) /\ M = Onto(Closed(L), <<<<>>>>)
  <2> HIDE DEF L, D, M
  <2> QED BY <1>4, <1>5, AddBar, ClosedType
<1>7. \A n \in 0 .. Len(right) : Grouping(tokens)[m + n] = Onto(Closed(L), Grouping(right)[n])
  <2> HIDE DEF L
  <2> QED BY <1>2, <1>6, GroupingSuffix
<1> HIDE DEF left, right, L, M, D
<1>8. Len(right) \in 0 .. Len(right) /\ m + Len(right) = Len(tokens)
  BY <1>1, WholeOfSeq
<1>9. E = Onto(Closed(L), R)
  BY <1>7, <1>8
<1>10. R \in Parts(D) /\ Closed(R) = Groups(right) /\ Groups(tokens) = Closed(E)
  BY <1>1, GroupsAre DEF D
<1> HIDE DEF R, E
<1>11. Groups(tokens) = Onto(Closed(L), Closed(R))
  BY <1>6, <1>9, <1>10, ClosedOnto
<1> QED BY <1>4, <1>10, <1>11 DEF left, right

CutAround(S, whole, left, x, right) ==
    /\ whole \in Seq(S) /\ Len(left) + 1 \in 1 .. Len(whole)
    /\ whole[Len(left) + 1] = x
    /\ SubSeq(whole, 1, (Len(left) + 1) - 1) = left
    /\ SubSeq(whole, (Len(left) + 1) + 1, Len(whole)) = right

LEMMA Pieces ==
    ASSUME NEW S, NEW a \in Seq(S), NEW b \in Seq(S), NEW x \in S
    PROVE  CutAround(S, Onto(Onto(a, <<x>>), b), a, x, b)
<1> DEFINE ax == a \o <<x>>
           whole == ax \o b
           m == Len(a) + 1
<1>1. <<x>> \in Seq(S) /\ Len(<<x>>) = 1 /\ Len(a) \in Nat /\ Len(b) \in Nat
  OBVIOUS
<1>2. /\ ax \in Seq(S) /\ Len(ax) = Len(a) + Len(<<x>>)
      /\ \A i \in 1 .. Len(a) : ax[i] = a[i]
      /\ \A i \in Len(a) + 1 .. Len(a) + Len(<<x>>) : ax[i] = <<x>>[i - Len(a)]
  BY <1>1, ConcatProperties
<1>3. Len(ax) = m /\ ax[m] = x
  <2> HIDE DEF ax
  <2>1. m \in Len(a) + 1 .. Len(a) + Len(<<x>>) /\ m - Len(a) = 1
    BY <1>1
  <2>2. ax[m] = <<x>>[1]
    BY <1>2, <2>1
  <2> QED BY <1>1, <1>2, <2>2
<1> HIDE DEF ax
<1>4. /\ whole \in Seq(S) /\ Len(whole) = Len(ax) + Len(b)
      /\ \A i \in 1 .. Len(ax) : whole[i] = ax[i]
      /\ \A i \in Len(ax) + 1 .. Len(ax) + Len(b) : whole[i] = b[i - Len(ax)]
  BY <1>2, ConcatProperties
<1> HIDE DEF whole
<1>5. m \in 1 .. Len(whole) /\ m \in 1 .. Len(ax) /\ m - 1 = Len(a) /\ m \in 0 .. Len(whole)
  BY <1>1, <1>3, <1>4
<1>6. whole[m] = x
  BY <1>3, <1>4, <1>5
<1>7. SubSeq(whole, 1, Len(a)) = a
  <2> DEFINE l == SubSeq(whole, 1, Len(a))
  <2>1. Len(a) <= Len(whole)
    BY <1>1, <1>3, <1>4
  <2>2. l \in Seq(S) /\ Len(l) = Len(a)
    BY <1>1, <1>4, <2>1
  <2>3. \A i \in 1 .. Len(a) : l[i] = whole[i]
    BY <1>1, <1>4, <2>1
  <2> HIDE DEF l
  <2>4. \A i \in 1 .. Len(a) : i \in 1 .. Len(ax)
    BY <1>1, <1>3
  <2>5. \A i \in 1 .. Len(l) : l[i] = a[i]
    BY <1>2, <1>4, <2>2, <2>3, <2>4
  <2>6. l = a
    BY <2>2, <2>5, SeqEqual
  <2> QED BY <2>6 DEF l
<1>8. SubSeq(whole, m + 1, Len(whole)) = b
  <2> DEFINE r == SubSeq(whole, m + 1, Len(whole))
  <2>1. r \in Seq(S) /\ Len(r) = Len(whole) - m /\ \A n \in 1 .. Len(r) : r[n] = whole[m + n]
    <3> HIDE DEF m
    <3> QED BY <1>4, <1>5, RestOfSeq
  <2> HIDE DEF r
  <2>2. Len(r) = Len(b)
    BY <1>1, <1>3, <1>4, <2>1
  <2>3. \A n \in 1 .. Len(b) : m + n \in Len(ax) + 1 .. Len(ax) + Len(b) /\ (m + n) - Len(ax) = n
    BY <1>1, <1>3
  <2> HIDE DEF m
  <2>4. \A n \in 1 .. Len(b) : whole[m + n] = b[n]
    BY <1>4, <2>3
  <2>5. r = b
    BY <2>1, <2>2, <2>4, SeqEqual
  <2> QED BY <2>5 DEF r
<1>9. whole = Onto(Onto(a, <<x>>), b)
  BY Zenon DEF whole, ax, Onto
<1> HIDE DEF m
<1>10. /\ whole \in Seq(S) /\ m \in 1 .. Len(whole) /\ whole[m] = x
       /\ SubSeq(whole, 1, m - 1) = a /\ SubSeq(whole, m + 1, Len(whole)) = b
  BY <1>4, <1>5, <1>6, <1>7, <1>8
<1> QED BY <1>9, <1>10, Zenon DEF m, CutAround

\* The groups of a text cut at a bar are those of the one side and of the other.
LEMMA GroupsOfBar ==
    ASSUME NEW C, NEW raw \in Seq(C), NEW i \in 1 .. Len(raw), CutsAt(raw, i), raw[i] = "|"
    PROVE  Groups(Tokenize(raw)) = Onto(Groups(Tokenize(Before(raw, i))), Groups(Tokenize(After(raw, i))))
<1> DEFINE K == Seq(C)
           a == Tokenize(Before(raw, i))
           b == Tokenize(After(raw, i))
           x == <<raw[i]>>
           t == Tokenize(raw)
           m == Len(a) + 1
<1>1. a \in Seq(K) /\ b \in Seq(K) /\ t = Onto(Onto(a, Bar(raw[i])), b)
  BY TokenizeCut
<1>2. x \in K /\ x = BarToken /\ Bar(raw[i]) = <<x>>
  <2>1. x \in K
    BY SplitAt
  <2>2. x = BarToken
    BY DEF BarToken
  <2>3. Bar(raw[i]) = <<<<raw[i]>>>>
    BY DEF Bar
  <2> QED BY <2>1, <2>2, <2>3
<1>3. t = Onto(Onto(a, <<x>>), b)
  BY <1>1, <1>2, Zenon
<1> HIDE DEF K, a, b, t, x
<1>4. t \in Seq(K) /\ m \in 1 .. Len(t) /\ t[m] = x /\ SubSeq(t, 1, m - 1) = a /\ SubSeq(t, m + 1, Len(t)) = b
  <2>1. CutAround(K, t, a, x, b)
    BY <1>1, <1>2, <1>3, Pieces
  <2> QED BY <2>1, Zenon DEF CutAround
<1>5. Groups(t) = Onto(Groups(SubSeq(t, 1, m - 1)), Groups(SubSeq(t, m + 1, Len(t))))
  <2> HIDE DEF m
  <2> QED BY <1>2, <1>4, GroupsCut
<1> QED BY <1>4, <1>5, Zenon DEF a, b, t

-----------------------------------------------------------------------------
(* The rows of a query *)

Candidates ==
    {e \in Indexed : /\ MatchesCategory(ResultCategory[CategoryIndex(category)], e)
                     /\ \A folder \in ExcludeFolders : ~IsUnderFolder(e.path, folder)}

TermHolds(term, e) == MatchesTerm(term, {}, e) = ~term.negate

GroupsMatch(groups, e) ==
    groups = <<>> \/ \E g \in ToSet(groups) : \A term \in ToSet(g) : TermHolds(term, e)

LEMMA NoToggles ==
    ASSUME NEW C, NEW raw \in Seq(C), ~Toggled(raw)
    PROVE  NoToggle(Tokenize(raw))
<1> DEFINE T == ToSet(raw)
<1>1. raw \in Seq(T)
  BY OwnCharacters
<1>2. \A c \in T : c \notin OptionWords \cup DOMAIN ResetWords
  BY DEF Toggled
<1> HIDE DEF T
<1>3. Tokenize(raw) \in Seq(Seq(T))
  BY <1>1, TokenizeDef
<1> DEFINE t == Tokenize(raw)
<1>4. ASSUME NEW k \in 1 .. Len(t), Len(t[k]) = 1 PROVE t[k][1] \in T
  <2> HIDE DEF t
  <2>1. t \in Seq(Seq(T))
    BY <1>3 DEF t
  <2>2. t[k] \in Seq(T)
    BY <2>1
  <2>3. 1 \in 1 .. Len(t[k])
    BY <1>4
  <2> QED BY <2>2, <2>3, ElementOfSeq
<1> HIDE DEF t
<1>5. NoToggle(t)
  BY <1>2, <1>4 DEF NoToggle, IsToggle
<1> QED BY <1>5 DEF t

LEMMA ParsePlain ==
    ASSUME NEW C, NEW raw \in Seq(C), NoToggle(Tokenize(raw))
    PROVE  ParseQuery(raw).options = {} /\ ParseQuery(raw).groups = Groups(Tokenize(raw))
<1> DEFINE t == Tokenize(raw)
           sorted == Sorting(t)[Len(t)]
           pattern == [negate |-> FALSE, kind |-> "text", text |-> Joined(sorted.remaining),
                       value |-> Default]
           last == IF "regex:" \in sorted.options THEN <<<<pattern>>>> ELSE Groups(sorted.remaining)
<1>1. t \in Seq(Seq(C)) /\ NoToggle(t)
  BY TokenizeDef
<1>2. sorted.options = {} /\ sorted.remaining = t
  <2> HIDE DEF t
  <2> QED BY <1>1, SortingPlain
<1>3. ParseQuery(raw) = [options |-> sorted.options, groups |-> last]
  BY DEF ParseQuery
<1> HIDE DEF sorted, pattern, t
<1>4. last = Groups(t)
  BY <1>2
<1> HIDE DEF last
<1> QED BY <1>2, <1>3, <1>4 DEF t

LEMMA TokenRows ==
    ASSUME NEW C, NEW raw \in Seq(C), NoToggle(Tokenize(raw))
    PROVE  Rows(raw) = {e \in Candidates : GroupsMatch(Groups(Tokenize(raw)), e)}
<1> DEFINE q == ParseQuery(raw)
           groups == Groups(Tokenize(raw))
<1>1. q.options = {} /\ q.groups = groups
  BY ParsePlain
<1>2. Rows(raw) = {e \in Candidates : q.groups = <<>> \/ MatchesQuery(q, e)}
  BY DEF Rows, Candidates
<1> HIDE DEF q, groups
<1>3. \A e : (q.groups = <<>> \/ MatchesQuery(q, e)) <=> GroupsMatch(groups, e)
  BY <1>1 DEF MatchesQuery, GroupsMatch, TermHolds
<1> QED BY <1>2, <1>3 DEF groups

LEMMA RowsPlain ==
    ASSUME NEW C, NEW raw \in Seq(C), ~Toggled(raw)
    PROVE  Rows(raw) = {e \in Candidates : GroupsMatch(Groups(Tokenize(raw)), e)}
BY NoToggles, TokenRows

LEMMA SidesToggle ==
    ASSUME NEW C, NEW raw \in Seq(C), ~Toggled(raw), NEW i \in 1 .. Len(raw)
    PROVE  /\ Before(raw, i) \in Seq(C) /\ After(raw, i) \in Seq(C)
           /\ ToSet(Before(raw, i)) \subseteq ToSet(raw) /\ ToSet(After(raw, i)) \subseteq ToSet(raw)
           /\ ~Toggled(Before(raw, i)) /\ ~Toggled(After(raw, i))
<1> DEFINE T == ToSet(raw)
           l == SubSeq(raw, 1, i - 1)
           r == SubSeq(raw, i + 1, Len(raw))
<1>1. raw \in Seq(T)
  BY OwnCharacters
<1>2. l \in Seq(C) /\ r \in Seq(C)
  BY SplitAt
<1>3. l \in Seq(T) /\ r \in Seq(T)
  <2> HIDE DEF T
  <2> QED BY <1>1, SplitAt
<1> HIDE DEF l, r
<1>4. ToSet(l) \subseteq T /\ ToSet(r) \subseteq T
  <2> HIDE DEF T
  <2> QED BY <1>3, OwnCharacters
<1>5. ~Toggled(l) /\ ~Toggled(r)
  BY <1>4 DEF Toggled
<1> QED BY <1>2, <1>4, <1>5 DEF l, r, Before, After

LEMMA ToSetIs ==
    ASSUME NEW S, NEW a \in Seq(S)
    PROVE  ToSet(a) = {a[i] : i \in 1 .. Len(a)}
<1>1. DOMAIN a = 1 .. Len(a)
  OBVIOUS
<1> QED BY <1>1, Zenon DEF ToSet

LEMMA OntoSet ==
    ASSUME NEW S, NEW a \in Seq(S), NEW b \in Seq(S)
    PROVE  ToSet(Onto(a, b)) = ToSet(a) \cup ToSet(b) /\ (Onto(a, b) = <<>> <=> a = <<>> /\ b = <<>>)
<1> DEFINE h == a \o b
<1>1. /\ h \in Seq(S) /\ Len(h) = Len(a) + Len(b)
      /\ \A i \in 1 .. Len(a) : h[i] = a[i]
      /\ \A i \in Len(a) + 1 .. Len(a) + Len(b) : h[i] = b[i - Len(a)]
  BY ConcatProperties
<1> HIDE DEF h
<1>2. Len(a) \in Nat /\ Len(b) \in Nat
  OBVIOUS
<1>3. ToSet(h) = {h[i] : i \in 1 .. Len(h)} /\ ToSet(a) = {a[i] : i \in 1 .. Len(a)} /\ ToSet(b) = {b[i] : i \in 1 .. Len(b)}
  BY <1>1, ToSetIs
<1>4. ASSUME NEW i \in 1 .. Len(h) PROVE h[i] \in ToSet(a) \cup ToSet(b)
  <2>1. CASE i <= Len(a)
    <3>1. i \in 1 .. Len(a)
      BY <1>1, <1>2, <2>1
    <3> QED BY <1>1, <1>3, <3>1
  <2>2. CASE i > Len(a)
    <3>1. i \in Len(a) + 1 .. Len(a) + Len(b) /\ i - Len(a) \in 1 .. Len(b)
      BY <1>1, <1>2, <2>2
    <3> QED BY <1>1, <1>3, <3>1
  <2>3. i <= Len(a) \/ i > Len(a)
    BY <1>2
  <2> QED BY <2>1, <2>2, <2>3, Zenon
<1>5. ASSUME NEW i \in 1 .. Len(a) PROVE a[i] \in ToSet(h)
  <2>1. i \in 1 .. Len(h)
    BY <1>1, <1>2
  <2> QED BY <1>1, <1>3, <2>1
<1>6. ASSUME NEW i \in 1 .. Len(b) PROVE b[i] \in ToSet(h)
  <2>1. Len(a) + i \in 1 .. Len(h) /\ Len(a) + i \in Len(a) + 1 .. Len(a) + Len(b) /\ (Len(a) + i) - Len(a) = i
    BY <1>1, <1>2
  <2> QED BY <1>1, <1>3, <2>1
<1>7. ToSet(h) = ToSet(a) \cup ToSet(b)
  <2> HIDE DEF h
  <2>1. \A x \in ToSet(h) : x \in ToSet(a) \cup ToSet(b)
    BY <1>3, <1>4
  <2>2. \A x \in ToSet(a) : x \in ToSet(h)
    BY <1>3, <1>5
  <2>3. \A x \in ToSet(b) : x \in ToSet(h)
    BY <1>3, <1>6
  <2> QED BY <2>1, <2>2, <2>3
<1>8. h = <<>> <=> a = <<>> /\ b = <<>>
  <2>1. h = <<>> <=> Len(h) = 0
    BY <1>1, EmptySeq
  <2>2. (a = <<>> <=> Len(a) = 0) /\ (b = <<>> <=> Len(b) = 0)
    BY EmptySeq
  <2> QED BY <1>1, <1>2, <2>1, <2>2
<1> QED BY <1>7, <1>8, Zenon DEF Onto, h

LEMMA BarRows ==
    ASSUME NEW C, NEW raw \in Seq(C), ~Toggled(raw), NEW i \in 1 .. Len(raw),
           raw[i] = "|", Balanced(Before(raw, i)),
           ParseQuery(Before(raw, i)).groups # <<>>, ParseQuery(After(raw, i)).groups # <<>>
    PROVE  Rows(raw) = Rows(Before(raw, i)) \cup Rows(After(raw, i))
<1> DEFINE l == Before(raw, i)
           r == After(raw, i)
           GL == Groups(Tokenize(l))
           GR == Groups(Tokenize(r))
           G == Groups(Tokenize(raw))
           D == TermsOf(Seq(C))
<1>1. l \in Seq(C) /\ r \in Seq(C) /\ ~Toggled(l) /\ ~Toggled(r)
  BY SidesToggle
<1>2. CutsAt(raw, i)
  BY OutsideQuotes DEF CutsAt
<1>3. G = Onto(GL, GR)
  BY <1>2, GroupsOfBar
<1>4. ParseQuery(l).groups # <<>> /\ ParseQuery(r).groups # <<>>
  OBVIOUS
<1> HIDE DEF l, r
<1>5. GL \in Seq(Seq(D)) /\ GR \in Seq(Seq(D))
  <2>1. Tokenize(l) \in Seq(Seq(C)) /\ Tokenize(r) \in Seq(Seq(C))
    BY <1>1, TokenizeDef
  <2> QED BY <2>1, GroupsAre
<1>6. GL # <<>> /\ GR # <<>>
  BY <1>1, <1>4, NoToggles, ParsePlain
<1>7. /\ Rows(raw) = {e \in Candidates : GroupsMatch(G, e)}
      /\ Rows(l) = {e \in Candidates : GroupsMatch(GL, e)}
      /\ Rows(r) = {e \in Candidates : GroupsMatch(GR, e)}
  BY <1>1, RowsPlain
<1> HIDE DEF GL, GR, G, D
<1>8. ToSet(G) = ToSet(GL) \cup ToSet(GR) /\ G # <<>>
  BY <1>3, <1>5, <1>6, OntoSet
<1>9. \A e : GroupsMatch(G, e) <=> GroupsMatch(GL, e) \/ GroupsMatch(GR, e)
  BY <1>6, <1>8 DEF GroupsMatch
<1>10. Rows(raw) = Rows(l) \cup Rows(r)
  BY <1>7, <1>9
<1> QED BY <1>10 DEF l, r

NoBar(tokens) == \A k \in 1 .. Len(tokens) : tokens[k] # BarToken

TermsUpTo(tokens, n) == {ParseTerm(tokens[k]) : k \in 1 .. n}

LEMMA AppendSet ==
    ASSUME NEW S, NEW s \in Seq(S), NEW x \in S
    PROVE  Append(s, x) \in Seq(S) /\ ToSet(Append(s, x)) = ToSet(s) \cup {x}
<1> DEFINE a == Append(s, x)
<1>1. /\ a \in Seq(S) /\ Len(a) = Len(s) + 1 /\ Len(s) \in Nat
      /\ \A i \in 1 .. Len(s) : a[i] = s[i]
      /\ a[Len(s) + 1] = x
  BY AppendProperties
<1> HIDE DEF a
<1>2. ToSet(a) = {a[i] : i \in 1 .. Len(a)} /\ ToSet(s) = {s[i] : i \in 1 .. Len(s)}
  BY <1>1, ToSetIs
<1>3. ASSUME NEW y \in ToSet(a) PROVE y \in ToSet(s) \cup {x}
  <2>1. PICK i \in 1 .. Len(a) : y = a[i]
    BY <1>2
  <2>2. i \in 1 .. Len(s) \/ i = Len(s) + 1
    BY <1>1
  <2> QED BY <1>1, <1>2, <2>1, <2>2
<1>4. ASSUME NEW y \in ToSet(s) PROVE y \in ToSet(a)
  <2>1. PICK i \in 1 .. Len(s) : y = s[i]
    BY <1>2
  <2>2. i \in 1 .. Len(a)
    BY <1>1
  <2> QED BY <1>1, <1>2, <2>1, <2>2
<1>5. x \in ToSet(a)
  <2>1. Len(s) + 1 \in 1 .. Len(a)
    BY <1>1
  <2> QED BY <1>1, <1>2, <2>1
<1>6. ToSet(a) = ToSet(s) \cup {x}
  BY <1>3, <1>4, <1>5
<1> QED BY <1>1, <1>6 DEF a

LEMMA ToSetEmpty ==
    ASSUME NEW S, NEW s \in Seq(S)
    PROVE  ToSet(s) = {} <=> s = <<>>
<1>1. ToSet(s) = {s[i] : i \in 1 .. Len(s)} /\ Len(s) \in Nat
  BY ToSetIs
<1>2. s = <<>> <=> Len(s) = 0
  BY EmptySeq
<1> HIDE DEF ToSet
<1>3. Len(s) # 0 => ToSet(s) # {}
  <2>1. Len(s) # 0 => 1 \in 1 .. Len(s)
    BY <1>1
  <2> QED BY <1>1, <2>1
<1>4. Len(s) = 0 => ToSet(s) = {}
  BY <1>1
<1> QED BY <1>2, <1>3, <1>4

\* A group of one more term.
LEMMA OneGroup ==
    ASSUME NEW D, NEW g \in Parts(D), Len(g) = 1, NEW token, token # BarToken, ParseTerm(token) \in D
    PROVE  /\ Len(AddToken(g, token)) = 1
           /\ ToSet(AddToken(g, token)[1]) = ToSet(g[1]) \cup {ParseTerm(token)}
<1> DEFINE x == ParseTerm(token)
           T == Seq(D)
           last == Append(g[1], x)
           h == [g EXCEPT ![1] = last]
<1>1. g \in Seq(T) /\ g[1] \in T
  BY PartsType
<1>2. last \in T /\ ToSet(last) = ToSet(g[1]) \cup {x}
  <2> HIDE DEF x
  <2>1. x \in D
    BY DEF x
  <2> QED BY <1>1, <2>1, AppendSet
<1>3. AddToken(g, token) = h
  <2>1. AddToken(g, token) = [g EXCEPT ![Len(g)] = Append(@, x)]
    BY Zenon DEF AddToken, BarToken
  <2> HIDE DEF x
  <2> QED BY <2>1
<1> HIDE DEF T, last
<1>4. h \in Seq(T) /\ Len(h) = Len(g) /\ h[1] = last
  <2>1. 1 \in 1 .. Len(g)
    OBVIOUS
  <2> HIDE DEF x
  <2>2. /\ h \in Seq(T) /\ Len(h) = Len(g)
        /\ \A j \in 1 .. Len(g) : h[j] = IF j = 1 THEN last ELSE g[j]
    <3>1. g \in Seq(T) /\ last \in T
      BY <1>1, <1>2
    <3>2. PICK i \in 1 .. Len(g) : i = 1
      BY <2>1
    <3> DEFINE f == [g EXCEPT ![i] = last]
    <3>3. f \in Seq(T) /\ Len(f) = Len(g) /\ \A j \in 1 .. Len(g) : f[j] = IF j = i THEN last ELSE g[j]
      BY <3>1, <3>2, ExceptSeq
    <3>4. h = f
      BY <3>2, Zenon
    <3> HIDE DEF f, h
    <3> QED BY <3>2, <3>3, <3>4
  <2> HIDE DEF h
  <2> QED BY <2>1, <2>2
<1> QED BY <1>2, <1>3, <1>4

LEMMA GroupingPlain ==
    ASSUME NEW K, NEW tokens \in Seq(K), NoBar(tokens)
    PROVE  \A n \in 0 .. Len(tokens) :
               /\ Len(Grouping(tokens)[n]) = 1
               /\ ToSet(Grouping(tokens)[n][1]) = TermsUpTo(tokens, n)
<1> DEFINE g(n) == Grouping(tokens)[n]
           One(n) == Len(g(n)) = 1 /\ ToSet(g(n)[1]) = TermsUpTo(tokens, n)
           S == {n \in 0 .. Len(tokens) : One(n)}
           D == TermsOf(K)
<1>0. TermTokens(tokens, D) /\ Len(tokens) \in Nat
  BY TermsOfTokens, WholeOfSeq
<1> HIDE DEF D
<1>1. 0 \in S
  <2>1. g(0) = <<<<>>>>
    BY <1>0, GroupingDef
  <2> HIDE DEF g
  <2>2. Len(g(0)) = 1 /\ g(0)[1] = <<>>
    BY <2>1
  <2>3. ToSet(<<>>) = {}
    BY EmptySeq DEF ToSet
  <2>4. TermsUpTo(tokens, 0) = {} /\ 0 \in 0 .. Len(tokens)
    BY <1>0 DEF TermsUpTo
  <2> QED BY <2>2, <2>3, <2>4
<1>2. ASSUME NEW n \in Nat, n < Len(tokens), n \in S PROVE n + 1 \in S
  <2> DEFINE token == tokens[n + 1]
  <2>1. n + 1 \in 1 .. Len(tokens) /\ (n + 1) - 1 = n /\ n + 1 \in 0 .. Len(tokens) /\ n \in 0 .. Len(tokens)
    <3> HIDE DEF S
    <3> QED BY <1>0, <1>2
  <2>2. g(n + 1) = AddToken(g(n), token) /\ g(n) \in Parts(D)
    BY <1>0, <2>1, GroupingDef
  <2>3. token # BarToken /\ ParseTerm(token) \in D
    BY <1>0, <2>1 DEF NoBar, TermTokens
  <2>4. Len(g(n)) = 1 /\ ToSet(g(n)[1]) = TermsUpTo(tokens, n)
    BY <1>2
  <2>5. Len(g(n + 1)) = 1 /\ ToSet(g(n + 1)[1]) = TermsUpTo(tokens, n) \cup {ParseTerm(token)}
    <3> HIDE DEF g, token
    <3> QED BY <2>2, <2>3, <2>4, OneGroup
  <2>6. TermsUpTo(tokens, n + 1) = TermsUpTo(tokens, n) \cup {ParseTerm(token)}
    <3>1. 1 .. n + 1 = (1 .. n) \cup {n + 1}
      OBVIOUS
    <3> HIDE DEF S
    <3> QED BY <3>1 DEF TermsUpTo
  <2> HIDE DEF g
  <2>7. One(n + 1)
    BY <2>5, <2>6
  <2> QED BY <2>1, <2>7
<1> HIDE DEF S
<1>3. \A n \in 0 .. Len(tokens) : n \in S
  BY <1>0, <1>1, <1>2, Induction
<1> QED BY <1>3 DEF S

\* Without bars an entry has to agree with every term.
LEMMA NoBarMatches ==
    ASSUME NEW K, NEW tokens \in Seq(K), NoBar(tokens), NEW e
    PROVE  GroupsMatch(Groups(tokens), e) <=> \A k \in 1 .. Len(tokens) : TermHolds(ParseTerm(tokens[k]), e)
<1> DEFINE g == Grouping(tokens)[Len(tokens)]
           D == TermsOf(K)
<1>1. Len(tokens) \in Nat /\ Len(tokens) \in 0 .. Len(tokens)
  BY WholeOfSeq
<1>2. g \in Parts(D) /\ Groups(tokens) = Closed(g)
  BY GroupsAre
<1>3. Len(g) = 1 /\ ToSet(g[1]) = TermsUpTo(tokens, Len(tokens))
  BY <1>1, GroupingPlain
<1> HIDE DEF g, D
<1>4. g \in Seq(Seq(D)) /\ Last(g) = g[1] /\ g[1] \in Seq(D) /\ Front(g) = SubSeq(g, 1, Len(g) - 1)
  BY <1>2, <1>3, PartsType
<1>5. CASE Len(tokens) = 0
  <2>1. TermsUpTo(tokens, Len(tokens)) = {}
    BY <1>5 DEF TermsUpTo
  <2>2. g[1] = <<>>
    BY <1>3, <1>4, <2>1, ToSetEmpty
  <2>3. Front(g) = <<>>
    BY <1>3, <1>4
  <2>4. Groups(tokens) = <<>>
    BY <1>2, <1>4, <2>2, <2>3, Zenon DEF Closed
  <2> QED BY <1>5, <2>4 DEF GroupsMatch
<1>6. CASE Len(tokens) # 0
  <2>1. TermsUpTo(tokens, Len(tokens)) # {}
    <3>1. 1 \in 1 .. Len(tokens)
      BY <1>1, <1>6
    <3> QED BY <3>1 DEF TermsUpTo
  <2>2. g[1] # <<>>
    BY <1>3, <1>4, <2>1, ToSetEmpty
  <2>3. Groups(tokens) = g
    BY <1>2, <1>4, <2>2, Zenon DEF Closed
  <2>4. ToSet(g) = {g[1]} /\ g # <<>>
    <3> DEFINE T == Seq(D)
    <3>1. g \in Seq(T)
      BY <1>4
    <3> HIDE DEF T
    <3>2. ToSet(g) = {g[i] : i \in 1 .. Len(g)}
      BY <3>1, ToSetIs
    <3>3. 1 .. Len(g) = {1}
      BY <1>3
    <3>4. g # <<>>
      BY <1>2 DEF Parts
    <3> QED BY <3>2, <3>3, <3>4
  <2>5. GroupsMatch(Groups(tokens), e) <=> \A term \in TermsUpTo(tokens, Len(tokens)) : TermHolds(term, e)
    BY <1>3, <2>3, <2>4 DEF GroupsMatch
  <2> QED BY <2>5 DEF TermsUpTo
<1> QED BY <1>5, <1>6

LEMMA TokensWithoutBar ==
    ASSUME NEW C, NEW raw \in Seq(C), "|" \notin ToSet(raw)
    PROVE  NoBar(Tokenize(raw))
<1> DEFINE T == ToSet(raw)
           t == Tokenize(raw)
<1>1. raw \in Seq(T)
  BY OwnCharacters
<1>2. "|" \notin T
  OBVIOUS
<1> HIDE DEF T
<1>3. t \in Seq(Seq(T))
  BY <1>1, TokenizeDef
<1> HIDE DEF t
<1>4. ASSUME NEW k \in 1 .. Len(t), t[k] = BarToken PROVE FALSE
  <2>1. t[k] \in Seq(T)
    BY <1>3
  <2>2. Len(t[k]) = 1 /\ t[k][1] = "|"
    BY <1>4 DEF BarToken
  <2>3. t[k][1] \in T
    BY <2>1, <2>2, ElementOfSeq
  <2> QED BY <1>2, <2>2, <2>3
<1> QED BY <1>4 DEF NoBar, t

LEMMA TokensMatch ==
    ASSUME NEW C, NEW raw \in Seq(C), "|" \notin ToSet(raw), NEW e
    PROVE  GroupsMatch(Groups(Tokenize(raw)), e) <=> \A token \in ToSet(Tokenize(raw)) : TermHolds(ParseTerm(token), e)
<1> DEFINE K == Seq(C)
           t == Tokenize(raw)
<1>1. t \in Seq(K) /\ NoBar(t)
  BY TokenizeDef, TokensWithoutBar
<1> HIDE DEF K, t
<1>2. ToSet(t) = {t[k] : k \in 1 .. Len(t)}
  BY <1>1, ToSetIs
<1>3. GroupsMatch(Groups(t), e) <=> \A k \in 1 .. Len(t) : TermHolds(ParseTerm(t[k]), e)
  BY <1>1, NoBarMatches
<1> QED BY <1>2, <1>3 DEF t

LEMMA OntoHas ==
    ASSUME NEW S, NEW a \in Seq(S), NEW b \in Seq(S), NEW x
    PROVE  x \in ToSet(Onto(a, b)) <=> (x \in ToSet(a) \/ x \in ToSet(b))
<1>1. ToSet(Onto(a, b)) = ToSet(a) \cup ToSet(b)
  BY OntoSet
<1> QED BY <1>1

LEMMA SpaceRows ==
    ASSUME NEW C, NEW raw \in Seq(C), ~Toggled(raw), "|" \notin ToSet(raw), NEW i \in 1 .. Len(raw),
           raw[i] = " ", Balanced(Before(raw, i))
    PROVE  Rows(raw) = Rows(Before(raw, i)) \cap Rows(After(raw, i))
<1> DEFINE l == Before(raw, i)
           r == After(raw, i)
           K == Seq(C)
           a == Tokenize(l)
           b == Tokenize(r)
           t == Tokenize(raw)
<1>1. /\ l \in Seq(C) /\ r \in Seq(C) /\ ~Toggled(l) /\ ~Toggled(r)
      /\ "|" \notin ToSet(l) /\ "|" \notin ToSet(r)
  <2> HIDE DEF l, r
  <2>1. /\ l \in Seq(C) /\ r \in Seq(C) /\ ToSet(l) \subseteq ToSet(raw) /\ ToSet(r) \subseteq ToSet(raw)
        /\ ~Toggled(l) /\ ~Toggled(r)
    BY SidesToggle DEF l, r
  <2> QED BY <2>1
<1>2. CutsAt(raw, i)
  BY OutsideQuotes DEF CutsAt
<1>3. a \in Seq(K) /\ b \in Seq(K) /\ t = Onto(Onto(a, Bar(raw[i])), b)
  BY <1>2, TokenizeCut
<1>4. Bar(raw[i]) = <<>>
  BY DEF Bar
<1> HIDE DEF a, b, t, l, r
<1>5. t = Onto(a, b)
  <2>1. Onto(a, <<>>) = a
    BY <1>3, OntoType DEF K
  <2> QED BY <1>3, <1>4, <2>1, Zenon
<1> HIDE DEF K
<1>6. ToSet(t) = ToSet(a) \cup ToSet(b)
  <2>1. a \in Seq(K) /\ b \in Seq(K)
    BY <1>3
  <2>2. \A x : x \in ToSet(Onto(a, b)) <=> (x \in ToSet(a) \/ x \in ToSet(b))
    BY <2>1, OntoHas
  <2> QED BY <1>5, <2>2
<1>7. /\ Rows(raw) = {e \in Candidates : GroupsMatch(Groups(t), e)}
      /\ Rows(l) = {e \in Candidates : GroupsMatch(Groups(a), e)}
      /\ Rows(r) = {e \in Candidates : GroupsMatch(Groups(b), e)}
  BY <1>1, RowsPlain DEF a, b, t
<1>8. \A e : /\ GroupsMatch(Groups(t), e) <=> \A token \in ToSet(t) : TermHolds(ParseTerm(token), e)
             /\ GroupsMatch(Groups(a), e) <=> \A token \in ToSet(a) : TermHolds(ParseTerm(token), e)
             /\ GroupsMatch(Groups(b), e) <=> \A token \in ToSet(b) : TermHolds(ParseTerm(token), e)
  BY <1>1, TokensMatch DEF a, b, t
<1>9. \A e : GroupsMatch(Groups(t), e) <=> GroupsMatch(Groups(a), e) /\ GroupsMatch(Groups(b), e)
  BY <1>6, <1>8
<1> QED BY <1>7, <1>9 DEF l, r

-----------------------------------------------------------------------------
(* One word *)

LEMMA LoneRows ==
    ASSUME NEW C, NEW raw \in Seq(C), IsWord(raw), ~IsToggle(raw)
    PROVE  Rows(raw) = {e \in Candidates : raw = <<>> \/ TermHolds(ParseTerm(raw), e)}
<1> DEFINE t == Tokenize(raw)
<1>1. t = IF raw = <<>> THEN <<>> ELSE <<raw>>
  BY OneToken
<1>2. "|" \notin ToSet(raw)
  <2>1. ToSet(raw) = {raw[k] : k \in 1 .. Len(raw)}
    BY ToSetIs
  <2> QED BY <2>1 DEF IsWord
<1>3. Rows(raw) = {e \in Candidates : GroupsMatch(Groups(t), e)}
  <2>1. NoToggle(Tokenize(raw))
    <3>1. Len(<<raw>>) = 1 /\ <<raw>>[1] = raw /\ Len(<<>>) = 0
      OBVIOUS
    <3>2. \A k \in 1 .. Len(Tokenize(raw)) : Tokenize(raw)[k] = raw
      <4> HIDE DEF t
      <4>1. Tokenize(raw) = <<>> \/ Tokenize(raw) = <<raw>>
        BY <1>1 DEF t
      <4> QED BY <3>1, <4>1
    <3> QED BY <3>2 DEF NoToggle
  <2> QED BY <2>1, TokenRows
<1>4. \A e : GroupsMatch(Groups(t), e) <=> \A token \in ToSet(t) : TermHolds(ParseTerm(token), e)
  BY <1>2, TokensMatch
<1> HIDE DEF t
<1>5. ToSet(t) = IF raw = <<>> THEN {} ELSE {raw}
  <2>1. DOMAIN <<raw>> = {1} /\ <<raw>>[1] = raw /\ DOMAIN <<>> = {}
    OBVIOUS
  <2>2. ToSet(<<raw>>) = {raw} /\ ToSet(<<>>) = {}
    BY <2>1 DEF ToSet
  <2> QED BY <1>1, <2>2, Zenon
<1> QED BY <1>3, <1>4, <1>5

LEMMA WordRows ==
    ASSUME NEW C, NEW raw \in Seq(C), ~Toggled(raw), IsWord(raw)
    PROVE  Rows(raw) = {e \in Candidates : raw = <<>> \/ TermHolds(ParseTerm(raw), e)}
<1>1. ~IsToggle(raw)
  <2>1. Len(raw) = 1 => raw[1] \in ToSet(raw)
    <3>1. ToSet(raw) = {raw[k] : k \in 1 .. Len(raw)}
      BY ToSetIs
    <3>2. Len(raw) = 1 => 1 \in 1 .. Len(raw)
      OBVIOUS
    <3> QED BY <3>1, <3>2
  <2> QED BY <2>1 DEF IsToggle, Toggled
<1> QED BY <1>1, LoneRows

LEMMA AllRows == Rows(<<>>) = Candidates
<1>1. <<>> \in Seq({}) /\ Len(<<>>) = 0
  BY EmptySeq
<1>2. ~Toggled(<<>>) /\ IsWord(<<>>)
  <2>1. ToSet(<<>>) = {}
    BY DEF ToSet
  <2> QED BY <1>1, <2>1 DEF Toggled, IsWord
<1> QED BY <1>1, <1>2, WordRows

-----------------------------------------------------------------------------
(* Terms *)

Operations == {"=", "<", "<=", ">", ">=", ".."}

LEMMA ComparedOperation ==
    ASSUME NEW op \in Operations, NEW value
    PROVE  Compared(op, value).op \in Operations
BY DEF Compared, Default, Operations

LEMMA BetweenOperation ==
    ASSUME NEW lo, NEW hi
    PROVE  Between(lo, hi).op \in Operations
BY DEF Between, Default, Operations

LEMMA SizeOperation ==
    ASSUME NEW t
    PROVE  ParseSizeValue(t).op \in Operations
<1> DEFINE sep == Separator(t)
<1>1. HasOperator(t) => t[1] \in Operations
  BY DEF HasOperator, Operations
<1>2. "=" \in Operations
  BY DEF Operations
<1>3. CASE HasOperator(t)
  <2>1. ParseSizeValue(t) = Compared(t[1], ParseSizeNumber(Tail(t)))
    BY <1>3, Zenon DEF ParseSizeValue
  <2> QED BY <1>1, <1>3, <2>1, ComparedOperation
<1>4. CASE ~HasOperator(t) /\ sep # 0
  <2>1. ParseSizeValue(t) = Between(ParseSizeNumber(Before(t, sep)), ParseSizeNumber(After(t, sep)))
    BY <1>4, Zenon DEF ParseSizeValue
  <2> QED BY <2>1, BetweenOperation
<1>5. CASE ~HasOperator(t) /\ sep = 0 /\ Len(t) = 1 /\ t[1] \in DOMAIN SizeConstant
  <2>1. ParseSizeValue(t) = Between(SizeConstant[t[1]][1], SizeConstant[t[1]][2])
    BY <1>5, Zenon DEF ParseSizeValue
  <2> QED BY <2>1, BetweenOperation
<1>6. CASE ~HasOperator(t) /\ sep = 0 /\ ~(Len(t) = 1 /\ t[1] \in DOMAIN SizeConstant)
  <2>1. ParseSizeValue(t) = Compared("=", ParseSizeNumber(t))
    BY <1>6, Zenon DEF ParseSizeValue
  <2> QED BY <1>2, <2>1, ComparedOperation
<1> QED BY <1>3, <1>4, <1>5, <1>6

LEMMA DateOperation ==
    ASSUME NEW t
    PROVE  ParseDateValue(t).op \in Operations
<1> DEFINE sep == Separator(t)
<1>1. HasOperator(t) => t[1] \in Operations
  BY DEF HasOperator, Operations
<1>3. CASE HasOperator(t)
  <2>1. ParseDateValue(t) =
            Compared(t[1], IF IsDateConstant(Tail(t)) THEN ResolveDateConstant(t[2], now)[1] ELSE AbsoluteDate(Tail(t)))
    BY <1>3, Zenon DEF ParseDateValue
  <2> QED BY <1>1, <1>3, <2>1, ComparedOperation
<1>4. CASE ~HasOperator(t) /\ sep # 0
  <2>1. ParseDateValue(t) = Between(AbsoluteDate(Before(t, sep)), AbsoluteDate(After(t, sep)))
    BY <1>4, Zenon DEF ParseDateValue
  <2> QED BY <2>1, BetweenOperation
<1>5. CASE ~HasOperator(t) /\ sep = 0 /\ IsDateConstant(t)
  <2>1. ParseDateValue(t) = Between(ResolveDateConstant(t[1], now)[1], ResolveDateConstant(t[1], now)[2])
    BY <1>5, Zenon DEF ParseDateValue
  <2> QED BY <2>1, BetweenOperation
<1>6. CASE ~HasOperator(t) /\ sep = 0 /\ ~IsDateConstant(t)
  <2>1. ParseDateValue(t) =
            Between(AbsoluteDate(t), IF AbsoluteDate(t) = Failed THEN Failed ELSE AbsoluteDate(t) + TicksPerDay)
    BY <1>6, Zenon DEF ParseDateValue
  <2> QED BY <2>1, BetweenOperation
<1> QED BY <1>3, <1>4, <1>5, <1>6

LEMMA CompareAnswers ==
    ASSUME NEW v, v.op \in Operations, NEW x
    PROVE  CompareValue(v, x) \in BOOLEAN
<1>1. CASE v.op = "="
  <2>1. CompareValue(v, x) = (x = v.lo)
    BY <1>1, Zenon DEF CompareValue
  <2> QED BY <2>1, Zenon
<1>2. CASE v.op = "<"
  <2>1. CompareValue(v, x) = (x < v.lo)
    BY <1>2, Zenon DEF CompareValue
  <2> QED BY <2>1
<1>3. CASE v.op = "<="
  <2>1. CompareValue(v, x) = (x <= v.lo)
    BY <1>3, Zenon DEF CompareValue
  <2> QED BY <2>1
<1>4. CASE v.op = ">"
  <2>1. CompareValue(v, x) = (x > v.lo)
    BY <1>4, Zenon DEF CompareValue
  <2> QED BY <2>1
<1>5. CASE v.op = ">="
  <2>1. CompareValue(v, x) = (x >= v.lo)
    BY <1>5, Zenon DEF CompareValue
  <2> QED BY <2>1
<1>6. CASE v.op = ".."
  <2>1. CompareValue(v, x) = (x >= v.lo /\ x < v.hi)
    BY <1>6, Zenon DEF CompareValue
  <2> QED BY <2>1, Zenon
<1> QED BY <1>1, <1>2, <1>3, <1>4, <1>5, <1>6 DEF Operations

\* What a term is made of.
LEMMA TermParts ==
    ASSUME NEW negate, NEW body
    PROVE  LET kind == IF \/ Len(body) = 1 /\ body[1] \in AloneWords
                          \/ body # <<>> /\ body[1] \in ValueWords
                       THEN body[1] ELSE "text"
               term == TermOf(negate, body)
           IN  /\ term.negate = negate
               /\ term.kind = kind
               /\ term.text = IF kind = "text" THEN body ELSE Tail(body)
               /\ kind = "size:" => term.value = ParseSizeValue(Tail(body))
               /\ kind \in DOMAIN DateField => term.value = ParseDateValue(Tail(body))
<1> DEFINE kind == IF \/ Len(body) = 1 /\ body[1] \in AloneWords
                      \/ body # <<>> /\ body[1] \in ValueWords
                   THEN body[1] ELSE "text"
           text0 == IF kind = "text" THEN body ELSE Tail(body)
           value == CASE kind = "size:" -> ParseSizeValue(Tail(body))
                      [] kind \in DOMAIN DateField -> ParseDateValue(Tail(body))
                      [] OTHER -> Default
<1>1. TermOf(negate, body) = [negate |-> negate, kind |-> kind, text |-> text0, value |-> value]
  BY DEF TermOf
<1>2. kind = "size:" => value = ParseSizeValue(Tail(body))
  <2>1. "size:" \notin DOMAIN DateField
    BY DEF DateField
  <2> HIDE DEF kind
  <2> QED BY <2>1, Zenon
<1>3. kind \in DOMAIN DateField => value = ParseDateValue(Tail(body))
  <2>1. "size:" \notin DOMAIN DateField
    BY DEF DateField
  <2> HIDE DEF kind
  <2> QED BY <2>1, Zenon
<1> HIDE DEF value
<1>4. /\ TermOf(negate, body).negate = negate /\ TermOf(negate, body).kind = kind
      /\ TermOf(negate, body).text = text0 /\ TermOf(negate, body).value = value
  <2> HIDE DEF kind, text0
  <2> QED BY <1>1
<1> QED BY <1>2, <1>3, <1>4

LEMMA LowerIs ==
    ASSUME NEW C, NEW s \in Seq(C)
    PROVE  /\ DOMAIN ToLower(s) = 1 .. Len(s) /\ Len(ToLower(s)) = Len(s) /\ Len(s) \in Nat
           /\ \A i \in 1 .. Len(s) :
                  ToLower(s)[i] = IF s[i] = "A" THEN "a" ELSE IF s[i] = "B" THEN "b" ELSE s[i]
<1> DEFINE l == ToLower(s)
           Lower(c) == IF c = "A" THEN "a" ELSE IF c = "B" THEN "b" ELSE c
<1>1. DOMAIN s = 1 .. Len(s) /\ Len(s) \in Nat
  OBVIOUS
<1>2. l = [i \in 1 .. Len(s) |-> Lower(s[i])]
  <2>1. \A c : (CASE c = "A" -> "a" [] c = "B" -> "b" [] OTHER -> c) = Lower(c)
    BY Zenon
  <2>2. l = [i \in DOMAIN s |-> CASE s[i] = "A" -> "a" [] s[i] = "B" -> "b" [] OTHER -> s[i]]
    BY DEF ToLower
  <2> HIDE DEF l, Lower
  <2> QED BY <1>1, <2>1, <2>2
<1> HIDE DEF l
<1>3. DOMAIN l = 1 .. Len(s) /\ \A i \in 1 .. Len(s) : l[i] = Lower(s[i])
  BY <1>2
<1>4. Len(l) = Len(s)
  BY <1>1, <1>3
<1> QED BY <1>1, <1>3, <1>4 DEF l

-----------------------------------------------------------------------------
(* What a word matches *)

\* Without options a text is looked for, with a star or a question mark as a pattern.
LEMMA TextPlain ==
    ASSUME NEW h, NEW n
    PROVE  MatchText(h, n, {}) =
               IF {"*", "?"} \cap ToSet(ToLower(n)) # {} THEN WildcardMatch(ToLower(h), ToLower(n))
               ELSE \E i \in Occurrences(ToLower(h), ToLower(n)) : TRUE
<1> DEFINE a == ToLower(h)
           b == ToLower(n)
           wild == {"*", "?"} \cap ToSet(b) # {}
           some == \E i \in Occurrences(a, b) : "ww:" \in {} => WordBounds(a, b, i)
<1>1. "case:" \notin {} /\ "regex:" \notin {} /\ "ww:" \notin {}
  OBVIOUS
<1>2. MatchText(h, n, {}) =
          CASE "regex:" \in {} -> RegexSearch(a, b)
            [] "regex:" \notin {} /\ wild -> WildcardMatch(a, b)
            [] OTHER -> some
  BY <1>1, Zenon DEF MatchText
<1>3. some = \E i \in Occurrences(a, b) : TRUE
  BY <1>1, Zenon
<1> HIDE DEF some, wild, a, b
<1>4. MatchText(h, n, {}) = IF wild THEN WildcardMatch(a, b) ELSE some
  BY <1>1, <1>2, Zenon
<1> QED BY <1>3, <1>4, Zenon DEF wild, a, b

LEMMA LowerKeepsStars ==
    ASSUME NEW C, NEW s \in Seq(C), "*" \notin ToSet(s), NEW i \in 1 .. Len(s)
    PROVE  ToLower(s)[i] # "*"
<1>1. s[i] # "*"
  <2>1. s[i] \in ToSet(s)
    BY OwnCharacters, ElementOfSeq
  <2> QED BY <2>1
<1>2. ToLower(s)[i] = IF s[i] = "A" THEN "a" ELSE IF s[i] = "B" THEN "b" ELSE s[i]
  BY LowerIs
<1> QED BY <1>1, <1>2

LEMMA Names ==
    ASSUME NEW e \in Indexed
    PROVE  e.name \in Seq(STRING) /\ "*" \notin ToSet(e.name) /\ e.path \in Seq(STRING)
BY QueryAssumption, Zenon

\* On a name the backtracking is the declarative reading of the pattern.
LEMMA NameIsGlob ==
    ASSUME NEW e \in Indexed, NEW C, NEW n \in Seq(C)
    PROVE  WildcardMatch(ToLower(e.name), ToLower(n)) = Glob(ToLower(e.name), ToLower(n))
<1> DEFINE h == ToLower(e.name)
           p == ToLower(n)
<1>1. e.name \in Seq(STRING) /\ "*" \notin ToSet(e.name)
  BY Names
<1>2. Len(h) = Len(e.name) /\ Len(h) \in Nat
  BY <1>1, LowerIs
<1>3. \A i \in 1 .. Len(h) : h[i] # "*"
  BY <1>1, <1>2, LowerKeepsStars
<1>4. Len(p) \in Nat /\ DOMAIN p = 1 .. Len(p)
  BY LowerIs
<1> HIDE DEF h, p
<1>5. WildcardMatch(h, p) = Glob(h, p)
  BY <1>2, <1>3, <1>4, WildcardIsGlob
<1> QED BY <1>5 DEF h, p

LEMMA TextAnswers ==
    ASSUME NEW e \in Indexed, NEW C, NEW n \in Seq(C)
    PROVE  MatchText(e.name, n, {}) \in BOOLEAN
<1>1. WildcardMatch(ToLower(e.name), ToLower(n)) \in BOOLEAN
  <2>1. Glob(ToLower(e.name), ToLower(n)) \in BOOLEAN
    BY Zenon DEF Glob
  <2> QED BY <2>1, NameIsGlob
<1> DEFINE w == WildcardMatch(ToLower(e.name), ToLower(n))
           c == {"*", "?"} \cap ToSet(ToLower(n)) # {}
           o == \E i \in Occurrences(ToLower(e.name), ToLower(n)) : TRUE
<1>2. MatchText(e.name, n, {}) = IF c THEN w ELSE o
  BY TextPlain, Zenon
<1>3. o \in BOOLEAN
  BY Zenon
<1> HIDE DEF w, c, o
<1>4. w \in BOOLEAN
  BY <1>1 DEF w
<1> QED BY <1>2, <1>3, <1>4, Zenon


LEMMA MatchAnswers ==
    ASSUME NEW e \in Indexed, NEW C, NEW term,
           term.kind = "size:" \/ term.kind \in DOMAIN DateField => term.value.op \in Operations,
           term.kind = "text" => term.text \in Seq(C)
    PROVE  MatchesTerm(term, {}, e) \in BOOLEAN
<1> DEFINE k == term.kind
           date == DOMAIN DateField
<1>0. "path:" \notin {}
  OBVIOUS
<1>1. date = {"dm:", "dc:", "da:"}
  BY DEF DateField
<1> HIDE DEF date
<1>2. CASE k = "ext:"
  <2>1. MatchesTerm(term, {}, e) = MatchExt(e.name, term.text)
    BY <1>1, <1>2, Zenon DEF MatchesTerm, date
  <2>2. MatchExt(e.name, term.text) \in BOOLEAN
    BY Zenon DEF MatchExt
  <2> QED BY <2>1, <2>2, Zenon
<1>3. CASE k = "folder:"
  <2>1. MatchesTerm(term, {}, e) = ("d" \in e.attributes)
    BY <1>1, <1>3, Zenon DEF MatchesTerm, date
  <2>2. ("d" \in e.attributes) \in BOOLEAN
    OBVIOUS
  <2> QED BY <2>1, <2>2, Zenon
<1>4. CASE k = "file:"
  <2>1. MatchesTerm(term, {}, e) = ("d" \notin e.attributes)
    BY <1>1, <1>4, Zenon DEF MatchesTerm, date
  <2> QED BY <2>1, Zenon
<1>5. CASE k = "attrib:"
  <2>1. MatchesTerm(term, {}, e) = MatchAttrib(e.attributes, term.text)
    BY <1>1, <1>5, Zenon DEF MatchesTerm, date
  <2>2. MatchAttrib(e.attributes, term.text) \in BOOLEAN
    BY Zenon DEF MatchAttrib
  <2> QED BY <2>1, <2>2, Zenon
<1>6. CASE k = "size:"
  <2>1. MatchesTerm(term, {}, e) = CompareValue(term.value, e.size)
    BY <1>1, <1>6, Zenon DEF MatchesTerm, date
  <2>2. CompareValue(term.value, e.size) \in BOOLEAN
    BY <1>6, CompareAnswers
  <2> QED BY <2>1, <2>2, Zenon
<1>7. CASE k \in date
  <2>1. MatchesTerm(term, {}, e) = (e[DateField[k]] # 0 /\ CompareValue(term.value, e[DateField[k]]))
    BY <1>1, <1>7, Zenon DEF MatchesTerm, date
  <2> QED BY <2>1, Zenon
<1>8. CASE k = "text"
  <2>1. MatchesTerm(term, {}, e) = MatchText(e.name, term.text, {})
    BY <1>0, <1>1, <1>8, Zenon DEF MatchesTerm, date
  <2>2. MatchText(e.name, term.text, {}) \in BOOLEAN
    BY <1>8, TextAnswers
  <2> QED BY <2>1, <2>2, Zenon
<1>9. CASE k \notin {"ext:", "folder:", "file:", "attrib:", "size:", "text"} \cup date
  <2>1. MatchesTerm(term, {}, e) = Duplicate(k, e)
    BY <1>9, Zenon DEF MatchesTerm, date
  <2>2. Duplicate(k, e) \in BOOLEAN
    BY Zenon DEF Duplicate
  <2> QED BY <2>1, <2>2, Zenon
<1> QED
  <2>1. \/ k = "ext:" \/ k = "folder:" \/ k = "file:" \/ k = "attrib:" \/ k = "size:" \/ k \in date \/ k = "text"
        \/ k \notin {"ext:", "folder:", "file:", "attrib:", "size:", "text"} \cup date
    OBVIOUS
  <2> QED BY <2>1, <1>2, <1>3, <1>4, <1>5, <1>6, <1>7, <1>8, <1>9, Zenon

\* A term matches an entry or it does not: negation is a complement.
LEMMA TermAnswers ==
    ASSUME NEW e \in Indexed, NEW C, NEW body \in Seq(C), NEW negate
    PROVE  MatchesTerm(TermOf(negate, body), {}, e) \in BOOLEAN
<1> DEFINE term == TermOf(negate, body)
           kind == IF \/ Len(body) = 1 /\ body[1] \in AloneWords
                      \/ body # <<>> /\ body[1] \in ValueWords
                   THEN body[1] ELSE "text"
<1>1. /\ term.kind = kind
      /\ term.text = IF kind = "text" THEN body ELSE Tail(body)
      /\ kind = "size:" => term.value = ParseSizeValue(Tail(body))
      /\ kind \in DOMAIN DateField => term.value = ParseDateValue(Tail(body))
  BY TermParts, ZenonT(120)
<1> HIDE DEF term, kind
<1>2. ParseSizeValue(Tail(body)).op \in Operations /\ ParseDateValue(Tail(body)).op \in Operations
  BY SizeOperation, DateOperation, Zenon
<1>3. term.kind = "size:" \/ term.kind \in DOMAIN DateField => term.value.op \in Operations
  BY <1>1, <1>2, Zenon
<1>4. term.kind = "text" => term.text \in Seq(C)
  BY <1>1, Zenon
<1>5. MatchesTerm(term, {}, e) \in BOOLEAN
  BY <1>3, <1>4, MatchAnswers
<1> QED BY <1>5 DEF term

-----------------------------------------------------------------------------
(* A word, and a word behind an exclamation mark *)

\* The rest of a text behind its first character.
LEMMA TailOfSeq ==
    ASSUME NEW C, NEW raw \in Seq(C), raw # <<>>
    PROVE  /\ Tail(raw) \in Seq(C) /\ Len(Tail(raw)) = Len(raw) - 1 /\ Len(raw) \in Nat \ {0}
           /\ \A k \in 1 .. Len(raw) - 1 : Tail(raw)[k] = raw[k + 1]
OBVIOUS

LEMMA TailIsWord ==
    ASSUME NEW C, NEW raw \in Seq(C), raw # <<>>, IsWord(raw), ~Toggled(raw)
    PROVE  Tail(raw) \in Seq(C) /\ IsWord(Tail(raw)) /\ ~Toggled(Tail(raw))
<1> DEFINE b == Tail(raw)
<1>1. /\ b \in Seq(C) /\ Len(b) = Len(raw) - 1 /\ Len(raw) \in Nat \ {0}
      /\ \A k \in 1 .. Len(raw) - 1 : b[k] = raw[k + 1]
  BY TailOfSeq
<1> HIDE DEF b
<1>2. \A k \in 1 .. Len(b) : k + 1 \in 1 .. Len(raw) /\ b[k] = raw[k + 1]
  BY <1>1
<1>3. IsWord(b)
  BY <1>2 DEF IsWord
<1>4. ToSet(b) \subseteq ToSet(raw)
  <2>1. ToSet(b) = {b[k] : k \in 1 .. Len(b)}
    BY <1>1, ToSetIs
  <2>2. ToSet(raw) = {raw[k] : k \in 1 .. Len(raw)}
    BY ToSetIs
  <2> QED BY <1>2, <2>1, <2>2
<1>5. ~Toggled(b)
  BY <1>4 DEF Toggled
<1> QED BY <1>1, <1>3, <1>5 DEF b

\* Nothing is found everywhere.
LEMMA EmptyTerm ==
    ASSUME NEW e \in Indexed, NEW negate
    PROVE  MatchesTerm(TermOf(negate, <<>>), {}, e) = TRUE
<1>0. PICK n : n = <<>>
  OBVIOUS
<1> DEFINE term == TermOf(negate, n)
           h == ToLower(e.name)
<1>1. n \in Seq({}) /\ Len(n) = 0
  BY <1>0, EmptySeq
<1>2. term.kind = "text" /\ term.text = n
  <2> DEFINE kind == IF \/ Len(n) = 1 /\ n[1] \in AloneWords
                        \/ n # <<>> /\ n[1] \in ValueWords
                     THEN n[1] ELSE "text"
  <2>1. term.kind = kind /\ term.text = IF kind = "text" THEN n ELSE Tail(n)
    BY TermParts, Zenon
  <2>2. kind = "text"
    <3>1. Len(n) # 1
      BY <1>1
    <3> QED BY <1>0, <3>1, Zenon
  <2> HIDE DEF kind, term
  <2> QED BY <2>1, <2>2, Zenon
<1> HIDE DEF term
<1>3. MatchesTerm(term, {}, e) = MatchText(e.name, n, {})
  <2>1. "path:" \notin {} /\ "text" \notin DOMAIN DateField
    BY DEF DateField
  <2> QED BY <1>2, <2>1, Zenon DEF MatchesTerm
<1> DEFINE m == ToLower(n)
<1>4. Len(m) = 0 /\ m = <<>> /\ ToSet(m) = {}
  <2>1. DOMAIN m = 1 .. Len(n) /\ Len(m) = Len(n)
    BY <1>1, LowerIs
  <2>2. m = [i \in DOMAIN n |-> CASE n[i] = "A" -> "a" [] n[i] = "B" -> "b" [] OTHER -> n[i]]
    BY DEF ToLower
  <2>3. DOMAIN m = {}
    BY <1>1, <2>1
  <2> HIDE DEF m
  <2>4. m = <<>>
    <3>1. DOMAIN <<>> = {}
      OBVIOUS
    <3> QED BY <2>2, <2>3, <3>1
  <2>5. ToSet(m) = {}
    BY <2>3 DEF ToSet
  <2> QED BY <1>1, <2>1, <2>4, <2>5
<1>5. e.name \in Seq(STRING)
  BY Names
<1>6. Len(h) \in Nat
  BY <1>5, LowerIs
<1> DEFINE o == \E i \in Occurrences(h, m) : TRUE
           c == {"*", "?"} \cap ToSet(m) # {}
<1>7. MatchText(e.name, n, {}) = IF c THEN WildcardMatch(h, m) ELSE o
  BY TextPlain, Zenon
<1>8. ~c
  <2> HIDE DEF m
  <2> QED BY <1>4
<1>9. o = TRUE
  <2> HIDE DEF h, m
  <2>1. SubSeq(h, 1, 0) = <<>>
    OBVIOUS
  <2>2. 1 \in 1 .. Len(h) - Len(m) + 1 /\ SubSeq(h, 1, 1 + Len(m) - 1) = m
    BY <1>4, <1>6, <2>1
  <2> QED BY <2>2 DEF Occurrences
<1> HIDE DEF o, c
<1>10. MatchesTerm(term, {}, e) = TRUE
  BY <1>3, <1>7, <1>8, <1>9, Zenon
<1> QED BY <1>0, <1>10, Zenon DEF term

\* A term and its negation agree in all but their sign.
LEMMA NegatedTerm ==
    ASSUME NEW e \in Indexed, NEW body
    PROVE  MatchesTerm(TermOf(TRUE, body), {}, e) = MatchesTerm(TermOf(FALSE, body), {}, e)
<1> DEFINE a == TermOf(TRUE, body)
           b == TermOf(FALSE, body)
           kind == IF \/ Len(body) = 1 /\ body[1] \in AloneWords
                      \/ body # <<>> /\ body[1] \in ValueWords
                   THEN body[1] ELSE "text"
           rest == IF kind = "text" THEN body ELSE Tail(body)
           value == CASE kind = "size:" -> ParseSizeValue(Tail(body))
                      [] kind \in DOMAIN DateField -> ParseDateValue(Tail(body))
                      [] OTHER -> Default
<1>1. a.kind = b.kind /\ a.text = b.text /\ a.value = b.value
  <2>1. /\ a = [negate |-> TRUE, kind |-> kind, text |-> rest, value |-> value]
        /\ b = [negate |-> FALSE, kind |-> kind, text |-> rest, value |-> value]
    BY DEF TermOf
  <2> HIDE DEF a, b, kind, rest, value
  <2> QED BY <2>1
<1> HIDE DEF a, b
<1>2. MatchesTerm(a, {}, e) = MatchesTerm(b, {}, e)
  BY <1>1, Zenon DEF MatchesTerm
<1> QED BY <1>2 DEF a, b

\* "NOT" before one word leaves what the word alone does not find.
LEMMA BangRows ==
    ASSUME NEW C, NEW raw \in Seq(C), ~Toggled(raw), IsWord(raw), raw # <<>>,
           raw[1] = "!", ~(Len(raw) > 1 /\ raw[2] = "!")
    PROVE  Rows(raw) = Rows(<<>>) \ Rows(Tail(raw))
<1> DEFINE b == Tail(raw)
           M(e) == MatchesTerm(TermOf(FALSE, b), {}, e)
<1>1. b \in Seq(C) /\ IsWord(b) /\ ~Toggled(b)
  BY TailIsWord
<1>2. b # <<>> => b[1] # "!"
  <2>1. /\ Len(b) = Len(raw) - 1 /\ Len(raw) \in Nat \ {0}
        /\ \A k \in 1 .. Len(raw) - 1 : b[k] = raw[k + 1]
    BY TailOfSeq
  <2>2. b # <<>> => Len(b) # 0
    BY <1>1, EmptySeq
  <2> HIDE DEF b
  <2> QED BY <2>1, <2>2
<1> HIDE DEF b
<1>3. ParseTerm(raw) = TermOf(TRUE, b)
  BY Zenon DEF ParseTerm, b
<1>4. b # <<>> => ParseTerm(b) = TermOf(FALSE, b)
  BY <1>2, Zenon DEF ParseTerm
<1>5. ASSUME NEW e \in Indexed PROVE M(e) \in BOOLEAN
  BY <1>1, TermAnswers
<1>6. ASSUME NEW e \in Indexed PROVE TermHolds(ParseTerm(raw), e) <=> ~M(e)
  <2>1. TermOf(TRUE, b).negate = TRUE
    BY TermParts, Zenon
  <2>2. MatchesTerm(TermOf(TRUE, b), {}, e) = M(e)
    BY NegatedTerm
  <2> HIDE DEF M
  <2>3. M(e) \in BOOLEAN
    BY <1>5
  <2> QED BY <1>3, <2>1, <2>2, <2>3, Zenon DEF TermHolds
<1>7. ASSUME NEW e \in Indexed PROVE (b = <<>> \/ TermHolds(ParseTerm(b), e)) <=> M(e)
  <2>1. b = <<>> => M(e) = TRUE
    BY EmptyTerm, Zenon
  <2>2. TermOf(FALSE, b).negate = FALSE
    BY TermParts, Zenon
  <2>3. M(e) \in BOOLEAN
    BY <1>5
  <2>4. b # <<>> => (TermHolds(ParseTerm(b), e) <=> (M(e) = ~TermOf(FALSE, b).negate))
    BY <1>4, Zenon DEF TermHolds
  <2> HIDE DEF M
  <2> QED BY <2>1, <2>2, <2>3, <2>4, Zenon
<1>8. Rows(raw) = {e \in Candidates : raw = <<>> \/ TermHolds(ParseTerm(raw), e)}
  BY WordRows
<1>9. Rows(b) = {e \in Candidates : b = <<>> \/ TermHolds(ParseTerm(b), e)}
  BY <1>1, WordRows
<1> HIDE DEF M
<1>10. Candidates \subseteq Indexed
  BY DEF Candidates
<1>11. Rows(<<>>) = Candidates
  BY AllRows
<1>12. Rows(raw) = {e \in Candidates : ~M(e)}
  BY <1>6, <1>8, <1>10
<1>13. Rows(b) = {e \in Candidates : M(e)}
  BY <1>7, <1>9, <1>10
<1>14. Rows(raw) = Candidates \ Rows(b)
  BY <1>12, <1>13
<1> QED BY <1>11, <1>14, Zenon DEF b

-----------------------------------------------------------------------------
(* Words that are text *)

IsText(c) == c \notin {"!"} \cup AloneWords \cup ValueWords

LEMMA TextTerm ==
    ASSUME NEW C, NEW word \in Seq(C), word # <<>>, IsText(word[1]), NEW e \in Indexed
    PROVE  TermHolds(ParseTerm(word), e) <=> MatchText(e.name, word, {})
<1> DEFINE term == ParseTerm(word)
           kind == IF \/ Len(word) = 1 /\ word[1] \in AloneWords
                      \/ word # <<>> /\ word[1] \in ValueWords
                   THEN word[1] ELSE "text"
<1>1. word[1] # "!" /\ word[1] \notin AloneWords /\ word[1] \notin ValueWords
  BY DEF IsText
<1>2. term = TermOf(FALSE, word)
  BY <1>1, Zenon DEF ParseTerm
<1>3. /\ TermOf(FALSE, word).negate = FALSE /\ TermOf(FALSE, word).kind = kind
      /\ TermOf(FALSE, word).text = IF kind = "text" THEN word ELSE Tail(word)
  BY TermParts, Zenon
<1>4. kind = "text"
  BY <1>1, Zenon
<1> HIDE DEF term, kind
<1>5. term.negate = FALSE /\ term.kind = "text" /\ term.text = word
  BY <1>2, <1>3, <1>4, Zenon
<1>6. MatchesTerm(term, {}, e) = MatchText(e.name, word, {})
  <2>1. "path:" \notin {} /\ "text" \notin DOMAIN DateField
    BY DEF DateField
  <2> QED BY <1>5, <2>1, Zenon DEF MatchesTerm
<1>7. MatchText(e.name, word, {}) \in BOOLEAN
  BY TextAnswers
<1>8. TermHolds(term, e) <=> MatchText(e.name, word, {})
  BY <1>5, <1>6, <1>7, Zenon DEF TermHolds
<1> QED BY <1>8 DEF term

\* The characters of a pattern, and of plain words, are none of the language's.
Ordinary == Alphanumeric \cup {"*", "?", "."}

LEMMA OrdinaryIsText ==
    ASSUME NEW c \in Ordinary
    PROVE  IsText(c) /\ c \notin {" ", "|", Quote} /\ c \notin OptionWords \cup DOMAIN ResetWords
BY DEF Ordinary, Alphanumeric, IsText, AloneWords, ValueWords, DateField, Quote, OptionWords, ResetWords

LEMMA OrdinaryWord ==
    ASSUME NEW C, NEW raw \in Seq(C), ToSet(raw) \subseteq Ordinary
    PROVE  IsWord(raw) /\ ~Toggled(raw) /\ (raw # <<>> => IsText(raw[1]))
<1>1. ToSet(raw) = {raw[k] : k \in 1 .. Len(raw)} /\ Len(raw) \in Nat
  BY ToSetIs
<1>2. \A k \in 1 .. Len(raw) : raw[k] \in Ordinary
  BY <1>1
<1>3. IsWord(raw)
  BY <1>2, OrdinaryIsText DEF IsWord
<1>4. ~Toggled(raw)
  BY OrdinaryIsText DEF Toggled
<1>5. raw # <<>> => 1 \in 1 .. Len(raw)
  BY <1>1, EmptySeq
<1> QED BY <1>2, <1>3, <1>4, <1>5, OrdinaryIsText

\* A pattern finds the names it describes.
LEMMA PatternRows ==
    ASSUME NEW C, NEW raw \in Seq(C), ToSet(raw) \subseteq Alphanumeric \cup {"*", "?"},
           {"*", "?"} \cap ToSet(raw) # {}
    PROVE  Rows(raw) = {e \in Rows(<<>>) : Glob(ToLower(e.name), ToLower(raw))}
<1>1. ToSet(raw) = {raw[k] : k \in 1 .. Len(raw)} /\ Len(raw) \in Nat
  BY ToSetIs
<1>2. PICK k \in 1 .. Len(raw) : raw[k] \in {"*", "?"}
  BY <1>1
<1>3. raw # <<>>
  BY <1>1, <1>2, EmptySeq
<1>4. IsWord(raw) /\ ~Toggled(raw) /\ IsText(raw[1])
  <2>1. ToSet(raw) \subseteq Ordinary
    BY DEF Ordinary
  <2> QED BY <1>3, <2>1, OrdinaryWord
<1> DEFINE p == ToLower(raw)
<1>5. {"*", "?"} \cap ToSet(p) # {}
  <2>1. /\ DOMAIN p = 1 .. Len(raw)
        /\ p[k] = IF raw[k] = "A" THEN "a" ELSE IF raw[k] = "B" THEN "b" ELSE raw[k]
    BY LowerIs
  <2> HIDE DEF p
  <2>2. p[k] = raw[k]
    BY <1>2, <2>1
  <2>3. p[k] \in ToSet(p)
    BY <2>1 DEF ToSet
  <2> QED BY <1>2, <2>2, <2>3
<1>6. ASSUME NEW e \in Indexed PROVE TermHolds(ParseTerm(raw), e) <=> Glob(ToLower(e.name), p)
  <2>1. MatchText(e.name, raw, {}) = WildcardMatch(ToLower(e.name), p)
    BY <1>5, TextPlain, Zenon
  <2>2. WildcardMatch(ToLower(e.name), p) = Glob(ToLower(e.name), p)
    BY NameIsGlob
  <2>3. TermHolds(ParseTerm(raw), e) <=> MatchText(e.name, raw, {})
    BY <1>3, <1>4, TextTerm
  <2> QED BY <2>1, <2>2, <2>3, Zenon
<1> HIDE DEF p
<1>7. Rows(raw) = {e \in Candidates : raw = <<>> \/ TermHolds(ParseTerm(raw), e)}
  BY <1>4, WordRows
<1>8. Candidates \subseteq Indexed
  BY DEF Candidates
<1>9. Rows(raw) = {e \in Candidates : Glob(ToLower(e.name), p)}
  BY <1>3, <1>6, <1>7, <1>8
<1>10. Rows(<<>>) = Candidates
  BY AllRows
<1> QED BY <1>9, <1>10, Zenon DEF p

-----------------------------------------------------------------------------
(* What a text means does not change while it is looked for *)

SameDay == now' = now /\ clock' = clock

LEMMA SameUtc ==
    ASSUME SameDay, NEW CONSTANT t
    PROVE  AbsoluteDate(t)' = AbsoluteDate(t)
<1>1. Ahead(clock)' = Ahead(clock)
  BY Zenon DEF SameDay
<1> QED BY <1>1 DEF AbsoluteDate, LocalDateToUtcFileTime

LEMMA SamePeriod ==
    ASSUME SameDay, NEW CONSTANT word
    PROVE  ResolveDateConstant(word, now)' = ResolveDateConstant(word, now)
BY DEF SameDay, ResolveDateConstant, StartOfMonth, LocalDateToUtcFileTime

LEMMA SameDate ==
    ASSUME SameDay, NEW CONSTANT t
    PROVE  ParseDateValue(t)' = ParseDateValue(t)
<1>1. AbsoluteDate(t)' = AbsoluteDate(t) /\ AbsoluteDate(Tail(t))' = AbsoluteDate(Tail(t))
  BY SameUtc
<1>2. /\ AbsoluteDate(Before(t, Separator(t)))' = AbsoluteDate(Before(t, Separator(t)))
      /\ AbsoluteDate(After(t, Separator(t)))' = AbsoluteDate(After(t, Separator(t)))
  BY SameUtc
<1>3. /\ ResolveDateConstant(t[1], now)' = ResolveDateConstant(t[1], now)
      /\ ResolveDateConstant(t[2], now)' = ResolveDateConstant(t[2], now)
  BY SamePeriod
<1> QED BY <1>1, <1>2, <1>3, Zenon DEF ParseDateValue

LEMMA SameTermOf ==
    ASSUME SameDay, NEW CONSTANT negate, NEW CONSTANT body
    PROVE  TermOf(negate, body)' = TermOf(negate, body)
<1>1. ParseDateValue(Tail(body))' = ParseDateValue(Tail(body))
  BY SameDate
<1> QED BY <1>1, Zenon DEF TermOf

LEMMA SameTerm ==
    ASSUME SameDay, NEW CONSTANT token
    PROVE  ParseTerm(token)' = ParseTerm(token)
<1> DEFINE body == IF token[1] = "!" THEN Tail(token) ELSE token
           negate == token[1] = "!"
<1>1. TermOf(negate, body)' = TermOf(negate, body)
  BY SameTermOf
<1> QED BY <1>1 DEF ParseTerm

\* One token more.
With(groups, token, term) ==
    IF token = BarToken
    THEN IF Last(groups) = <<>> THEN groups ELSE Append(groups, <<>>)
    ELSE [groups EXCEPT ![Len(groups)] = Append(@, term)]

LEMMA GroupingIs ==
    ASSUME NEW K, NEW tokens \in Seq(K)
    PROVE  /\ Grouping(tokens)[0] = <<<<>>>>
           /\ \A n \in 1 .. Len(tokens) :
                  Grouping(tokens)[n] = With(Grouping(tokens)[n - 1], tokens[n], ParseTerm(tokens[n]))
<1> DEFINE D == TermsOf(K)
<1>1. TermTokens(tokens, D)
  BY TermsOfTokens
<1>2. /\ Grouping(tokens)[0] = <<<<>>>>
      /\ \A n \in 1 .. Len(tokens) :
             Grouping(tokens)[n] = AddToken(Grouping(tokens)[n - 1], tokens[n])
  <2> HIDE DEF D
  <2> QED BY <1>1, GroupingDef
<1>3. \A g, token : AddToken(g, token) = With(g, token, ParseTerm(token))
  BY Zenon DEF AddToken, With, BarToken
<1> QED BY <1>2, <1>3

\* The same after a step.
LEMMA GroupingAfter ==
   (\A L, s : s \in Seq(L) =>
        /\ Grouping(s)[0] = <<<<>>>>
        /\ \A n \in 1 .. Len(s) : Grouping(s)[n] = With(Grouping(s)[n - 1], s[n], ParseTerm(s[n])))'
<1>1. \A L, s : s \in Seq(L) =>
        /\ Grouping(s)[0] = <<<<>>>>
        /\ \A n \in 1 .. Len(s) : Grouping(s)[n] = With(Grouping(s)[n - 1], s[n], ParseTerm(s[n]))
  BY GroupingIs
<1> QED BY <1>1, PTL

LEMMA SameGrouping ==
    ASSUME SameDay, NEW CONSTANT K, NEW CONSTANT tokens \in Seq(K)
    PROVE  \A n \in 0 .. Len(tokens) : Grouping(tokens)'[n] = Grouping(tokens)[n]
<1> DEFINE g == Grouping(tokens)
           S == {n \in 0 .. Len(tokens) : g'[n] = g[n]}
<1>0. Len(tokens) \in Nat
  BY WholeOfSeq
<1>1. /\ g[0] = <<<<>>>>
      /\ \A n \in 1 .. Len(tokens) : g[n] = With(g[n - 1], tokens[n], ParseTerm(tokens[n]))
  BY GroupingIs
<1>2. /\ g'[0] = <<<<>>>>
      /\ \A n \in 1 .. Len(tokens) : g'[n] = With(g'[n - 1], tokens[n], ParseTerm(tokens[n])')
  BY GroupingAfter
<1>3. \A n \in 1 .. Len(tokens) : ParseTerm(tokens[n])' = ParseTerm(tokens[n])
  BY SameTerm
<1> HIDE DEF g
<1>4. 0 \in S
  BY <1>0, <1>1, <1>2
<1>5. ASSUME NEW n \in Nat, n < Len(tokens), n \in S PROVE n + 1 \in S
  <2>1. n + 1 \in 1 .. Len(tokens) /\ (n + 1) - 1 = n /\ n + 1 \in 0 .. Len(tokens)
    <3> HIDE DEF S
    <3> QED BY <1>0, <1>5
  <2>2. g'[n] = g[n]
    BY <1>5
  <2> QED BY <1>1, <1>2, <1>3, <2>1, <2>2
<1> HIDE DEF S
<1>6. \A n \in 0 .. Len(tokens) : n \in S
  BY <1>0, <1>4, <1>5, Induction
<1> QED BY <1>6 DEF S, g

Sorted(K) == [options : SUBSET OptionWords, remaining : Seq(K)]

LEMMA ReadTokenType ==
    ASSUME NEW K, NEW s \in Sorted(K), NEW token \in K
    PROVE  ReadToken(s, token) \in Sorted(K)
<1>1. s.options \in SUBSET OptionWords /\ s.remaining \in Seq(K)
  BY DEF Sorted
<1>2. CASE Len(token) = 1 /\ token[1] \in OptionWords
  <2>1. token[1] \notin DOMAIN ResetWords
    BY <1>2 DEF OptionWords, ResetWords
  <2>2. ReadToken(s, token) = [s EXCEPT !.options = @ \cup {token[1]}]
    BY <1>2, <2>1, Zenon DEF ReadToken
  <2> QED BY <1>1, <1>2, <2>2 DEF Sorted
<1>3. CASE ~(Len(token) = 1 /\ token[1] \in OptionWords) /\ Len(token) = 1 /\ token[1] \in DOMAIN ResetWords
  <2>1. ReadToken(s, token) = [s EXCEPT !.options = @ \ {ResetWords[token[1]]}]
    BY <1>3, Zenon DEF ReadToken
  <2> QED BY <1>1, <2>1 DEF Sorted
<1>4. CASE /\ ~(Len(token) = 1 /\ token[1] \in OptionWords)
           /\ ~(Len(token) = 1 /\ token[1] \in DOMAIN ResetWords)
  <2>1. ReadToken(s, token) = [s EXCEPT !.remaining = Append(@, token)]
    BY <1>4, Zenon DEF ReadToken
  <2>2. Append(s.remaining, token) \in Seq(K)
    BY <1>1
  <2> QED BY <1>1, <2>1, <2>2 DEF Sorted
<1> QED BY <1>2, <1>3, <1>4

LEMMA SortingDef ==
    ASSUME NEW K, NEW tokens \in Seq(K)
    PROVE  /\ Sorting(tokens)[Len(tokens)] \in Sorted(K)
           /\ \A n \in 1 .. Len(tokens) : Sorting(tokens)[n] = ReadToken(Sorting(tokens)[n - 1], tokens[n])
<1> DEFINE N == Len(tokens)
           First == [options |-> {}, remaining |-> <<>>]
           Body(g) == [n \in 0 .. N |-> IF n = 0 THEN First ELSE ReadToken(g[n - 1], tokens[n])]
           step == [n \in 1 .. N |-> [s \in Sorted(K) |-> ReadToken(s, tokens[n])]]
<1>1. N \in Nat /\ \A n \in 1 .. N : tokens[n] \in K
  BY WholeOfSeq
<1>2. First \in Sorted(K)
  BY DEF Sorted
<1>3. /\ \A n \in 1 .. N : \A s \in Sorted(K) : step[n][s] \in Sorted(K)
      /\ \A n \in 1 .. N : \A s \in Sorted(K) : step[n][s] = ReadToken(s, tokens[n])
  <2> HIDE DEF N
  <2>1. \A n \in 1 .. N : \A s \in Sorted(K) : ReadToken(s, tokens[n]) \in Sorted(K)
    BY <1>1, ReadTokenType
  <2> QED BY <2>1
<1> HIDE DEF First
<1>4. PICK g : Iterates(N, Sorted(K), First, step, g)
  <2> HIDE DEF step, N
  <2> QED BY <1>1, <1>2, <1>3, Iteration
<1>5. \A n \in 1 .. N : g[n] = ReadToken(g[n - 1], tokens[n])
  <2> HIDE DEF step, N
  <2> TAKE n \in 1 .. N
  <2>1. g[n - 1] \in Sorted(K)
    BY <1>1, <1>4 DEF Iterates
  <2> QED BY <1>3, <1>4, <2>1 DEF Iterates
<1>6. g = Body(g)
  <2> HIDE DEF step, N
  <2>1. \A n \in 0 .. N : n # 0 => n \in 1 .. N
    BY <1>1
  <2> QED BY <1>4, <1>5, <2>1 DEF Iterates
<1>7. Sorting(tokens) = CHOOSE f : f = Body(f)
  BY DEF Sorting, First
<1>8. Sorting(tokens) = Body(Sorting(tokens))
  <2> HIDE DEF Body
  <2> QED BY <1>6, <1>7
<1> DEFINE r == Sorting(tokens)
<1> HIDE DEF step
<1>9. r[0] = First /\ \A n \in 1 .. N : r[n] = ReadToken(r[n - 1], tokens[n])
  <2> HIDE DEF r, N
  <2>1. r = Body(r)
    BY <1>8 DEF r
  <2>2. 0 \in 0 .. N /\ \A n \in 1 .. N : n \in 0 .. N /\ n # 0
    BY <1>1
  <2> QED BY <2>1, <2>2
<1>10. r[N] \in Sorted(K)
  <2> DEFINE S == {n \in 0 .. N : r[n] \in Sorted(K)}
  <2> HIDE DEF r, N
  <2>1. 0 \in S
    BY <1>1, <1>2, <1>9
  <2>2. ASSUME NEW n \in Nat, n < N, n \in S PROVE n + 1 \in S
    <3>1. n + 1 \in 1 .. N /\ (n + 1) - 1 = n /\ n + 1 \in 0 .. N
      <4> HIDE DEF S
      <4> QED BY <1>1, <2>2
    <3>2. r[n + 1] = ReadToken(r[n], tokens[n + 1])
      BY <1>9, <3>1
    <3>3. r[n] \in Sorted(K)
      BY <2>2
    <3>4. r[n + 1] \in Sorted(K)
      BY <1>1, <3>1, <3>2, <3>3, ReadTokenType
    <3> QED BY <3>1, <3>4
  <2> HIDE DEF S
  <2>3. \A n \in 0 .. N : n \in S
    BY <1>1, <2>1, <2>2, Induction
  <2>4. N \in 0 .. N
    BY <1>1
  <2> QED BY <2>3, <2>4 DEF S
<1> QED BY <1>9, <1>10

LEMMA SameGroups ==
    ASSUME SameDay, NEW CONSTANT K, NEW CONSTANT tokens \in Seq(K)
    PROVE  Groups(tokens)' = Groups(tokens)
<1>1. Len(tokens) \in 0 .. Len(tokens)
  BY WholeOfSeq
<1>2. Grouping(tokens)'[Len(tokens)] = Grouping(tokens)[Len(tokens)]
  BY <1>1, SameGrouping
<1> DEFINE g == Grouping(tokens)[Len(tokens)]
<1>3. Groups(tokens) = Closed(g)
  BY DEF Groups, Closed
<1>4. Groups(tokens)' = Closed(Grouping(tokens)'[Len(tokens)])
  BY DEF Groups, Closed
<1> QED BY <1>2, <1>3, <1>4

LEMMA SameQuery ==
    ASSUME SameDay, NEW CONSTANT C, NEW CONSTANT raw \in Seq(C)
    PROVE  ParseQuery(raw)' = ParseQuery(raw)
<1> DEFINE tokens == Tokenize(raw)
           sorted == Sorting(tokens)[Len(tokens)]
           pattern == [negate |-> FALSE, kind |-> "text", text |-> Joined(sorted.remaining),
                       value |-> Default]
           Query(groups) == [options |-> sorted.options,
                             groups |-> IF "regex:" \in sorted.options THEN <<<<pattern>>>> ELSE groups]
<1>1. sorted.remaining \in Seq(Seq(C))
  <2> DEFINE K == Seq(C)
  <2>1. tokens \in Seq(K)
    BY TokenizeDef
  <2> HIDE DEF K, tokens
  <2>2. Sorting(tokens)[Len(tokens)] \in Sorted(K)
    BY <2>1, SortingDef
  <2>3. Sorting(tokens)[Len(tokens)].remaining \in Seq(K)
    BY <2>2 DEF Sorted
  <2> QED BY <2>3 DEF K
<1>2. Groups(sorted.remaining)' = Groups(sorted.remaining)
  BY <1>1, SameGroups
<1>3. ParseQuery(raw) = Query(Groups(sorted.remaining))
  BY DEF ParseQuery
<1>4. ParseQuery(raw)' = Query(Groups(sorted.remaining)')
  BY DEF ParseQuery
<1> HIDE DEF Query, sorted, tokens
<1> QED BY <1>2, <1>3, <1>4

\* What a query finds depends on nothing a search changes.
LEMMA SameRows ==
    ASSUME SameDay, category' = category, NEW CONSTANT C, NEW CONSTANT raw \in Seq(C)
    PROVE  Rows(raw)' = Rows(raw)
<1> DEFINE Found(q, kind) ==
              {e \in Indexed :
                  /\ q.groups = <<>> \/ MatchesQuery(q, e)
                  /\ MatchesCategory(ResultCategory[CategoryIndex(kind)], e)
                  /\ \A folder \in ExcludeFolders : ~IsUnderFolder(e.path, folder)}
<1>1. ParseQuery(raw)' = ParseQuery(raw)
  BY SameQuery
<1>2. Rows(raw) = Found(ParseQuery(raw), category)
  BY DEF Rows
<1>3. Rows(raw)' = Found(ParseQuery(raw)', category')
  BY DEF Rows
<1> HIDE DEF Found
<1> QED BY <1>1, <1>2, <1>3

-----------------------------------------------------------------------------
(* The answer to a question *)

\* What was asked is one of the questions, and what was found are its rows.
Answered ==
    /\ \E question \in Questions : text = question[1] /\ category = question[2]
                                   /\ now = question[3] /\ clock = question[4]
    /\ \A raw \in Seq(STRING) : asked /\ text = raw => found = Rows(raw)

LEMMA AnsweredInit == Init => Answered
<1> SUFFICES ASSUME Init PROVE Answered
  OBVIOUS
<1>1. PICK question \in Questions : text = question[1] /\ category = question[2]
                                   /\ now = question[3] /\ clock = question[4]
  BY DEF Init
<1> QED BY <1>1 DEF Init, Answered

LEMMA AnsweredNext == Answered /\ [Next]_vars => Answered'
<1> SUFFICES ASSUME Answered, [Next]_vars PROVE Answered'
  OBVIOUS
<1>1. text' = text /\ category' = category /\ SameDay
  BY DEF Next, Search, vars, SameDay
<1>2. \A raw \in Seq(STRING) : Rows(raw)' = Rows(raw)
  BY <1>1, SameRows
<1>3. \E question \in Questions : text' = question[1] /\ category' = question[2]
                                   /\ now' = question[3] /\ clock' = question[4]
  BY <1>1 DEF Answered, SameDay
<1>4. ASSUME NEW raw \in Seq(STRING), asked', text' = raw PROVE found' = Rows(raw)
  <2>1. CASE Search
    BY <1>1, <1>4, <2>1 DEF Search
  <2>2. CASE UNCHANGED vars
    BY <1>1, <1>4, <2>2 DEF Answered, vars
  <2> QED BY <2>1, <2>2 DEF Next
<1> QED BY <1>2, <1>3, <1>4 DEF Answered

\* Every question's text is a sequence, and its answer its rows.
LEMMA AnswerIs ==
    ASSUME Answered
    PROVE  text \in Seq(STRING) /\ (asked => found = Rows(text))
<1>1. text \in Seq(STRING)
  BY QueryAssumption, Zenon DEF Answered
<1> QED BY <1>1, Zenon DEF Answered

LEMMA AlwaysAnswered == Spec => []Answered
BY AnsweredInit, AnsweredNext, PTL DEF Spec

\* Every pattern finds the names it describes, whatever the backtracking does.
THEOREM PatternsAreGlobs == Spec => []GlobMatches
<1>1. Answered => GlobMatches
  <2> SUFFICES ASSUME Answered PROVE GlobMatches
    OBVIOUS
  <2>1. text \in Seq(STRING) /\ (asked => found = Rows(text))
    BY AnswerIs
  <2> QED BY <2>1, PatternRows, Zenon DEF GlobMatches
<1> QED BY <1>1, AlwaysAnswered, PTL

LEMMA PositionOf ==
    ASSUME NEW C, NEW raw \in Seq(C), NEW i \in DOMAIN raw
    PROVE  i \in 1 .. Len(raw)
OBVIOUS

LEMMA BarHolds == Answered => BarIsUnion
<1> SUFFICES ASSUME Answered, asked, ~Toggled(text), NEW i \in DOMAIN text,
                    text[i] = "|", Balanced(Before(text, i)),
                    \A side \in {Before(text, i), After(text, i)} : ParseQuery(side).groups # <<>>
             PROVE  found = Rows(Before(text, i)) \cup Rows(After(text, i))
  BY DEF BarIsUnion
<1>1. text \in Seq(STRING) /\ found = Rows(text)
  BY AnswerIs
<1>2. i \in 1 .. Len(text)
  BY <1>1, PositionOf
<1>3. ParseQuery(Before(text, i)).groups # <<>> /\ ParseQuery(After(text, i)).groups # <<>>
  OBVIOUS
<1> QED BY <1>1, <1>2, <1>3, BarRows, Zenon

LEMMA SpaceHolds == Answered => SpaceIsIntersection
<1> SUFFICES ASSUME Answered, asked, ~Toggled(text), "|" \notin ToSet(text), NEW i \in DOMAIN text,
                    text[i] = " ", Balanced(Before(text, i))
             PROVE  found = Rows(Before(text, i)) \cap Rows(After(text, i))
  BY DEF SpaceIsIntersection
<1>1. text \in Seq(STRING) /\ found = Rows(text)
  BY AnswerIs
<1>2. i \in 1 .. Len(text)
  BY <1>1, PositionOf
<1> QED BY <1>1, <1>2, SpaceRows, Zenon

LEMMA BangHolds == Answered => BangIsComplement
<1> SUFFICES ASSUME Answered, asked, ~Toggled(text), text # <<>>, {" ", "|", Quote} \cap ToSet(text) = {},
                    text[1] = "!", ~(Len(text) > 1 /\ text[2] = "!")
             PROVE  found = Rows(<<>>) \ Rows(Tail(text))
  BY DEF BangIsComplement
<1>1. text \in Seq(STRING) /\ found = Rows(text)
  BY AnswerIs
<1>2. IsWord(text)
  <2>1. ToSet(text) = {text[k] : k \in 1 .. Len(text)}
    BY <1>1, ToSetIs
  <2> QED BY <2>1 DEF IsWord
<1> QED BY <1>1, <1>2, BangRows, Zenon

\* A bar is a union, a space an intersection and an exclamation mark a
\* complement, for every text and every index.
THEOREM QueriesAreBoolean == Spec => []OperatorsAreBoolean
<1>1. Answered => OperatorsAreBoolean
  BY BarHolds, SpaceHolds, BangHolds DEF OperatorsAreBoolean
<1> QED BY <1>1, AlwaysAnswered, PTL

-----------------------------------------------------------------------------
(* The slow search *)

\* The rest of a sequence behind a place, and its part before one.
LEMMA CutOfSeq ==
    ASSUME NEW C, NEW raw \in Seq(C), NEW i \in 1 .. Len(raw)
    PROVE  /\ Before(raw, i) \in Seq(C) /\ After(raw, i) \in Seq(C) /\ Len(raw) \in Nat
           /\ Len(Before(raw, i)) = i - 1 /\ Len(After(raw, i)) = Len(raw) - i
           /\ \A k \in 1 .. i - 1 : Before(raw, i)[k] = raw[k]
           /\ \A k \in 1 .. Len(raw) - i : After(raw, i)[k] = raw[i + k]
<1>1. i - 1 \in Nat /\ i - 1 <= Len(raw) /\ Len(raw) \in Nat
  OBVIOUS
<1>2. /\ SubSeq(raw, 1, i - 1) \in Seq(C) /\ Len(SubSeq(raw, 1, i - 1)) = i - 1
      /\ SubSeq(raw, i + 1, Len(raw)) \in Seq(C) /\ Len(SubSeq(raw, i + 1, Len(raw))) = Len(raw) - i
  BY SplitAt
<1>3. \A k \in 1 .. i - 1 : SubSeq(raw, 1, i - 1)[k] = raw[k]
  BY <1>1
<1>4. \A k \in 1 .. Len(raw) - i : SubSeq(raw, i + 1, Len(raw))[k] = raw[i + k]
  BY <1>1
<1> QED BY <1>1, <1>2, <1>3, <1>4 DEF Before, After

LEMMA PlainIs ==
    ASSUME NEW C, NEW raw \in Seq(C)
    PROVE  Plain(raw) <=> \A k \in 1 .. Len(raw) : raw[k] \in Alphanumeric \cup {".", " "}
<1>1. ToSet(raw) = {raw[k] : k \in 1 .. Len(raw)}
  BY ToSetIs
<1> HIDE DEF Alphanumeric, ToSet
<1> QED BY <1>1 DEF Plain

LEMMA PlainTogether ==
    ASSUME NEW C, NEW raw \in Seq(C), Plain(raw)
    PROVE  ~Toggled(raw) /\ "|" \notin ToSet(raw) /\ Balanced(raw)
<1>1. \A c \in Alphanumeric \cup {".", " "} : c \notin OptionWords \cup DOMAIN ResetWords \cup {"|", Quote}
  BY DEF Alphanumeric, OptionWords, ResetWords, Quote
<1>2. ~Toggled(raw) /\ "|" \notin ToSet(raw)
  BY <1>1 DEF Plain, Toggled
<1>3. {k \in DOMAIN raw : raw[k] = Quote} = {}
  <2>1. \A k \in 1 .. Len(raw) : raw[k] # Quote
    BY <1>1, PlainIs
  <2>2. DOMAIN raw = 1 .. Len(raw)
    OBVIOUS
  <2> QED BY <2>1, <2>2
<1>4. Balanced(raw)
  <2>1. 0 % 2 = 0
    OBVIOUS
  <2> QED BY <1>3, <2>1, FS_EmptySet DEF Balanced
<1> QED BY <1>2, <1>4

IsBlank(raw, i) == raw[i] = " "

SplitsPlain(raw, i) == Plain(raw) /\ IsBlank(raw, i)

LEMMA PlainCut ==
    ASSUME NEW C, NEW raw \in Seq(C), NEW i \in 1 .. Len(raw), SplitsPlain(raw, i)
    PROVE  /\ Plain(Before(raw, i)) /\ Plain(After(raw, i))
           /\ Rows(raw) \subseteq Rows(Before(raw, i)) /\ Rows(raw) \subseteq Rows(After(raw, i))
<1> DEFINE l == Before(raw, i)
           r == After(raw, i)
<1>1. /\ l \in Seq(C) /\ r \in Seq(C) /\ Len(raw) \in Nat
      /\ Len(l) = i - 1 /\ Len(r) = Len(raw) - i
      /\ \A k \in 1 .. i - 1 : l[k] = raw[k]
      /\ \A k \in 1 .. Len(raw) - i : r[k] = raw[i + k]
  BY CutOfSeq
<1> HIDE DEF l, r
<1>2. /\ \A k \in 1 .. Len(l) : k \in 1 .. Len(raw) /\ l[k] = raw[k]
      /\ \A k \in 1 .. Len(r) : i + k \in 1 .. Len(raw) /\ r[k] = raw[i + k]
  BY <1>1
<1>3. Plain(l) /\ Plain(r)
  <2>1. \A k \in 1 .. Len(raw) : raw[k] \in Alphanumeric \cup {".", " "}
    BY PlainIs DEF SplitsPlain
  <2> QED BY <1>1, <1>2, <2>1, PlainIs
<1>4. ~Toggled(raw) /\ "|" \notin ToSet(raw) /\ Balanced(l)
  BY <1>1, <1>3, PlainTogether DEF SplitsPlain
<1>5. Rows(raw) = Rows(l) \cap Rows(r)
  BY <1>4, SpaceRows, Zenon DEF l, r, SplitsPlain, IsBlank
<1>6. Rows(raw) \subseteq Rows(l) /\ Rows(raw) \subseteq Rows(r)
  BY <1>5
<1> QED BY <1>3, <1>6 DEF l, r

\* A word of a plain text, between two of its ends.
Ends(raw) == {0, Len(raw) + 1} \cup {i \in DOMAIN raw : IsBlank(raw, i)}

Spans(raw, i, j) ==
    i \in Ends(raw) /\ j \in Ends(raw) /\ i < j /\ \A k \in Ends(raw) : ~(i < k /\ k < j)

LEMMA SpanIs ==
    ASSUME NEW C, NEW raw \in Seq(C), NEW i, NEW j, Spans(raw, i, j)
    PROVE  /\ Len(raw) \in Nat /\ i \in 0 .. Len(raw) /\ j \in 1 .. Len(raw) + 1 /\ i < j
           /\ i = 0 \/ IsBlank(raw, i)
           /\ j = Len(raw) + 1 \/ IsBlank(raw, j)
           /\ \A k \in 1 .. Len(raw) : i < k /\ k < j => ~IsBlank(raw, k)
<1>1. DOMAIN raw = 1 .. Len(raw) /\ Len(raw) \in Nat
  OBVIOUS
<1>2. i < j /\ i \in 0 .. Len(raw) + 1 /\ j \in 0 .. Len(raw) + 1
  BY <1>1 DEF Spans, Ends
<1>3. i \in 0 .. Len(raw) /\ j \in 1 .. Len(raw) + 1
  BY <1>1, <1>2
<1>4. (i = 0 \/ IsBlank(raw, i)) /\ (j = Len(raw) + 1 \/ IsBlank(raw, j))
  BY <1>1, <1>3 DEF Spans, Ends
<1>5. \A k \in 1 .. Len(raw) : i < k /\ k < j => ~IsBlank(raw, k)
  BY <1>1 DEF Spans, Ends
<1> QED BY <1>1, <1>2, <1>3, <1>4, <1>5

LEMMA SameSeq ==
    ASSUME NEW C, NEW raw \in Seq(C), NEW w \in Seq(C), NEW i \in 0 .. Len(raw), NEW j \in 1 .. Len(raw) + 1, i < j,
           Len(w) = j - i - 1, \A k \in 1 .. j - i - 1 : w[k] = raw[i + k]
    PROVE  SubSeq(raw, i + 1, j - 1) = w
<1>1. /\ Len(SubSeq(raw, i + 1, j - 1)) = j - i - 1 /\ SubSeq(raw, i + 1, j - 1) \in Seq(C)
  OBVIOUS
<1>2. \A k \in 1 .. j - i - 1 : SubSeq(raw, i + 1, j - 1)[k] = raw[i + k]
  OBVIOUS
<1> QED BY <1>1, <1>2, SeqEqual

LEMMA SpanRows ==
    ASSUME NEW C, NEW raw \in Seq(C), NEW i, NEW j, Plain(raw), Spans(raw, i, j)
    PROVE  LET w == SubSeq(raw, i + 1, j - 1)
           IN  w \in Seq(C) /\ ToSet(w) \subseteq Alphanumeric \cup {"."} /\ Rows(raw) \subseteq Rows(w)
<1>1. /\ Len(raw) \in Nat /\ i \in 0 .. Len(raw) /\ j \in 1 .. Len(raw) + 1 /\ i < j
      /\ i = 0 \/ IsBlank(raw, i)
      /\ j = Len(raw) + 1 \/ IsBlank(raw, j)
      /\ \A k \in 1 .. Len(raw) : i < k /\ k < j => ~IsBlank(raw, k)
  BY SpanIs
<1>2. \E r \in Seq(C) : /\ Plain(r) /\ Rows(raw) \subseteq Rows(r) /\ Len(r) = Len(raw) - i
                        /\ \A k \in 1 .. Len(raw) - i : r[k] = raw[i + k]
  <2>1. CASE i = 0
    <3>1. Len(raw) = Len(raw) - i /\ \A k \in 1 .. Len(raw) - i : raw[k] = raw[i + k]
      BY <1>1, <2>1
    <3> QED BY <3>1
  <2>2. CASE i # 0
    <3>1. i \in 1 .. Len(raw)
      BY <1>1, <2>2
    <3>2. SplitsPlain(raw, i)
      BY <1>1, <2>2 DEF SplitsPlain
    <3>3. Plain(After(raw, i)) /\ Rows(raw) \subseteq Rows(After(raw, i))
      BY <3>1, <3>2, PlainCut
    <3>4. /\ After(raw, i) \in Seq(C) /\ Len(After(raw, i)) = Len(raw) - i
          /\ \A k \in 1 .. Len(raw) - i : After(raw, i)[k] = raw[i + k]
      BY <3>1, CutOfSeq
    <3> QED BY <3>3, <3>4
  <2> QED BY <2>1, <2>2
<1>3. PICK r \in Seq(C) : /\ Plain(r) /\ Rows(raw) \subseteq Rows(r) /\ Len(r) = Len(raw) - i
                          /\ \A k \in 1 .. Len(raw) - i : r[k] = raw[i + k]
  BY <1>2
<1>4. \E w \in Seq(C) : /\ Plain(w) /\ Rows(r) \subseteq Rows(w) /\ Len(w) = j - i - 1
                        /\ \A k \in 1 .. j - i - 1 : w[k] = raw[i + k]
  <2>1. CASE j = Len(raw) + 1
    <3>1. Len(r) = j - i - 1 /\ \A k \in 1 .. j - i - 1 : r[k] = raw[i + k]
      BY <1>1, <1>3, <2>1
    <3> QED BY <1>3, <3>1
  <2>2. CASE j # Len(raw) + 1
    <3> DEFINE m == j - i
    <3>1. m \in 1 .. Len(r) /\ m \in 1 .. Len(raw) - i /\ i + m = j
      BY <1>1, <1>3, <2>2
    <3>2. IsBlank(r, m)
      BY <1>1, <1>3, <2>2, <3>1 DEF IsBlank
    <3> HIDE DEF m
    <3>3. SplitsPlain(r, m)
      BY <1>3, <3>2 DEF SplitsPlain
    <3>4. Plain(Before(r, m)) /\ Rows(r) \subseteq Rows(Before(r, m))
      BY <3>1, <3>3, PlainCut
    <3>5. /\ Before(r, m) \in Seq(C) /\ Len(Before(r, m)) = m - 1
          /\ \A k \in 1 .. m - 1 : Before(r, m)[k] = r[k]
      BY <3>1, CutOfSeq
    <3>6. m - 1 = j - i - 1 /\ \A k \in 1 .. m - 1 : k \in 1 .. Len(raw) - i
      BY <1>1, <3>1 DEF m
    <3>7. \A k \in 1 .. m - 1 : Before(r, m)[k] = raw[i + k]
      BY <1>3, <3>5, <3>6
    <3> QED BY <3>4, <3>5, <3>6, <3>7
  <2> QED BY <2>1, <2>2
<1>5. PICK w \in Seq(C) : /\ Plain(w) /\ Rows(r) \subseteq Rows(w) /\ Len(w) = j - i - 1
                          /\ \A k \in 1 .. j - i - 1 : w[k] = raw[i + k]
  BY <1>4
<1>6. SubSeq(raw, i + 1, j - 1) = w
  BY <1>1, <1>5, SameSeq
<1>7. ToSet(w) \subseteq Alphanumeric \cup {"."}
  <2>1. ToSet(w) = {w[k] : k \in 1 .. Len(w)}
    BY ToSetIs
  <2>2. \A k \in 1 .. Len(w) : w[k] \in Alphanumeric \cup {".", " "}
    BY <1>5, PlainIs
  <2>3. \A k \in 1 .. Len(w) : i + k \in 1 .. Len(raw) /\ i < i + k /\ i + k < j
    BY <1>1, <1>5
  <2>4. \A k \in 1 .. Len(w) : w[k] # " "
    <3>1. \A k \in 1 .. Len(w) : ~IsBlank(raw, i + k) /\ w[k] = raw[i + k]
      BY <1>1, <1>5, <2>3
    <3> QED BY <3>1 DEF IsBlank
  <2> QED BY <2>1, <2>2, <2>4
<1>8. Rows(raw) \subseteq Rows(w)
  BY <1>3, <1>5
<1> QED BY <1>6, <1>7, <1>8

LEMMA FrontOfConcat ==
    ASSUME NEW S, NEW h \in Seq(S), NEW m \in Seq(S)
    PROVE  /\ h \o m \in Seq(S) /\ Len(h \o m) = Len(h) + Len(m) /\ Len(h) \in Nat /\ Len(m) \in Nat
           /\ \A k \in 1 .. Len(h) : (h \o m)[k] = h[k]
OBVIOUS

\* What occurs in a text occurs in a longer one.
LEMMA OccursFurther ==
    ASSUME NEW S, NEW h \in Seq(S), NEW p \in Seq(S), NEW c \in S, NEW n \in Seq(S), Occurrences(h, n) # {}
    PROVE  Occurrences(h \o <<c>> \o p, n) # {}
<1> DEFINE m == <<c>> \o p
           l == h \o m
<1>1. m \in Seq(S) /\ Len(m) = 1 + Len(p)
  OBVIOUS
<1>2. h \o <<c>> \o p = l
  <2>1. <<c>> \in Seq(S)
    OBVIOUS
  <2> QED BY <2>1, ConcatAssociative
<1> HIDE DEF m
<1>3. /\ l \in Seq(S) /\ Len(l) = Len(h) + Len(m) /\ Len(h) \in Nat /\ Len(m) \in Nat /\ Len(n) \in Nat
      /\ \A k \in 1 .. Len(h) : l[k] = h[k]
  BY <1>1, FrontOfConcat
<1>4. PICK i \in 1 .. Len(h) - Len(n) + 1 : SubSeq(h, i, i + Len(n) - 1) = n
  BY DEF Occurrences
<1> HIDE DEF l
<1>5. i \in 1 .. Len(l) - Len(n) + 1 /\ i + Len(n) - 1 <= Len(h) /\ i + Len(n) - 1 <= Len(l)
  <2> DEFINE a == Len(h)
             b == Len(m)
             d == Len(n)
             x == Len(l)
  <2>1. a \in Nat /\ b \in Nat /\ d \in Nat /\ x = a + b /\ i \in 1 .. a - d + 1
    BY <1>3, <1>4
  <2> HIDE DEF a, b, d, x
  <2>2. i \in 1 .. x - d + 1 /\ i + d - 1 <= a /\ i + d - 1 <= x
    BY <2>1
  <2> QED BY <2>2 DEF a, b, d, x
<1>6. SubSeq(l, i, i + Len(n) - 1) = SubSeq(h, i, i + Len(n) - 1)
  <2> DEFINE j == i + Len(n) - 1
  <2>1. i \in Nat \ {0} /\ j \in Int /\ j <= Len(h) /\ j <= Len(l)
    BY <1>3, <1>5
  <2> HIDE DEF j
  <2>2. \A k \in i .. j : k \in 1 .. Len(h)
    BY <1>3, <2>1
  <2> QED BY <1>3, <2>1, <2>2 DEF j
<1>7. i \in Occurrences(l, n)
  BY <1>4, <1>5, <1>6 DEF Occurrences
<1> QED BY <1>2, <1>7

Characters == STRING \cup {"a", "b", " "}

LEMMA LowerType ==
    ASSUME NEW s \in Seq(STRING)
    PROVE  ToLower(s) \in Seq(Characters)
<1> DEFINE l == ToLower(s)
<1>1. /\ DOMAIN l = 1 .. Len(s) /\ Len(s) \in Nat
      /\ \A i \in 1 .. Len(s) : l[i] = IF s[i] = "A" THEN "a" ELSE IF s[i] = "B" THEN "b" ELSE s[i]
  BY LowerIs
<1>2. \A i \in 1 .. Len(s) : s[i] \in STRING
  OBVIOUS
<1>3. l = [i \in DOMAIN s |-> l[i]]
  BY DEF ToLower
<1> HIDE DEF l
<1>4. \A i \in 1 .. Len(s) : l[i] \in Characters
  BY <1>1, <1>2 DEF Characters
<1>5. l \in [1 .. Len(s) -> Characters]
  BY <1>1, <1>3, <1>4
<1>6. l \in Seq(Characters)
  <2> HIDE DEF Characters
  <2> QED BY <1>1, <1>5
<1> QED BY <1>6 DEF l

\* The two searches have their categories in the same order.
LEMMA SameCategory ==
    ASSUME Answered
    PROVE  ResultCategory[CategoryIndex(category)] = category
<1>1. ResultCategory = Categories
  BY DEF ResultCategory, Categories
<1>2. category \in ToSet(Categories)
  <2>1. category \in {"all", "folder"} \cup DOMAIN Extensions
    BY QueryAssumption, Zenon DEF Answered
  <2>2. DOMAIN Extensions \subseteq ToSet(Categories)
    BY QueryAssumption, Zenon
  <2>3. Categories[1] = "all" /\ Categories[6] = "folder" /\ 1 \in DOMAIN Categories /\ 6 \in DOMAIN Categories
    BY DEF Categories
  <2>4. "all" \in ToSet(Categories) /\ "folder" \in ToSet(Categories)
    BY <2>3, Zenon DEF ToSet
  <2> QED BY <2>1, <2>2, <2>4
<1>3. \E i \in DOMAIN Categories : Categories[i] = category
  BY <1>2, Zenon DEF ToSet
<1>4. Categories[CategoryIndex(category)] = category
  BY <1>3, Zenon DEF CategoryIndex
<1> QED BY <1>1, <1>4

\* A word that is found in the name is found in the name and the path.
LEMMA WordInBoth ==
    ASSUME NEW w \in Seq(STRING), ToSet(w) \subseteq Alphanumeric \cup {"."}, w # <<>>,
           NEW e \in Rows(w)
    PROVE  Occurrences(ToLower(e.name) \o <<" ">> \o ToLower(e.path), ToLower(w)) # {}
<1>1. IsWord(w) /\ ~Toggled(w) /\ IsText(w[1])
  <2>1. ToSet(w) \subseteq Ordinary
    BY DEF Ordinary
  <2> QED BY <2>1, OrdinaryWord
<1>2. Rows(w) = {f \in Candidates : w = <<>> \/ TermHolds(ParseTerm(w), f)}
  BY <1>1, WordRows
<1>3. e \in Indexed /\ TermHolds(ParseTerm(w), e)
  BY <1>2 DEF Candidates
<1>4. MatchText(e.name, w, {})
  BY <1>1, <1>3, TextTerm
<1>5. ToSet(ToLower(w)) \cap {"*", "?"} = {}
  <2> DEFINE l == ToLower(w)
  <2>1. /\ DOMAIN l = 1 .. Len(w)
        /\ \A k \in 1 .. Len(w) : l[k] = IF w[k] = "A" THEN "a" ELSE IF w[k] = "B" THEN "b" ELSE w[k]
    BY LowerIs
  <2>2. \A k \in 1 .. Len(w) : w[k] \in Alphanumeric \cup {"."}
    BY ToSetIs
  <2> HIDE DEF l
  <2>3. \A k \in 1 .. Len(w) : l[k] \notin {"*", "?"}
    BY <2>1, <2>2 DEF Alphanumeric
  <2>4. ToSet(l) = {l[k] : k \in 1 .. Len(w)}
    BY <2>1 DEF ToSet
  <2>5. ToSet(l) \cap {"*", "?"} = {}
    BY <2>3, <2>4
  <2> QED BY <2>5 DEF l
<1>6. Occurrences(ToLower(e.name), ToLower(w)) # {}
  <2>1. {"*", "?"} \cap ToSet(ToLower(w)) = {}
    BY <1>5
  <2>2. MatchText(e.name, w, {}) = \E i \in Occurrences(ToLower(e.name), ToLower(w)) : TRUE
    BY <2>1, TextPlain, Zenon
  <2> QED BY <1>4, <2>2, Zenon
<1>7. e.name \in Seq(STRING) /\ e.path \in Seq(STRING)
  BY <1>3, Names
<1>8. /\ ToLower(e.name) \in Seq(Characters) /\ ToLower(e.path) \in Seq(Characters)
      /\ ToLower(w) \in Seq(Characters) /\ " " \in Characters
  BY <1>7, LowerType DEF Characters
<1> QED BY <1>6, <1>8, OccursFurther

\* Whatever the fast search finds for plain words, the slow search finds as well.
THEOREM SlowSearchFindsAll == Spec => []SlowFindsAll
<1>1. Answered => SlowFindsAll
  <2> SUFFICES ASSUME Answered, asked, Plain(text), NEW e \in found
               PROVE  e \in SlowRows(text)
    BY DEF SlowFindsAll
  <2>1. text \in Seq(STRING) /\ found = Rows(text)
    BY AnswerIs
  <2> DEFINE ends == {0, Len(text) + 1} \cup {i \in DOMAIN text : text[i] = " "}
             spans == {p \in ends \X ends : p[1] < p[2] /\ \A k \in ends : ~(p[1] < k /\ k < p[2])}
             terms == {ToLower(SubSeq(text, p[1] + 1, p[2] - 1)) : p \in spans} \ {<<>>}
  <2>2. SlowRows(text) =
            {f \in Indexed :
                /\ \A term \in terms : Occurrences(ToLower(f.name) \o <<" ">> \o ToLower(f.path), term) # {}
                /\ MatchesCategory(category, f)}
    BY Zenon DEF SlowRows
  <2>3. e \in Indexed /\ MatchesCategory(category, e)
    <3>1. e \in Indexed /\ MatchesCategory(ResultCategory[CategoryIndex(category)], e)
      BY <2>1 DEF Rows
    <3> QED BY <3>1, SameCategory
  <2>4. ASSUME NEW term \in terms
        PROVE  Occurrences(ToLower(e.name) \o <<" ">> \o ToLower(e.path), term) # {}
    <3>1. ends = Ends(text)
      BY DEF Ends, IsBlank
    <3>2. PICK p \in spans : term = ToLower(SubSeq(text, p[1] + 1, p[2] - 1))
      OBVIOUS
    <3>3. Spans(text, p[1], p[2])
      <4> HIDE DEF ends
      <4> QED BY <3>1 DEF Spans
    <3>4. term # <<>>
      OBVIOUS
    <3> HIDE DEF ends, spans, terms
    <3> DEFINE w == SubSeq(text, p[1] + 1, p[2] - 1)
    <3>5. w \in Seq(STRING) /\ ToSet(w) \subseteq Alphanumeric \cup {"."} /\ Rows(text) \subseteq Rows(w)
      BY <2>1, <3>3, SpanRows
    <3>6. term = ToLower(w)
      BY <3>2
    <3> HIDE DEF w
    <3>7. w # <<>>
      <4>1. DOMAIN <<>> = {} /\ DOMAIN ToLower(<<>>) = {}
        BY DEF ToLower
      <4>2. ToLower(<<>>) = <<>>
        BY <4>1 DEF ToLower
      <4> QED BY <3>4, <3>6, <4>2
    <3>8. e \in Rows(w)
      BY <2>1, <3>5
    <3>9. Occurrences(ToLower(e.name) \o <<" ">> \o ToLower(e.path), ToLower(w)) # {}
      BY <3>5, <3>7, <3>8, WordInBoth
    <3> QED BY <3>6, <3>9, Zenon
  <2> HIDE DEF terms
  <2> QED BY <2>2, <2>3, <2>4, Zenon
<1> QED BY <1>1, AlwaysAnswered, PTL

-----------------------------------------------------------------------------
(* Terms with a value *)

Fields == {"size:"} \cup DOMAIN DateField

\* The value that is typed behind a field's name.
ValueOf(field, t) == IF field = "size:" THEN ParseSizeValue(t) ELSE ParseDateValue(t)

\* What an entry has of the field, and whether it has it.
Amount(field, e) == IF field = "size:" THEN e.size ELSE e[DateField[field]]

Has(field, e) == field = "size:" \/ e[DateField[field]] # 0

LEMMA ValueRows ==
    ASSUME NEW C, NEW raw \in Seq(C), IsWord(raw), raw # <<>>, Len(raw) # 1, raw[1] \in Fields
    PROVE  Rows(raw) = {e \in Candidates :
               Has(raw[1], e) /\ CompareValue(ValueOf(raw[1], Tail(raw)), Amount(raw[1], e))}
<1> DEFINE f == raw[1]
           term == ParseTerm(raw)
           v == ValueOf(f, Tail(raw))
<1>1. DOMAIN DateField = {"dm:", "dc:", "da:"}
  BY DEF DateField
<1>2. f # "!" /\ f \in ValueWords /\ f # "text"
  <2>2. f \in {"size:", "dm:", "dc:", "da:"}
    BY <1>1 DEF Fields
  <2> HIDE DEF f
  <2> QED BY <1>1, <2>2 DEF ValueWords
<1>3. term.negate = FALSE /\ term.kind = f /\ term.value = v
  <2> DEFINE kind == IF \/ Len(raw) = 1 /\ f \in AloneWords
                        \/ raw # <<>> /\ f \in ValueWords
                     THEN f ELSE "text"
  <2>1. term = TermOf(FALSE, raw)
    BY <1>2, Zenon DEF ParseTerm
  <2>2. /\ TermOf(FALSE, raw).negate = FALSE /\ TermOf(FALSE, raw).kind = kind
        /\ kind = "size:" => TermOf(FALSE, raw).value = ParseSizeValue(Tail(raw))
        /\ kind \in DOMAIN DateField => TermOf(FALSE, raw).value = ParseDateValue(Tail(raw))
    BY TermParts, ZenonT(120)
  <2>3. kind = f
    BY <1>2, Zenon
  <2>4. f = "size:" \/ f \in DOMAIN DateField
    BY DEF Fields
  <2> HIDE DEF term, kind, f
  <2>5. f = "size:" => v = ParseSizeValue(Tail(raw))
    BY Zenon DEF ValueOf
  <2>6. f \in DOMAIN DateField => v = ParseDateValue(Tail(raw))
    <3>1. f \in DOMAIN DateField => f # "size:"
      BY <1>1
    <3> QED BY <3>1, Zenon DEF ValueOf
  <2> HIDE DEF v
  <2> QED BY <2>1, <2>2, <2>3, <2>4, <2>5, <2>6, Zenon
<1>4. v.op \in Operations
  BY SizeOperation, DateOperation, Zenon DEF ValueOf
<1>5. ~IsToggle(raw)
  BY Zenon DEF IsToggle
<1>6. Rows(raw) = {e \in Candidates : raw = <<>> \/ TermHolds(term, e)}
  BY <1>5, LoneRows
<1> HIDE DEF term, v
<1>7. ASSUME NEW e
      PROVE  TermHolds(term, e) <=> Has(f, e) /\ CompareValue(v, Amount(f, e))
  <2> DEFINE x == Amount(f, e)
  <2>1. CompareValue(v, x) \in BOOLEAN
    BY <1>4, CompareAnswers
  <2>2. CASE f = "size:"
    <3>1. MatchesTerm(term, {}, e) = CompareValue(v, x)
      <4>1. MatchesTerm(term, {}, e) = CompareValue(term.value, e.size)
        BY <1>1, <1>3, <2>2, Zenon DEF MatchesTerm
      <4>2. x = e.size
        BY <2>2, Zenon DEF Amount
      <4> QED BY <1>3, <4>1, <4>2, Zenon
    <3>2. Has(f, e) = TRUE
      BY <2>2, Zenon DEF Has
    <3> HIDE DEF x
    <3> QED BY <1>3, <2>1, <3>1, <3>2, Zenon DEF TermHolds, x
  <2>3. CASE f \in DOMAIN DateField
    <3>0. f # "size:"
      BY <1>1, <2>3
    <3>1. MatchesTerm(term, {}, e) = (x # 0 /\ CompareValue(v, x))
      <4>1. MatchesTerm(term, {}, e) =
                (e[DateField[f]] # 0 /\ CompareValue(term.value, e[DateField[f]]))
        BY <1>1, <1>3, <2>3, Zenon DEF MatchesTerm
      <4>2. x = e[DateField[f]]
        BY <3>0, Zenon DEF Amount
      <4> QED BY <1>3, <4>1, <4>2, Zenon
    <3>2. Has(f, e) <=> x # 0
      BY <3>0, Zenon DEF Has, Amount
    <3> HIDE DEF x
    <3> QED BY <1>3, <2>1, <3>1, <3>2, Zenon DEF TermHolds, x
  <2>4. f = "size:" \/ f \in DOMAIN DateField
    BY DEF Fields
  <2> QED BY <2>2, <2>3, <2>4
<1> HIDE DEF f
<1>8. Rows(raw) = {e \in Candidates : Has(f, e) /\ CompareValue(v, Amount(f, e))}
  BY <1>6, <1>7
<1> QED BY <1>8, Zenon DEF f, v

-----------------------------------------------------------------------------
(* Ranges *)

\* A range behind a field's name, around its separator.
LEMMA RangeParts ==
    ASSUME NEW C, NEW raw \in Seq(C), NEW i \in 2 .. Len(raw)
    PROVE  LET t == Tail(raw)
               j == i - 1
           IN  /\ t \in Seq(C) /\ Len(t) = Len(raw) - 1 /\ Len(raw) \in Nat /\ j \in 1 .. Len(t) /\ t[j] = raw[i]
               /\ SubSeq(t, 1, j - 1) = SubSeq(raw, 2, i - 1)
               /\ SubSeq(t, j + 1, Len(t)) = SubSeq(raw, i + 1, Len(raw))
               /\ SubSeq(raw, 2, i - 1) \in Seq(C) /\ Len(SubSeq(raw, 2, i - 1)) = i - 2
               /\ \A k \in 1 .. i - 2 : SubSeq(raw, 2, i - 1)[k] = raw[k + 1]
<1> DEFINE t == Tail(raw)
           l == SubSeq(raw, 2, i - 1)
<1>1. /\ t \in Seq(C) /\ Len(t) = Len(raw) - 1 /\ Len(raw) \in Nat
      /\ \A k \in 1 .. Len(t) : t[k] = raw[k + 1]
  OBVIOUS
<1>2. i - 1 \in 1 .. Len(t) /\ t[i - 1] = raw[i] /\ (i - 1) - 1 = i - 2 /\ (i - 1) + 1 = i
  BY <1>1
<1>3. l \in Seq(C) /\ Len(l) = i - 2 /\ \A k \in 1 .. i - 2 : l[k] = raw[k + 1]
  OBVIOUS
<1>4. SubSeq(t, 1, (i - 1) - 1) = l
  <2> HIDE DEF t, l
  <2>1. SubSeq(t, 1, i - 2) \in Seq(C) /\ Len(SubSeq(t, 1, i - 2)) = i - 2
    BY <1>1, <1>2
  <2>2. \A k \in 1 .. i - 2 : SubSeq(t, 1, i - 2)[k] = t[k] /\ k \in 1 .. Len(t)
    BY <1>1, <1>2
  <2>3. \A k \in 1 .. i - 2 : SubSeq(t, 1, i - 2)[k] = l[k]
    BY <1>1, <1>3, <2>2
  <2>4. SubSeq(t, 1, i - 2) = l
    BY <1>3, <2>1, <2>3, SeqEqual
  <2> QED BY <1>2, <2>4
<1>5. SubSeq(t, (i - 1) + 1, Len(t)) = SubSeq(raw, i + 1, Len(raw))
  <2> DEFINE r == SubSeq(raw, i + 1, Len(raw))
             u == SubSeq(t, i, Len(t))
  <2>1. r \in Seq(C) /\ Len(r) = Len(raw) - i /\ \A k \in 1 .. Len(raw) - i : r[k] = raw[i + k]
    OBVIOUS
  <2> HIDE DEF t, r
  <2>2. u \in Seq(C) /\ Len(u) = Len(raw) - i
    BY <1>1, <1>2
  <2>3. \A k \in 1 .. Len(raw) - i : u[k] = t[i - 1 + k] /\ i - 1 + k \in 1 .. Len(t) /\ (i - 1 + k) + 1 = i + k
    BY <1>1, <1>2
  <2>4. \A k \in 1 .. Len(raw) - i : u[k] = r[k]
    BY <1>1, <2>1, <2>3, ZenonT(120)
  <2> HIDE DEF u
  <2>5. u = r
    BY <2>1, <2>2, <2>4, SeqEqual
  <2> QED BY <1>2, <2>5 DEF u, r
<1> HIDE DEF t, l
<1>6. /\ t \in Seq(C) /\ Len(t) = Len(raw) - 1 /\ Len(raw) \in Nat /\ i - 1 \in 1 .. Len(t) /\ t[i - 1] = raw[i]
      /\ SubSeq(t, 1, (i - 1) - 1) = l
      /\ SubSeq(t, (i - 1) + 1, Len(t)) = SubSeq(raw, i + 1, Len(raw))
      /\ l \in Seq(C) /\ Len(l) = i - 2
      /\ \A k \in 1 .. i - 2 : l[k] = raw[k + 1]
  BY <1>1, <1>2, <1>3, <1>4, <1>5, Zenon
<1> QED BY <1>6, Zenon DEF t, l

LEMMA MinOfOne ==
    ASSUME NEW S \in SUBSET Int, NEW j \in S, \A k \in S : j <= k
    PROVE  Min(S) = j
<1>1. Min(S) = CHOOSE x \in S : \A y \in S : x <= y
  BY DEF Min
<1> DEFINE m == CHOOSE x \in S : \A y \in S : x <= y
<1>2. m \in S /\ \A y \in S : m <= y
  OBVIOUS
<1> HIDE DEF m
<1>3. m = j
  BY <1>2
<1> QED BY <1>1, <1>3 DEF m

\* Dots part a value where it has them, or else the first dash behind its first character.
DotsAt(t, j) == \A k \in 1 .. Len(t) : t[k] = ".." <=> k = j

DashAt(t, j) ==
    /\ t[j] = "-" /\ \A k \in 1 .. Len(t) : t[k] # ".."
    /\ \A k \in 2 .. Len(t) : k < j => t[k] # "-"

LEMMA SeparatorDots ==
    ASSUME NEW C, NEW t \in Seq(C), NEW j \in 1 .. Len(t), DotsAt(t, j)
    PROVE  Separator(t) = j
<1> DEFINE dots == {k \in DOMAIN t : t[k] = ".."}
           dashes == {k \in 2 .. Len(t) : t[k] = "-"}
<1>1. DOMAIN t = 1 .. Len(t)
  OBVIOUS
<1>2. dots \in SUBSET Int /\ j \in dots /\ \A k \in dots : j <= k
  BY <1>1 DEF DotsAt
<1>3. Separator(t) = CASE dots # {} -> Min(dots) [] dots = {} /\ dashes # {} -> Min(dashes) [] OTHER -> 0
  BY Zenon DEF Separator
<1> HIDE DEF dots, dashes
<1>4. Separator(t) = Min(dots)
  BY <1>2, <1>3, Zenon
<1>5. Min(dots) = j
  BY <1>2, MinOfOne
<1> QED BY <1>4, <1>5

LEMMA SeparatorDashes ==
    ASSUME NEW C, NEW t \in Seq(C), NEW j \in 2 .. Len(t), DashAt(t, j)
    PROVE  Separator(t) = j
<1> DEFINE dots == {k \in DOMAIN t : t[k] = ".."}
           dashes == {k \in 2 .. Len(t) : t[k] = "-"}
<1>1. DOMAIN t = 1 .. Len(t)
  OBVIOUS
<1>2. dots = {}
  BY <1>1 DEF DashAt
<1>3. dashes \in SUBSET Int /\ j \in dashes /\ \A k \in dashes : ~(k < j)
  BY DEF DashAt
<1>4. Separator(t) = CASE dots # {} -> Min(dots) [] dots = {} /\ dashes # {} -> Min(dashes) [] OTHER -> 0
  BY Zenon DEF Separator
<1> HIDE DEF dots, dashes
<1>5. Separator(t) = Min(dashes)
  BY <1>2, <1>3, <1>4, Zenon
<1>6. Min(dashes) = j
  BY <1>3, MinOfOne
<1> QED BY <1>5, <1>6

\* A number and its unit, or a date, begin with a number.
LEMMA NumbersAreNumbers ==
    ASSUME NEW c \in DOMAIN Numeral
    PROVE  c \notin {"<", "<=", ">", ">=", "="} /\ c \notin DOMAIN DateConstant
BY QueryAssumption

SizeText(t) ==
    /\ Len(t) = 1 \/ (Len(t) = 2 /\ t[2] \in DOMAIN Unit)
    /\ t[1] \in DOMAIN Numeral

LEMMA SizeParses ==
    ASSUME NEW t, ParseSizeNumber(t) # Failed
    PROVE  SizeText(t)
<1>1. \/ Len(t) = 1 /\ IsNumber(t[1])
      \/ Len(t) = 2 /\ IsNumber(t[1]) /\ t[2] \in DOMAIN Unit
  <2> SUFFICES ASSUME ~(Len(t) = 1 /\ IsNumber(t[1])),
                      ~(Len(t) = 2 /\ IsNumber(t[1]) /\ t[2] \in DOMAIN Unit)
               PROVE  FALSE
    OBVIOUS
  <2> HIDE DEF Failed
  <2>1. ParseSizeNumber(t) = Failed
    BY Zenon DEF ParseSizeNumber
  <2> QED BY <2>1
<1> QED BY <1>1 DEF SizeText, IsNumber

LEMMA DateParses ==
    ASSUME NEW t, AbsoluteDate(t) # Failed
    PROVE  t # <<>> /\ t[1] \in DOMAIN Numeral
<1>1. t # <<>> /\ IsNumber(t[1])
  <2> SUFFICES ASSUME ~(t # <<>> /\ IsNumber(t[1])) PROVE AbsoluteDate(t) = Failed
    BY Zenon
  <2> QED BY Zenon DEF AbsoluteDate
<1> QED BY <1>1 DEF IsNumber

\* Where each character of a sequence is, around a place.
LEMMA AroundAt ==
    ASSUME NEW C, NEW t \in Seq(C), NEW j \in 1 .. Len(t), NEW k \in 1 .. Len(t)
    PROVE  \/ k < j /\ k \in 1 .. Len(Before(t, j)) /\ t[k] = Before(t, j)[k]
           \/ k = j
           \/ j < k /\ k - j \in 1 .. Len(After(t, j)) /\ t[k] = After(t, j)[k - j]
<1> DEFINE l == Before(t, j)
           r == After(t, j)
<1>1. /\ Len(t) \in Nat /\ Len(l) = j - 1 /\ Len(r) = Len(t) - j
      /\ \A n \in 1 .. j - 1 : l[n] = t[n]
      /\ \A n \in 1 .. Len(t) - j : r[n] = t[j + n]
  BY CutOfSeq, ZenonT(120)
<1> HIDE DEF l, r
<1>2. CASE k < j
  <2>1. k \in 1 .. Len(l) /\ t[k] = l[k]
    BY <1>1, <1>2
  <2> QED BY <1>2, <2>1, Zenon DEF l
<1>3. CASE j < k
  <2>1. k - j \in 1 .. Len(t) - j /\ j + (k - j) = k
    BY <1>1, <1>3
  <2>2. k - j \in 1 .. Len(r) /\ t[k] = r[k - j]
    BY <1>1, <2>1
  <2> QED BY <1>3, <2>2, Zenon DEF r
<1>4. k < j \/ k = j \/ j < k
  OBVIOUS
<1> QED BY <1>2, <1>3, <1>4, Zenon

NoDots(t) == \A k \in 1 .. Len(t) : t[k] # ".."

LEMMA FirstOfRange ==
    ASSUME NEW C, NEW t \in Seq(C), NEW j \in 1 .. Len(t), Len(Before(t, j)) # 0,
           Before(t, j)[1] \in DOMAIN Numeral
    PROVE  ~HasOperator(t) /\ j \in 2 .. Len(t)
<1>1. /\ Len(t) \in Nat /\ Len(Before(t, j)) = j - 1
      /\ \A n \in 1 .. j - 1 : Before(t, j)[n] = t[n]
  BY CutOfSeq
<1>2. j \in 2 .. Len(t) /\ 1 \in 1 .. j - 1
  BY <1>1
<1>3. t[1] \in DOMAIN Numeral
  BY <1>1, <1>2
<1> QED BY <1>2, <1>3, NumbersAreNumbers DEF HasOperator

LEMMA DotsPart ==
    ASSUME NEW C, NEW t \in Seq(C), NEW j \in 1 .. Len(t), t[j] = "..",
           NoDots(Before(t, j)), NoDots(After(t, j))
    PROVE  Separator(t) = j
<1>1. DotsAt(t, j)
  <2> SUFFICES ASSUME NEW k \in 1 .. Len(t) PROVE t[k] = ".." <=> k = j
    BY DEF DotsAt
  <2>1. \/ k < j /\ k \in 1 .. Len(Before(t, j)) /\ t[k] = Before(t, j)[k]
        \/ k = j
        \/ j < k /\ k - j \in 1 .. Len(After(t, j)) /\ t[k] = After(t, j)[k - j]
    BY AroundAt
  <2> QED BY <2>1 DEF NoDots
<1> QED BY <1>1, SeparatorDots

LEMMA DashParts ==
    ASSUME NEW C, NEW t \in Seq(C), NEW j \in 2 .. Len(t), t[j] = "-",
           NoDots(Before(t, j)), NoDots(After(t, j)), SizeText(Before(t, j))
    PROVE  Separator(t) = j
<1>0. j \in 1 .. Len(t) /\ Len(Before(t, j)) = j - 1
  <2>1. j \in 1 .. Len(t)
    OBVIOUS
  <2> QED BY <2>1, CutOfSeq
<1>1. DashAt(t, j)
  <2>1. ASSUME NEW k \in 1 .. Len(t) PROVE t[k] # ".." /\ (k \in 2 .. Len(t) /\ k < j => t[k] # "-")
    <3>1. \/ k < j /\ k \in 1 .. Len(Before(t, j)) /\ t[k] = Before(t, j)[k]
          \/ k = j
          \/ j < k /\ k - j \in 1 .. Len(After(t, j)) /\ t[k] = After(t, j)[k - j]
      BY <1>0, AroundAt
    <3>2. t[k] # ".."
      BY <3>1 DEF NoDots
    <3>3. ASSUME k \in 2 .. Len(t), k < j PROVE t[k] # "-"
      <4>1. k \in 1 .. Len(Before(t, j)) /\ t[k] = Before(t, j)[k]
        BY <3>1, <3>3
      <4>2. k = 2 /\ Before(t, j)[2] \in DOMAIN Unit
        BY <1>0, <3>3, <4>1 DEF SizeText
      <4> QED BY <4>1, <4>2 DEF Unit
    <3> QED BY <3>2, <3>3
  <2>2. \A k \in 2 .. Len(t) : k \in 1 .. Len(t)
    OBVIOUS
  <2> QED BY <2>1, <2>2 DEF DashAt
<1> QED BY <1>1, SeparatorDashes

Range2(lo, hi) == [op |-> "..", lo |-> lo, hi |-> hi]

LEMMA SizeRange ==
    ASSUME NEW C, NEW t \in Seq(C), NEW j \in 1 .. Len(t), t[j] \in {"..", "-"},
           NoDots(Before(t, j)), NoDots(After(t, j)),
           ParseSizeNumber(Before(t, j)) # Failed, ParseSizeNumber(After(t, j)) # Failed
    PROVE  ParseSizeValue(t) = Range2(ParseSizeNumber(Before(t, j)), ParseSizeNumber(After(t, j)))
<1>1. SizeText(Before(t, j))
  BY SizeParses
<1>2. ~HasOperator(t) /\ j \in 2 .. Len(t)
  <2>1. Len(Before(t, j)) # 0 /\ Before(t, j)[1] \in DOMAIN Numeral
    BY <1>1 DEF SizeText
  <2> QED BY <2>1, FirstOfRange
<1>3. Separator(t) = j
  BY <1>1, <1>2, DotsPart, DashParts
<1>4. j # 0
  BY <1>2
<1>5. ParseSizeValue(t) = Between(ParseSizeNumber(Before(t, j)), ParseSizeNumber(After(t, j)))
  BY <1>2, <1>3, <1>4, Zenon DEF ParseSizeValue
<1> QED BY <1>5, Zenon DEF Between, Range2

LEMMA DateRange ==
    ASSUME NEW C, NEW t \in Seq(C), NEW j \in 1 .. Len(t), t[j] = "..",
           NoDots(Before(t, j)), NoDots(After(t, j)),
           AbsoluteDate(Before(t, j)) # Failed, AbsoluteDate(After(t, j)) # Failed
    PROVE  ParseDateValue(t) = Range2(AbsoluteDate(Before(t, j)), AbsoluteDate(After(t, j)))
<1>1. Before(t, j) # <<>> /\ Before(t, j)[1] \in DOMAIN Numeral
  BY DateParses
<1>2. ~HasOperator(t) /\ j \in 2 .. Len(t)
  <2>1. Before(t, j) \in Seq(C)
    BY CutOfSeq
  <2>2. Len(Before(t, j)) # 0
    BY <1>1, <2>1, EmptySeq
  <2> QED BY <1>1, <2>2, FirstOfRange
<1>3. Separator(t) = j
  BY DotsPart
<1>4. j # 0
  BY <1>2
<1>5. ParseDateValue(t) = Between(AbsoluteDate(Before(t, j)), AbsoluteDate(After(t, j)))
  BY <1>2, <1>3, <1>4, Zenon DEF ParseDateValue
<1> QED BY <1>5, Zenon DEF Between, Range2

\* A bound: an operator and a value.
Bound(op, v) == <<op>> \o v

LEMMA BoundParts ==
    ASSUME NEW C, NEW op \in C, NEW v \in Seq(C)
    PROVE  /\ Bound(op, v) \in Seq(C) /\ Bound(op, v) # <<>> /\ Bound(op, v)[1] = op /\ Tail(Bound(op, v)) = v
           /\ Len(v) \in Nat /\ Len(Bound(op, v)) = Len(v) + 1
           /\ \A k \in 1 .. Len(v) : Bound(op, v)[k + 1] = v[k]
<1> DEFINE b == <<op>> \o v
<1>1. b \in Seq(C) /\ Len(v) \in Nat /\ Len(b) = Len(v) + 1 /\ b[1] = op /\ \A k \in 1 .. Len(v) : b[k + 1] = v[k]
  OBVIOUS
<1> HIDE DEF b
<1>2. b # <<>> /\ Tail(b) \in Seq(C) /\ Len(Tail(b)) = Len(v) /\ \A k \in 1 .. Len(v) : Tail(b)[k] = b[k + 1]
  BY <1>1
<1>3. Tail(b) = v
  <2> DEFINE u == Tail(b)
  <2>1. u \in Seq(C) /\ Len(u) = Len(v) /\ \A k \in 1 .. Len(v) : u[k] = v[k]
    BY <1>1, <1>2
  <2> HIDE DEF u
  <2>2. u = v
    BY <2>1, SeqEqual
  <2> QED BY <2>2 DEF u
<1> QED BY <1>1, <1>2, <1>3, Zenon DEF b, Bound

Relation1(op, x) == [op |-> op, lo |-> x, hi |-> 0]

LEMMA SizeBound ==
    ASSUME NEW C, NEW op \in C, NEW v \in Seq(C), op \in {"<", "<=", ">", ">=", "="}, ParseSizeNumber(v) # Failed
    PROVE  ParseSizeValue(Bound(op, v)) = Relation1(op, ParseSizeNumber(v))
<1> DEFINE b == Bound(op, v)
<1>1. b # <<>> /\ b[1] = op /\ Tail(b) = v
  BY BoundParts
<1> HIDE DEF b
<1>2. HasOperator(b)
  BY <1>1, Zenon DEF HasOperator
<1>3. ParseSizeValue(b) = Compared(op, ParseSizeNumber(v))
  BY <1>1, <1>2, Zenon DEF ParseSizeValue
<1>4. ParseSizeValue(b) = Relation1(op, ParseSizeNumber(v))
  BY <1>3, Zenon DEF Compared, Relation1
<1> QED BY <1>4 DEF b

LEMMA DateBound ==
    ASSUME NEW C, NEW op \in C, NEW v \in Seq(C), op \in {"<", "<=", ">", ">=", "="}, AbsoluteDate(v) # Failed
    PROVE  ParseDateValue(Bound(op, v)) = Relation1(op, AbsoluteDate(v))
<1> DEFINE b == Bound(op, v)
<1>1. b # <<>> /\ b[1] = op /\ Tail(b) = v
  BY BoundParts
<1>2. ~IsDateConstant(v)
  BY DateParses, NumbersAreNumbers, Zenon DEF IsDateConstant
<1> HIDE DEF b
<1>3. HasOperator(b)
  BY <1>1, Zenon DEF HasOperator
<1>4. ParseDateValue(b) = Compared(op, AbsoluteDate(v))
  BY <1>1, <1>2, <1>3, Zenon DEF ParseDateValue
<1>5. ParseDateValue(b) = Relation1(op, AbsoluteDate(v))
  BY <1>4, Zenon DEF Compared, Relation1
<1> QED BY <1>5 DEF b

LEMMA RangeCompares ==
    ASSUME NEW lo, NEW hi, NEW x
    PROVE  CompareValue(Range2(lo, hi), x) <=>
               CompareValue(Relation1(">=", lo), x) /\ CompareValue(Relation1("<", hi), x)
<1>1. Range2(lo, hi).op = ".." /\ Range2(lo, hi).lo = lo /\ Range2(lo, hi).hi = hi
  BY DEF Range2
<1>2. Relation1(">=", lo).op = ">=" /\ Relation1(">=", lo).lo = lo /\ Relation1("<", hi).op = "<" /\ Relation1("<", hi).lo = hi
  BY DEF Relation1
<1>3. CompareValue(Range2(lo, hi), x) = (x >= lo /\ x < hi)
  BY <1>1, Zenon DEF CompareValue
<1>4. CompareValue(Relation1(">=", lo), x) = (x >= lo)
  BY <1>2, Zenon DEF CompareValue
<1>5. CompareValue(Relation1("<", hi), x) = (x < hi)
  BY <1>2, Zenon DEF CompareValue
<1> QED BY <1>3, <1>4, <1>5

Known(field, t) == IF field = "size:" THEN ParseSizeNumber(t) ELSE AbsoluteDate(t)

LEMMA FieldIs ==
    ASSUME NEW f \in Fields
    PROVE  f \notin {" ", "|", Quote} /\ (f # "size:" => f \in DOMAIN DateField)
BY DEF Fields, DateField, Quote

Special(c) == c \in {" ", "|", Quote}

LEMMA NextInBound ==
    ASSUME NEW C, NEW op \in C, NEW v \in Seq(C), NEW k \in 1 .. Len(Bound(op, v))
    PROVE  Bound(op, v)[k] = op \/ \E n \in 1 .. Len(v) : Bound(op, v)[k] = v[n]
<1> DEFINE b == Bound(op, v)
<1>1. /\ b[1] = op /\ Len(v) \in Nat /\ Len(b) = Len(v) + 1 /\ \A n \in 1 .. Len(v) : b[n + 1] = v[n]
  BY BoundParts
<1>2. CASE k = 1
  BY <1>1, <1>2
<1>3. CASE k # 1
  <2> DEFINE n == k - 1
  <2> HIDE DEF b
  <2>1. n \in 1 .. Len(v) /\ n + 1 = k
    BY <1>1, <1>3 DEF b
  <2> HIDE DEF n
  <2>2. b[k] = v[n]
    BY <1>1, <2>1
  <2> QED BY <2>1, <2>2, Zenon DEF b
<1> QED BY <1>2, <1>3

LEMMA BoundIsWord ==
    ASSUME NEW C, NEW op \in C, NEW v \in Seq(C), ~Special(op), IsWord(v)
    PROVE  IsWord(Bound(op, v))
<1> DEFINE b == Bound(op, v)
<1>1. ASSUME NEW k \in 1 .. Len(b) PROVE b[k] = op \/ \E n \in 1 .. Len(v) : b[k] = v[n]
  BY NextInBound
<1> HIDE DEF b
<1>2. IsWord(b)
  BY <1>1 DEF IsWord, Special
<1> QED BY <1>2 DEF b

LEMMA BoundTwice ==
    ASSUME NEW C, NEW f \in C, NEW op \in C, NEW v \in Seq(C)
    PROVE  <<f, op>> \o v = Bound(f, Bound(op, v))
<1> DEFINE a == <<f, op>> \o v
           b == Bound(op, v)
           d == Bound(f, b)
<1>1. a \in Seq(C) /\ Len(a) = Len(v) + 2 /\ Len(v) \in Nat /\ a[1] = f /\ a[2] = op /\ \A k \in 1 .. Len(v) : a[k + 2] = v[k]
  OBVIOUS
<1>2. b \in Seq(C) /\ Len(b) = Len(v) + 1 /\ b[1] = op /\ \A k \in 1 .. Len(v) : b[k + 1] = v[k]
  BY BoundParts
<1> HIDE DEF a, b
<1>3. d \in Seq(C) /\ Len(d) = Len(b) + 1 /\ d[1] = f /\ \A k \in 1 .. Len(b) : d[k + 1] = b[k]
  <2>1. b \in Seq(C)
    BY <1>2
  <2> QED BY <2>1, BoundParts
<1> HIDE DEF d
<1>4. \A k \in 1 .. Len(a) : a[k] = d[k]
  <2> TAKE k \in 1 .. Len(a)
  <2>1. CASE k = 1
    BY <1>1, <1>3, <2>1
  <2>2. CASE k = 2
    <3>1. 1 \in 1 .. Len(b) /\ 1 + 1 = 2
      BY <1>1, <1>2
    <3> QED BY <1>1, <1>2, <1>3, <2>2, <3>1
  <2>3. CASE k > 2
    <3>1. k - 2 \in 1 .. Len(v) /\ (k - 2) + 2 = k /\ (k - 2) + 1 = k - 1 /\ k - 1 \in 1 .. Len(b) /\ (k - 1) + 1 = k
      BY <1>1, <1>2, <2>3
    <3>2. a[k] = v[k - 2] /\ b[k - 1] = v[k - 2] /\ d[k] = b[k - 1]
      BY <1>1, <1>2, <1>3, <3>1
    <3> QED BY <3>2
  <2> QED BY <1>1, <2>1, <2>2, <2>3
<1>5. a = d
  BY <1>1, <1>2, <1>3, <1>4, SeqEqual
<1> QED BY <1>5, Zenon DEF a, b, d

IsOperator(op) == op \in {"<", "<=", ">", ">=", "="}

\* A field, an operator and a value.
Bounded(f, op, v) == <<f, op>> \o v

LEMMA BoundRows ==
    ASSUME NEW C, NEW f \in C, NEW op \in C, NEW v \in Seq(C), f \in Fields, IsOperator(op),
           IsWord(v), Known(f, v) # Failed
    PROVE  Rows(Bounded(f, op, v)) =
               {e \in Candidates : Has(f, e) /\ CompareValue(Relation1(op, Known(f, v)), Amount(f, e))}
<1> DEFINE b == Bound(op, v)
           d == Bound(f, b)
<1>1. b \in Seq(C) /\ Len(b) \in Nat /\ Len(b) # 0
  <2>1. b \in Seq(C) /\ Len(v) \in Nat /\ Len(b) = Len(v) + 1
    BY BoundParts
  <2> HIDE DEF b
  <2> QED BY <2>1
<1>2. IsWord(b)
  <2>1. ~Special(op)
    BY DEF IsOperator, Quote, Special
  <2> QED BY <2>1, BoundIsWord
<1> HIDE DEF b
<1>3. IsWord(d)
  <2>1. ~Special(f)
    BY FieldIs DEF Special
  <2> QED BY <1>1, <1>2, <2>1, BoundIsWord
<1>4. d \in Seq(C) /\ d # <<>> /\ d[1] = f /\ Tail(d) = b /\ Len(d) = Len(b) + 1
  BY <1>1, BoundParts
<1> HIDE DEF d
<1>5. Len(d) # 1
  BY <1>1, <1>4
<1>6. Rows(d) = {e \in Candidates : Has(d[1], e) /\ CompareValue(ValueOf(d[1], Tail(d)), Amount(d[1], e))}
  BY <1>3, <1>4, <1>5, ValueRows
<1>7. ValueOf(f, b) = Relation1(op, Known(f, v))
  <2>0. op \in {"<", "<=", ">", ">=", "="}
    BY Zenon DEF IsOperator
  <2>1. CASE f = "size:"
    <3>1. Known(f, v) = ParseSizeNumber(v) /\ ValueOf(f, b) = ParseSizeValue(b)
      BY <2>1, Zenon DEF Known, ValueOf
    <3>2. ParseSizeValue(b) = Relation1(op, ParseSizeNumber(v))
      BY <2>0, <3>1, SizeBound DEF b
    <3> QED BY <3>1, <3>2, Zenon
  <2>2. CASE f # "size:"
    <3>1. Known(f, v) = AbsoluteDate(v) /\ ValueOf(f, b) = ParseDateValue(b)
      BY <2>2, Zenon DEF Known, ValueOf
    <3>2. ParseDateValue(b) = Relation1(op, AbsoluteDate(v))
      BY <2>0, <3>1, DateBound DEF b
    <3> QED BY <3>1, <3>2, Zenon
  <2> QED BY <2>1, <2>2
<1>8. Rows(d) = {e \in Candidates : Has(f, e) /\ CompareValue(Relation1(op, Known(f, v)), Amount(f, e))}
  BY <1>4, <1>6, <1>7, Zenon
<1>9. Bounded(f, op, v) = d
  <2>1. <<f, op>> \o v = d
    BY BoundTwice DEF d, b
  <2> QED BY <2>1, Zenon DEF Bounded
<1> QED BY <1>8, <1>9, Zenon

\* What parts the ends of a range: for sizes also a dash.
Parting(field, c) == c \in (IF field = "size:" THEN {"..", "-"} ELSE {".."})

Lower(raw, i) == SubSeq(raw, 2, i - 1)

LEMMA LowerParts ==
    ASSUME NEW C, NEW raw \in Seq(C), NEW i \in 2 .. Len(raw)
    PROVE  /\ Tail(raw) \in Seq(C) /\ i - 1 \in 1 .. Len(Tail(raw)) /\ Tail(raw)[i - 1] = raw[i]
           /\ Before(Tail(raw), i - 1) = Lower(raw, i) /\ After(Tail(raw), i - 1) = After(raw, i)
           /\ Lower(raw, i) \in Seq(C)
           /\ \A k \in 1 .. Len(raw) : \/ k = 1 \/ k = i
                                       \/ \E n \in 1 .. Len(Lower(raw, i)) : raw[k] = Lower(raw, i)[n]
                                       \/ \E n \in 1 .. Len(After(raw, i)) : raw[k] = After(raw, i)[n]
<1> DEFINE t == Tail(raw)
           l == Lower(raw, i)
           r == After(raw, i)
<1>1. /\ t \in Seq(C) /\ i - 1 \in 1 .. Len(t) /\ t[i - 1] = raw[i]
      /\ Before(t, i - 1) = l /\ After(t, i - 1) = r
      /\ l \in Seq(C) /\ Len(l) = i - 2 /\ Len(raw) \in Nat
      /\ \A k \in 1 .. i - 2 : l[k] = raw[k + 1]
  BY RangeParts, Zenon DEF Before, After, Lower
<1>2. /\ Len(r) = Len(raw) - i /\ \A k \in 1 .. Len(raw) - i : r[k] = raw[i + k]
  <2>1. i \in 1 .. Len(raw)
    OBVIOUS
  <2> QED BY <2>1, CutOfSeq
<1> HIDE DEF t, l, r
<1>3. ASSUME NEW k \in 1 .. Len(raw)
      PROVE  k = 1 \/ k = i \/ (\E n \in 1 .. Len(l) : raw[k] = l[n]) \/ (\E n \in 1 .. Len(r) : raw[k] = r[n])
  <2>1. CASE 1 < k /\ k < i
    <3>1. k - 1 \in 1 .. i - 2 /\ (k - 1) + 1 = k
      BY <1>1, <2>1
    <3>2. k - 1 \in 1 .. Len(l) /\ raw[k] = l[k - 1]
      BY <1>1, <3>1
    <3> QED BY <3>2
  <2>2. CASE i < k
    <3>1. k - i \in 1 .. Len(raw) - i /\ i + (k - i) = k
      BY <1>1, <2>2
    <3>2. k - i \in 1 .. Len(r) /\ raw[k] = r[k - i]
      BY <1>2, <3>1
    <3> QED BY <3>2
  <2> QED BY <1>1, <2>1, <2>2
<1> QED BY <1>1, <1>3, Zenon DEF t, l, r

LEMMA RangeRows ==
    ASSUME NEW C, NEW raw \in Seq(C), NEW i \in 2 .. Len(raw), raw[1] \in Fields, Parting(raw[1], raw[i]),
           IsWord(Lower(raw, i)), IsWord(After(raw, i)), NoDots(Lower(raw, i)), NoDots(After(raw, i)),
           Known(raw[1], Lower(raw, i)) # Failed, Known(raw[1], After(raw, i)) # Failed
    PROVE  Rows(raw) =
               {e \in Candidates :
                   /\ Has(raw[1], e)
                   /\ CompareValue(Range2(Known(raw[1], Lower(raw, i)), Known(raw[1], After(raw, i))), Amount(raw[1], e))}
<1> DEFINE f == raw[1]
           t == Tail(raw)
           j == i - 1
           l == Lower(raw, i)
           r == After(raw, i)
<1>1. /\ t \in Seq(C) /\ j \in 1 .. Len(t) /\ t[j] = raw[i] /\ Before(t, j) = l /\ After(t, j) = r
      /\ \A k \in 1 .. Len(raw) : \/ k = 1 \/ k = i
                                  \/ \E n \in 1 .. Len(l) : raw[k] = l[n]
                                  \/ \E n \in 1 .. Len(r) : raw[k] = r[n]
  BY LowerParts
<1>2. Len(raw) # 1 /\ raw # <<>>
  <2>1. i \in Int /\ 2 <= i /\ i <= Len(raw) /\ Len(raw) \in Nat
    OBVIOUS
  <2>2. Len(raw) # 1 /\ Len(raw) # 0
    BY <2>1
  <2> QED BY <2>2, EmptySeq
<1> HIDE DEF t, j, l, r
<1>3. IsWord(raw)
  <2> SUFFICES ASSUME NEW k \in 1 .. Len(raw) PROVE raw[k] \notin {" ", "|", Quote}
    BY DEF IsWord
  <2>1. raw[1] \notin {" ", "|", Quote}
    BY FieldIs
  <2>2. raw[i] \notin {" ", "|", Quote}
    BY DEF Parting, Quote
  <2>3. /\ \A n \in 1 .. Len(l) : l[n] \notin {" ", "|", Quote}
        /\ \A n \in 1 .. Len(r) : r[n] \notin {" ", "|", Quote}
    BY DEF IsWord, l, r
  <2> QED BY <1>1, <2>1, <2>2, <2>3
<1>4. NoDots(Before(t, j)) /\ NoDots(After(t, j))
  BY <1>1, Zenon DEF l, r
<1>5. Known(f, Before(t, j)) # Failed /\ Known(f, After(t, j)) # Failed
  BY <1>1, Zenon DEF l, r
<1>6. ValueOf(f, t) = Range2(Known(f, Before(t, j)), Known(f, After(t, j)))
  <2>1. CASE f = "size:"
    <3>1. /\ Known(f, Before(t, j)) = ParseSizeNumber(Before(t, j))
          /\ Known(f, After(t, j)) = ParseSizeNumber(After(t, j))
          /\ ValueOf(f, t) = ParseSizeValue(t)
      BY <2>1, Zenon DEF Known, ValueOf
    <3>2. t[j] \in {"..", "-"}
      BY <1>1, <2>1, Zenon DEF Parting
    <3>3. ParseSizeNumber(Before(t, j)) # Failed /\ ParseSizeNumber(After(t, j)) # Failed
      BY <1>5, <3>1, Zenon
    <3>4. ParseSizeValue(t) = Range2(ParseSizeNumber(Before(t, j)), ParseSizeNumber(After(t, j)))
      BY <1>1, <1>4, <3>2, <3>3, SizeRange
    <3> QED BY <3>1, <3>4, Zenon
  <2>2. CASE f # "size:"
    <3>1. /\ Known(f, Before(t, j)) = AbsoluteDate(Before(t, j))
          /\ Known(f, After(t, j)) = AbsoluteDate(After(t, j))
          /\ ValueOf(f, t) = ParseDateValue(t)
      BY <2>2, Zenon DEF Known, ValueOf
    <3>2. t[j] = ".."
      BY <1>1, <2>2 DEF Parting
    <3>3. AbsoluteDate(Before(t, j)) # Failed /\ AbsoluteDate(After(t, j)) # Failed
      BY <1>5, <3>1, Zenon
    <3>4. ParseDateValue(t) = Range2(AbsoluteDate(Before(t, j)), AbsoluteDate(After(t, j)))
      BY <1>1, <1>4, <3>2, <3>3, DateRange
    <3> QED BY <3>1, <3>4, Zenon
  <2> QED BY <2>1, <2>2
<1>7. Rows(raw) = {e \in Candidates : Has(f, e) /\ CompareValue(ValueOf(f, t), Amount(f, e))}
  BY <1>2, <1>3, ValueRows DEF t
<1>8. ValueOf(f, t) = Range2(Known(f, l), Known(f, r))
  BY <1>1, <1>6, Zenon
<1> HIDE DEF f
<1>9. Rows(raw) = {e \in Candidates : Has(f, e) /\ CompareValue(Range2(Known(f, l), Known(f, r)), Amount(f, e))}
  BY <1>7, <1>8, Zenon
<1> QED BY <1>9, Zenon DEF f, l, r

LEMMA WiderSeq ==
    ASSUME NEW A, NEW B, A \subseteq B, NEW s \in Seq(A)
    PROVE  s \in Seq(B)
<1>1. DOMAIN s = 1 .. Len(s) /\ Len(s) \in Nat /\ s \in [1 .. Len(s) -> A]
  OBVIOUS
<1>2. s \in [1 .. Len(s) -> B]
  BY <1>1
<1> QED BY <1>1, <1>2

Clean(s) == ToSet(s) \cap {"..", " ", "|", Quote} = {}

\* What stands on both sides of a place is free of what both sides together are free of.
LEMMA BothFree ==
    ASSUME NEW C, NEW l \in Seq(C), NEW r \in Seq(C), Clean(Onto(l, r))
    PROVE  IsWord(l) /\ IsWord(r) /\ NoDots(l) /\ NoDots(r)
<1>1. ToSet(Onto(l, r)) = ToSet(l) \cup ToSet(r)
  BY OntoSet
<1>3. ToSet(l) = {l[k] : k \in 1 .. Len(l)} /\ ToSet(r) = {r[k] : k \in 1 .. Len(r)}
  BY ToSetIs
<1> DEFINE B == {"..", " ", "|", Quote}
<1>4. \A c \in B : c \notin ToSet(l) /\ c \notin ToSet(r)
  <2> HIDE DEF B
  <2> QED BY <1>1, Zenon DEF B, Clean
<1>5. /\ \A k \in 1 .. Len(l) : l[k] \notin B
      /\ \A k \in 1 .. Len(r) : r[k] \notin B
  <2> HIDE DEF B
  <2> QED BY <1>3, <1>4
<1> QED BY <1>5 DEF IsWord, NoDots

\* The premises of a range.
IsRange(raw, i) ==
    /\ raw[1] \in Fields
    /\ Parting(raw[1], raw[i])
    /\ IsWord(Lower(raw, i)) /\ IsWord(After(raw, i)) /\ NoDots(Lower(raw, i)) /\ NoDots(After(raw, i))
    /\ Known(raw[1], Lower(raw, i)) # Failed /\ Known(raw[1], After(raw, i)) # Failed

LEMMA SidesOfRange ==
    ASSUME NEW C, NEW raw \in Seq(C), NEW i \in 2 .. Len(raw)
    PROVE  Lower(raw, i) \in Seq(C) /\ After(raw, i) \in Seq(C)
<1>1. i \in 1 .. Len(raw)
  OBVIOUS
<1> QED BY <1>1, LowerParts, CutOfSeq

LEMMA RangeIsBounds ==
    ASSUME NEW C, NEW raw \in Seq(C), NEW i \in 2 .. Len(raw), IsRange(raw, i)
    PROVE  Rows(raw) = Rows(Bounded(raw[1], ">=", Lower(raw, i))) \cap Rows(Bounded(raw[1], "<", After(raw, i)))
<1> DEFINE f == raw[1]
           l == Lower(raw, i)
           r == After(raw, i)
           D == C \cup {">=", "<"}
<1>0. i \in 1 .. Len(raw) /\ 1 \in 1 .. Len(raw)
  OBVIOUS
<1>1. l \in Seq(C) /\ r \in Seq(C) /\ f \in C
  BY <1>0, LowerParts, CutOfSeq, ElementOfSeq
<1> HIDE DEF l, r, f
<1>2. C \subseteq D /\ ">=" \in D /\ "<" \in D
  OBVIOUS
<1> HIDE DEF D
<1>3. l \in Seq(D) /\ r \in Seq(D) /\ f \in D
  BY <1>1, <1>2, WiderSeq
<1>4. f \in Fields /\ IsWord(l) /\ IsWord(r) /\ Known(f, l) # Failed /\ Known(f, r) # Failed
  BY Zenon DEF IsRange, f, l, r
<1>5. IsOperator(">=") /\ IsOperator("<")
  BY DEF IsOperator
<1>6. Rows(Bounded(f, ">=", l)) = {e \in Candidates : Has(f, e) /\ CompareValue(Relation1(">=", Known(f, l)), Amount(f, e))}
  BY <1>2, <1>3, <1>4, <1>5, BoundRows
<1>7. Rows(Bounded(f, "<", r)) = {e \in Candidates : Has(f, e) /\ CompareValue(Relation1("<", Known(f, r)), Amount(f, e))}
  BY <1>2, <1>3, <1>4, <1>5, BoundRows
<1>8. Rows(raw) = {e \in Candidates : Has(f, e) /\ CompareValue(Range2(Known(f, l), Known(f, r)), Amount(f, e))}
  BY RangeRows, Zenon DEF IsRange, f, l, r
<1>9. \A e : CompareValue(Range2(Known(f, l), Known(f, r)), Amount(f, e)) <=>
                 CompareValue(Relation1(">=", Known(f, l)), Amount(f, e)) /\ CompareValue(Relation1("<", Known(f, r)), Amount(f, e))
  BY RangeCompares
<1>10. Rows(raw) = Rows(Bounded(f, ">=", l)) \cap Rows(Bounded(f, "<", r))
  <2> DEFINE A == Rows(Bounded(f, ">=", l))
             B == Rows(Bounded(f, "<", r))
             R == Rows(raw)
  <2> HIDE DEF A, B, R
  <2>1. A = {e \in Candidates : Has(f, e) /\ CompareValue(Relation1(">=", Known(f, l)), Amount(f, e))}
    BY <1>6, Zenon DEF A
  <2>2. B = {e \in Candidates : Has(f, e) /\ CompareValue(Relation1("<", Known(f, r)), Amount(f, e))}
    BY <1>7, Zenon DEF B
  <2>3. R = {e \in Candidates : Has(f, e) /\ CompareValue(Range2(Known(f, l), Known(f, r)), Amount(f, e))}
    BY <1>8, Zenon DEF R
  <2>4. R = A \cap B
    BY <1>9, <2>1, <2>2, <2>3
  <2> QED BY <2>4, Zenon DEF A, B, R
<1> QED BY <1>10, Zenon DEF f, l, r

LEMMA RangeHolds == Answered => RangeIsBothBounds
<1> SUFFICES ASSUME Answered, asked, NEW i \in 2 .. Len(text),
                    text[1] \in {"size:"} \cup DOMAIN DateField,
                    text[i] \in (IF text[1] = "size:" THEN {"..", "-"} ELSE {".."}),
                    ToSet(SubSeq(text, 2, i - 1) \o After(text, i)) \cap {"..", " ", "|", Quote} = {},
                    Known(text[1], SubSeq(text, 2, i - 1)) # Failed,
                    Known(text[1], After(text, i)) # Failed
             PROVE  found = Rows(<<text[1], ">=">> \o SubSeq(text, 2, i - 1))
                                \cap Rows(<<text[1], "<">> \o After(text, i))
  BY Zenon DEF RangeIsBothBounds, Known
<1>1. text \in Seq(STRING) /\ found = Rows(text)
  BY AnswerIs
<1> DEFINE l == SubSeq(text, 2, i - 1)
           r == After(text, i)
<1>2. l \in Seq(STRING) /\ r \in Seq(STRING)
  <2>1. i \in 2 .. Len(text)
    OBVIOUS
  <2>2. Lower(text, i) \in Seq(STRING) /\ After(text, i) \in Seq(STRING)
    BY <1>1, <2>1, SidesOfRange, Zenon
  <2> QED BY <2>2, Zenon DEF Lower
<1>3. IsWord(l) /\ IsWord(r) /\ NoDots(l) /\ NoDots(r)
  <2> HIDE DEF l, r
  <2>1. Clean(Onto(l, r))
    BY Zenon DEF l, r, Onto, Clean
  <2> QED BY <1>2, <2>1, BothFree, Zenon
<1>4. IsRange(text, i)
  BY <1>3, Zenon DEF IsRange, Lower, Fields, Parting
<1>5. Rows(text) = Rows(Bounded(text[1], ">=", Lower(text, i))) \cap Rows(Bounded(text[1], "<", After(text, i)))
  <2>1. i \in 2 .. Len(text)
    OBVIOUS
  <2> QED BY <1>1, <1>4, <2>1, RangeIsBounds, Zenon
<1> QED BY <1>1, <1>5, Zenon DEF Lower, Bounded

-----------------------------------------------------------------------------
(* The calendar *)

\* The day a month begins, months counted from the year 0.
MonthStart(k) == DayNumber(k \div 12, (k % 12) + 1, 1)

\* The days before a year that begins in March, and before a month of it.
YearStart(y) == 365 * y + y \div 4 - y \div 100 + y \div 400

Offset(m) == (153 * ((m + 9) % 12) + 2) \div 5

LEMMA DayNumberIs ==
    ASSUME NEW y \in Int, NEW m \in 1 .. 12, NEW d \in Int
    PROVE  DayNumber(y, m, d) = YearStart(IF m <= 2 THEN y - 1 ELSE y) + Offset(m) + d
BY DEF DayNumber, YearStart, Offset

LEMMA OffsetIs ==
    /\ Offset(1) = 306 /\ Offset(2) = 337 /\ Offset(3) = 0 /\ Offset(4) = 31 /\ Offset(5) = 61 /\ Offset(6) = 92
    /\ Offset(7) = 122 /\ Offset(8) = 153 /\ Offset(9) = 184 /\ Offset(10) = 214 /\ Offset(11) = 245
    /\ Offset(12) = 275
BY DEF Offset

LEMMA YearStep ==
    ASSUME NEW y \in Int
    PROVE  /\ YearStart(y) \in Int /\ YearStart(y - 1) \in Int
           /\ YearStart(y) - YearStart(y - 1) \in 364 .. 367
<1>1. y \div 4 - (y - 1) \div 4 \in {0, 1} /\ y \div 4 \in Int /\ (y - 1) \div 4 \in Int
  OBVIOUS
<1>2. y \div 100 - (y - 1) \div 100 \in {0, 1} /\ y \div 100 \in Int /\ (y - 1) \div 100 \in Int
  OBVIOUS
<1>3. y \div 400 - (y - 1) \div 400 \in {0, 1} /\ y \div 400 \in Int /\ (y - 1) \div 400 \in Int
  OBVIOUS
<1> QED BY <1>1, <1>2, <1>3 DEF YearStart

\* Each month begins at least four weeks after the one before.
LEMMA MonthStep ==
    ASSUME NEW k \in Nat
    PROVE  MonthStart(k) \in Int /\ MonthStart(k + 1) \in Int /\ MonthStart(k + 1) >= MonthStart(k) + 27
<1> DEFINE y == k \div 12
           r == k % 12
<1>1. y \in Int /\ r \in 0 .. 11 /\ k = 12 * y + r
  OBVIOUS
<1>2. /\ r < 11 => (k + 1) \div 12 = y /\ (k + 1) % 12 = r + 1
      /\ r = 11 => (k + 1) \div 12 = y + 1 /\ (k + 1) % 12 = 0
  BY <1>1
<1> HIDE DEF y, r
<1>3. MonthStart(k) = YearStart(IF r + 1 <= 2 THEN y - 1 ELSE y) + Offset(r + 1) + 1
  <2>1. MonthStart(k) = DayNumber(y, r + 1, 1) /\ r + 1 \in 1 .. 12
    BY <1>1 DEF MonthStart, y, r
  <2> QED BY <1>1, <2>1, DayNumberIs
<1>4. r < 11 => MonthStart(k + 1) = YearStart(IF r + 2 <= 2 THEN y - 1 ELSE y) + Offset(r + 2) + 1
  <2> SUFFICES ASSUME r < 11 PROVE MonthStart(k + 1) = YearStart(IF r + 2 <= 2 THEN y - 1 ELSE y) + Offset(r + 2) + 1
    OBVIOUS
  <2>1. (r + 1) + 1 = r + 2 /\ r + 2 \in 1 .. 12
    BY <1>1
  <2>2. MonthStart(k + 1) = DayNumber(y, r + 2, 1)
    BY <1>2, <2>1 DEF MonthStart
  <2> QED BY <1>1, <2>1, <2>2, DayNumberIs
<1>5. r = 11 => MonthStart(k + 1) = YearStart(y) + Offset(1) + 1
  <2> SUFFICES ASSUME r = 11 PROVE MonthStart(k + 1) = YearStart(y) + Offset(1) + 1
    OBVIOUS
  <2>1. MonthStart(k + 1) = DayNumber(y + 1, 1, 1)
    BY <1>2 DEF MonthStart
  <2>2. DayNumber(y + 1, 1, 1) = YearStart((y + 1) - 1) + Offset(1) + 1
    BY <1>1, DayNumberIs
  <2>3. (y + 1) - 1 = y
    BY <1>1
  <2> QED BY <2>1, <2>2, <2>3
<1>6. YearStart(y) \in Int /\ YearStart(y - 1) \in Int /\ YearStart(y) - YearStart(y - 1) \in 364 .. 367
  BY <1>1, YearStep
<1>7. r \in {0, 1, 2, 3, 4, 5, 6, 7, 8, 9, 10, 11}
  BY <1>1
<1> QED BY <1>3, <1>4, <1>5, <1>6, <1>7, OffsetIs

LEMMA MonthsGrow ==
    ASSUME NEW a \in Nat, NEW b \in Nat, a <= b
    PROVE  MonthStart(a) <= MonthStart(b)
<1> DEFINE S == {n \in 0 .. b - a : MonthStart(a) <= MonthStart(a + n)}
<1>0. b - a \in Nat
  OBVIOUS
<1>1. 0 \in S
  BY <1>0, MonthStep
<1>2. ASSUME NEW n \in Nat, n < b - a, n \in S PROVE n + 1 \in S
  <2>1. n + 1 \in 0 .. b - a /\ a + n \in Nat /\ (a + n) + 1 = a + (n + 1)
    BY <1>0, <1>2
  <2>2. MonthStart(a) <= MonthStart(a + n)
    BY <1>2
  <2>3. MonthStart(a) \in Int /\ MonthStart(a + n) \in Int /\ MonthStart((a + n) + 1) \in Int
        /\ MonthStart((a + n) + 1) >= MonthStart(a + n) + 27
    BY <2>1, MonthStep
  <2>4. MonthStart(a) <= MonthStart(a + (n + 1))
    BY <2>1, <2>2, <2>3
  <2> QED BY <2>1, <2>4
<1> HIDE DEF S
<1>3. \A n \in 0 .. b - a : n \in S
  BY <1>0, <1>1, <1>2, Induction
<1>4. b - a \in 0 .. b - a /\ a + (b - a) = b
  BY <1>0
<1>5. MonthStart(a) <= MonthStart(a + (b - a))
  BY <1>3, <1>4 DEF S
<1> QED BY <1>4, <1>5

MonthIndex(y, m) == 12 * y + m - 1

LEMMA MonthIs ==
    ASSUME NEW y \in Nat, NEW m \in 1 .. 12, NEW d \in Int
    PROVE  /\ MonthIndex(y, m) \in Nat
           /\ DayNumber(y, m, d) = MonthStart(MonthIndex(y, m)) + d - 1
           /\ DaysIn(y, m) = MonthStart(MonthIndex(y, m) + 1) - MonthStart(MonthIndex(y, m))
<1> DEFINE k == MonthIndex(y, m)
<1>1. k \in Nat /\ k \div 12 = y /\ (k % 12) + 1 = m
  BY DEF MonthIndex
<1>2. /\ m # 12 => (k + 1) \div 12 = y /\ ((k + 1) % 12) + 1 = (m % 12) + 1
      /\ m = 12 => (k + 1) \div 12 = y + 1 /\ ((k + 1) % 12) + 1 = (m % 12) + 1
  BY DEF MonthIndex
<1> HIDE DEF k
<1>3. MonthStart(k) = DayNumber(y, m, 1)
  BY <1>1 DEF MonthStart
<1>4. MonthStart(k + 1) = DayNumber(IF m = 12 THEN y + 1 ELSE y, (m % 12) + 1, 1)
  BY <1>2 DEF MonthStart
<1>5. DaysIn(y, m) = MonthStart(k + 1) - MonthStart(k)
  BY <1>3, <1>4 DEF DaysIn
<1>6. DayNumber(y, m, d) = MonthStart(k) + d - 1
  <2>1. DayNumber(y, m, d) = YearStart(IF m <= 2 THEN y - 1 ELSE y) + Offset(m) + d
    BY DayNumberIs
  <2>2. DayNumber(y, m, 1) = YearStart(IF m <= 2 THEN y - 1 ELSE y) + Offset(m) + 1
    BY DayNumberIs
  <2>3. YearStart(IF m <= 2 THEN y - 1 ELSE y) \in Int
    BY YearStep
  <2>4. Offset(m) \in Int
    BY DEF Offset
  <2> QED BY <1>3, <2>1, <2>2, <2>3, <2>4
<1> QED BY <1>1, <1>5, <1>6 DEF k

\* A date lies in its month.
LEMMA DateInMonth ==
    ASSUME NEW y, NEW m, NEW d, IsDate(y, m, d)
    PROVE  /\ y \in Nat /\ m \in 1 .. 12 /\ MonthIndex(y, m) \in Nat
           /\ DayNumber(y, m, d) \in Int
           /\ MonthStart(MonthIndex(y, m)) <= DayNumber(y, m, d)
           /\ DayNumber(y, m, d) < MonthStart(MonthIndex(y, m) + 1)
<1>1. y \in FirstYear .. LastYear /\ m \in 1 .. 12 /\ d \in 1 .. DaysIn(y, m)
  BY DEF IsDate
<1>2. y \in Nat /\ d \in Int
  BY <1>1 DEF FirstYear, LastYear
<1> DEFINE k == MonthIndex(y, m)
<1>3. k \in Nat /\ DayNumber(y, m, d) = MonthStart(k) + d - 1 /\ DaysIn(y, m) = MonthStart(k + 1) - MonthStart(k)
  BY <1>1, <1>2, MonthIs
<1> HIDE DEF k
<1>4. MonthStart(k) \in Int /\ MonthStart(k + 1) \in Int
  BY <1>3, MonthStep
<1>5. 1 <= d /\ d <= MonthStart(k + 1) - MonthStart(k)
  BY <1>1, <1>3, <1>4
<1> QED BY <1>1, <1>2, <1>3, <1>4, <1>5 DEF k

\* A day between the beginnings of two months is in a month between them.
LEMMA BetweenMonths ==
    ASSUME NEW y, NEW m, NEW d, IsDate(y, m, d), NEW a \in Nat, NEW b \in Nat
    PROVE  MonthStart(a) <= DayNumber(y, m, d) /\ DayNumber(y, m, d) < MonthStart(b)
               <=> a <= MonthIndex(y, m) /\ MonthIndex(y, m) < b
<1> DEFINE k == MonthIndex(y, m)
           n == DayNumber(y, m, d)
<1>1. k \in Nat /\ n \in Int /\ MonthStart(k) <= n /\ n < MonthStart(k + 1)
  BY DateInMonth
<1> HIDE DEF k, n
<1>2. MonthStart(a) \in Int /\ MonthStart(b) \in Int /\ MonthStart(k) \in Int /\ MonthStart(k + 1) \in Int /\ k + 1 \in Nat
  BY <1>1, MonthStep
<1>3. /\ a <= k => MonthStart(a) <= MonthStart(k)
      /\ k + 1 <= a => MonthStart(k + 1) <= MonthStart(a)
      /\ b <= k => MonthStart(b) <= MonthStart(k)
      /\ k + 1 <= b => MonthStart(k + 1) <= MonthStart(b)
  BY <1>1, <1>2, MonthsGrow
<1>4. MonthStart(a) <= n <=> a <= k
  BY <1>1, <1>2, <1>3
<1>5. n < MonthStart(b) <=> k < b
  BY <1>1, <1>2, <1>3
<1> QED BY <1>4, <1>5 DEF k, n

-----------------------------------------------------------------------------
(* The periods named by a word *)

\* A time lies between the beginnings of two days when its day does.
LEMMA TimeOfDay ==
    ASSUME NEW T \in Nat \ {0}, NEW x \in Nat, NEW a \in Int, NEW b \in Int
    PROVE  CompareValue(Range2(a * T, b * T), x) <=> a <= x \div T /\ x \div T < b
<1>1. Range2(a * T, b * T).op = ".." /\ Range2(a * T, b * T).lo = a * T /\ Range2(a * T, b * T).hi = b * T
  BY DEF Range2
<1>2. CompareValue(Range2(a * T, b * T), x) = (x >= a * T /\ x < b * T)
  BY <1>1, Zenon DEF CompareValue
<1>3. x >= a * T <=> a <= x \div T
  OBVIOUS
<1>4. x >= b * T <=> b <= x \div T
  OBVIOUS
<1>5. x < b * T <=> ~(x >= b * T)
  OBVIOUS
<1>6. x \div T < b <=> ~(b <= x \div T)
  OBVIOUS
<1> QED BY <1>2, <1>3, <1>4, <1>5, <1>6, Zenon

LEMMA DateParts ==
    ASSUME NEW y, NEW m, NEW d, IsDate(y, m, d)
    PROVE  y \in Nat /\ FirstYear <= y /\ y <= LastYear /\ m \in 1 .. 12 /\ d \in Nat
<1>1. y \in FirstYear .. LastYear /\ m \in 1 .. 12 /\ d \in 1 .. DaysIn(y, m)
  BY DEF IsDate
<1>2. y \in Nat /\ FirstYear <= y /\ y <= LastYear
  BY <1>1 DEF FirstYear, LastYear
<1>3. DaysIn(y, m) \in Int
  <2>1. MonthIndex(y, m) \in Nat /\ DaysIn(y, m) = MonthStart(MonthIndex(y, m) + 1) - MonthStart(MonthIndex(y, m))
    <3>1. 1 \in Int
      OBVIOUS
    <3> QED BY <1>1, <1>2, <3>1, MonthIs
  <2> QED BY <2>1, MonthStep
<1> QED BY <1>1, <1>2, <1>3

\* Days are counted from long before any date of the language.
LEMMA DayIsLate ==
    ASSUME NEW y \in Nat, y >= FirstYear, NEW m \in 1 .. 12, NEW d \in Nat
    PROVE  DayNumber(y, m, d) \in Nat /\ DayNumber(y, m, d) >= 20
<1> DEFINE z == IF m <= 2 THEN y - 1 ELSE y
<1>1. DayNumber(y, m, d) = YearStart(z) + Offset(m) + d
  BY DayNumberIs
<1>2. z \in Nat /\ z >= 1
  BY DEF FirstYear
<1> HIDE DEF z
<1>3. z \div 4 \in Nat /\ z \div 100 \in Nat /\ z \div 400 \in Nat /\ z \div 4 >= z \div 100
  BY <1>2
<1>4. YearStart(z) >= 365 /\ YearStart(z) \in Int
  BY <1>2, <1>3 DEF YearStart
<1>5. Offset(m) \in Nat
  BY DEF Offset
<1> QED BY <1>1, <1>4, <1>5

\* Clocks are ahead by less than a day.
LEMMA AheadIs == /\ TicksPerDay \in Nat \ {0}
                 /\ \A time : Ahead(time) \in Nat /\ Ahead(time) < TicksPerDay
BY QueryAssumption DEF Ahead

\* When a day begins by clocks set as they are at the moment.
DayBegins(day) == day * TicksPerDay - Ahead(clock)

LEMMA MonthBegins ==
    ASSUME NEW k \in Nat, k >= 12 * FirstYear, k < 12 * (LastYear + 1)
    PROVE  /\ MonthStart(k) \in Nat
           /\ MonthStart(k) # 0
           /\ StartOfMonth(<<k \div 12, (k % 12) + 1>>) = DayBegins(MonthStart(k))
<1> DEFINE y == k \div 12
           m == (k % 12) + 1
<1>1. y \in FirstYear .. LastYear /\ y \in Nat /\ y >= FirstYear /\ m \in 1 .. 12 /\ MonthIndex(y, m) = k
  BY SMTT(60) DEF FirstYear, LastYear, MonthIndex
<1>2. MonthStart(k) = DayNumber(y, m, 1)
  BY DEF MonthStart
<1> HIDE DEF y, m
<1>3. MonthStart(k) \in Nat /\ MonthStart(k) # 0
  <2>1. 1 \in Nat
    OBVIOUS
  <2>2. DayNumber(y, m, 1) \in Nat /\ DayNumber(y, m, 1) >= 20
    BY <1>1, <2>1, DayIsLate
  <2> QED BY <1>2, <2>2
<1>4. DaysIn(y, m) = MonthStart(k + 1) - MonthStart(k)
  <2>1. 1 \in Int
    OBVIOUS
  <2>2. DaysIn(y, m) = MonthStart(MonthIndex(y, m) + 1) - MonthStart(MonthIndex(y, m))
    BY <1>1, <2>1, MonthIs
  <2> QED BY <1>1, <2>2, Zenon
<1>5. MonthStart(k + 1) \in Int /\ MonthStart(k + 1) >= MonthStart(k) + 27
  BY MonthStep
<1>6. 1 \in 1 .. DaysIn(y, m)
  BY <1>3, <1>4, <1>5
<1>7. IsDate(y, m, 1)
  BY <1>1, <1>6 DEF IsDate
<1>8. StartOfMonth(<<y, m>>) = DayBegins(DayNumber(y, m, 1))
  <2>1. <<y, m>>[1] = y /\ <<y, m>>[2] = m
    OBVIOUS
  <2>2. StartOfMonth(<<y, m>>) = LocalDateToUtcFileTime(y, m, 1)
    BY <2>1, Zenon DEF StartOfMonth
  <2> QED BY <1>7, <2>2, Zenon DEF LocalDateToUtcFileTime, DayBegins
<1> QED BY <1>2, <1>3, <1>8, SMTT(60) DEF y, m

LEMMA ConstantIs ==
    ASSUME NEW word \in DOMAIN DateConstant
    PROVE  DateConstant[word][2] \in {-1, 0, 1} /\ DateConstant[word][1] \in {"day", "week", "month", "year"}
BY DEF DateConstant

\* Which day, week, month or year a date is in.
NumberOf(unit, date) ==
    LET day == DayNumber(date[1], date[2], date[3])
    IN  CASE unit = "day" -> day
          [] unit = "week" -> (day + 2) \div 7
          [] unit = "month" -> 12 * date[1] + date[2]
          [] unit = "year" -> date[1]

\* From the day a until the day b.
Days(a, b) == <<DayBegins(a), DayBegins(b)>>

IsDay(date) == IsDate(date[1], date[2], date[3])

Meant(unit, delta, t, a, b) ==
    \A date : IsDay(date) =>
        LET day == DayNumber(date[1], date[2], date[3])
        IN  a <= day /\ day < b <=> NumberOf(unit, date) = NumberOf(unit, t) + delta

LEMMA DayPeriod ==
    ASSUME NEW t, IsDay(t), NEW delta \in {-1, 0, 1}
    PROVE  LET n == DayNumber(t[1], t[2], t[3]) + delta
           IN  n \in Nat \ {0} /\ n + 1 \in Nat \ {0} /\ Meant("day", delta, t, n, n + 1)
<1> DEFINE today == DayNumber(t[1], t[2], t[3])
<1>1. today \in Nat /\ today >= 20
  <2>1. t[1] \in Nat /\ FirstYear <= t[1] /\ t[2] \in 1 .. 12 /\ t[3] \in Nat
    BY DateParts, Zenon DEF IsDay
  <2>2. t[1] >= FirstYear
    BY <2>1 DEF FirstYear
  <2> QED BY <2>1, <2>2, DayIsLate
<1>2. ASSUME NEW date, IsDay(date)
      PROVE  LET day == DayNumber(date[1], date[2], date[3])
             IN  today + delta <= day /\ day < (today + delta) + 1
                     <=> NumberOf("day", date) = NumberOf("day", t) + delta
  <2> DEFINE day == DayNumber(date[1], date[2], date[3])
  <2>1. day \in Int
    BY <1>2, DateInMonth DEF IsDay
  <2>2. NumberOf("day", date) = day /\ NumberOf("day", t) = today
    BY Zenon DEF NumberOf
  <2> HIDE DEF day, today
  <2>3. today + delta <= day /\ day < (today + delta) + 1 <=> day = today + delta
    BY <1>1, <2>1
  <2> QED BY <2>2, <2>3, Zenon DEF day
<1>3. Meant("day", delta, t, today + delta, (today + delta) + 1)
  <2> HIDE DEF today
  <2> QED BY <1>2, Zenon DEF Meant
<1> HIDE DEF today
<1>4. today + delta \in Nat \ {0} /\ (today + delta) + 1 \in Nat \ {0}
  BY <1>1
<1> QED BY <1>3, <1>4, Zenon DEF today

LEMMA WeekPeriod ==
    ASSUME NEW t, IsDay(t), NEW delta \in {-1, 0, 1}
    PROVE  LET n == DayNumber(t[1], t[2], t[3]) + (delta * 7 - DayOfWeek(DayNumber(t[1], t[2], t[3])))
           IN  n \in Nat \ {0} /\ n + 7 \in Nat \ {0} /\ Meant("week", delta, t, n, n + 7)
<1> DEFINE today == DayNumber(t[1], t[2], t[3])
           n == today + (delta * 7 - DayOfWeek(today))
<1>1. today \in Nat /\ today >= 20
  <2>1. t[1] \in Nat /\ FirstYear <= t[1] /\ t[2] \in 1 .. 12 /\ t[3] \in Nat
    BY DateParts, Zenon DEF IsDay
  <2>2. t[1] >= FirstYear
    BY <2>1 DEF FirstYear
  <2> QED BY <2>1, <2>2, DayIsLate
<1>2. n = 7 * ((today + 2) \div 7 + delta) - 2 /\ n \in Nat \ {0} /\ n + 7 \in Nat \ {0}
  <2> HIDE DEF today
  <2> QED BY <1>1 DEF DayOfWeek
<1>3. ASSUME NEW date, IsDay(date)
      PROVE  LET day == DayNumber(date[1], date[2], date[3])
             IN  n <= day /\ day < n + 7 <=> NumberOf("week", date) = NumberOf("week", t) + delta
  <2> DEFINE day == DayNumber(date[1], date[2], date[3])
  <2>1. day \in Int
    BY <1>3, DateInMonth DEF IsDay
  <2>2. NumberOf("week", date) = (day + 2) \div 7 /\ NumberOf("week", t) = (today + 2) \div 7
    BY Zenon DEF NumberOf
  <2> HIDE DEF day, today, n
  <2>3. n <= day /\ day < n + 7 <=> (day + 2) \div 7 = (today + 2) \div 7 + delta
    BY <1>1, <1>2, <2>1
  <2> QED BY <2>2, <2>3, Zenon DEF day
<1>4. Meant("week", delta, t, n, n + 7)
  <2> HIDE DEF n
  <2> QED BY <1>3, Zenon DEF Meant
<1> HIDE DEF n
<1> QED BY <1>2, <1>4, Zenon DEF n

\* Months from the one with the number a until the one with the number b.
LEMMA MonthsMeant ==
    ASSUME NEW date, IsDay(date), NEW a \in Nat, NEW b \in Nat
    PROVE  /\ date[1] \in Nat /\ date[2] \in 1 .. 12
           /\ LET day == DayNumber(date[1], date[2], date[3])
              IN  MonthStart(a) <= day /\ day < MonthStart(b)
                      <=> a <= 12 * date[1] + date[2] - 1 /\ 12 * date[1] + date[2] - 1 < b
<1>1. IsDate(date[1], date[2], date[3])
  BY DEF IsDay
<1>2. date[1] \in Nat /\ date[2] \in 1 .. 12
  BY <1>1, DateInMonth
<1> QED BY <1>1, <1>2, BetweenMonths, Zenon DEF MonthIndex

LEMMA MonthNumbers ==
    ASSUME NEW y \in Nat, FirstYear <= y, NEW m \in 1 .. 12, NEW delta \in {-1, 0, 1}
    PROVE  LET k == 12 * y + m - 1 + delta
           IN  /\ k \in Nat /\ k + 1 \in Nat
               /\ \A u \in Nat, v \in 1 .. 12 :
                      k <= 12 * u + v - 1 /\ 12 * u + v - 1 < k + 1 <=> 12 * u + v = (12 * y + m) + delta
<1>1. FirstYear = 1601
  BY DEF FirstYear
<1>2. 12 * y + m - 1 + delta \in Nat
  BY <1>1
<1>3. ASSUME NEW u \in Nat, NEW v \in 1 .. 12
      PROVE  12 * y + m - 1 + delta <= 12 * u + v - 1 /\ 12 * u + v - 1 < 12 * y + m - 1 + delta + 1
                 <=> 12 * u + v = (12 * y + m) + delta
  OBVIOUS
<1> QED BY <1>2, <1>3

LEMMA YearNumbers ==
    ASSUME NEW y \in Nat, FirstYear <= y, NEW delta \in {-1, 0, 1}
    PROVE  LET k == 12 * (y + delta)
           IN  /\ k \in Nat /\ k + 12 \in Nat
               /\ \A u \in Nat, v \in 1 .. 12 :
                      k <= 12 * u + v - 1 /\ 12 * u + v - 1 < k + 12 <=> u = y + delta
<1>1. FirstYear = 1601
  BY DEF FirstYear
<1>2. 12 * (y + delta) \in Nat
  BY <1>1
<1>3. ASSUME NEW u \in Nat, NEW v \in 1 .. 12
      PROVE  12 * (y + delta) <= 12 * u + v - 1 /\ 12 * u + v - 1 < 12 * (y + delta) + 12
                 <=> u = y + delta
  OBVIOUS
<1> QED BY <1>2, <1>3

LEMMA MonthPeriod ==
    ASSUME NEW t, IsDay(t), NEW delta \in {-1, 0, 1}
    PROVE  LET k == 12 * t[1] + t[2] - 1 + delta
           IN  Meant("month", delta, t, MonthStart(k), MonthStart(k + 1))
<1> DEFINE k == 12 * t[1] + t[2] - 1 + delta
<1>1. t[1] \in Nat /\ FirstYear <= t[1] /\ t[1] <= LastYear /\ t[2] \in 1 .. 12
  BY DateParts, Zenon DEF IsDay
<1>2. k \in Nat /\ k + 1 \in Nat
  BY <1>1, MonthNumbers
<1>3. ASSUME NEW date, IsDay(date)
      PROVE  LET day == DayNumber(date[1], date[2], date[3])
             IN  MonthStart(k) <= day /\ day < MonthStart(k + 1)
                     <=> NumberOf("month", date) = NumberOf("month", t) + delta
  <2> DEFINE day == DayNumber(date[1], date[2], date[3])
             j == 12 * date[1] + date[2] - 1
  <2>1. date[1] \in Nat /\ date[2] \in 1 .. 12
    BY <1>3, DateInMonth DEF IsDay
  <2>2. MonthStart(k) <= day /\ day < MonthStart(k + 1) <=> k <= j /\ j < k + 1
    <3> HIDE DEF k
    <3> QED BY <1>2, <1>3, MonthsMeant
  <2>3. k <= j /\ j < k + 1 <=> 12 * date[1] + date[2] = (12 * t[1] + t[2]) + delta
    <3> DEFINE y == t[1]
               m == t[2]
               u == date[1]
               v == date[2]
    <3>1. y \in Nat /\ m \in 1 .. 12 /\ u \in Nat /\ v \in 1 .. 12
      BY <1>1, <2>1
    <3> HIDE DEF y, m, u, v
    <3>2. 12 * y + m - 1 + delta <= 12 * u + v - 1 /\ 12 * u + v - 1 < 12 * y + m - 1 + delta + 1
              <=> 12 * u + v = (12 * y + m) + delta
      BY <3>1
    <3> QED BY <3>2 DEF y, m, u, v
  <2>4. NumberOf("month", date) = 12 * date[1] + date[2] /\ NumberOf("month", t) = 12 * t[1] + t[2]
    BY DEF NumberOf
  <2> HIDE DEF k
  <2> QED BY <2>2, <2>3, <2>4, Zenon
<1> HIDE DEF k
<1>4. Meant("month", delta, t, MonthStart(k), MonthStart(k + 1))
  BY <1>3, Zenon DEF Meant
<1> QED BY <1>4, Zenon DEF k

LEMMA YearPeriod ==
    ASSUME NEW t, IsDay(t), NEW delta \in {-1, 0, 1}
    PROVE  LET k == 12 * (t[1] + delta)
           IN  Meant("year", delta, t, MonthStart(k), MonthStart(k + 12))
<1> DEFINE k == 12 * (t[1] + delta)
<1>1. t[1] \in Nat /\ FirstYear <= t[1] /\ t[1] <= LastYear /\ t[2] \in 1 .. 12
  BY DateParts, Zenon DEF IsDay
<1>2. k \in Nat /\ k + 12 \in Nat
  BY <1>1, YearNumbers
<1>3. ASSUME NEW date, IsDay(date)
      PROVE  LET day == DayNumber(date[1], date[2], date[3])
             IN  MonthStart(k) <= day /\ day < MonthStart(k + 12)
                     <=> NumberOf("year", date) = NumberOf("year", t) + delta
  <2> DEFINE day == DayNumber(date[1], date[2], date[3])
             j == 12 * date[1] + date[2] - 1
  <2>1. date[1] \in Nat /\ date[2] \in 1 .. 12
    BY <1>3, DateInMonth DEF IsDay
  <2>2. MonthStart(k) <= day /\ day < MonthStart(k + 12) <=> k <= j /\ j < k + 12
    <3> HIDE DEF k
    <3> QED BY <1>2, <1>3, MonthsMeant
  <2>3. k <= j /\ j < k + 12 <=> date[1] = t[1] + delta
    BY <1>1, <2>1, YearNumbers
  <2>4. NumberOf("year", date) = date[1] /\ NumberOf("year", t) = t[1]
    BY DEF NumberOf
  <2> HIDE DEF k
  <2> QED BY <2>2, <2>3, <2>4, Zenon
<1> HIDE DEF k
<1>4. Meant("year", delta, t, MonthStart(k), MonthStart(k + 12))
  BY <1>3, Zenon DEF Meant
<1> QED BY <1>4, Zenon DEF k

\* A day a word can be resolved on.
IsNow(t) == IsDay(t) /\ t[1] \in FirstYear + 1 .. LastYear - 2

\* A year all periods of which can be told.
Resolvable(y) == y \in Nat /\ 1602 <= y /\ y <= 30825

LEMMA NowParts ==
    ASSUME NEW t, IsNow(t)
    PROVE  IsDay(t) /\ Resolvable(t[1]) /\ t[2] \in 1 .. 12
<1>1. IsDate(t[1], t[2], t[3]) /\ t[1] \in FirstYear + 1 .. LastYear - 2
  BY DEF IsNow, IsDay
<1>2. t[1] \in Nat /\ t[2] \in 1 .. 12
  BY <1>1, DateParts
<1>3. \A y \in FirstYear + 1 .. LastYear - 2 : Resolvable(y)
  BY DEF FirstYear, LastYear, Resolvable
<1> QED BY <1>1, <1>2, <1>3, Zenon DEF IsDay

LEMMA MonthResolves ==
    ASSUME NEW y, Resolvable(y), NEW m \in 1 .. 12, NEW delta \in -1 .. 2
    PROVE  LET k == 12 * y + m - 1 + delta
           IN  MonthStart(k) \in Nat \ {0} /\ StartOfMonth(AddMonths(y, m, delta)) = DayBegins(MonthStart(k))
<1> DEFINE k == 12 * y + m - 1 + delta
<1>0. y \in Nat
  BY DEF Resolvable
<1>1. k \in Nat /\ k >= 12 * FirstYear /\ k < 12 * (LastYear + 1)
  BY DEF FirstYear, LastYear, Resolvable
<1>2. y * 12 + (m - 1) + delta = k
  BY <1>0
<1>3. AddMonths(y, m, delta) = <<k \div 12, (k % 12) + 1>>
  BY <1>2, Zenon DEF AddMonths
<1> HIDE DEF k
<1>4. MonthStart(k) \in Nat \ {0} /\ StartOfMonth(<<k \div 12, (k % 12) + 1>>) = DayBegins(MonthStart(k))
  BY <1>1, MonthBegins
<1> QED BY <1>3, <1>4, Zenon DEF k

LEMMA YearResolves ==
    ASSUME NEW y, Resolvable(y), NEW delta \in -1 .. 2
    PROVE  LET k == 12 * (y + delta)
           IN  MonthStart(k) \in Nat \ {0} /\ StartOfMonth(<<y + delta, 1>>) = DayBegins(MonthStart(k))
<1> DEFINE k == 12 * (y + delta)
<1>0. y \in Nat
  BY DEF Resolvable
<1>1. k \in Nat /\ k >= 12 * FirstYear /\ k < 12 * (LastYear + 1)
  BY DEF FirstYear, LastYear, Resolvable
<1>2. k \div 12 = y + delta /\ (k % 12) + 1 = 1
  BY <1>0
<1> HIDE DEF k
<1>3. MonthStart(k) \in Nat \ {0} /\ StartOfMonth(<<k \div 12, (k % 12) + 1>>) = DayBegins(MonthStart(k))
  BY <1>1, MonthBegins
<1>4. <<k \div 12, (k % 12) + 1>> = <<y + delta, 1>>
  BY <1>2
<1> QED BY <1>3, <1>4, Zenon DEF k

Resolves(word, t) ==
    \E a, b \in Nat \ {0} :
        /\ ResolveDateConstant(word, t) = Days(a, b)
        /\ Meant(DateConstant[word][1], DateConstant[word][2], t, a, b)

\* Days later by the clocks of the moment.
LEMMA DayShifts ==
    ASSUME NEW day \in Int, NEW days \in Int
    PROVE  DayBegins(day) + days * TicksPerDay = DayBegins(day + days)
<1>1. TicksPerDay \in Nat /\ Ahead(clock) \in Int
  BY AheadIs
<1> DEFINE A == Ahead(clock)
           T == TicksPerDay
<1> HIDE DEF A, T
<1>2. (day * T - A) + days * T = (day + days) * T - A
  BY <1>1 DEF A, T
<1> QED BY <1>2, Zenon DEF DayBegins, A, T

LEMMA DayResolves ==
    ASSUME NEW t, IsNow(t), NEW word \in DOMAIN DateConstant, DateConstant[word][1] = "day"
    PROVE  Resolves(word, t)
<1> DEFINE delta == DateConstant[word][2]
           today == DayNumber(t[1], t[2], t[3])
           n == today + delta
           midnight == LocalDateToUtcFileTime(t[1], t[2], t[3])
<1>1. delta \in {-1, 0, 1}
  BY ConstantIs
<1>2. ResolveDateConstant(word, t) = <<midnight + delta * TicksPerDay, midnight + (delta + 1) * TicksPerDay>>
  BY Zenon DEF ResolveDateConstant
<1>3. IsDay(t) /\ today \in Int /\ midnight = DayBegins(today)
  BY DateInMonth, Zenon DEF IsNow, IsDay, LocalDateToUtcFileTime, DayBegins
<1> HIDE DEF delta
<1>4. n \in Nat \ {0} /\ n + 1 \in Nat \ {0} /\ Meant("day", delta, t, n, n + 1)
  BY <1>1, <1>3, DayPeriod
<1> HIDE DEF today, midnight
<1>5. /\ midnight + delta * TicksPerDay = DayBegins(n)
      /\ midnight + (delta + 1) * TicksPerDay = DayBegins(n + 1)
  <2>1. delta \in Int /\ delta + 1 \in Int /\ today + (delta + 1) = n + 1
    BY <1>1, <1>3
  <2> QED BY <1>3, <2>1, DayShifts
<1> HIDE DEF n
<1>6. ResolveDateConstant(word, t) = Days(n, n + 1)
  BY <1>2, <1>5, Zenon DEF Days, n
<1> QED BY <1>4, <1>6, Zenon DEF Resolves, delta

LEMMA WeekResolves ==
    ASSUME NEW t, IsNow(t), NEW word \in DOMAIN DateConstant, DateConstant[word][1] = "week"
    PROVE  Resolves(word, t)
<1> DEFINE delta == DateConstant[word][2]
           today == DayNumber(t[1], t[2], t[3])
           sunday == delta * 7 - DayOfWeek(today)
           n == today + sunday
           midnight == LocalDateToUtcFileTime(t[1], t[2], t[3])
<1>1. delta \in {-1, 0, 1}
  BY ConstantIs
<1>2. ResolveDateConstant(word, t) = <<midnight + sunday * TicksPerDay, midnight + (sunday + 7) * TicksPerDay>>
  <2>1. "week" # "day"
    OBVIOUS
  <2> QED BY <2>1, Zenon DEF ResolveDateConstant
<1>3. IsDay(t) /\ today \in Int /\ midnight = DayBegins(today)
  BY DateInMonth, Zenon DEF IsNow, IsDay, LocalDateToUtcFileTime, DayBegins
<1> HIDE DEF delta
<1>4. n \in Nat \ {0} /\ n + 7 \in Nat \ {0} /\ Meant("week", delta, t, n, n + 7)
  BY <1>1, <1>3, WeekPeriod
<1> HIDE DEF today, midnight
<1>5. /\ midnight + sunday * TicksPerDay = DayBegins(n)
      /\ midnight + (sunday + 7) * TicksPerDay = DayBegins(n + 7)
  <2>1. DayOfWeek(today) \in Int
    BY <1>3 DEF DayOfWeek
  <2>2. sunday \in Int /\ sunday + 7 \in Int /\ today + (sunday + 7) = n + 7
    BY <1>1, <1>3, <2>1
  <2> HIDE DEF sunday
  <2> QED BY <1>3, <2>2, DayShifts
<1> HIDE DEF sunday, n
<1>6. ResolveDateConstant(word, t) = Days(n, n + 7)
  BY <1>2, <1>5, Zenon DEF Days, n
<1> QED BY <1>4, <1>6, Zenon DEF Resolves, delta

LEMMA MonthWordResolves ==
    ASSUME NEW t, IsNow(t), NEW word \in DOMAIN DateConstant, DateConstant[word][1] = "month"
    PROVE  Resolves(word, t)
<1> DEFINE delta == DateConstant[word][2]
           k == 12 * t[1] + t[2] - 1 + delta
           l == 12 * t[1] + t[2] - 1 + (delta + 1)
<1>1. delta \in {-1, 0, 1}
  BY ConstantIs
<1>2. ResolveDateConstant(word, t) = <<StartOfMonth(AddMonths(t[1], t[2], delta)), StartOfMonth(AddMonths(t[1], t[2], delta + 1))>>
  <2>1. "month" # "day" /\ "month" # "week"
    OBVIOUS
  <2> QED BY <2>1, Zenon DEF ResolveDateConstant
<1>3. IsDay(t) /\ Resolvable(t[1]) /\ t[1] \in Nat /\ t[2] \in 1 .. 12
  BY NowParts DEF Resolvable
<1> HIDE DEF delta
<1>4. delta \in -1 .. 2 /\ delta + 1 \in -1 .. 2
  BY <1>1
<1>5. /\ MonthStart(k) \in Nat \ {0} /\ StartOfMonth(AddMonths(t[1], t[2], delta)) = DayBegins(MonthStart(k))
      /\ MonthStart(l) \in Nat \ {0} /\ StartOfMonth(AddMonths(t[1], t[2], delta + 1)) = DayBegins(MonthStart(l))
  BY <1>3, <1>4, MonthResolves
<1>6. Meant("month", delta, t, MonthStart(k), MonthStart(k + 1))
  BY <1>1, <1>3, MonthPeriod
<1>7. l = k + 1
  BY <1>1, <1>3
<1> HIDE DEF k, l
<1>8. ResolveDateConstant(word, t) = Days(MonthStart(k), MonthStart(k + 1))
  BY <1>2, <1>5, <1>7, Zenon DEF Days
<1> QED BY <1>5, <1>6, <1>7, <1>8, Zenon DEF Resolves, delta

LEMMA YearResolvesTo ==
    ASSUME NEW t, IsNow(t), NEW word \in DOMAIN DateConstant, DateConstant[word][1] = "year"
    PROVE  Resolves(word, t)
<1> DEFINE delta == DateConstant[word][2]
           k == 12 * (t[1] + delta)
           l == 12 * (t[1] + (delta + 1))
<1>1. delta \in {-1, 0, 1}
  BY ConstantIs
<1>2. ResolveDateConstant(word, t) = <<StartOfMonth(<<t[1] + delta, 1>>), StartOfMonth(<<t[1] + delta + 1, 1>>)>>
  <2>1. "year" # "day" /\ "year" # "week" /\ "year" # "month"
    OBVIOUS
  <2> QED BY <2>1, Zenon DEF ResolveDateConstant
<1>3. IsDay(t) /\ Resolvable(t[1]) /\ t[1] \in Nat
  BY NowParts DEF Resolvable
<1> HIDE DEF delta
<1>4. delta \in -1 .. 2 /\ delta + 1 \in -1 .. 2
  BY <1>1
<1>5. /\ MonthStart(k) \in Nat \ {0} /\ StartOfMonth(<<t[1] + delta, 1>>) = DayBegins(MonthStart(k))
      /\ MonthStart(l) \in Nat \ {0} /\ StartOfMonth(<<t[1] + (delta + 1), 1>>) = DayBegins(MonthStart(l))
  BY <1>3, <1>4, YearResolves
<1>6. Meant("year", delta, t, MonthStart(k), MonthStart(k + 12))
  BY <1>1, <1>3, YearPeriod
<1>7. l = k + 12 /\ t[1] + (delta + 1) = t[1] + delta + 1
  BY <1>1, <1>3
<1> HIDE DEF k, l
<1>8. ResolveDateConstant(word, t) = Days(MonthStart(k), MonthStart(k + 12))
  BY <1>2, <1>5, <1>7, Zenon DEF Days
<1> QED BY <1>5, <1>6, <1>7, <1>8, Zenon DEF Resolves, delta

\* A word names the days from a first until a last one.
LEMMA WordResolves ==
    ASSUME NEW t, IsNow(t), NEW word \in DOMAIN DateConstant
    PROVE  Resolves(word, t)
BY ConstantIs, DayResolves, WeekResolves, MonthWordResolves, YearResolvesTo

\* A word of a date, and a field with a word.
OneWord(c) == <<c>>
FieldWord(f, c) == <<f, c>>

LEMMA OneWordIs ==
    ASSUME NEW c
    PROVE  OneWord(c) \in Seq({c}) /\ Len(OneWord(c)) = 1 /\ OneWord(c)[1] = c /\ DOMAIN OneWord(c) = 1 .. 1
BY DEF OneWord

LEMMA FieldWordIs ==
    ASSUME NEW f, NEW c
    PROVE  /\ FieldWord(f, c) \in Seq({f, c}) /\ Len(FieldWord(f, c)) = 2 /\ FieldWord(f, c) # <<>>
           /\ FieldWord(f, c)[1] = f /\ FieldWord(f, c)[2] = c /\ Tail(FieldWord(f, c)) = OneWord(c)
BY DEF FieldWord, OneWord

LEMMA NoSeparator ==
    ASSUME NEW c, c # ".."
    PROVE  Separator(OneWord(c)) = 0
<1> DEFINE t == OneWord(c)
           dots == {i \in DOMAIN t : t[i] = ".."}
           dashes == {i \in 2 .. Len(t) : t[i] = "-"}
<1>1. Len(t) = 1 /\ t[1] = c /\ DOMAIN t = 1 .. 1
  BY OneWordIs
<1> HIDE DEF t
<1>2. dots = {} /\ dashes = {}
  BY <1>1
<1>3. Separator(t) = 0
  BY <1>2, Zenon DEF Separator
<1> QED BY <1>3, Zenon DEF t

LEMMA WordsAreWords ==
    ASSUME NEW word \in DOMAIN DateConstant
    PROVE  word \notin {"..", " ", "|", Quote, "<", "<=", ">", ">=", "="}
BY DEF DateConstant, Quote

LEMMA DayIsKnown ==
    ASSUME NEW day \in Nat \ {0}
    PROVE  DayBegins(day) # Failed
<1>1. TicksPerDay \in Nat \ {0} /\ Ahead(clock) \in Nat /\ Ahead(clock) < TicksPerDay
  BY AheadIs
<1>2. day * TicksPerDay >= TicksPerDay
  BY <1>1
<1> QED BY <1>1, <1>2 DEF DayBegins, Failed

\* A word stands for its period.
LEMMA WordParses ==
    ASSUME NEW word \in DOMAIN DateConstant, NEW a \in Nat \ {0}, NEW b \in Nat \ {0},
           ResolveDateConstant(word, now) = Days(a, b)
    PROVE  ParseDateValue(OneWord(word)) = Range2(DayBegins(a), DayBegins(b))
<1> DEFINE t == OneWord(word)
<1>1. Len(t) = 1 /\ t[1] = word
  BY OneWordIs
<1> HIDE DEF t
<1>2. ~HasOperator(t)
  BY <1>1, WordsAreWords DEF HasOperator
<1>3. Separator(t) = 0
  BY WordsAreWords, NoSeparator DEF t
<1>4. IsDateConstant(t)
  BY <1>1, Zenon DEF IsDateConstant
<1>5. ParseDateValue(t) = Between(ResolveDateConstant(word, now)[1], ResolveDateConstant(word, now)[2])
  BY <1>1, <1>2, <1>3, <1>4, Zenon DEF ParseDateValue
<1>6. Days(a, b)[1] = DayBegins(a) /\ Days(a, b)[2] = DayBegins(b)
  BY DEF Days
<1>7. DayBegins(a) # Failed /\ DayBegins(b) # Failed
  BY DayIsKnown
<1>8. ParseDateValue(t) = Between(DayBegins(a), DayBegins(b))
  BY <1>5, <1>6, Zenon
<1>9. ParseDateValue(t) = Range2(DayBegins(a), DayBegins(b))
  BY <1>7, <1>8, Zenon DEF Between, Range2
<1> QED BY <1>9, Zenon DEF t

\* A time and its day.
LEMMA EntryDay ==
    ASSUME NEW e \in Indexed
    PROVE  /\ e.modified \in Nat
           /\ e.modified # 0 <=> e.date # <<>>
           /\ e.date # <<>> =>
                  /\ IsDay(e.date)
                  /\ (e.modified + Ahead(e.modified)) \div TicksPerDay
                         = DayNumber(e.date[1], e.date[2], e.date[3])
<1>1. /\ {e.size, e.modified, e.created, e.accessed} \subseteq Nat
      /\ e.modified = 0 <=> e.date = <<>>
      /\ e.modified # 0 => /\ IsDate(e.date[1], e.date[2], e.date[3])
                           /\ OnDay(e.modified, e.date[1], e.date[2], e.date[3])
  BY QueryAssumption, Zenon
<1>2. e.modified \in Nat
  BY <1>1
<1> QED BY <1>1, <1>2, Zenon DEF IsDay, OnDay

\* Where the clocks of a time and of the moment show the same day, the time is
\* in a period when its day is.
LEMMA TimeInDays ==
    ASSUME NEW x \in Nat, NEW a \in Nat, NEW b \in Nat,
           ((x + Ahead(x)) % TicksPerDay) + Ahead(clock) - Ahead(x) \in 0 .. TicksPerDay - 1
    PROVE  LET day == (x + Ahead(x)) \div TicksPerDay
           IN  CompareValue(Range2(DayBegins(a), DayBegins(b)), x) <=> a <= day /\ day < b
<1> DEFINE T == TicksPerDay
           A == Ahead(clock)
           B == Ahead(x)
           day == (x + B) \div T
           rest == (x + B) % T
<1>1. T \in Nat \ {0} /\ A \in Nat /\ B \in Nat
  BY AheadIs
<1>2. rest + A - B \in 0 .. T - 1
  OBVIOUS
<1>3. Range2(a * T - A, b * T - A).op = ".." /\ Range2(a * T - A, b * T - A).lo = a * T - A
          /\ Range2(a * T - A, b * T - A).hi = b * T - A
  BY DEF Range2
<1>4. CompareValue(Range2(a * T - A, b * T - A), x) = (x >= a * T - A /\ x < b * T - A)
  BY <1>3, Zenon DEF CompareValue
<1> HIDE DEF T, A, B
<1>5. x + B = day * T + rest /\ day \in Nat /\ rest \in Nat
  BY <1>1
<1>6. (x + A) \div T = day
  <2> DEFINE r == rest + A - B
  <2>1. x + A = day * T + r /\ r \in 0 .. T - 1
    BY <1>1, <1>2, <1>5
  <2> HIDE DEF day, rest, r
  <2> QED BY <1>1, <1>5, <2>1
<1>7. CompareValue(Range2(a * T, b * T), x + A) <=> a <= (x + A) \div T /\ (x + A) \div T < b
  <2>1. x + A \in Nat /\ a \in Int /\ b \in Int
    BY <1>1
  <2> QED BY <1>1, <2>1, TimeOfDay, Zenon
<1>8. CompareValue(Range2(a * T, b * T), x + A) = (x + A >= a * T /\ x + A < b * T)
  <2>1. Range2(a * T, b * T).op = ".." /\ Range2(a * T, b * T).lo = a * T /\ Range2(a * T, b * T).hi = b * T
    BY DEF Range2
  <2> QED BY <2>1, Zenon DEF CompareValue
<1>9. a * T \in Int /\ b * T \in Int
  BY <1>1
<1> HIDE DEF day
<1>10. x >= a * T - A /\ x < b * T - A <=> x + A >= a * T /\ x + A < b * T
  <2> DEFINE p == a * T
             q == b * T
  <2> HIDE DEF p, q
  <2>1. x >= p - A /\ x < q - A <=> x + A >= p /\ x + A < q
    BY <1>1, <1>9 DEF p, q
  <2> QED BY <2>1 DEF p, q
<1> QED BY <1>4, <1>6, <1>7, <1>8, <1>10, Zenon DEF DayBegins, T, A, B, day

LEMMA PeriodIs ==
    ASSUME NEW word \in DOMAIN DateConstant, NEW date
    PROVE  InPeriod(word, date, now)
               <=> NumberOf(DateConstant[word][1], date)
                       = NumberOf(DateConstant[word][1], now) + DateConstant[word][2]
BY Zenon DEF InPeriod, NumberOf

LEMMA PeriodRows ==
    ASSUME IsNow(now), NEW word \in DOMAIN DateConstant, NEW e \in Rows(<<>>)
    PROVE  \/ e.date # <<>> /\ AcrossMidnight(e)
           \/ e \in Rows(FieldWord("dm:", word)) <=> e.date # <<>> /\ InPeriod(word, e.date, now)
<1> DEFINE f == "dm:"
           raw == FieldWord(f, word)
           unit == DateConstant[word][1]
           delta == DateConstant[word][2]
           x == e.modified
           day == DayNumber(e.date[1], e.date[2], e.date[3])
<1>1. PICK a \in Nat \ {0}, b \in Nat \ {0} : /\ ResolveDateConstant(word, now) = Days(a, b)
                                              /\ Meant(unit, delta, now, a, b)
  BY WordResolves DEF Resolves
<1>2. f \in Fields /\ f # "size:" /\ DateField[f] = "modified"
  BY DEF Fields, DateField
<1>3. raw \in Seq({f, word}) /\ Len(raw) = 2 /\ raw # <<>> /\ raw[1] = f /\ raw[2] = word /\ Tail(raw) = OneWord(word)
  BY FieldWordIs
<1>4. e \in Candidates /\ e \in Indexed
  BY AllRows DEF Candidates
<1>5. /\ x \in Nat /\ (x # 0 <=> e.date # <<>>)
      /\ e.date # <<>> => IsDay(e.date) /\ (x + Ahead(x)) \div TicksPerDay = day
  BY <1>4, EntryDay
<1>6. ~AcrossMidnight(e) => ((x + Ahead(x)) % TicksPerDay) + Ahead(clock) - Ahead(x) \in 0 .. TicksPerDay - 1
  BY Zenon DEF AcrossMidnight
<1>7. InPeriod(word, e.date, now) <=> NumberOf(unit, e.date) = NumberOf(unit, now) + delta
  BY PeriodIs
<1> HIDE DEF f, raw, unit, delta
<1>8. IsWord(raw)
  <2>1. f \notin {" ", "|", Quote} /\ word \notin {" ", "|", Quote}
    BY <1>2, FieldIs, WordsAreWords
  <2>2. \A k \in 1 .. 2 : k = 1 \/ k = 2
    OBVIOUS
  <2>3. ASSUME NEW k \in 1 .. Len(raw) PROVE raw[k] = f \/ raw[k] = word
    BY <1>3, <2>2, Zenon
  <2> QED BY <2>1, <2>3, Zenon DEF IsWord
<1>9. Len(raw) # 1
  BY <1>3
<1>10. Rows(raw) = {c \in Candidates : Has(raw[1], c) /\ CompareValue(ValueOf(raw[1], Tail(raw)), Amount(raw[1], c))}
  BY <1>2, <1>3, <1>8, <1>9, ValueRows
<1>11. ValueOf(f, OneWord(word)) = Range2(DayBegins(a), DayBegins(b))
  BY <1>1, <1>2, WordParses, Zenon DEF ValueOf
<1>12. e \in Rows(raw) <=> Has(f, e) /\ CompareValue(Range2(DayBegins(a), DayBegins(b)), Amount(f, e))
  BY <1>3, <1>4, <1>10, <1>11
<1>13. Has(f, e) = (x # 0) /\ Amount(f, e) = x
  <2>1. e["modified"] = x
    OBVIOUS
  <2> HIDE DEF x
  <2> QED BY <1>2, <2>1, Zenon DEF Has, Amount
<1>14. ~AcrossMidnight(e) => (CompareValue(Range2(DayBegins(a), DayBegins(b)), x)
           <=> a <= (x + Ahead(x)) \div TicksPerDay /\ (x + Ahead(x)) \div TicksPerDay < b)
  <2> HIDE DEF x
  <2> QED BY <1>5, <1>6, TimeInDays
<1>15. e.date # <<>> => (a <= day /\ day < b <=> NumberOf(unit, e.date) = NumberOf(unit, now) + delta)
  BY <1>1, <1>5, Zenon DEF Meant
<1> HIDE DEF x, day
<1>16. \/ e.date # <<>> /\ AcrossMidnight(e)
       \/ e \in Rows(raw) <=> e.date # <<>> /\ InPeriod(word, e.date, now)
  BY <1>5, <1>7, <1>12, <1>13, <1>14, <1>15, Zenon
<1> QED BY <1>16, Zenon DEF f, raw

LEMMA PeriodHolds == Answered => PeriodsAreCalendar
<1> SUFFICES ASSUME Answered, asked, NEW word \in DOMAIN DateConstant, text = FieldWord("dm:", word),
                    NEW e \in Rows(<<>>)
             PROVE  \/ e.date # <<>> /\ AcrossMidnight(e)
                    \/ e \in found <=> e.date # <<>> /\ InPeriod(text[2], e.date, now)
  BY Zenon DEF PeriodsAreCalendar, FieldWord
<1>1. found = Rows(text)
  BY AnswerIs
<1>2. IsNow(now)
  BY QueryAssumption, Zenon DEF Answered, IsNow, IsDay
<1>3. text[2] = word
  BY FieldWordIs, Zenon
<1> QED BY <1>1, <1>2, <1>3, PeriodRows, Zenon

\* A range ends where it is meant to at both ends, and a word for a period is the
\* calendar's but for entries of the hour in which the clocks of the moment show
\* another day, for every text, index, daylight saving and time.
THEOREM BoundsAreKept == Spec => []BoundsAreMeant
<1>1. Answered => BoundsAreMeant
  BY RangeHolds, PeriodHolds DEF BoundsAreMeant
<1> QED BY <1>1, AlwaysAnswered, PTL
=============================================================================
