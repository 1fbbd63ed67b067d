------------------------- MODULE RecursionTheorems -------------------------
(***************************************************************************)
(* What recursive functions compute.  The induction theorems of the        *)
(* library speak of predicates; these speak of sets and functions, which   *)
(* every prover can instantiate.                                           *)
(***************************************************************************)
EXTENDS Integers, SequencesExt, SequenceTheorems, WellFoundedInduction, TLAPS

(* Every set of numbers has a least one.                                   *)
LEMMA LeastNumber ==
    ASSUME NEW S \in SUBSET Nat, S # {}
    PROVE  \E i \in S : \A j \in S : i <= j
<1>1. PICK i \in S : \A j \in S : <<j, i>> \notin OpToRel(<, Nat)
  BY NatLessThanWellFounded, WFMin
<1>2. \A j \in S : ~(j < i)
  BY <1>1 DEF OpToRel
<1> QED
  BY <1>2

(* Induction: a set that has 0, and the successor of what it has.          *)
LEMMA AllNumbers ==
    ASSUME NEW S, 0 \in S, \A n \in Nat : n \in S => n + 1 \in S
    PROVE  Nat \subseteq S
<1> SUFFICES ASSUME Nat \ S # {} PROVE FALSE
  OBVIOUS
<1>1. PICK i \in Nat \ S : \A j \in Nat \ S : i <= j
  BY LeastNumber
<1>2. i # 0 /\ i - 1 \in Nat /\ i - 1 \in S
  BY <1>1
<1> QED
  BY <1>1, <1>2

(* The beginnings of a function that is defined by recursion over g.       *)
Beginnings(S, s0, g, n) ==
    {h \in [0 .. n -> S] : h[0] = s0 /\ \A k \in 0 .. n - 1 : h[k + 1] = g[k][h[k]]}

LEMMA BeginningsAgree ==
    ASSUME NEW S, NEW s0 \in S, NEW g, NEW m \in Nat, NEW n \in Nat,
           NEW h \in Beginnings(S, s0, g, m), NEW i \in Beginnings(S, s0, g, n)
    PROVE  \A k \in Nat : k <= m /\ k <= n => h[k] = i[k]
<1> DEFINE T == {k \in Nat : k <= m /\ k <= n => h[k] = i[k]}
<1>1. 0 \in T
  BY DEF Beginnings
<1>2. ASSUME NEW k \in Nat, k \in T PROVE k + 1 \in T
  <2> SUFFICES ASSUME k + 1 <= m, k + 1 <= n PROVE h[k + 1] = i[k + 1]
    OBVIOUS
  <2>1. k \in 0 .. m - 1 /\ k \in 0 .. n - 1 /\ h[k] = i[k]
    BY <1>2
  <2> QED
    BY <2>1 DEF Beginnings
<1>3. Nat \subseteq T
  <2> HIDE DEF T
  <2> QED
    BY <1>1, <1>2, AllNumbers
<1> QED
  BY <1>3

LEMMA BeginningExists ==
    ASSUME NEW S, NEW s0 \in S, NEW g \in [Nat -> [S -> S]]
    PROVE  \A n \in Nat : Beginnings(S, s0, g, n) # {}
<1> DEFINE T == {n \in Nat : Beginnings(S, s0, g, n) # {}}
<1>1. 0 \in T
  <2> DEFINE h == [k \in 0 .. 0 |-> s0]
  <2>1. h \in [0 .. 0 -> S] /\ h[0] = s0
    OBVIOUS
  <2> HIDE DEF h
  <2>2. h \in Beginnings(S, s0, g, 0)
    BY <2>1 DEF Beginnings
  <2> QED
    BY <2>2
<1>2. ASSUME NEW n \in Nat, n \in T PROVE n + 1 \in T
  <2>1. PICK h : h \in Beginnings(S, s0, g, n)
    BY <1>2
  <2>2. h \in [0 .. n -> S] /\ h[0] = s0 /\ \A k \in 0 .. n - 1 : h[k + 1] = g[k][h[k]]
    BY <2>1 DEF Beginnings
  <2> DEFINE i == [k \in 0 .. n + 1 |-> IF k = n + 1 THEN g[n][h[n]] ELSE h[k]]
  <2>3. h[n] \in S /\ g[n][h[n]] \in S
    BY <2>2
  <2>4. i \in [0 .. n + 1 -> S]
    BY <2>2, <2>3
  <2>5. i[0] = s0
    BY <2>2
  <2>6. ASSUME NEW k \in 0 .. (n + 1) - 1 PROVE i[k + 1] = g[k][i[k]]
    <3>1. CASE k = n
      <4>1. i[n + 1] = g[n][h[n]] /\ i[n] = h[n]
        BY <2>2
      <4> HIDE DEF i
      <4> QED
        BY <3>1, <4>1
    <3>2. CASE k # n
      <4>1. k \in 0 .. n - 1 /\ i[k] = h[k] /\ i[k + 1] = h[k + 1]
        BY <3>2
      <4> QED
        BY <2>2, <4>1
    <3> QED
      BY <3>1, <3>2
  <2> HIDE DEF i
  <2>7. i \in Beginnings(S, s0, g, n + 1)
    BY <2>4, <2>5, <2>6 DEF Beginnings
  <2> QED
    BY <2>7
<1>3. Nat \subseteq T
  <2> HIDE DEF T
  <2> QED
    BY <1>1, <1>2, AllNumbers
<1> QED
  BY <1>3

(* A recursion over the numbers has a solution.                            *)
Solves(f, S, s0, g) ==
    f \in [Nat -> S] /\ f[0] = s0 /\ \A n \in Nat : f[n + 1] = g[n][f[n]]

LEMMA RecursionSolved ==
    ASSUME NEW S, NEW s0 \in S, NEW g \in [Nat -> [S -> S]]
    PROVE  \E f : Solves(f, S, s0, g)
<1> DEFINE b(n) == CHOOSE h : h \in Beginnings(S, s0, g, n)
           f == [n \in Nat |-> b(n)[n]]
<1>1. \A n \in Nat : b(n) \in Beginnings(S, s0, g, n)
  BY BeginningExists
<1>2. \A n \in Nat : b(n) \in [0 .. n -> S] /\ b(n)[0] = s0
  BY <1>1 DEF Beginnings
<1>3. \A n \in Nat : b(n)[n] \in S
  <2> HIDE DEF b
  <2> QED
    BY <1>2
<1>4. f \in [Nat -> S] /\ f[0] = s0
  <2> HIDE DEF b
  <2> QED
    BY <1>2, <1>3
<1>5. ASSUME NEW n \in Nat PROVE f[n + 1] = g[n][f[n]]
  <2>1. b(n + 1) \in Beginnings(S, s0, g, n + 1) /\ b(n) \in Beginnings(S, s0, g, n)
    BY <1>1
  <2> HIDE DEF b
  <2>2. b(n + 1)[n + 1] = g[n][b(n + 1)[n]]
    BY <2>1 DEF Beginnings
  <2>3. b(n + 1)[n] = b(n)[n]
    BY <2>1, BeginningsAgree
  <2> QED
    BY <2>2, <2>3
<1> HIDE DEF f
<1>6. Solves(f, S, s0, g)
  BY <1>4, <1>5 DEF Solves
<1> QED
  BY <1>6
-----------------------------------------------------------------------------
(* The elements of a sequence that are in a set, in order: of the first n, *)
(* and of all.                                                             *)
Elements(s) == {s[k] : k \in 1 .. Len(s)}

Sifter(s, T) ==
    [n \in Nat |-> [r \in Seq(Elements(s)) |->
        IF n + 1 \in DOMAIN s /\ s[n + 1] \in T THEN Append(r, s[n + 1]) ELSE r]]
Sifted(s, T) == CHOOSE f : Solves(f, Seq(Elements(s)), <<>>, Sifter(s, T))
Sift(s, T) == Sifted(s, T)[Len(s)]

(* What Sift computes.                                                     *)
LEMMA SiftedStep ==
    ASSUME NEW S, NEW s \in Seq(S), NEW T
    PROVE  /\ Sifted(s, T)[0] = <<>>
           /\ \A n \in Nat : Sifted(s, T)[n] \in Seq(S)
           /\ \A n \in Nat : n + 1 \in 1 .. Len(s) /\ s[n + 1] \in T =>
                 Sifted(s, T)[n + 1] = Append(Sifted(s, T)[n], s[n + 1])
           /\ \A n \in Nat : ~(n + 1 \in 1 .. Len(s) /\ s[n + 1] \in T) =>
                 Sifted(s, T)[n + 1] = Sifted(s, T)[n]
<1> DEFINE R == Seq(Elements(s))
           g == Sifter(s, T)
           f == Sifted(s, T)
           e == <<>>
<1>1. \A n \in DOMAIN s : s[n] \in Elements(s)
  BY DEF Elements
<1>2. DOMAIN s = 1 .. Len(s) /\ Elements(s) \subseteq S
  BY DEF Elements
<1>3. g \in [Nat -> [R -> R]]
  BY <1>1 DEF Sifter
<1>4. e \in R
  OBVIOUS
<1>5. \A n \in Nat, r \in R : g[n][r] = IF n + 1 \in DOMAIN s /\ s[n + 1] \in T THEN Append(r, s[n + 1]) ELSE r
  BY DEF Sifter
<1>6. f = CHOOSE h : Solves(h, R, e, g)
  BY DEF Sifted
<1> HIDE DEF R, g, f, e
<1>7. \E h : Solves(h, R, e, g)
  BY <1>3, <1>4, RecursionSolved
<1>8. Solves(f, R, e, g)
  BY <1>6, <1>7
<1>9. f \in [Nat -> R] /\ f[0] = e /\ \A n \in Nat : f[n + 1] = g[n][f[n]]
  BY <1>8 DEF Solves
<1>10. \A n \in Nat : f[n] \in R /\ f[n] \in Seq(S)
  <2>1. R \subseteq Seq(S)
    BY <1>2, SeqMonotonic DEF R
  <2> QED
    BY <1>9, <2>1
<1>11. \A n \in Nat : f[n + 1] = IF n + 1 \in DOMAIN s /\ s[n + 1] \in T THEN Append(f[n], s[n + 1]) ELSE f[n]
  BY <1>5, <1>9, <1>10
<1> QED
  BY <1>2, <1>9, <1>10, <1>11 DEF f, e

LEMMA SiftedNothing ==
    ASSUME NEW S, NEW s \in Seq(S), NEW T
    PROVE  Sifted(s, T)[0] = <<>>
  BY SiftedStep

LEMMA SiftedType ==
    ASSUME NEW S, NEW s \in Seq(S), NEW T, NEW n \in Nat
    PROVE  Sifted(s, T)[n] \in Seq(S)
  BY SiftedStep

LEMMA SiftedNext ==
    ASSUME NEW S, NEW s \in Seq(S), NEW T, NEW n \in Nat, n + 1 \in 1 .. Len(s)
    PROVE  /\ s[n + 1] \in T => Sifted(s, T)[n + 1] = Append(Sifted(s, T)[n], s[n + 1])
           /\ s[n + 1] \notin T => Sifted(s, T)[n + 1] = Sifted(s, T)[n]
  BY SiftedStep

LEMMA SiftType ==
    ASSUME NEW S, NEW s \in Seq(S), NEW T
    PROVE  Sift(s, T) \in Seq(S)
  BY SiftedStep DEF Sift

(* The beginnings of two sequences that agree.                             *)
LEMMA SiftedAgree ==
    ASSUME NEW S, NEW s \in Seq(S), NEW t \in Seq(S), NEW T, NEW m \in Nat,
           m <= Len(s), m <= Len(t), \A k \in 1 .. m : s[k] = t[k]
    PROVE  \A n \in Nat : n <= m => Sifted(s, T)[n] = Sifted(t, T)[n]
<1> DEFINE N == {n \in Nat : n <= m => Sifted(s, T)[n] = Sifted(t, T)[n]}
<1>1. 0 \in N
  <2>1. Sifted(s, T)[0] = <<>>
    BY SiftedNothing
  <2>2. Sifted(t, T)[0] = <<>>
    BY SiftedNothing
  <2> QED
    BY <2>1, <2>2
<1>2. ASSUME NEW n \in Nat, n \in N, n + 1 <= m PROVE Sifted(s, T)[n + 1] = Sifted(t, T)[n + 1]
  <2>1. Sifted(s, T)[n] = Sifted(t, T)[n]
    BY <1>2
  <2>2. n + 1 \in 1 .. Len(s) /\ n + 1 \in 1 .. Len(t) /\ s[n + 1] = t[n + 1]
    BY <1>2
  <2>3. /\ s[n + 1] \in T => Sifted(s, T)[n + 1] = Append(Sifted(s, T)[n], s[n + 1])
        /\ s[n + 1] \notin T => Sifted(s, T)[n + 1] = Sifted(s, T)[n]
    BY <2>2, SiftedNext
  <2>4. /\ t[n + 1] \in T => Sifted(t, T)[n + 1] = Append(Sifted(t, T)[n], t[n + 1])
        /\ t[n + 1] \notin T => Sifted(t, T)[n + 1] = Sifted(t, T)[n]
    BY <2>2, SiftedNext
  <2> QED
    BY <2>1, <2>2, <2>3, <2>4, Zenon
<1>3. Nat \subseteq N
  <2>1. ASSUME NEW n \in Nat, n \in N PROVE n + 1 \in N
    <3>1. n + 1 <= m => Sifted(s, T)[n + 1] = Sifted(t, T)[n + 1]
      BY <1>2, <2>1
    <3>2. n + 1 \in Nat
      OBVIOUS
    <3> QED
      BY <3>1, <3>2, Zenon
  <2> HIDE DEF N
  <2> QED
    BY <1>1, <2>1, AllNumbers
<1> QED
  BY <1>3, Zenon

(* One sequence after the other.                                           *)
LEMMA SiftedConcat ==
    ASSUME NEW S, NEW s \in Seq(S), NEW t \in Seq(S), NEW T
    PROVE  \A n \in Nat : n <= Len(t) => Sifted(s \o t, T)[Len(s) + n] = Sift(s, T) \o Sifted(t, T)[n]
<1> DEFINE u == s \o t
           m == Len(s)
           N == {n \in Nat : n <= Len(t) => Sifted(u, T)[m + n] = Sift(s, T) \o Sifted(t, T)[n]}
<1>1. /\ u \in Seq(S) /\ Len(u) = m + Len(t) /\ Len(t) \in Nat /\ m \in Nat
      /\ \A k \in 1 .. m : u[k] = s[k]
      /\ \A k \in 1 .. Len(t) : u[m + k] = t[k]
  BY ConcatProperties
<1>2. m = Len(s) /\ Sift(s, T) \in Seq(S)
  BY SiftType
<1> HIDE DEF u, m
<1>3. 0 \in N
  <2>1. \A n \in Nat : n <= m => Sifted(s, T)[n] = Sifted(u, T)[n]
    <3>1. m <= Len(s) /\ m <= Len(u) /\ \A k \in 1 .. m : s[k] = u[k]
      BY <1>1, <1>2
    <3> QED
      BY <1>1, <3>1, SiftedAgree
  <2>2. Sifted(t, T)[0] = <<>>
    BY SiftedNothing
  <2>3. Sifted(u, T)[m] = Sift(s, T)
    <3>1. m <= m
      BY <1>1
    <3> QED
      BY <1>1, <1>2, <2>1, <3>1 DEF Sift
  <2>4. Sift(s, T) \o <<>> = Sift(s, T)
    BY <1>2, ConcatEmptySeq
  <2>5. m + 0 = m
    BY <1>1
  <2> QED
    BY <2>2, <2>3, <2>4, <2>5
<1>4. ASSUME NEW n \in Nat, n \in N, n + 1 <= Len(t)
      PROVE  Sifted(u, T)[m + (n + 1)] = Sift(s, T) \o Sifted(t, T)[n + 1]
  <2> DEFINE a == Sift(s, T)
             b == Sifted(t, T)[n]
             c == t[n + 1]
             k == m + n
  <2>1. /\ k \in Nat /\ m + (n + 1) = k + 1 /\ n <= Len(t) /\ n + 1 \in 1 .. Len(t)
        /\ k + 1 \in 1 .. Len(u)
    BY <1>1, <1>4
  <2>2. u[k + 1] = c /\ c \in S
    BY <1>1, <2>1
  <2>3. Sifted(u, T)[k] = a \o b
    BY <1>4, <2>1
  <2>4. a \in Seq(S) /\ b \in Seq(S)
    BY <1>2, SiftedType
  <2>5. /\ t[n + 1] \in T => Sifted(t, T)[n + 1] = Append(Sifted(t, T)[n], t[n + 1])
        /\ t[n + 1] \notin T => Sifted(t, T)[n + 1] = Sifted(t, T)[n]
    BY <2>1, SiftedNext
  <2> HIDE DEF k
  <2>6. /\ u[k + 1] \in T => Sifted(u, T)[k + 1] = Append(Sifted(u, T)[k], u[k + 1])
        /\ u[k + 1] \notin T => Sifted(u, T)[k + 1] = Sifted(u, T)[k]
    <3>1. u \in Seq(S) /\ k \in Nat /\ k + 1 \in 1 .. Len(u)
      BY <1>1, <2>1
    <3> QED
      BY <3>1, SiftedNext
  <2>7. Append(a \o b, c) = a \o Append(b, c)
    <3> HIDE DEF a, b, c
    <3>1. Append(a \o b, c) = (a \o b) \o <<c>> /\ Append(b, c) = b \o <<c>>
      BY <2>2, <2>4, AppendIsConcat, ConcatProperties
    <3>2. <<c>> \in Seq(S)
      BY <2>2
    <3>3. (a \o b) \o <<c>> = a \o (b \o <<c>>)
      BY <2>4, <3>2, ConcatAssociative
    <3> QED
      BY <3>1, <3>3
  <2> QED
    BY <2>1, <2>2, <2>3, <2>5, <2>6, <2>7, Zenon
<1>5. Nat \subseteq N
  <2>1. ASSUME NEW n \in Nat, n \in N PROVE n + 1 \in N
    <3>1. n + 1 <= Len(t) => Sifted(u, T)[m + (n + 1)] = Sift(s, T) \o Sifted(t, T)[n + 1]
      BY <1>4, <2>1
    <3>2. n + 1 \in Nat
      OBVIOUS
    <3> QED
      BY <3>1, <3>2, Zenon
  <2> HIDE DEF N
  <2> QED
    BY <1>3, <2>1, AllNumbers
<1> QED
  BY <1>5, Zenon DEF u, m

LEMMA SiftConcat ==
    ASSUME NEW S, NEW s \in Seq(S), NEW t \in Seq(S), NEW T
    PROVE  Sift(s \o t, T) = Sift(s, T) \o Sift(t, T)
<1>1. \A n \in Nat : n <= Len(t) => Sifted(s \o t, T)[Len(s) + n] = Sift(s, T) \o Sifted(t, T)[n]
  BY SiftedConcat
<1>2. Len(t) \in Nat /\ Len(t) <= Len(t) /\ Len(s \o t) = Len(s) + Len(t)
  BY ConcatProperties
<1> QED
  BY <1>1, <1>2 DEF Sift

(* None of the elements.                                                   *)
LEMMA SiftNone ==
    ASSUME NEW S, NEW s \in Seq(S), NEW T, \A k \in 1 .. Len(s) : s[k] \notin T
    PROVE  Sift(s, T) = <<>>
<1> DEFINE N == {n \in Nat : Sifted(s, T)[n] = <<>>}
<1>1. 0 \in N
  BY SiftedNothing
<1>2. ASSUME NEW n \in Nat, n \in N PROVE n + 1 \in N
  <2>1. Sifted(s, T)[n] = <<>>
    BY <1>2
  <2>2. ~(n + 1 \in 1 .. Len(s) /\ s[n + 1] \in T)
    OBVIOUS
  <2>3. Sifted(s, T)[n + 1] = Sifted(s, T)[n]
    BY <2>2, SiftedStep
  <2> QED
    BY <2>1, <2>3
<1>3. Nat \subseteq N
  <2> HIDE DEF N
  <2> QED
    BY <1>1, <1>2, AllNumbers
<1> QED
  BY <1>3 DEF Sift

(* The first and the rest.                                                 *)
LEMMA SiftOne ==
    ASSUME NEW S, NEW x \in S, NEW T
    PROVE  /\ x \in T => Sift(<<x>>, T) = <<x>>
           /\ x \notin T => Sift(<<x>>, T) = <<>>
<1> DEFINE s == <<x>>
<1>1. s \in Seq(S) /\ Len(s) = 1 /\ s[0 + 1] = x /\ 0 + 1 \in 1 .. Len(s)
  OBVIOUS
<1> HIDE DEF s
<1>2. /\ s[0 + 1] \in T => Sifted(s, T)[0 + 1] = Append(Sifted(s, T)[0], s[0 + 1])
      /\ s[0 + 1] \notin T => Sifted(s, T)[0 + 1] = Sifted(s, T)[0]
  BY <1>1, SiftedNext
<1>3. Sifted(s, T)[0] = <<>>
  BY <1>1, SiftedNothing
<1>4. Sift(s, T) = Sifted(s, T)[0 + 1]
  BY <1>1 DEF Sift
<1> QED
  BY <1>1, <1>2, <1>3, <1>4 DEF s

LEMMA SiftHead ==
    ASSUME NEW S, NEW s \in Seq(S), NEW T, s # <<>>
    PROVE  /\ Head(s) \in T => Sift(s, T) = <<Head(s)>> \o Sift(Tail(s), T)
           /\ Head(s) \notin T => Sift(s, T) = Sift(Tail(s), T)
<1> DEFINE h == <<Head(s)>>
           r == Tail(s)
<1>1. Head(s) \in S /\ h \in Seq(S) /\ r \in Seq(S) /\ s = h \o r
  OBVIOUS
<1>2. /\ Head(s) \in T => Sift(h, T) = <<Head(s)>>
      /\ Head(s) \notin T => Sift(h, T) = <<>>
  BY <1>1, SiftOne
<1> HIDE DEF h, r
<1>3. Sift(h \o r, T) = Sift(h, T) \o Sift(r, T)
  BY <1>1, SiftConcat
<1>4. <<>> \o Sift(r, T) = Sift(r, T)
  BY <1>1, SiftType, ConcatEmptySeq
<1> QED
  BY <1>1, <1>2, <1>3, <1>4 DEF r

(* Two sequences with elements that correspond.                            *)
LEMMA SiftedSame ==
    ASSUME NEW S, NEW s \in Seq(S), NEW t \in Seq(S), NEW T, NEW U, NEW R, NEW m \in Nat,
           m <= Len(s), m <= Len(t),
           \A k \in 1 .. m : /\ s[k] \in T <=> t[k] \in U
                             /\ s[k] \in T => <<s[k], t[k]>> \in R
    PROVE  \A n \in Nat : n <= m =>
               /\ Len(Sifted(s, T)[n]) = Len(Sifted(t, U)[n])
               /\ \A k \in 1 .. Len(Sifted(s, T)[n]) : <<Sifted(s, T)[n][k], Sifted(t, U)[n][k]>> \in R
<1> DEFINE Same(a, b) == Len(a) = Len(b) /\ \A k \in 1 .. Len(a) : <<a[k], b[k]>> \in R
           N == {n \in Nat : n <= m => Same(Sifted(s, T)[n], Sifted(t, U)[n])}
<1>1. 0 \in N
  <2>1. Sifted(s, T)[0] = <<>>
    BY SiftedNothing
  <2>2. Sifted(t, U)[0] = <<>>
    BY SiftedNothing
  <2> QED
    BY <2>1, <2>2
<1>2. ASSUME NEW n \in Nat, n \in N, n + 1 <= m PROVE Same(Sifted(s, T)[n + 1], Sifted(t, U)[n + 1])
  <2> DEFINE a == Sifted(s, T)[n]
             b == Sifted(t, U)[n]
             c == s[n + 1]
             d == t[n + 1]
  <2>1. Same(a, b)
    BY <1>2
  <2>2. /\ n + 1 \in 1 .. Len(s) /\ n + 1 \in 1 .. Len(t) /\ n + 1 \in 1 .. m
        /\ c \in T <=> d \in U
        /\ c \in T => <<c, d>> \in R
        /\ c \in S /\ d \in S
    BY <1>2
  <2>3. /\ c \in T => Sifted(s, T)[n + 1] = Append(a, c)
        /\ c \notin T => Sifted(s, T)[n + 1] = a
    BY <2>2, SiftedNext
  <2>4. /\ d \in U => Sifted(t, U)[n + 1] = Append(b, d)
        /\ d \notin U => Sifted(t, U)[n + 1] = b
    BY <2>2, SiftedNext
  <2>5. a \in Seq(S) /\ b \in Seq(S)
    BY SiftedType
  <2>6. c \in T => Same(Append(a, c), Append(b, d))
    <3> HIDE DEF a, b, c, d
    <3> SUFFICES ASSUME c \in T PROVE Same(Append(a, c), Append(b, d))
      OBVIOUS
    <3>1. /\ Len(a) = Len(b) /\ Len(a) \in Nat
          /\ Len(Append(a, c)) = Len(a) + 1 /\ Len(Append(b, d)) = Len(b) + 1
          /\ \A k \in 1 .. Len(a) : Append(a, c)[k] = a[k] /\ <<a[k], b[k]>> \in R
          /\ \A k \in 1 .. Len(b) : Append(b, d)[k] = b[k]
          /\ Append(a, c)[Len(a) + 1] = c /\ Append(b, d)[Len(b) + 1] = d
      BY <2>1, <2>2, <2>5
    <3>2. <<c, d>> \in R
      BY <2>2
    <3>3. ASSUME NEW k \in 1 .. Len(a) + 1 PROVE <<Append(a, c)[k], Append(b, d)[k]>> \in R
      <4>1. CASE k = Len(a) + 1
        BY <3>1, <3>2, <4>1
      <4>2. CASE k \in 1 .. Len(a)
        BY <3>1, <4>2, Zenon
      <4>3. Len(a) \in Nat
        BY <3>1
      <4>4. k = Len(a) + 1 \/ k \in 1 .. Len(a)
        BY <4>3
      <4> QED
        BY <4>1, <4>2, <4>4, Zenon
    <3> QED
      BY <3>1, <3>3
  <2> HIDE DEF Same, a, b, c, d
  <2> QED
    BY <2>1, <2>2, <2>3, <2>4, <2>6
<1>3. Nat \subseteq N
  <2>1. ASSUME NEW n \in Nat, n \in N PROVE n + 1 \in N
    <3> HIDE DEF Same
    <3>1. n + 1 <= m => Same(Sifted(s, T)[n + 1], Sifted(t, U)[n + 1])
      BY <1>2, <2>1
    <3>2. n + 1 \in Nat
      OBVIOUS
    <3> QED
      BY <3>1, <3>2, Zenon
  <2> HIDE DEF N
  <2> QED
    BY <1>1, <2>1, AllNumbers
<1> QED
  BY <1>3, Zenon

(* Only elements of the set.                                               *)
LEMMA SiftedIn ==
    ASSUME NEW S, NEW s \in Seq(S), NEW T
    PROVE  \A n \in Nat : Sifted(s, T)[n] \in Seq(S \cap T)
<1> DEFINE U == S \cap T
           N == {n \in Nat : Sifted(s, T)[n] \in Seq(U)}
<1>1. 0 \in N
  <2>1. Sifted(s, T)[0] = <<>>
    BY SiftedNothing
  <2>2. <<>> \in Seq(U)
    OBVIOUS
  <2> HIDE DEF U
  <2> QED
    BY <2>1, <2>2
<1>2. ASSUME NEW n \in Nat, n \in N PROVE n + 1 \in N
  <2>1. Sifted(s, T)[n] \in Seq(U)
    BY <1>2
  <2>2. CASE n + 1 \in 1 .. Len(s) /\ s[n + 1] \in T
    <3>1. Sifted(s, T)[n + 1] = Append(Sifted(s, T)[n], s[n + 1])
      BY <2>2, SiftedStep
    <3>2. s[n + 1] \in U
      BY <2>2
    <3> HIDE DEF U
    <3>3. Sifted(s, T)[n + 1] \in Seq(U)
      BY <2>1, <3>1, <3>2, AppendProperties
    <3> QED
      BY <3>3
  <2>3. CASE ~(n + 1 \in 1 .. Len(s) /\ s[n + 1] \in T)
    <3>1. Sifted(s, T)[n + 1] = Sifted(s, T)[n]
      BY <2>3, SiftedStep
    <3> QED
      BY <2>1, <3>1
  <2> QED
    BY <2>2, <2>3
<1>3. Nat \subseteq N
  <2> HIDE DEF N
  <2> QED
    BY <1>1, <1>2, AllNumbers
<1> QED
  BY <1>3

(* None of the rest.                                                       *)
LEMMA SiftedRest ==
    ASSUME NEW S, NEW s \in Seq(S), NEW T, NEW m \in 0 .. Len(s),
           \A k \in 1 .. Len(s) : k > m => s[k] \notin T
    PROVE  Sift(s, T) = Sifted(s, T)[m]
<1> DEFINE N == {n \in Nat : Sifted(s, T)[m + n] = Sifted(s, T)[m]}
<1>1. m \in Nat /\ Len(s) \in Nat
  OBVIOUS
<1>2. 0 \in N
  BY <1>1
<1>3. ASSUME NEW n \in Nat, n \in N PROVE n + 1 \in N
  <2> DEFINE k == m + n
  <2>1. k \in Nat /\ m + (n + 1) = k + 1 /\ ~(k + 1 \in 1 .. Len(s) /\ s[k + 1] \in T)
    BY <1>1
  <2> HIDE DEF k
  <2>2. Sifted(s, T)[k + 1] = Sifted(s, T)[k]
    BY <2>1, SiftedStep
  <2>3. Sifted(s, T)[k] = Sifted(s, T)[m]
    BY <1>3 DEF k
  <2> QED
    BY <2>1, <2>2, <2>3
<1>4. Nat \subseteq N
  <2> HIDE DEF N
  <2> QED
    BY <1>2, <1>3, AllNumbers
<1>5. Len(s) - m \in Nat /\ m + (Len(s) - m) = Len(s)
  BY <1>1
<1>6. Sifted(s, T)[m + (Len(s) - m)] = Sifted(s, T)[m]
  BY <1>4, <1>5
<1> QED
  BY <1>5, <1>6 DEF Sift

LEMMA SiftedFirst ==
    ASSUME NEW S, NEW s \in Seq(S), NEW T
    PROVE  Len(Sifted(s, T)[1]) <= 1
<1>1. Sifted(s, T)[0] = <<>>
  BY SiftedNothing
<1>2. CASE 0 + 1 \in 1 .. Len(s) /\ s[0 + 1] \in T
  <2>1. Sifted(s, T)[0 + 1] = Append(Sifted(s, T)[0], s[0 + 1])
    BY <1>2, SiftedStep
  <2>2. Len(Append(<<>>, s[0 + 1])) <= 1 /\ 0 + 1 = 1
    OBVIOUS
  <2>3. Sifted(s, T)[1] = Append(<<>>, s[0 + 1])
    BY <1>1, <2>1, <2>2, Zenon
  <2> QED
    BY <2>2, <2>3, Zenon
<1>3. CASE ~(0 + 1 \in 1 .. Len(s) /\ s[0 + 1] \in T)
  <2>1. Sifted(s, T)[0 + 1] = Sifted(s, T)[0]
    BY <1>3, SiftedStep
  <2>2. 0 + 1 = 1
    OBVIOUS
  <2>3. Sifted(s, T)[1] = <<>>
    BY <1>1, <2>1, <2>2, Zenon
  <2>4. Len(<<>>) <= 1
    OBVIOUS
  <2> QED
    BY <2>3, <2>4, Zenon
<1> QED
  BY <1>2, <1>3
-----------------------------------------------------------------------------
(* The sequences that FlattenSeq of the community modules joins, up to the *)
(* first, the second, and so on.                                           *)
Flat(ss) ==
    LET flatten[i \in 1 .. Len(ss)] == IF i = 1 THEN ss[i] ELSE flatten[i - 1] \o ss[i]
    IN  flatten

LEMMA FlatStep ==
    ASSUME NEW S, NEW ss \in Seq(Seq(S)), Len(ss) # 0
    PROVE  /\ Flat(ss)[1] = ss[1]
           /\ \A i \in 1 .. Len(ss) : i # 1 => Flat(ss)[i] = Flat(ss)[i - 1] \o ss[i]
<1> DEFINE n == Len(ss)
           R == Seq(S)
           first == ss[1]
           g == [k \in Nat |-> [r \in R |-> IF k + 2 \in 1 .. n THEN r \o ss[k + 2] ELSE r]]
           IsFlat(f) == f = [i \in 1 .. n |-> IF i = 1 THEN ss[i] ELSE f[i - 1] \o ss[i]]
           flat == CHOOSE f : IsFlat(f)
<1>1. n \in Nat /\ n > 0 /\ first \in R /\ \A i \in 1 .. n : ss[i] \in R
  OBVIOUS
<1>2. Flat(ss) = flat
  BY Zenon DEF Flat
<1> HIDE DEF R, n
<1>3. g \in [Nat -> [R -> R]]
  <2>1. \A r \in R, t \in R : r \o t \in R
    BY ConcatProperties DEF R
  <2> QED
    BY <1>1, <2>1
<1>4. \A k \in Nat, r \in R : g[k][r] = IF k + 2 \in 1 .. n THEN r \o ss[k + 2] ELSE r
  OBVIOUS
<1> HIDE DEF g, first
<1>5. PICK h : Solves(h, R, first, g)
  BY <1>1, <1>3, RecursionSolved
<1>6. h \in [Nat -> R] /\ h[0] = first /\ \A k \in Nat : h[k + 1] = g[k][h[k]]
  BY <1>5 DEF Solves
<1>7. \A k \in Nat : k + 2 \in 1 .. n => h[k + 1] = h[k] \o ss[k + 2]
  BY <1>4, <1>6
<1> DEFINE f == [i \in 1 .. n |-> h[i - 1]]
<1>8. IsFlat(f)
  <2>1. ASSUME NEW i \in 1 .. n PROVE h[i - 1] = IF i = 1 THEN ss[i] ELSE f[i - 1] \o ss[i]
    <3>1. CASE i = 1
      BY <1>6, <3>1 DEF first
    <3>2. CASE i # 1
      <4>1. i - 2 \in Nat /\ (i - 2) + 2 = i /\ (i - 2) + 1 = i - 1 /\ i - 1 \in 1 .. n
        BY <1>1, <3>2
      <4>2. h[i - 1] = h[i - 2] \o ss[i]
        BY <1>7, <4>1
      <4>3. f[i - 1] = h[i - 2]
        <5>1. (i - 1) - 1 = i - 2
          OBVIOUS
        <5> QED
          BY <4>1, <5>1
      <4> QED
        BY <3>2, <4>2, <4>3
    <3> QED
      BY <3>1, <3>2
  <2> QED
    BY <2>1
<1> HIDE DEF f
<1>9. IsFlat(flat)
  BY <1>8
<1> HIDE DEF flat
<1>10. \A i \in 1 .. n : flat[i] = IF i = 1 THEN ss[i] ELSE flat[i - 1] \o ss[i]
  BY <1>9
<1>11. 1 \in 1 .. n
  BY <1>1
<1>12. flat[1] = ss[1] /\ \A i \in 1 .. n : i # 1 => flat[i] = flat[i - 1] \o ss[i]
  BY <1>10, <1>11
<1> QED
  BY <1>2, <1>12, Zenon DEF n

LEMMA FlattenType ==
    ASSUME NEW S, NEW ss \in Seq(Seq(S))
    PROVE  FlattenSeq(ss) \in Seq(S)
<1>1. CASE Len(ss) = 0
  BY <1>1 DEF FlattenSeq
<1>2. CASE Len(ss) # 0
  <2> DEFINE n == Len(ss)
             R == Seq(S)
             flat == Flat(ss)
             N == {k \in Nat : k + 1 <= n => flat[k + 1] \in R}
  <2>1. n \in Nat /\ n > 0 /\ \A i \in 1 .. n : ss[i] \in R
    BY <1>2
  <2>2. FlattenSeq(ss) = flat[n]
    BY <1>2, Zenon DEF FlattenSeq, Flat
  <2>3. flat[1] = ss[1] /\ \A i \in 1 .. n : i # 1 => flat[i] = flat[i - 1] \o ss[i]
    BY <1>2, FlatStep
  <2> HIDE DEF n, R, flat
  <2>4. 0 \in N
    BY <2>1, <2>3
  <2>5. ASSUME NEW k \in Nat, k \in N PROVE k + 1 \in N
    <3>1. (k + 1) + 1 = k + 2
      OBVIOUS
    <3>2. ASSUME k + 2 <= n PROVE flat[k + 2] \in R
      <4>1. k + 2 \in 1 .. n /\ k + 2 # 1 /\ (k + 2) - 1 = k + 1 /\ k + 1 <= n
        BY <2>1, <3>2
      <4>2. flat[k + 2] = flat[k + 1] \o ss[k + 2]
        BY <2>3, <4>1
      <4>3. flat[k + 1] \in R /\ ss[k + 2] \in R
        BY <2>1, <2>5, <4>1
      <4> QED
        BY <4>2, <4>3, ConcatProperties DEF R
    <3> QED
      BY <3>1, <3>2
  <2>6. Nat \subseteq N
    <3> HIDE DEF N
    <3> QED
      BY <2>4, <2>5, AllNumbers
  <2>7. n - 1 \in Nat /\ (n - 1) + 1 = n
    BY <2>1
  <2>8. flat[n] \in R
    <3>1. n - 1 \in N
      BY <2>6, <2>7 DEF N
    <3>2. (n - 1) + 1 <= n => flat[(n - 1) + 1] \in R
      BY <3>1
    <3> QED
      BY <2>1, <2>7, <3>2
  <2> QED
    BY <2>2, <2>8 DEF R
<1> QED
  BY <1>1, <1>2

(* One sequence more, and sequences of sequences one after the other.      *)
LEMMA FlattenNone == FlattenSeq(<<>>) = <<>>
BY DEF FlattenSeq

LEMMA FlatAgree ==
    ASSUME NEW S, NEW ss \in Seq(Seq(S)), NEW tt \in Seq(Seq(S)), Len(ss) # 0, Len(tt) # 0,
           Len(ss) <= Len(tt), \A k \in 1 .. Len(ss) : tt[k] = ss[k]
    PROVE  \A k \in 1 .. Len(ss) : Flat(tt)[k] = Flat(ss)[k]
<1> DEFINE f == Flat(ss)
           g == Flat(tt)
           n == Len(ss)
           m == Len(tt)
           N == {k \in Nat : k + 1 <= n => g[k + 1] = f[k + 1]}
<1>1. n \in Nat /\ m \in Nat /\ n > 0 /\ n <= m /\ \A k \in 1 .. n : tt[k] = ss[k]
  OBVIOUS
<1>2. f[1] = ss[1] /\ \A i \in 1 .. n : i # 1 => f[i] = f[i - 1] \o ss[i]
  BY FlatStep
<1>3. g[1] = tt[1] /\ \A i \in 1 .. m : i # 1 => g[i] = g[i - 1] \o tt[i]
  BY FlatStep
<1> HIDE DEF f, g, n, m
<1>4. 0 \in N
  <2>1. 0 + 1 = 1 /\ 1 \in 1 .. n
    BY <1>1
  <2>2. g[1] = f[1]
    BY <1>1, <1>2, <1>3, <2>1
  <2> QED
    BY <2>1, <2>2
<1>5. ASSUME NEW k \in Nat, k \in N PROVE k + 1 \in N
  <2>1. (k + 1) + 1 = k + 2
    OBVIOUS
  <2>2. ASSUME k + 2 <= n PROVE g[k + 2] = f[k + 2]
    <3>1. k + 2 \in 1 .. n /\ k + 2 \in 1 .. m /\ k + 2 # 1 /\ (k + 2) - 1 = k + 1 /\ k + 1 <= n
      BY <1>1, <2>2
    <3>2. g[k + 1] = f[k + 1]
      BY <1>5, <3>1
    <3>3. f[k + 2] = f[k + 1] \o ss[k + 2]
      BY <1>2, <3>1
    <3>4. g[k + 2] = g[k + 1] \o tt[k + 2]
      BY <1>3, <3>1
    <3>5. tt[k + 2] = ss[k + 2]
      BY <1>1, <3>1
    <3> QED
      BY <3>2, <3>3, <3>4, <3>5, Zenon
  <2> QED
    BY <2>1, <2>2
<1>6. Nat \subseteq N
  <2> HIDE DEF N
  <2> QED
    BY <1>4, <1>5, AllNumbers
<1>7. ASSUME NEW k \in 1 .. n PROVE g[k] = f[k]
  <2>1. k - 1 \in Nat /\ (k - 1) + 1 = k /\ k <= n
    BY <1>1
  <2>2. (k - 1) + 1 <= n => g[(k - 1) + 1] = f[(k - 1) + 1]
    BY <1>6, <2>1
  <2> QED
    BY <2>1, <2>2
<1> QED
  BY <1>7 DEF f, g, n

LEMMA FlattenAppend ==
    ASSUME NEW S, NEW ss \in Seq(Seq(S)), NEW x \in Seq(S)
    PROVE  FlattenSeq(Append(ss, x)) = FlattenSeq(ss) \o x
<1> DEFINE tt == Append(ss, x)
           n == Len(ss)
<1>1. /\ tt \in Seq(Seq(S)) /\ Len(tt) = n + 1 /\ n \in Nat /\ tt[n + 1] = x
      /\ \A k \in 1 .. n : tt[k] = ss[k]
  OBVIOUS
<1>2. FlattenSeq(tt) = Flat(tt)[n + 1]
  <2>1. Len(tt) # 0
    BY <1>1
  <2>2. FlattenSeq(tt) = Flat(tt)[Len(tt)]
    BY <2>1, Zenon DEF FlattenSeq, Flat
  <2> QED
    BY <1>1, <2>2, Zenon
<1>3. CASE n = 0
  <2>1. ss = <<>> /\ n + 1 = 1 /\ Len(tt) # 0
    BY <1>1, <1>3
  <2> HIDE DEF tt
  <2>2. Flat(tt)[1] = tt[1]
    BY <1>1, <2>1, FlatStep
  <2>3. FlattenSeq(ss) = <<>>
    BY <2>1, FlattenNone
  <2>4. <<>> \o x = x
    BY ConcatEmptySeq
  <2> QED
    BY <1>1, <1>2, <2>1, <2>2, <2>3, <2>4 DEF tt
<1>4. CASE n # 0
  <2>1. FlattenSeq(ss) = Flat(ss)[n]
    BY <1>4, Zenon DEF FlattenSeq, Flat
  <2>2. n \in 1 .. n /\ n + 1 \in 1 .. Len(tt) /\ n + 1 # 1 /\ (n + 1) - 1 = n /\ Len(tt) # 0 /\ n <= Len(tt)
    BY <1>1, <1>4
  <2> HIDE DEF tt
  <2>3. Flat(tt)[n] = Flat(ss)[n]
    BY <1>1, <1>4, <2>2, FlatAgree
  <2>4. Flat(tt)[n + 1] = Flat(tt)[(n + 1) - 1] \o tt[n + 1]
    BY <1>1, <2>2, FlatStep
  <2> QED
    BY <1>1, <1>2, <2>1, <2>2, <2>3, <2>4 DEF tt
<1> QED
  BY <1>3, <1>4

LEMMA FlattenOne ==
    ASSUME NEW S, NEW x \in Seq(S)
    PROVE  FlattenSeq(<<x>>) = x
<1> DEFINE ss == <<>>
<1>1. ss \in Seq(Seq(S)) /\ Append(ss, x) = <<x>>
  OBVIOUS
<1> HIDE DEF ss
<1>2. FlattenSeq(Append(ss, x)) = FlattenSeq(ss) \o x
  BY <1>1, FlattenAppend
<1>3. FlattenSeq(ss) = <<>>
  BY FlattenNone DEF ss
<1>4. <<>> \o x = x
  BY ConcatEmptySeq
<1> QED
  BY <1>1, <1>2, <1>3, <1>4

LEMMA FlattenConcat ==
    ASSUME NEW S, NEW ss \in Seq(Seq(S)), NEW tt \in Seq(Seq(S))
    PROVE  FlattenSeq(ss \o tt) = FlattenSeq(ss) \o FlattenSeq(tt)
<1> DEFINE R == Seq(S)
           m == Len(tt)
           t(n) == SubSeq(tt, 1, n)
           N == {n \in Nat : n <= m => FlattenSeq(ss \o t(n)) = FlattenSeq(ss) \o FlattenSeq(t(n))}
<1>1. ss \in Seq(R) /\ tt \in Seq(R) /\ m \in Nat
  OBVIOUS
<1>2. 0 \in N
  <2>1. t(0) = <<>>
    OBVIOUS
  <2>2. ss \o <<>> = ss /\ FlattenSeq(ss) \o <<>> = FlattenSeq(ss)
    BY FlattenType, ConcatEmptySeq
  <2> HIDE DEF t
  <2>3. FlattenSeq(ss \o t(0)) = FlattenSeq(ss) \o FlattenSeq(t(0))
    BY <2>1, <2>2, FlattenNone
  <2> QED
    BY <2>3
<1>3. ASSUME NEW n \in Nat, n \in N, n + 1 <= m
      PROVE  FlattenSeq(ss \o t(n + 1)) = FlattenSeq(ss) \o FlattenSeq(t(n + 1))
  <2> DEFINE x == tt[n + 1]
  <2>1. n <= m /\ n + 1 \in 1 .. m
    BY <1>1, <1>3
  <2>2. x \in R /\ t(n) \in Seq(R) /\ t(n + 1) = Append(t(n), x)
    BY <1>1, <2>1
  <2>3. FlattenSeq(ss \o t(n)) = FlattenSeq(ss) \o FlattenSeq(t(n))
    BY <1>3, <2>1
  <2> DEFINE u == t(n)
  <2>4. u \in Seq(R) /\ t(n + 1) = Append(u, x) /\ FlattenSeq(ss \o u) = FlattenSeq(ss) \o FlattenSeq(u)
    BY <2>2, <2>3
  <2> HIDE DEF t, x, R, u
  <2>5. ss \o Append(u, x) = Append(ss \o u, x) /\ ss \o u \in Seq(R)
    <3>1. Append(u, x) = u \o <<x>> /\ <<x>> \in Seq(R) /\ ss \o u \in Seq(R)
      BY <1>1, <2>2, <2>4, AppendIsConcat, ConcatProperties
    <3>2. Append(ss \o u, x) = (ss \o u) \o <<x>>
      BY <2>2, <3>1, AppendIsConcat
    <3>3. (ss \o u) \o <<x>> = ss \o (u \o <<x>>)
      BY <1>1, <2>4, <3>1, ConcatAssociative
    <3> QED
      BY <3>1, <3>2, <3>3
  <2>6. FlattenSeq(Append(ss \o u, x)) = FlattenSeq(ss \o u) \o x
    BY <2>2, <2>5, FlattenAppend DEF R
  <2>7. FlattenSeq(Append(u, x)) = FlattenSeq(u) \o x
    BY <2>2, <2>4, FlattenAppend DEF R
  <2>8. (FlattenSeq(ss) \o FlattenSeq(u)) \o x = FlattenSeq(ss) \o (FlattenSeq(u) \o x)
    <3>1. FlattenSeq(ss) \in Seq(S) /\ FlattenSeq(u) \in Seq(S) /\ x \in Seq(S)
      BY <2>2, <2>4, FlattenType DEF R
    <3> QED
      BY <3>1, ConcatAssociative
  <2> QED
    BY <2>4, <2>5, <2>6, <2>7, <2>8
<1>4. Nat \subseteq N
  <2>1. ASSUME NEW n \in Nat, n \in N PROVE n + 1 \in N
    <3>1. n + 1 <= m => FlattenSeq(ss \o t(n + 1)) = FlattenSeq(ss) \o FlattenSeq(t(n + 1))
      BY <1>3, <2>1
    <3>2. n + 1 \in Nat
      OBVIOUS
    <3> HIDE DEF t
    <3> QED
      BY <3>1, <3>2, Zenon
  <2> HIDE DEF N
  <2> QED
    BY <1>2, <2>1, AllNumbers
<1>5. t(m) = tt
  OBVIOUS
<1>6. FlattenSeq(ss \o t(m)) = FlattenSeq(ss) \o FlattenSeq(t(m))
  <2> HIDE DEF t
  <2>1. m \in N
    BY <1>1, <1>4, Zenon
  <2> QED
    BY <1>1, <2>1
<1> QED
  BY <1>5, <1>6, Zenon

(* What is joined of pieces that are empty, or have one element each.      *)
LEMMA FlattenEmpties ==
    ASSUME NEW ss, NEW n \in Nat, ss = [k \in 1 .. n |-> <<>>]
    PROVE  FlattenSeq(ss) = <<>>
<1> DEFINE S == {}
           N == {k \in Nat : FlattenSeq([j \in 1 .. k |-> <<>>]) = <<>>}
           e(k) == [j \in 1 .. k |-> <<>>]
<1>1. 0 \in N
  <2>1. e(0) = <<>>
    OBVIOUS
  <2> QED
    BY <2>1, FlattenNone
<1>2. ASSUME NEW k \in Nat, k \in N PROVE k + 1 \in N
  <2>1. FlattenSeq(e(k)) = <<>>
    BY <1>2
  <2>2. <<>> \in Seq(S)
    OBVIOUS
  <2>3. e(k) \in Seq(Seq(S)) /\ e(k + 1) = Append(e(k), <<>>)
    BY <2>2
  <2> HIDE DEF e
  <2>4. FlattenSeq(Append(e(k), <<>>)) = FlattenSeq(e(k)) \o <<>>
    BY <2>2, <2>3, FlattenAppend
  <2>5. <<>> \o <<>> = <<>>
    OBVIOUS
  <2>6. FlattenSeq(e(k + 1)) = <<>>
    BY <2>1, <2>3, <2>4, <2>5, Zenon
  <2> QED
    BY <2>6 DEF e
<1>3. Nat \subseteq N
  <2> HIDE DEF N
  <2> QED
    BY <1>1, <1>2, AllNumbers
<1> QED
  BY <1>3

LEMMA FlattenSingles ==
    ASSUME NEW S, NEW x \in Seq(S)
    PROVE  FlattenSeq([k \in 1 .. Len(x) |-> <<x[k]>>]) = x
<1> DEFINE m == Len(x)
           e(n) == [k \in 1 .. n |-> <<x[k]>>]
           b(n) == SubSeq(x, 1, n)
           N == {n \in Nat : n <= m => FlattenSeq(e(n)) = b(n)}
<1>1. m \in Nat /\ \A k \in 1 .. m : x[k] \in S /\ <<x[k]>> \in Seq(S)
  OBVIOUS
<1>2. 0 \in N
  <2>1. e(0) = <<>> /\ b(0) = <<>>
    OBVIOUS
  <2> QED
    BY <2>1, FlattenNone
<1>3. ASSUME NEW n \in Nat, n \in N, n + 1 <= m PROVE FlattenSeq(e(n + 1)) = b(n + 1)
  <2>1. n <= m /\ n + 1 \in 1 .. m
    BY <1>1, <1>3
  <2>2. e(n) \in Seq(Seq(S)) /\ e(n + 1) = Append(e(n), <<x[n + 1]>>)
    BY <1>1, <2>1
  <2>3. b(n) \in Seq(S) /\ b(n + 1) = Append(b(n), x[n + 1])
    BY <1>1, <2>1
  <2>4. FlattenSeq(e(n)) = b(n)
    BY <1>3, <2>1
  <2> HIDE DEF e, b
  <2>5. FlattenSeq(e(n + 1)) = FlattenSeq(e(n)) \o <<x[n + 1]>>
    BY <1>1, <2>1, <2>2, FlattenAppend
  <2>6. Append(b(n), x[n + 1]) = b(n) \o <<x[n + 1]>>
    BY <1>1, <2>1, <2>3, AppendIsConcat
  <2> QED
    BY <2>3, <2>4, <2>5, <2>6
<1>4. Nat \subseteq N
  <2>1. ASSUME NEW n \in Nat, n \in N PROVE n + 1 \in N
    <3>1. n + 1 <= m => FlattenSeq(e(n + 1)) = b(n + 1)
      BY <1>3, <2>1
    <3>2. n + 1 \in Nat
      OBVIOUS
    <3> HIDE DEF e, b
    <3> QED
      BY <3>1, <3>2, Zenon
  <2> HIDE DEF N
  <2> QED
    BY <1>2, <2>1, AllNumbers
<1>5. b(m) = x
  OBVIOUS
<1>6. FlattenSeq(e(m)) = b(m)
  <2> HIDE DEF e, b
  <2>1. m \in N
    BY <1>1, <1>4, Zenon
  <2> QED
    BY <1>1, <2>1
<1> QED
  BY <1>5, <1>6, Zenon

(* Pieces that are those of one sequence and then those of another.        *)
LEMMA FlattenJoin ==
    ASSUME NEW S, NEW ss \in Seq(Seq(S)), NEW tt \in Seq(Seq(S)), NEW uu \in Seq(Seq(S)),
           Len(uu) = Len(ss) + Len(tt),
           \A k \in 1 .. Len(ss) : uu[k] = ss[k],
           \A k \in 1 .. Len(tt) : uu[Len(ss) + k] = tt[k]
    PROVE  FlattenSeq(uu) = FlattenSeq(ss) \o FlattenSeq(tt)
<1> DEFINE R == Seq(S)
           vv == ss \o tt
           m == Len(ss)
           n == Len(tt)
<1>1. /\ vv \in Seq(R) /\ Len(vv) = m + n
      /\ \A k \in 1 .. m + n : vv[k] = IF k <= m THEN ss[k] ELSE tt[k - m]
  BY ConcatProperties
<1>2. m \in Nat /\ n \in Nat /\ Len(uu) = m + n
      /\ (\A k \in 1 .. m : uu[k] = ss[k]) /\ \A k \in 1 .. n : uu[m + k] = tt[k]
  OBVIOUS
<1> HIDE DEF vv, m, n
<1>3. ASSUME NEW k \in 1 .. Len(uu) PROVE uu[k] = vv[k]
  <2>1. CASE k <= m
    <3>1. k \in 1 .. m /\ k \in 1 .. m + n
      BY <1>2, <2>1
    <3> QED
      BY <1>1, <1>2, <2>1, <3>1
  <2>2. CASE ~(k <= m)
    <3>1. k - m \in 1 .. n /\ m + (k - m) = k /\ k \in 1 .. m + n
      BY <1>2, <2>2
    <3>2. uu[m + (k - m)] = tt[k - m]
      BY <1>2, <3>1
    <3> QED
      BY <1>1, <2>2, <3>1, <3>2
  <2> QED
    BY <2>1, <2>2
<1>4. uu = vv
  <2>1. uu \in Seq(R) /\ Len(uu) = Len(vv)
    BY <1>1, <1>2
  <2> HIDE DEF R
  <2> QED
    BY <1>1, <1>3, <2>1, SeqEqual
<1> QED
  BY <1>4, FlattenConcat DEF vv

(* What holds of the empty sequence, and of a sequence and one more        *)
(* element when it holds of the sequence, holds of every sequence.         *)
LEMMA EverySequence ==
    ASSUME NEW S, NEW P, <<>> \in P, \A s \in Seq(S), x \in S : s \in P => Append(s, x) \in P
    PROVE  \A s \in Seq(S) : s \in P
<1> DEFINE N == {n \in Nat : \A s \in Seq(S) : Len(s) = n => s \in P}
<1>1. 0 \in N
  <2>1. ASSUME NEW s \in Seq(S), Len(s) = 0 PROVE s \in P
    <3>1. s = <<>>
      BY <2>1
    <3> QED
      BY <3>1
  <2> QED
    BY <2>1
<1>2. ASSUME NEW n \in Nat, n \in N PROVE n + 1 \in N
  <2>1. ASSUME NEW s \in Seq(S), Len(s) = n + 1 PROVE s \in P
    <3> DEFINE b == SubSeq(s, 1, n)
    <3>1. b \in Seq(S) /\ Len(b) = n /\ s[n + 1] \in S /\ s = Append(b, s[n + 1])
      BY <2>1
    <3> HIDE DEF b
    <3>2. b \in P
      BY <1>2, <3>1
    <3> QED
      BY <3>1, <3>2
  <2> QED
    BY <2>1
<1>3. Nat \subseteq N
  <2> HIDE DEF N
  <2> QED
    BY <1>1, <1>2, AllNumbers
<1> QED
  BY <1>3, LenProperties

(* Every element of the parts is in the whole.                             *)
LEMMA FlattenHas ==
    ASSUME NEW S, NEW ss \in Seq(Seq(S))
    PROVE  \A n \in 1 .. Len(ss) : \A m \in 1 .. Len(ss[n]) :
             \E i \in 1 .. Len(FlattenSeq(ss)) : FlattenSeq(ss)[i] = ss[n][m]
<1> DEFINE R == Seq(S)
           In(x, s) == \E i \in 1 .. Len(s) : s[i] = x
           All(tt) == \A n \in 1 .. Len(tt) : \A m \in 1 .. Len(tt[n]) : In(tt[n][m], FlattenSeq(tt))
           P == {tt \in Seq(R) : All(tt)}
<1>1. <<>> \in P
  BY Len(<<>>) = 0
<1>2. ASSUME NEW tt \in Seq(R), NEW x \in R, tt \in P PROVE Append(tt, x) \in P
  <2> DEFINE uu == Append(tt, x)
             a == FlattenSeq(tt)
             b == FlattenSeq(uu)
  <2>1. a \in Seq(S) /\ b = a \o x
    BY FlattenType, FlattenAppend
  <2>2. /\ uu \in Seq(R) /\ Len(uu) = Len(tt) + 1 /\ Len(tt) \in Nat /\ uu[Len(tt) + 1] = x
        /\ \A n \in 1 .. Len(tt) : uu[n] = tt[n]
    OBVIOUS
  <2>3. All(tt)
    BY <1>2
  <2> HIDE DEF uu, a, b
  <2>4. /\ Len(b) = Len(a) + Len(x) /\ Len(a) \in Nat /\ Len(x) \in Nat
        /\ \A i \in 1 .. Len(a) : b[i] = a[i]
        /\ \A i \in 1 .. Len(x) : b[Len(a) + i] = x[i]
    BY <2>1, ConcatProperties
  <2>5. ASSUME NEW n \in 1 .. Len(uu), NEW m \in 1 .. Len(uu[n]) PROVE In(uu[n][m], b)
    <3>1. CASE n \in 1 .. Len(tt)
      <4>1. In(tt[n][m], a)
        BY <2>2, <2>3, <2>5, <3>1 DEF a
      <4>2. PICK i \in 1 .. Len(a) : a[i] = tt[n][m]
        BY <4>1
      <4>3. i \in 1 .. Len(b) /\ b[i] = a[i]
        BY <2>4, <4>2
      <4>4. b[i] = uu[n][m]
        BY <2>2, <3>1, <4>2, <4>3
      <4> QED
        BY <4>3, <4>4
    <3>2. CASE n = Len(tt) + 1
      <4>1. uu[n] = x /\ m \in 1 .. Len(x)
        BY <2>2, <2>5, <3>2
      <4>2. Len(a) + m \in 1 .. Len(b)
        BY <2>4, <4>1
      <4>3. b[Len(a) + m] = uu[n][m]
        BY <2>4, <4>1
      <4> QED
        BY <4>2, <4>3
    <3> QED
      BY <2>2, <3>1, <3>2
  <2> QED
    BY <2>2, <2>5 DEF uu, b
<1> HIDE DEF P
<1>3. \A tt \in Seq(R) : tt \in P
  BY <1>1, <1>2, EverySequence
<1> QED
  BY <1>3 DEF P
=============================================================================
