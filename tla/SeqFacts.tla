------------------------------ MODULE SeqFacts ------------------------------
(***************************************************************************)
(* Facts about sequences and about recursive functions that the proofs of  *)
(* the relay and of the readers need and the library does not state.       *)
(* FlattenSeq is a recursive function; what it makes is shown without      *)
(* induction, by the least length at which it would differ from the sums   *)
(* of its chunks. A loop is the sequence of its turns, and a walk that goes *)
(* on with less than it had is a function: each is shown to exist by the   *)
(* largest part of it that does.                                           *)
(***************************************************************************)
EXTENDS Integers, SequencesExt, SequenceTheorems, WellFoundedInduction, TLAPS

\* A set of naturals that is not empty has a least element.
LEMMA LeastNat ==
  ASSUME NEW T \in SUBSET Nat, T # {}
  PROVE  \E i \in T : \A j \in T : i <= j
<1> DEFINE R == {p \in Nat \X Nat : p[1] < p[2]}
<1>1. IsWellFoundedOn(R, Nat)
  BY NatLessThanWellFounded DEF OpToRel
<1>2. \E i \in T : \A j \in T : ~ (<<j, i>> \in R)
  <2> HIDE DEF R
  <2> QED BY <1>1, WFMin
<1>3. \A i, j \in T : ~ (<<j, i>> \in R) => i <= j
  OBVIOUS
<1> HIDE DEF R
<1> QED BY <1>2, <1>3

\* Sequences are joined in any order.
LEMMA Associative == \A S : \A x, y, z \in Seq(S) : (x \o y) \o z = x \o (y \o z)
BY ConcatAssociative

\* What a sequence that was joined has, and where.
LEMMA JoinedAt ==
  \A S : \A s, t \in Seq(S) :
    /\ Len(s \o t) = Len(s) + Len(t)
    /\ \A i \in 1 .. Len(s) + Len(t) :
         (s \o t)[i] = IF i <= Len(s) THEN s[i] ELSE t[i - Len(s)]
BY ConcatProperties

\* f lists what the first chunks of s make when put one after another.
Sums(S, s, f) ==
  /\ f \in [0 .. Len(s) -> Seq(S)]
  /\ f[0] = <<>>
  /\ \A i \in 1 .. Len(s) : f[i] = f[i - 1] \o s[i]

\* There is such a list, for every sequence of sequences.
LEMMA SumsExist ==
  ASSUME NEW S, NEW s \in Seq(Seq(S))
  PROVE  \E f : Sums(S, s, f)
<1> DEFINE Upto(n, f) ==
      /\ f \in [0 .. n -> Seq(S)]
      /\ f[0] = <<>>
      /\ \A i \in 1 .. n : f[i] = f[i - 1] \o s[i]
    T == {n \in 0 .. Len(s) : ~ \E f : Upto(n, f)}
<1>0. Len(s) \in Nat /\ \A i \in 1 .. Len(s) : s[i] \in Seq(S)
  OBVIOUS
<1>1. T = {}
  <2> SUFFICES ASSUME T # {} PROVE FALSE
    OBVIOUS
  <2>1. PICK n \in T : \A m \in T : n <= m
    <3>1. T \in SUBSET Nat
      <4> HIDE DEF Upto
      <4> QED BY <1>0
    <3> HIDE DEF T
    <3> QED BY <3>1, LeastNat
  <2>2. n \in 0 .. Len(s) /\ ~ \E f : Upto(n, f)
    BY <2>1
  <2>3. CASE n = 0
    <3> DEFINE g == [i \in 0 .. 0 |-> <<>>]
    <3>1. g \in [0 .. 0 -> Seq(S)] /\ g[0] = <<>>
      BY EmptySeq
    <3>2. Upto(0, g)
      BY <3>1
    <3> HIDE DEF g, Upto
    <3> QED BY <2>2, <2>3, <3>2
  <2>4. CASE n # 0
    <3>1. n - 1 \in 0 .. Len(s) /\ ~(n <= n - 1) /\ n \in 1 .. Len(s) /\ n \in Nat
      BY <1>0, <2>2, <2>4
    <3>2. \E f : Upto(n - 1, f)
      <4> HIDE DEF Upto
      <4>1. n - 1 \notin T
        <5> HIDE DEF T
        <5> QED BY <2>1, <3>1
      <4> QED BY <3>1, <4>1
    <3>3. PICK f : Upto(n - 1, f)
      BY <3>2
    <3> DEFINE g == [i \in 0 .. n |-> IF i = n THEN f[n - 1] \o s[n] ELSE f[i]]
    <3>4. f[n - 1] \in Seq(S) /\ s[n] \in Seq(S)
      BY <1>0, <3>1, <3>3
    <3>5. f[n - 1] \o s[n] \in Seq(S)
      BY <3>4, ConcatProperties
    <3>6. g \in [0 .. n -> Seq(S)]
      BY <3>1, <3>3, <3>5
    <3>7. g[0] = <<>>
      BY <3>1, <3>3
    <3>8. \A i \in 1 .. n : g[i] = g[i - 1] \o s[i]
      <4> TAKE i \in 1 .. n
      <4>1. CASE i = n
        <5>1. n - 1 \in 0 .. n /\ n - 1 # n /\ n \in 0 .. n
          BY <3>1
        <5> QED BY <4>1, <5>1
      <4>2. CASE i # n
        <5>1. i \in 1 .. n - 1 /\ i - 1 \in 0 .. n /\ i - 1 # n /\ i \in 0 .. n
          BY <3>1, <4>2
        <5> QED BY <3>3, <4>2, <5>1
      <4> QED BY <4>1, <4>2
    <3>9. Upto(n, g)
      <4> HIDE DEF g
      <4> QED BY <3>6, <3>7, <3>8
    <3> HIDE DEF g, Upto
    <3> QED BY <2>2, <3>9
  <2> QED BY <2>3, <2>4
<1>2. \E f : Upto(Len(s), f)
  <2> HIDE DEF Upto
  <2> QED BY <1>0, <1>1
<1> QED BY <1>2 DEF Sums

\* FlattenSeq is the last of the list.
LEMMA FlattenIsSum ==
  ASSUME NEW S, NEW s \in Seq(Seq(S)), NEW f, Sums(S, s, f)
  PROVE  FlattenSeq(s) = f[Len(s)]
<1>0. Len(s) \in Nat /\ \A i \in 1 .. Len(s) : s[i] \in Seq(S)
  OBVIOUS
<1>1. CASE Len(s) = 0
  BY <1>1, EmptySeq DEF FlattenSeq, Sums
<1>2. CASE Len(s) # 0
  <2>0. f[1] = s[1]
    <3>1. 1 \in 1 .. Len(s) /\ 1 - 1 = 0
      BY <1>0, <1>2
    <3>2. f[1] = <<>> \o s[1]
      BY <3>1 DEF Sums
    <3> QED BY <1>0, <3>1, <3>2, ConcatEmptySeq
  <2> DEFINE n == Len(s)
             F(h) == h = [i \in 1 .. n |-> IF i = 1 THEN s[i] ELSE h[i - 1] \o s[i]]
             c == CHOOSE h : F(h)
             d == [i \in 1 .. n |-> f[i]]
  <2>1. F(d)
    <3>1. ASSUME NEW i \in 1 .. n
          PROVE  f[i] = IF i = 1 THEN s[i] ELSE d[i - 1] \o s[i]
      <4>1. CASE i = 1
        BY <2>0, <4>1
      <4>2. CASE i # 1
        <5>1. i - 1 \in 1 .. n
          BY <1>0, <4>2
        <5> QED BY <4>2, <5>1 DEF Sums
      <4> QED BY <4>1, <4>2
    <3> QED BY <3>1
  <2>2. F(c)
    <3> HIDE DEF F, d
    <3> QED BY <2>1
  <2>3. FlattenSeq(s) = c[n]
    BY <1>2 DEF FlattenSeq
  <2> DEFINE g == [i \in 0 .. n |-> IF i = 0 THEN <<>> ELSE c[i]]
  <2>4. /\ DOMAIN c = 1 .. n
        /\ \A i \in 1 .. n : c[i] = IF i = 1 THEN s[i] ELSE c[i - 1] \o s[i]
    BY <2>2
  <2> HIDE DEF c, F, d
  <2> DEFINE T == {i \in 1 .. n : c[i] # f[i]}
  <2>5. T = {}
    <3> SUFFICES ASSUME T # {} PROVE FALSE
      OBVIOUS
    <3>1. PICK i \in T : \A j \in T : i <= j
      <4>1. T \in SUBSET Nat
        BY <1>0
      <4> HIDE DEF T
      <4> QED BY <4>1, LeastNat
    <3>2. i \in 1 .. n /\ c[i] # f[i]
      BY <3>1
    <3>3. i # 1
      BY <2>0, <2>4, <3>2
    <3>4. i - 1 \in 1 .. n /\ ~(i <= i - 1)
      BY <1>0, <3>2, <3>3
    <3>5. c[i - 1] = f[i - 1]
      <4>1. i - 1 \notin T
        <5> HIDE DEF T
        <5> QED BY <3>1, <3>4
      <4> QED BY <3>4, <4>1
    <3> QED BY <2>4, <3>2, <3>3, <3>5 DEF Sums
  <2>6. n \in 1 .. n
    BY <1>0, <1>2
  <2> QED BY <2>3, <2>5, <2>6
<1> QED BY <1>1, <1>2

\* It is a sequence of what the chunks are made of; one chunk is itself.
LEMMA FlattenType ==
  ASSUME NEW S, NEW s \in Seq(Seq(S))
  PROVE  /\ FlattenSeq(s) \in Seq(S)
         /\ s = <<>> => FlattenSeq(s) = <<>>
         /\ Len(s) = 1 => FlattenSeq(s) = s[1]
<1>1. PICK f : Sums(S, s, f)
  BY SumsExist
<1>2. FlattenSeq(s) = f[Len(s)]
  BY <1>1, FlattenIsSum
<1>3. Len(s) \in 0 .. Len(s)
  OBVIOUS
<1>4. FlattenSeq(s) \in Seq(S)
  BY <1>1, <1>2, <1>3 DEF Sums
<1>5. ASSUME s = <<>> PROVE FlattenSeq(s) = <<>>
  BY <1>1, <1>2, <1>5, EmptySeq DEF Sums
<1>6. ASSUME Len(s) = 1 PROVE FlattenSeq(s) = s[1]
  <2>1. 1 \in 1 .. Len(s) /\ 1 - 1 = 0
    BY <1>6
  <2>2. f[1] = <<>> \o s[1]
    BY <1>1, <2>1 DEF Sums
  <2>3. s[1] \in Seq(S)
    BY <2>1
  <2> QED BY <1>2, <1>6, <2>2, <2>3, ConcatEmptySeq
<1> QED BY <1>4, <1>5, <1>6

\* The chunks of two sequences, one after the other.
LEMMA FlattenConcat ==
  ASSUME NEW S, NEW a \in Seq(Seq(S)), NEW b \in Seq(Seq(S))
  PROVE  FlattenSeq(a \o b) = FlattenSeq(a) \o FlattenSeq(b)
<1> DEFINE m == Len(a)
           n == Len(b)
           q == a \o b
<1>0. /\ m \in Nat /\ n \in Nat
      /\ \A i \in 1 .. m : a[i] \in Seq(S)
      /\ \A i \in 1 .. n : b[i] \in Seq(S)
  OBVIOUS
<1>1. /\ q \in Seq(Seq(S)) /\ Len(q) = m + n
      /\ \A i \in 1 .. m + n : q[i] = IF i <= m THEN a[i] ELSE b[i - m]
  BY ConcatProperties
<1>2. PICK f : Sums(S, a, f)
  BY SumsExist
<1>3. PICK g : Sums(S, b, g)
  BY SumsExist
<1>4. /\ f \in [0 .. m -> Seq(S)] /\ f[0] = <<>>
      /\ \A i \in 1 .. m : f[i] = f[i - 1] \o a[i]
  BY <1>2 DEF Sums
<1>5. /\ g \in [0 .. n -> Seq(S)] /\ g[0] = <<>>
      /\ \A i \in 1 .. n : g[i] = g[i - 1] \o b[i]
  BY <1>3 DEF Sums
<1>6. FlattenSeq(a) = f[m] /\ FlattenSeq(b) = g[n] /\ f[m] \in Seq(S)
  <2>1. FlattenSeq(a) = f[m] /\ FlattenSeq(b) = g[n]
    BY <1>2, <1>3, FlattenIsSum
  <2>2. m \in 0 .. m
    BY <1>0
  <2> HIDE DEF m, n
  <2> QED BY <1>4, <2>1, <2>2
<1> HIDE DEF m, n, q
<1>a. \A x, y, z \in Seq(S) : (x \o y) \o z = x \o (y \o z)
  BY Associative
<1> DEFINE h == [i \in 0 .. m + n |-> IF i <= m THEN f[i] ELSE f[m] \o g[i - m]]
<1>7. \A i \in 0 .. m + n : h[i] \in Seq(S)
  <2> TAKE i \in 0 .. m + n
  <2>1. CASE i <= m
    BY <1>0, <1>4, <2>1
  <2>2. CASE ~(i <= m)
    <3>1. i - m \in 0 .. n
      BY <1>0, <2>2
    <3>2. f[m] \o g[i - m] \in Seq(S)
      BY <1>5, <1>6, <3>1, ConcatProperties
    <3> QED BY <2>2, <3>2
  <2> QED BY <2>1, <2>2
<1>8. h[0] = <<>>
  BY <1>0, <1>4
<1>9. \A i \in 1 .. m + n : h[i] = h[i - 1] \o q[i]
  <2> TAKE i \in 1 .. m + n
  <2>1. CASE i <= m
    <3>1. i \in 1 .. m /\ i - 1 <= m /\ i \in 0 .. m + n /\ i - 1 \in 0 .. m + n
      BY <1>0, <2>1
    <3>2. h[i] = f[i] /\ h[i - 1] = f[i - 1] /\ q[i] = a[i]
      BY <1>1, <2>1, <3>1
    <3> QED BY <1>4, <3>1, <3>2
  <2>2. CASE ~(i <= m)
    <3> DEFINE j == i - m
    <3>1. /\ j \in 1 .. n /\ i \in 0 .. m + n /\ i - 1 \in 0 .. m + n
          /\ j - 1 \in 0 .. n /\ (i - 1 <= m => i - 1 = m /\ j - 1 = 0) /\ (i - 1) - m = j - 1
      BY <1>0, <2>2
    <3> HIDE DEF j
    <3>2. g[j] = g[j - 1] \o b[j] /\ g[j - 1] \in Seq(S) /\ b[j] \in Seq(S)
      BY <1>0, <1>5, <3>1
    <3>3. h[i] = f[m] \o g[j] /\ q[i] = b[j]
      BY <1>1, <2>2, <3>1 DEF j
    <3>4. h[i - 1] = f[m] \o g[j - 1]
      <4>1. CASE i - 1 <= m
        <5>1. h[i - 1] = f[m] /\ g[j - 1] = <<>>
          BY <1>5, <3>1, <4>1
        <5> QED BY <1>6, <5>1, ConcatEmptySeq
      <4>2. CASE ~(i - 1 <= m)
        BY <3>1, <4>2
      <4> QED BY <4>1, <4>2
    <3>5. (f[m] \o g[j - 1]) \o b[j] = f[m] \o (g[j - 1] \o b[j])
      <4>2. f[m] \in Seq(S) /\ g[j - 1] \in Seq(S) /\ b[j] \in Seq(S)
        BY <1>6, <3>2
      <4> QED BY <1>a, <4>2, Zenon
    <3> HIDE DEF h
    <3> QED BY <3>2, <3>3, <3>4, <3>5
  <2> QED BY <2>1, <2>2
<1>10. Sums(S, q, h)
  <2>1. h \in [0 .. m + n -> Seq(S)]
    BY <1>7
  <2> HIDE DEF h
  <2> QED BY <1>1, <1>8, <1>9, <2>1 DEF Sums
<1>11. FlattenSeq(q) = h[m + n]
  BY <1>1, <1>10, FlattenIsSum
<1>12. h[m + n] = f[m] \o g[n]
  <2>1. CASE n = 0
    <3>1. h[m + n] = f[m] /\ g[n] = <<>>
      BY <1>0, <1>5, <2>1
    <3> QED BY <1>6, <3>1, ConcatEmptySeq
  <2>2. CASE n # 0
    <3>1. m + n \in 0 .. m + n /\ ~(m + n <= m) /\ (m + n) - m = n
      BY <1>0, <2>2
    <3> QED BY <3>1
  <2> QED BY <2>1, <2>2
<1> QED BY <1>6, <1>11, <1>12 DEF q

\* A chunk more.
LEMMA FlattenAppend ==
  ASSUME NEW S, NEW s \in Seq(Seq(S)), NEW x \in Seq(S)
  PROVE  FlattenSeq(Append(s, x)) = FlattenSeq(s) \o x
<1>1. <<x>> \in Seq(Seq(S)) /\ Len(<<x>>) = 1 /\ <<x>>[1] = x
  OBVIOUS
<1>2. Append(s, x) = s \o <<x>>
  BY AppendIsConcat
<1>3. FlattenSeq(<<x>>) = x
  BY <1>1, FlattenType
<1> QED BY <1>1, <1>2, <1>3, FlattenConcat

\* What makes a sequence two sequences, one after the other.
LEMMA IsConcat ==
  ASSUME NEW S, NEW u \in Seq(S), NEW v \in Seq(S), NEW w \in Seq(S),
         Len(w) = Len(u) + Len(v),
         \A i \in 1 .. Len(u) : w[i] = u[i],
         \A i \in 1 .. Len(v) : w[Len(u) + i] = v[i]
  PROVE  w = u \o v
<1>1. /\ u \o v \in Seq(S) /\ Len(u \o v) = Len(u) + Len(v)
      /\ \A i \in 1 .. Len(u) + Len(v) : (u \o v)[i] = IF i <= Len(u) THEN u[i] ELSE v[i - Len(u)]
  BY ConcatProperties
<1>2. Len(u) \in Nat /\ Len(v) \in Nat
  OBVIOUS
<1>3. \A i \in 1 .. Len(w) : w[i] = (u \o v)[i]
  <2> TAKE i \in 1 .. Len(w)
  <2>1. CASE i <= Len(u)
    <3>1. i \in 1 .. Len(u) /\ i \in 1 .. Len(u) + Len(v)
      BY <1>2, <2>1
    <3> QED BY <1>1, <2>1, <3>1
  <2>2. CASE ~(i <= Len(u))
    <3>1. i - Len(u) \in 1 .. Len(v) /\ Len(u) + (i - Len(u)) = i /\ i \in 1 .. Len(u) + Len(v)
      BY <1>2, <2>2
    <3>2. w[Len(u) + (i - Len(u))] = v[i - Len(u)]
      BY <3>1
    <3> QED BY <1>1, <2>2, <3>1, <3>2
  <2> QED BY <2>1, <2>2
<1> QED BY <1>1, <1>3, SeqEqual

\* A sequence in two parts.
LEMMA CutAt ==
  ASSUME NEW S, NEW t \in Seq(S), NEW k \in 0 .. Len(t)
  PROVE  /\ SubSeq(t, 1, k) \in Seq(S) /\ SubSeq(t, k + 1, Len(t)) \in Seq(S)
         /\ Len(SubSeq(t, 1, k)) = k
         /\ \A i \in 1 .. k : SubSeq(t, 1, k)[i] = t[i]
         /\ SubSeq(t, 1, k) \o SubSeq(t, k + 1, Len(t)) = t
<1>1. SubSeq(t, 1, k) \in Seq(S) /\ SubSeq(t, k + 1, Len(t)) \in Seq(S)
  OBVIOUS
<1>2. Len(t) \in Nat
  OBVIOUS
<1>3. 1 \in 1 .. Len(t) + 1 /\ k \in 1 - 1 .. Len(t) /\ Len(t) \in k .. Len(t)
  BY <1>2
<1>4. SubSeq(t, 1, k) \o SubSeq(t, k + 1, Len(t)) = SubSeq(t, 1, Len(t))
  BY <1>3, ConcatAdjacentSubSeq
<1>5. SubSeq(t, 1, Len(t)) = t
  BY SubSeqFull
<1>6. Len(SubSeq(t, 1, k)) = k /\ \A i \in 1 .. k : SubSeq(t, 1, k)[i] = t[i]
  BY <1>2
<1> QED BY <1>1, <1>4, <1>5, <1>6

\* Induction along a measure, for a set of arguments.
Inherits(D, m, P) ==
  /\ m \in [D -> Nat] /\ P \in SUBSET D
  /\ \A d \in D : (\A e \in D : m[e] < m[d] => e \in P) => d \in P

LEMMA Descent ==
  ASSUME NEW D, NEW m, NEW P, Inherits(D, m, P)
  PROVE  P = D
<1> DEFINE T == {n \in Nat : \E d \in D \ P : m[d] = n}
<1>0. /\ m \in [D -> Nat] /\ P \in SUBSET D
      /\ \A d \in D : (\A e \in D : m[e] < m[d] => e \in P) => d \in P
  BY DEF Inherits
<1> SUFFICES ASSUME T # {} PROVE FALSE
  BY <1>0
<1>1. PICK n \in T : \A k \in T : n <= k
  <2>1. T \in SUBSET Nat
    OBVIOUS
  <2> HIDE DEF T
  <2> QED BY <2>1, LeastNat
<1>2. PICK d \in D \ P : m[d] = n
  BY <1>1
<1>3. ASSUME NEW e \in D, m[e] < m[d] PROVE e \in P
  <2>1. m[e] \notin T
    <3>1. m[e] \in Nat /\ n \in Nat /\ ~(n <= m[e])
      BY <1>0, <1>1, <1>2, <1>3
    <3> HIDE DEF T
    <3> QED BY <1>1, <3>1
  <2> QED BY <1>0, <2>1
<1> QED BY <1>0, <1>2, <1>3

\* Induction over the turns of a loop.
LEMMA UpTo ==
  ASSUME NEW n \in Nat, NEW P, 0 \in P, \A k \in 1 .. n : k - 1 \in P => k \in P
  PROVE  \A k \in 0 .. n : k \in P
<1> DEFINE T == {k \in 0 .. n : k \notin P}
<1> SUFFICES ASSUME T # {} PROVE FALSE
  OBVIOUS
<1>1. PICK k \in T : \A j \in T : k <= j
  <2>1. T \in SUBSET Nat
    OBVIOUS
  <2> HIDE DEF T
  <2> QED BY <2>1, LeastNat
<1>2. k \in 1 .. n /\ k - 1 \in 0 .. n /\ ~(k <= k - 1) /\ k \notin P
  BY <1>1
<1> QED BY <1>1, <1>2

\* A definition by recursion: E is where it ends, c what it is there, nxt where
\* it goes on and h what it makes of the value there; m grows smaller.
Descends(D, S, N, m, E, c, nxt, h) ==
  /\ N \in Nat /\ m \in [D -> 0 .. N] /\ E \in SUBSET D
  /\ c \in [D -> S] /\ nxt \in [D -> D] /\ h \in [D \X S -> S]
  /\ \A d \in D \ E : m[nxt[d]] < m[d]

Solves(f, D, S, E, c, nxt, h) ==
  /\ f \in [D -> S]
  /\ \A d \in D : f[d] = IF d \in E THEN c[d] ELSE h[<<d, f[nxt[d]]>>]

\* There is a function that such a definition defines.
LEMMA Recursion ==
  ASSUME NEW D, NEW S, NEW N, NEW m, NEW E, NEW c, NEW nxt, NEW h,
         Descends(D, S, N, m, E, c, nxt, h)
  PROVE  \E f : Solves(f, D, S, E, c, nxt, h)
<1>0. /\ N \in Nat /\ m \in [D -> 0 .. N] /\ E \in SUBSET D
      /\ c \in [D -> S] /\ nxt \in [D -> D] /\ h \in [D \X S -> S]
      /\ \A d \in D \ E : m[nxt[d]] < m[d]
  BY DEF Descends
<1> DEFINE Dom(n) == {d \in D : m[d] < n}
           Good(n, f) == /\ f \in [Dom(n) -> S]
                         /\ \A d \in Dom(n) : f[d] = IF d \in E THEN c[d] ELSE h[<<d, f[nxt[d]]>>]
           T == {n \in 0 .. N + 1 : ~ \E f : Good(n, f)}
<1>1. T = {}
  <2> SUFFICES ASSUME T # {} PROVE FALSE
    OBVIOUS
  <2>1. PICK n \in T : \A k \in T : n <= k
    <3>1. T \in SUBSET Nat
      <4> HIDE DEF Good
      <4> QED OBVIOUS
    <3> HIDE DEF T
    <3> QED BY <3>1, LeastNat
  <2>2. n \in 0 .. N + 1 /\ ~ \E f : Good(n, f)
    BY <2>1
  <2>3. CASE n = 0
    <3> DEFINE g == [d \in Dom(0) |-> c[d]]
    <3>1. Dom(0) = {}
      BY <1>0
    <3>2. g \in [Dom(0) -> S]
      BY <3>1
    <3> HIDE DEF g
    <3>3. Good(0, g)
      BY <3>1, <3>2
    <3> HIDE DEF Good
    <3> QED BY <2>2, <2>3, <3>3
  <2>4. CASE n # 0
    <3>1. n - 1 \in 0 .. N + 1 /\ ~(n <= n - 1)
      BY <1>0, <2>2, <2>4
    <3>2. PICK f : Good(n - 1, f)
      <4> HIDE DEF Good
      <4>1. n - 1 \notin T
        <5> HIDE DEF T
        <5> QED BY <2>1, <3>1
      <4> QED BY <3>1, <4>1
    <3> DEFINE g == [d \in Dom(n) |->
                       IF d \in Dom(n - 1) THEN f[d]
                       ELSE IF d \in E THEN c[d] ELSE h[<<d, f[nxt[d]]>>]]
    <3>3. ASSUME NEW d \in Dom(n), d \notin E PROVE nxt[d] \in Dom(n - 1)
      <4>1. m[nxt[d]] < m[d] /\ nxt[d] \in D /\ m[nxt[d]] \in 0 .. N /\ m[d] \in 0 .. N
        BY <1>0, <3>3
      <4>2. m[d] < n
        BY <3>3
      <4> QED BY <3>1, <4>1, <4>2
    <3>4. \A d \in Dom(n - 1) : d \in Dom(n)
      BY <1>0, <3>1
    <3>5. ASSUME NEW d \in Dom(n) PROVE g[d] \in S
      <4>1. CASE d \in Dom(n - 1)
        BY <3>2, <4>1
      <4>2. CASE d \notin Dom(n - 1) /\ d \in E
        BY <1>0, <4>2
      <4>3. CASE d \notin Dom(n - 1) /\ d \notin E
        <5>1. f[nxt[d]] \in S /\ d \in D
          BY <3>2, <3>3, <4>3
        <5>2. h[<<d, f[nxt[d]]>>] \in S
          BY <1>0, <5>1
        <5>3. g[d] = h[<<d, f[nxt[d]]>>]
          BY <4>3
        <5> HIDE DEF g
        <5> QED BY <5>2, <5>3
      <4> QED BY <4>1, <4>2, <4>3
    <3>6. ASSUME NEW d \in Dom(n) PROVE g[d] = IF d \in E THEN c[d] ELSE h[<<d, g[nxt[d]]>>]
      <4>1. CASE d \in E
        <5>1. CASE d \in Dom(n - 1)
          <6>1. f[d] = c[d]
            BY <3>2, <4>1, <5>1
          <6> QED BY <4>1, <5>1, <6>1
        <5> QED BY <4>1, <5>1
      <4>2. CASE d \notin E
        <5>1. g[nxt[d]] = f[nxt[d]]
          BY <3>3, <3>4, <4>2
        <5>2. g[d] = h[<<d, f[nxt[d]]>>]
          <6>1. CASE d \in Dom(n - 1)
            <7>1. f[d] = h[<<d, f[nxt[d]]>>]
              BY <3>2, <4>2, <6>1
            <7>2. g[d] = f[d]
              BY <6>1
            <7> HIDE DEF g
            <7> QED BY <7>1, <7>2
          <6>2. CASE d \notin Dom(n - 1)
            BY <4>2, <6>2
          <6> QED BY <6>1, <6>2
        <5> HIDE DEF g
        <5> QED BY <4>2, <5>1, <5>2
      <4> QED BY <4>1, <4>2
    <3>7. g \in [Dom(n) -> S]
      BY <3>5
    <3>8. Good(n, g)
      <4> HIDE DEF g
      <4> QED BY <3>6, <3>7
    <3> HIDE DEF Good, g
    <3> QED BY <2>2, <3>8
  <2> QED BY <2>3, <2>4
<1>2. PICK f : Good(N + 1, f)
  <2> HIDE DEF Good
  <2>1. N + 1 \in 0 .. N + 1
    BY <1>0
  <2> QED BY <1>1, <2>1
<1>3. Dom(N + 1) = D
  BY <1>0
<1> QED BY <1>2, <1>3 DEF Solves

\* The values of a loop, one for each of its turns.
Turns(S, n, a, h) == n \in Nat /\ a \in S /\ h \in [(1 .. n) \X S -> S]

Turned(f, S, n, a, h) ==
  /\ f \in [0 .. n -> S] /\ f[0] = a
  /\ \A k \in 1 .. n : f[k] = h[<<k, f[k - 1]>>]

LEMMA Iteration ==
  ASSUME NEW S, NEW n, NEW a, NEW h, Turns(S, n, a, h)
  PROVE  \E f : Turned(f, S, n, a, h)
<1>0. n \in Nat /\ a \in S /\ h \in [(1 .. n) \X S -> S]
  BY DEF Turns
<1> DEFINE D == 0 .. n
           Z == {0}
           m == [k \in D |-> k]
           c == [k \in D |-> a]
           nxt == [k \in D |-> IF k = 0 THEN 0 ELSE k - 1]
           g == [p \in D \X S |-> IF p[1] = 0 THEN a ELSE h[p]]
<1>1. m \in [D -> 0 .. n] /\ Z \in SUBSET D /\ c \in [D -> S] /\ nxt \in [D -> D]
  BY <1>0
<1>2. g \in [D \X S -> S]
  <2>1. ASSUME NEW p \in D \X S PROVE (IF p[1] = 0 THEN a ELSE h[p]) \in S
    <3>1. CASE p[1] # 0
      <4>1. p[1] \in 1 .. n /\ p[2] \in S /\ p = <<p[1], p[2]>>
        BY <3>1
      <4>2. p \in (1 .. n) \X S
        BY <4>1
      <4> QED BY <1>0, <3>1, <4>2
    <3> QED BY <1>0, <3>1
  <2> QED BY <2>1
<1>3. \A d \in D \ Z : m[nxt[d]] < m[d]
  BY <1>0
<1>4. PICK f \in [D -> S] : \A d \in D : f[d] = IF d \in Z THEN c[d] ELSE g[<<d, f[nxt[d]]>>]
  <2> HIDE DEF D, Z, m, c, nxt, g
  <2>1. Descends(D, S, n, m, Z, c, nxt, g)
    BY <1>0, <1>1, <1>2, <1>3 DEF Descends
  <2>2. \E f : Solves(f, D, S, Z, c, nxt, g)
    BY <2>1, Recursion
  <2> QED BY <2>2 DEF Solves
<1>5. f[0] = a
  <2>1. 0 \in D /\ 0 \in Z
    BY <1>0
  <2> QED BY <1>4, <2>1
<1>6. ASSUME NEW k \in 1 .. n PROVE f[k] = h[<<k, f[k - 1]>>]
  <2>1. k \in D /\ k \notin Z /\ k - 1 \in D /\ nxt[k] = k - 1
    BY <1>0
  <2>2. f[k] = g[<<k, f[k - 1]>>]
    <3> HIDE DEF g, c, nxt, D, Z
    <3> QED BY <1>4, <2>1
  <2>3. f[k - 1] \in S
    BY <1>4, <2>1
  <2>4. <<k, f[k - 1]>> \in D \X S /\ <<k, f[k - 1]>>[1] = k
    BY <2>1, <2>3
  <2>5. g[<<k, f[k - 1]>>] = h[<<k, f[k - 1]>>]
    BY <2>1, <2>4
  <2> QED BY <2>2, <2>5
<1> QED BY <1>4, <1>5, <1>6 DEF Turned

\* Each of the sums begins with the ones before it.
LEMMA SumsGrow ==
  ASSUME NEW S, NEW s \in Seq(Seq(S)), NEW f, Sums(S, s, f), NEW i \in 0 .. Len(s)
  PROVE  \A k \in i .. Len(s) :
           Len(f[i]) <= Len(f[k]) /\ \A j \in 1 .. Len(f[i]) : f[k][j] = f[i][j]
<1> DEFINE G(k) == Len(f[i]) <= Len(f[k]) /\ \A j \in 1 .. Len(f[i]) : f[k][j] = f[i][j]
           P == {m \in 0 .. Len(s) - i : G(i + m)}
<1>0. /\ Len(s) \in Nat /\ f \in [0 .. Len(s) -> Seq(S)]
      /\ \A k \in 1 .. Len(s) : s[k] \in Seq(S) /\ f[k] = f[k - 1] \o s[k]
  <2>1. Len(s) \in Nat /\ \A k \in 1 .. Len(s) : s[k] \in Seq(S)
    OBVIOUS
  <2> QED BY <2>1 DEF Sums
<1>1. ASSUME NEW k \in 0 .. Len(s) PROVE Len(f[k]) \in Nat /\ f[k] \in Seq(S)
  <2>1. f[k] \in Seq(S)
    BY <1>0
  <2> QED BY <2>1
<1>2. Len(s) - i \in Nat
  BY <1>0
<1>3. 0 \in P
  <2>1. i + 0 = i
    BY <1>0
  <2>2. G(i)
    BY <1>1
  <2> HIDE DEF G
  <2> QED BY <1>2, <2>1, <2>2
<1>4. ASSUME NEW m \in 1 .. Len(s) - i, m - 1 \in P PROVE m \in P
  <2> DEFINE k == i + m
  <2>1. k \in 1 .. Len(s) /\ k - 1 \in 0 .. Len(s) /\ i + (m - 1) = k - 1 /\ m \in 0 .. Len(s) - i
    BY <1>0
  <2>2. G(k - 1)
    <3> HIDE DEF G, k
    <3> QED BY <1>4, <2>1
  <2>3. f[k] = f[k - 1] \o s[k] /\ s[k] \in Seq(S) /\ f[k - 1] \in Seq(S)
    <3> HIDE DEF k
    <3> QED BY <1>0, <1>1, <2>1
  <2>4. /\ Len(f[k]) = Len(f[k - 1]) + Len(s[k])
        /\ \A j \in 1 .. Len(f[k - 1]) : f[k][j] = f[k - 1][j]
    <3> DEFINE a == f[k - 1]
               b == s[k]
    <3> HIDE DEF k
    <3>1. Len(a) \in Nat /\ Len(b) \in Nat /\ a \in Seq(S) /\ b \in Seq(S) /\ f[k] = a \o b
      BY <2>3
    <3> HIDE DEF a, b
    <3>2. /\ Len(a \o b) = Len(a) + Len(b)
          /\ \A j \in 1 .. Len(a) + Len(b) : (a \o b)[j] = IF j <= Len(a) THEN a[j] ELSE b[j - Len(a)]
      BY <3>1, JoinedAt, Zenon
    <3> DEFINE c == a \o b
    <3>3. /\ Len(c) = Len(a) + Len(b)
          /\ \A j \in 1 .. Len(a) + Len(b) : c[j] = IF j <= Len(a) THEN a[j] ELSE b[j - Len(a)]
      BY <3>2, Zenon
    <3> HIDE DEF c
    <3>4. Len(c) = Len(a) + Len(b) /\ \A j \in 1 .. Len(a) : c[j] = a[j]
      BY <3>1, <3>3
    <3> QED BY <3>1, <3>4, Zenon DEF a, b, c
  <2>5. Len(s[k]) \in Nat /\ Len(f[k - 1]) \in Nat /\ Len(f[i]) \in Nat
    <3> HIDE DEF k
    <3> QED BY <1>1, <2>1, <2>3
  <2>6. G(k)
    <3> HIDE DEF k
    <3>1. Len(f[i]) <= Len(f[k - 1]) /\ \A j \in 1 .. Len(f[i]) : f[k - 1][j] = f[i][j]
      BY <2>2
    <3>2. \A j \in 1 .. Len(f[i]) : j \in 1 .. Len(f[k - 1])
      BY <2>5, <3>1
    <3>3. \A j \in 1 .. Len(f[i]) : f[k][j] = f[i][j]
      BY <2>4, <3>1, <3>2, Zenon
    <3>4. Len(f[i]) <= Len(f[k])
      <4>1. Len(f[k]) = Len(f[k - 1]) + Len(s[k]) /\ Len(f[i]) <= Len(f[k - 1])
        BY <2>4, <3>1
      <4>2. \A x, y, z \in Nat : x <= y => x <= y + z
        OBVIOUS
      <4> QED BY <2>5, <4>1, <4>2, Zenon
    <3> QED BY <3>3, <3>4, Zenon
  <2> HIDE DEF G
  <2> QED BY <2>1, <2>6
<1>5. \A m \in 0 .. Len(s) - i : m \in P
  <2> HIDE DEF P
  <2> QED BY <1>2, <1>3, <1>4, UpTo
<1>6. ASSUME NEW k \in i .. Len(s) PROVE G(k)
  <2>1. k - i \in 0 .. Len(s) - i /\ i + (k - i) = k
    BY <1>0
  <2>2. k - i \in P
    <3> HIDE DEF P
    <3> QED BY <1>5, <2>1
  <2> HIDE DEF G
  <2> QED BY <2>1, <2>2
<1> QED BY <1>6

\* The members of a sequence with one more.
LEMMA ToSetAppend ==
  ASSUME NEW S, NEW s \in Seq(S), NEW x
  PROVE  ToSet(Append(s, x)) = ToSet(s) \cup {x}
<1>1. DOMAIN s = 1 .. Len(s) /\ Len(s) \in Nat
  OBVIOUS
<1>2. /\ DOMAIN Append(s, x) = 1 .. Len(s) + 1
      /\ \A i \in 1 .. Len(s) : Append(s, x)[i] = s[i]
      /\ Append(s, x)[Len(s) + 1] = x
  <2>1. s \in Seq(S \cup {x}) /\ x \in S \cup {x}
    OBVIOUS
  <2> QED BY <2>1, AppendProperties
<1>3. \A i \in 1 .. Len(s) + 1 : i \in 1 .. Len(s) \/ i = Len(s) + 1
  BY <1>1
<1>4. \A i \in 1 .. Len(s) : i \in 1 .. Len(s) + 1
  BY <1>1
<1>5. Len(s) + 1 \in 1 .. Len(s) + 1
  BY <1>1
<1> HIDE DEF Append
<1> QED BY <1>1, <1>2, <1>3, <1>4, <1>5, Zenon DEF ToSet

\* An element more, behind two sequences.
LEMMA ConcatAppend ==
  ASSUME NEW S, NEW s \in Seq(S), NEW u \in Seq(S), NEW e \in S
  PROVE  s \o Append(u, e) = Append(s \o u, e)
<1>1. <<e>> \in Seq(S)
  OBVIOUS
<1>2. s \o u \in Seq(S)
  BY ConcatProperties
<1>3. Append(u, e) = u \o <<e>> /\ Append(s \o u, e) = (s \o u) \o <<e>>
  BY <1>2, AppendIsConcat
<1>4. (s \o u) \o <<e>> = s \o (u \o <<e>>)
  BY <1>1, ConcatAssociative
<1> QED BY <1>3, <1>4

\* A sequence, and the first elements of another.
LEMMA AppendNext ==
  ASSUME NEW S, NEW s \in Seq(S), NEW t \in Seq(S), NEW k \in 1 .. Len(t)
  PROVE  s \o SubSeq(t, 1, k) = Append(s \o SubSeq(t, 1, k - 1), t[k])
<1> DEFINE u == SubSeq(t, 1, k - 1)
           v == SubSeq(t, 1, k)
<1>0. k \in 0 .. Len(t) /\ k - 1 \in 0 .. Len(t) /\ t[k] \in S
  OBVIOUS
<1>1. u \in Seq(S) /\ Len(u) = k - 1 /\ \A i \in 1 .. k - 1 : u[i] = t[i]
  BY <1>0, CutAt
<1>2. v \in Seq(S) /\ Len(v) = k /\ \A i \in 1 .. k : v[i] = t[i]
  BY <1>0, CutAt
<1> HIDE DEF u, v
<1>3. v = Append(u, t[k])
  <2>1. /\ Append(u, t[k]) \in Seq(S) /\ Len(Append(u, t[k])) = k
        /\ \A i \in 1 .. k - 1 : Append(u, t[k])[i] = u[i]
        /\ Append(u, t[k])[k] = t[k]
    BY <1>0, <1>1, AppendProperties
  <2>2. \A i \in 1 .. k : v[i] = Append(u, t[k])[i]
    <3> TAKE i \in 1 .. k
    <3>1. CASE i = k
      BY <1>2, <2>1, <3>1
    <3>2. CASE i # k
      <4>1. i \in 1 .. k - 1
        BY <3>2
      <4> QED BY <1>1, <1>2, <2>1, <4>1
    <3> QED BY <3>1, <3>2
  <2> QED BY <1>2, <2>1, <2>2, SeqEqual
<1>4. s \o Append(u, t[k]) = Append(s \o u, t[k])
  BY <1>0, <1>1, ConcatAppend
<1> QED BY <1>3, <1>4 DEF u, v
=============================================================================
