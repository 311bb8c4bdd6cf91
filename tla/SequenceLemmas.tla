---------------------------- MODULE SequenceLemmas ----------------------------
(***************************************************************************)
(* Induction over the natural numbers, for a set instead of a predicate,    *)
(* what FlattenSeq computes, functions defined by recursion, and the items  *)
(* of sequences: the lemmas the proofs about logs, streams of replies,      *)
(* texts and datagrams rest on.                                             *)
(***************************************************************************)
EXTENDS Integers, Sequences, SequencesExt, SequenceTheorems, WellFoundedInduction, TLAPS

\* A set of natural numbers that is not empty has a least one.
LEMMA LeastNatural ==
  ASSUME NEW T, T \subseteq Nat, T # {}
  PROVE  \E n \in T : \A k \in T : n <= k
<1> DEFINE R == {p \in Nat \X Nat : p[1] < p[2]}
<1>1. IsWellFoundedOn(R, Nat)
  BY NatLessThanWellFounded, Zenon DEF OpToRel
<1> HIDE DEF R
<1>2. PICK n \in T : \A k \in T : ~ (<<k, n>> \in R)
  BY <1>1, WFMin, Zenon
<1>3. \A k \in T : ~ (k < n)
  BY <1>2 DEF R
<1> QED
  BY <1>3

\* A set that holds 0 and the successor of each of its numbers holds them all.
LEMMA NatInduct ==
  ASSUME NEW T, 0 \in T, \A n \in Nat : n \in T => n + 1 \in T
  PROVE  \A n \in Nat : n \in T
<1>1. SUFFICES ASSUME Nat \ T # {} PROVE FALSE
  OBVIOUS
<1>2. PICK n \in Nat \ T : \A k \in Nat \ T : n <= k
  BY <1>1, LeastNatural
<1>3. n - 1 \in Nat /\ n - 1 \in T
  BY <1>2
<1> QED
  BY <1>2, <1>3

-----------------------------------------------------------------------------
(* FlattenSeq.                                                              *)

\* The concatenations of the first i sequences of s, for every i up to n.
Concats(X, s, n, g) ==
  /\ g \in [0 .. n -> Seq(X)] /\ g[0] = <<>>
  /\ \A i \in 1 .. n : g[i] = g[i - 1] \o s[i]

LEMMA ConcatsExist ==
  ASSUME NEW X, NEW n \in Nat, NEW s \in [1 .. n -> Seq(X)]
  PROVE  \E g : Concats(X, s, n, g)
<1> DEFINE T == {m \in Nat : m <= n => \E g : Concats(X, s, m, g)}
<1>1. 0 \in T
  <2>1. Concats(X, s, 0, [i \in 0 .. 0 |-> <<>>])
    BY DEF Concats
  <2> QED
    BY <2>1
<1>2. ASSUME NEW m \in Nat, m \in T PROVE m + 1 \in T
  <2> SUFFICES ASSUME m + 1 <= n PROVE \E g : Concats(X, s, m + 1, g)
    OBVIOUS
  <2>1. PICK g : Concats(X, s, m, g)
    BY <1>2
  <2> HIDE DEF T
  <2>a. g[m] \o s[m + 1] \in Seq(X)
    BY <2>1, ConcatProperties DEF Concats
  <2>2. PICK c \in Seq(X) : c = g[m] \o s[m + 1]
    BY <2>a, Zenon
  <2> DEFINE h == [i \in 0 .. m + 1 |-> IF i <= m THEN g[i] ELSE c]
  <2>3. h \in [0 .. m + 1 -> Seq(X)] /\ h[0] = <<>>
    BY <2>1 DEF Concats
  <2>4. ASSUME NEW i \in 1 .. m + 1 PROVE h[i] = h[i - 1] \o s[i]
    <3>1. h[i - 1] = g[i - 1] /\ (i <= m => h[i] = g[i]) /\ (i = m + 1 => h[i] = c)
      OBVIOUS
    <3> HIDE DEF h
    <3>2. CASE i \in 1 .. m
      <4>1. g[i] = g[i - 1] \o s[i]
        BY <2>1, <3>2 DEF Concats
      <4>2. h[i] = g[i]
        BY <3>1, <3>2
      <4> QED
        BY <3>1, <4>1, <4>2, Zenon
    <3>3. CASE i = m + 1
      <4>1. i - 1 = m
        BY <3>3
      <4> QED
        BY <2>2, <3>1, <3>3, <4>1, Zenon
    <3>4. i \in 1 .. m \/ i = m + 1
      OBVIOUS
    <3> QED
      BY <3>2, <3>3, <3>4, Zenon
  <2>5. Concats(X, s, m + 1, h)
    BY <2>3, <2>4 DEF Concats
  <2> QED
    BY <2>5
<1> HIDE DEF T
<1>3. n \in T
  BY <1>1, <1>2, NatInduct
<1> QED
  BY <1>3 DEF T

\* What FlattenSeq computes is the last of them.
LEMMA FlattenRecursion ==
  ASSUME NEW X, NEW n \in Nat \ {0}, NEW s \in [1 .. n -> Seq(X)]
  PROVE  \E f : /\ f = [i \in 1 .. n |-> IF i = 1 THEN s[i] ELSE f[i - 1] \o s[i]]
                /\ FlattenSeq(s) = f[n]
<1>1. Len(s) = n
  BY LenProperties
<1>2. PICK g : Concats(X, s, n, g)
  BY ConcatsExist
<1> DEFINE D(f) == [i \in 1 .. n |-> IF i = 1 THEN s[i] ELSE f[i - 1] \o s[i]]
           h == [i \in 1 .. n |-> g[i]]
<1>3. h = D(h)
  <2>1. ASSUME NEW i \in 1 .. n PROVE h[i] = D(h)[i]
    <3>0. h[i] = g[i] /\ g[i] = g[i - 1] \o s[i] /\ s[i] \in Seq(X)
      BY <1>2 DEF Concats
    <3>1. CASE i = 1
      <4>1. g[i - 1] = <<>>
        BY <1>2, <3>1 DEF Concats
      <4>2. g[i] = s[i]
        BY <3>0, <4>1, ConcatEmptySeq
      <4> QED
        BY <3>0, <3>1, <4>2
    <3>2. CASE i # 1
      <4>1. h[i - 1] = g[i - 1]
        BY <3>2
      <4>2. D(h)[i] = h[i - 1] \o s[i]
        BY <3>2
      <4> QED
        BY <3>0, <4>1, <4>2
    <3> QED
      BY <3>1, <3>2
  <2> QED
    BY <2>1
<1>4. \E f : f = D(f)
  BY <1>3
<1>5. (CHOOSE f : f = D(f)) = D(CHOOSE f : f = D(f))
  BY <1>4
<1>6. FlattenSeq(s) = (CHOOSE f : f = D(f))[n]
  BY <1>1 DEF FlattenSeq
<1> QED
  BY <1>5, <1>6

LEMMA FlattenConcats ==
  ASSUME NEW X, NEW n \in Nat, NEW s \in [1 .. n -> Seq(X)], NEW g, Concats(X, s, n, g)
  PROVE  FlattenSeq(s) = g[n] /\ FlattenSeq(s) \in Seq(X)
<1>0. g[n] \in Seq(X)
  BY DEF Concats
<1>1. CASE n = 0
  <2>1. Len(s) = 0 /\ s = <<>>
    BY <1>1, LenProperties
  <2>2. FlattenSeq(s) = s
    BY <2>1 DEF FlattenSeq
  <2>3. g[n] = <<>>
    BY <1>1 DEF Concats
  <2> QED
    BY <1>0, <2>1, <2>2, <2>3, Zenon
<1>2. CASE n # 0
  <2>1. PICK f : /\ f = [i \in 1 .. n |-> IF i = 1 THEN s[i] ELSE f[i - 1] \o s[i]]
                 /\ FlattenSeq(s) = f[n]
    BY <1>2, FlattenRecursion
  <2> DEFINE T == {m \in Nat : m \in 1 .. n => f[m] = g[m]}
  <2>2. 0 \in T
    OBVIOUS
  <2>3. ASSUME NEW m \in Nat, m \in T PROVE m + 1 \in T
    <3> SUFFICES ASSUME m + 1 \in 1 .. n PROVE f[m + 1] = g[m + 1]
      OBVIOUS
    <3>1. g[m + 1] = g[m] \o s[m + 1] /\ s[m + 1] \in Seq(X)
      <4>1. (m + 1) - 1 = m
        OBVIOUS
      <4>2. g[m + 1] = g[(m + 1) - 1] \o s[m + 1]
        BY Zenon DEF Concats
      <4> QED
        BY <4>1, <4>2
    <3>2. CASE m = 0
      <4>1. f[m + 1] = s[m + 1]
        BY <2>1, <3>2
      <4>2. g[m] = <<>>
        BY <3>2 DEF Concats
      <4>3. g[m + 1] = s[m + 1]
        BY <3>1, <4>2, ConcatEmptySeq, Zenon
      <4> QED
        BY <4>1, <4>3, Zenon
    <3>3. CASE m # 0
      <4>1. f[m] = g[m]
        BY <2>3, <3>3
      <4>2. f[m + 1] = f[m] \o s[m + 1]
        <5>1. (m + 1) - 1 = m /\ m + 1 # 1
          BY <3>3
        <5>2. f[m + 1] = IF m + 1 = 1 THEN s[m + 1] ELSE f[(m + 1) - 1] \o s[m + 1]
          BY <2>1, Zenon
        <5> QED
          BY <5>1, <5>2, Zenon
      <4> QED
        BY <3>1, <4>1, <4>2, Zenon
    <3> QED
      BY <3>2, <3>3
  <2> HIDE DEF T
  <2>4. n \in T
    BY <2>2, <2>3, NatInduct
  <2>5. f[n] = g[n]
    BY <1>2, <2>4 DEF T
  <2> QED
    BY <1>0, <2>1, <2>5, Zenon
<1> QED
  BY <1>1, <1>2

\* y is x behind p.
Behind(p, x, y) == y = p \o x

Regrouped(x, y, z) == (x \o y) \o z = x \o (y \o z)

LEMMA Regroup ==
  ASSUME NEW X, NEW x \in Seq(X), NEW y \in Seq(X), NEW z \in Seq(X)
  PROVE  Regrouped(x, y, z)
BY ConcatAssociative DEF Regrouped

\* Two rows that are the same from k on differ by what stands before.
LEMMA ConcatsAgree ==
  ASSUME NEW X, NEW n \in Nat, NEW a \in [1 .. n -> Seq(X)], NEW b \in [1 .. n -> Seq(X)],
         NEW g, Concats(X, a, n, g), NEW h, Concats(X, b, n, h),
         NEW p \in Seq(X), NEW k \in 0 .. n, Behind(p, h[k], g[k]),
         NEW l \in k .. n, \A i \in k + 1 .. l : a[i] = b[i]
  PROVE  Behind(p, h[l], g[l])
<1> DEFINE T == {m \in Nat : m \in k .. l => Behind(p, h[m], g[m])}
<1>1. 0 \in T
  <2>1. 0 \in k .. l => k = 0
    OBVIOUS
  <2> QED
    BY <2>1
<1>2. ASSUME NEW m \in Nat, m \in T PROVE m + 1 \in T
  <2> SUFFICES ASSUME m + 1 \in k .. l PROVE Behind(p, h[m + 1], g[m + 1])
    OBVIOUS
  <2>1. CASE m + 1 = k
    BY <2>1, Zenon
  <2>2. CASE m + 1 # k
    <3>1. /\ m \in k .. l /\ m + 1 \in k + 1 .. l /\ m + 1 \in 1 .. n /\ (m + 1) - 1 = m
          /\ m \in 0 .. n
      BY <2>2
    <3>2. Behind(p, h[m], g[m]) /\ a[m + 1] = b[m + 1]
      BY <1>2, <3>1, Zenon
    <3>3. g[m + 1] = g[m] \o a[m + 1] /\ h[m + 1] = h[m] \o b[m + 1]
      <4>1. g[m + 1] = g[(m + 1) - 1] \o a[m + 1] /\ h[m + 1] = h[(m + 1) - 1] \o b[m + 1]
        BY <3>1, Zenon DEF Concats
      <4> QED
        BY <3>1, <4>1, Zenon
    <3>4. h[m] \in Seq(X) /\ b[m + 1] \in Seq(X)
      BY <3>1 DEF Concats
    <3>5. (p \o h[m]) \o b[m + 1] = p \o (h[m] \o b[m + 1])
      <4>1. Regrouped(p, h[m], b[m + 1])
        BY <3>4, Regroup, Zenon
      <4> QED
        BY <4>1, Zenon DEF Regrouped
    <3> QED
      BY <3>2, <3>3, <3>5, Zenon DEF Behind
  <2> QED
    BY <2>1, <2>2, Zenon
<1> HIDE DEF T
<1>a. \A m \in Nat : m \in T
  BY <1>1, <1>2, NatInduct, Zenon
<1>b. l \in Nat /\ l \in k .. l
  OBVIOUS
<1>3. l \in T /\ l \in k .. l
  BY <1>a, <1>b, Zenon
<1> QED
  BY <1>3, Zenon DEF T

\* Where g and h agree, and the rows a and b from there on, g and h agree later.
SameLater(a, b, n, g, h) ==
  \A k \in 0 .. n : \A l \in k .. n :
    g[k] = h[k] /\ (\A i \in k + 1 .. l : a[i] = b[i]) => g[l] = h[l]

LEMMA ConcatsSame ==
  ASSUME NEW X, NEW n \in Nat, NEW a \in [1 .. n -> Seq(X)], NEW b \in [1 .. n -> Seq(X)],
         NEW g, Concats(X, a, n, g), NEW h, Concats(X, b, n, h)
  PROVE  SameLater(a, b, n, g, h)
<1> SUFFICES ASSUME NEW k \in 0 .. n, NEW l \in k .. n, g[k] = h[k],
                    \A i \in k + 1 .. l : a[i] = b[i]
             PROVE  g[l] = h[l]
  BY Zenon DEF SameLater
<1>0. <<>> \in Seq(X) /\ h[k] \in Seq(X) /\ h[l] \in Seq(X)
  BY DEF Concats
<1>e. \A x \in Seq(X) : <<>> \o x = x
  BY ConcatEmptySeq
<1>1. Behind(<<>>, h[k], g[k])
  BY <1>0, <1>e, Zenon DEF Behind
<1>2. Behind(<<>>, h[l], g[l])
  BY <1>0, <1>1, ConcatsAgree
<1> QED
  BY <1>0, <1>2, <1>e, Zenon DEF Behind

Rows(X, n, a, b) == n \in Nat /\ a \in [1 .. n -> Seq(X)] /\ b \in [1 .. n -> Seq(X)]

\* A sequence moved into an empty place before it.
Moved(n, k, a, b) ==
  /\ k \in 2 .. n /\ a[k - 1] = <<>> /\ b[k - 1] = a[k] /\ b[k] = <<>>
  /\ \A i \in 1 .. n : i # k /\ i # k - 1 => a[i] = b[i]

LEMMA MoveIntoEmpty ==
  ASSUME NEW X, NEW n, NEW k, NEW a, NEW b, Rows(X, n, a, b), Moved(n, k, a, b)
  PROVE  FlattenSeq(a) = FlattenSeq(b)
<1> USE DEF Rows, Moved
<1>1. PICK g : Concats(X, a, n, g)
  BY ConcatsExist, Zenon
<1>2. PICK h : Concats(X, b, n, h)
  BY ConcatsExist, Zenon
<1>s. SameLater(a, b, n, g, h)
  BY <1>1, <1>2, ConcatsSame, Zenon
<1>3. g[k - 2] = h[k - 2]
  <2>1. g[0] = h[0] /\ 0 \in 0 .. n /\ k - 2 \in 0 .. n
    BY <1>1, <1>2 DEF Concats
  <2>2. \A i \in 0 + 1 .. k - 2 : a[i] = b[i]
    OBVIOUS
  <2> QED
    BY <1>s, <2>1, <2>2, Zenon DEF SameLater
<1>4. /\ k - 1 \in 1 .. n /\ k \in 1 .. n /\ (k - 1) - 1 = k - 2
      /\ k - 1 \in 0 .. n /\ k \in 0 .. n /\ k - 2 \in 0 .. n
  OBVIOUS
<1>5. /\ g[k - 1] = g[k - 2] \o a[k - 1] /\ g[k] = g[k - 1] \o a[k]
      /\ h[k - 1] = h[k - 2] \o b[k - 1] /\ h[k] = h[k - 1] \o b[k]
      /\ g[k - 2] \in Seq(X) /\ h[k - 1] \in Seq(X)
  <2>1. /\ g[k - 1] = g[(k - 1) - 1] \o a[k - 1] /\ g[k] = g[k - 1] \o a[k]
        /\ h[k - 1] = h[(k - 1) - 1] \o b[k - 1] /\ h[k] = h[k - 1] \o b[k]
    BY <1>1, <1>2, <1>4, Zenon DEF Concats
  <2>2. g[k - 2] \in Seq(X) /\ h[k - 1] \in Seq(X)
    BY <1>1, <1>2, <1>4 DEF Concats
  <2> QED
    BY <1>4, <2>1, <2>2, Zenon
<1>6. g[k] = h[k]
  <2>1. \A x \in Seq(X) : x \o <<>> = x
    BY ConcatEmptySeq
  <2>2. g[k - 1] = g[k - 2] /\ h[k] = h[k - 1]
    BY <1>5, <2>1, Zenon
  <2> QED
    BY <1>3, <1>5, <2>2, Zenon
<1>7. \A i \in k + 1 .. n : a[i] = b[i]
  OBVIOUS
<1>8. g[n] = h[n]
  <2>1. n \in k .. n
    OBVIOUS
  <2> QED
    BY <1>s, <1>4, <1>6, <1>7, <2>1, Zenon DEF SameLater
<1>9. FlattenSeq(a) = g[n] /\ FlattenSeq(b) = h[n]
  BY <1>1, <1>2, FlattenConcats, Zenon
<1> QED
  BY <1>8, <1>9, Zenon

\* The second sequence takes the place of the first.
FirstReplaced(n, a, b) ==
  n >= 2 /\ b[1] = a[2] /\ b[2] = <<>> /\ \A i \in 3 .. n : a[i] = b[i]

LEMMA DropFirst ==
  ASSUME NEW X, NEW n, NEW a, NEW b, Rows(X, n, a, b), FirstReplaced(n, a, b)
  PROVE  FlattenSeq(a) = a[1] \o FlattenSeq(b)
<1> USE DEF Rows, FirstReplaced
<1>1. PICK g : Concats(X, a, n, g)
  BY ConcatsExist, Zenon
<1>2. PICK h : Concats(X, b, n, h)
  BY ConcatsExist, Zenon
<1>3. /\ g[0] = <<>> /\ h[0] = <<>> /\ g[1] = g[0] \o a[1] /\ g[2] = g[1] \o a[2]
      /\ h[1] = h[0] \o b[1] /\ h[2] = h[1] \o b[2]
  <2>1. 1 \in 1 .. n /\ 2 \in 1 .. n /\ 1 - 1 = 0 /\ 2 - 1 = 1
    OBVIOUS
  <2>2. /\ g[0] = <<>> /\ h[0] = <<>> /\ g[1] = g[1 - 1] \o a[1] /\ g[2] = g[2 - 1] \o a[2]
        /\ h[1] = h[1 - 1] \o b[1] /\ h[2] = h[2 - 1] \o b[2]
    BY <1>1, <1>2, <2>1, Zenon DEF Concats
  <2> QED
    BY <2>1, <2>2, Zenon
<1>4. a[1] \in Seq(X) /\ a[2] \in Seq(X)
  OBVIOUS
<1>5. \A x \in Seq(X) : x \o <<>> = x /\ <<>> \o x = x
  BY ConcatEmptySeq
<1>6. Behind(a[1], h[2], g[2])
  <2>1. g[1] = a[1] /\ h[1] = a[2]
    BY <1>3, <1>4, <1>5, Zenon
  <2>2. h[2] = a[2]
    BY <1>3, <1>4, <1>5, <2>1, Zenon
  <2> QED
    BY <1>3, <2>1, <2>2, Zenon DEF Behind
<1>7. 2 \in 0 .. n /\ n \in 2 .. n /\ \A i \in 2 + 1 .. n : a[i] = b[i]
  OBVIOUS
<1>8. Behind(a[1], h[n], g[n])
  <2>1. n \in Nat /\ a \in [1 .. n -> Seq(X)] /\ b \in [1 .. n -> Seq(X)]
    BY Zenon
  <2> HIDE DEF Rows, FirstReplaced
  <2> QED
    BY <1>1, <1>2, <1>4, <1>6, <1>7, <2>1, ConcatsAgree, Zenon
<1>9. FlattenSeq(a) = g[n] /\ FlattenSeq(b) = h[n]
  BY <1>1, <1>2, FlattenConcats
<1> QED
  BY <1>8, <1>9, Zenon DEF Behind

\* Two rows that differ in their last sequence only.
LastReplaced(n, a, b) == n >= 1 /\ \A i \in 1 .. n - 1 : a[i] = b[i]

SameFront(X, n, a, b) ==
  \E p \in Seq(X) : FlattenSeq(a) = p \o a[n] /\ FlattenSeq(b) = p \o b[n]

LEMMA ChangeLast ==
  ASSUME NEW X, NEW n, NEW a, NEW b, Rows(X, n, a, b), LastReplaced(n, a, b)
  PROVE  SameFront(X, n, a, b)
<1> USE DEF Rows, LastReplaced
<1>1. PICK g : Concats(X, a, n, g)
  BY ConcatsExist, Zenon
<1>2. PICK h : Concats(X, b, n, h)
  BY ConcatsExist, Zenon
<1>3. /\ g[0] = h[0] /\ 0 \in 0 .. n /\ n - 1 \in 0 .. n /\ n \in 1 .. n
      /\ \A i \in 0 + 1 .. n - 1 : a[i] = b[i]
  BY <1>1, <1>2 DEF Concats
<1>4. g[n - 1] = h[n - 1]
  <2>1. SameLater(a, b, n, g, h)
    BY <1>1, <1>2, ConcatsSame, Zenon
  <2> QED
    BY <1>3, <2>1, Zenon DEF SameLater
<1>5. g[n] = g[n - 1] \o a[n] /\ h[n] = h[n - 1] \o b[n]
  BY <1>1, <1>2, <1>3, Zenon DEF Concats
<1>6. g[n - 1] \in Seq(X)
  BY <1>1, <1>3 DEF Concats
<1>7. FlattenSeq(a) = g[n] /\ FlattenSeq(b) = h[n]
  BY <1>1, <1>2, FlattenConcats
<1> QED
  BY <1>4, <1>5, <1>6, <1>7, Zenon DEF SameFront

\* What FlattenSeq returns is a sequence.
LEMMA FlattenType ==
  ASSUME NEW X, NEW n \in Nat, NEW s \in [1 .. n -> Seq(X)]
  PROVE  FlattenSeq(s) \in Seq(X)
<1>1. PICK g : Concats(X, s, n, g)
  BY ConcatsExist, Zenon
<1> QED
  BY <1>1, FlattenConcats

-----------------------------------------------------------------------------
(* The two ends of a concatenation.                                         *)

LEMMA FrontOfConcat ==
  ASSUME NEW X, NEW p \in Seq(X), NEW s \in Seq(X)
  PROVE  SubSeq(p \o s, 1, Len(p \o s) - Len(s)) = p
<1> DEFINE t == p \o s
<1>1. /\ t \in Seq(X) /\ Len(t) = Len(p) + Len(s)
      /\ \A i \in 1 .. Len(p) : t[i] = p[i]
  BY ConcatProperties
<1> HIDE DEF t
<1>2. Len(t) - Len(s) = Len(p) /\ Len(p) \in Nat /\ \A i \in 1 .. Len(p) : t[i] \in X
  BY <1>1
<1>3. /\ SubSeq(t, 1, Len(p)) \in Seq(X) /\ Len(SubSeq(t, 1, Len(p))) = Len(p)
      /\ \A i \in 1 .. Len(p) : SubSeq(t, 1, Len(p))[i] = t[i]
  BY <1>2, SubSeqProperties
<1>4. SubSeq(t, 1, Len(p)) = p
  BY <1>1, <1>3, SeqEqual
<1> QED
  BY <1>2, <1>4 DEF t

LEMMA ReverseType ==
  ASSUME NEW X, NEW s \in Seq(X)
  PROVE  /\ Reverse(s) \in Seq(X) /\ Len(Reverse(s)) = Len(s)
         /\ \A i \in 1 .. Len(s) : Reverse(s)[i] = s[(Len(s) - i) + 1]
BY DEF Reverse

LEMMA ConcatSuffix ==
  ASSUME NEW X, NEW p \in Seq(X), NEW s \in Seq(X)
  PROVE  IsSuffix(s, p \o s)
<1> DEFINE t == p \o s
<1>1. /\ t \in Seq(X) /\ Len(t) = Len(p) + Len(s) /\ Len(p) \in Nat /\ Len(s) \in Nat
      /\ \A i \in 1 .. Len(p) + Len(s) : t[i] = IF i <= Len(p) THEN p[i] ELSE s[i - Len(p)]
  BY ConcatProperties
<1> HIDE DEF t
<1>2. \A i \in 1 .. Len(s) : t[(Len(t) - i) + 1] = s[(Len(s) - i) + 1]
  BY <1>1
<1> DEFINE r == Reverse(s)
           q == Reverse(t)
<1>3. /\ r \in Seq(X) /\ Len(r) = Len(s) /\ q \in Seq(X) /\ Len(q) = Len(t)
      /\ \A i \in 1 .. Len(s) : r[i] = s[(Len(s) - i) + 1]
      /\ \A i \in 1 .. Len(t) : q[i] = t[(Len(t) - i) + 1]
  BY <1>1, ReverseType
<1> HIDE DEF r, q
<1>4. \A i \in 1 .. Len(r) : r[i] = q[i] /\ r[i] \in X
  BY <1>1, <1>2, <1>3
<1>5. Len(r) <= Len(q) /\ Len(r) \in Nat
  BY <1>1, <1>3
<1>6. SubSeq(r, 1, Len(r)) = SubSeq(q, 1, Len(r))
  <2>1. /\ SubSeq(r, 1, Len(r)) \in Seq(X) /\ Len(SubSeq(r, 1, Len(r))) = Len(r)
        /\ \A i \in 1 .. Len(r) : SubSeq(r, 1, Len(r))[i] = r[i]
    BY <1>4, <1>5, SubSeqProperties
  <2>2. /\ SubSeq(q, 1, Len(r)) \in Seq(X) /\ Len(SubSeq(q, 1, Len(r))) = Len(r)
        /\ \A i \in 1 .. Len(r) : SubSeq(q, 1, Len(r))[i] = q[i]
    BY <1>4, <1>5, SubSeqProperties
  <2> QED
    BY <1>4, <2>1, <2>2, SeqEqual
<1> QED
  BY <1>5, <1>6, Zenon DEF IsSuffix, IsPrefix, r, q, t

-----------------------------------------------------------------------------
(* Functions defined by recursion over 0 .. n.                               *)

\* f starts at a and its item i is made by G from the one before.
Iterated(S, n, a, G, f) ==
  /\ f \in [0 .. n -> S] /\ f[0] = a
  /\ \A i \in 1 .. n : f[i] = G[i][f[i - 1]]

LEMMA IterationExists ==
  ASSUME NEW S, NEW n \in Nat, NEW a \in S, NEW G \in [1 .. n -> [S -> S]]
  PROVE  \E f : Iterated(S, n, a, G, f)
<1> DEFINE T == {m \in Nat : m <= n => \E f : Iterated(S, m, a, G, f)}
<1>1. 0 \in T
  <2> DEFINE f == [i \in 0 .. 0 |-> a]
  <2>1. f \in [0 .. 0 -> S] /\ f[0] = a /\ 1 .. 0 = {}
    OBVIOUS
  <2> HIDE DEF f
  <2>2. Iterated(S, 0, a, G, f)
    BY <2>1, Zenon DEF Iterated
  <2> QED
    BY <2>2
<1>2. ASSUME NEW m \in Nat, m \in T PROVE m + 1 \in T
  <2> SUFFICES ASSUME m + 1 <= n PROVE \E g : Iterated(S, m + 1, a, G, g)
    OBVIOUS
  <2>1. PICK f : Iterated(S, m, a, G, f)
    BY <1>2
  <2> HIDE DEF T
  <2> DEFINE next == G[m + 1][f[m]]
             g == [i \in 0 .. m + 1 |-> IF i <= m THEN f[i] ELSE next]
  <2>2. f \in [0 .. m -> S] /\ f[0] = a /\ \A i \in 1 .. m : f[i] = G[i][f[i - 1]]
    BY <2>1, Zenon DEF Iterated
  <2>3. m \in 0 .. m /\ 0 \in 0 .. m /\ m + 1 \in 1 .. n
    OBVIOUS
  <2>4. next \in S
    BY <2>2, <2>3
  <2> HIDE DEF next
  <2>5. g \in [0 .. m + 1 -> S] /\ (\A i \in 0 .. m : g[i] = f[i]) /\ g[m + 1] = next
    BY <2>2, <2>4
  <2> HIDE DEF g
  <2>6. ASSUME NEW i \in 1 .. m + 1 PROVE g[i] = G[i][g[i - 1]]
    <3>1. CASE i \in 1 .. m
      <4>1. i \in 0 .. m /\ i - 1 \in 0 .. m
        BY <3>1
      <4> QED
        BY <2>2, <2>5, <3>1, <4>1, Zenon
    <3>2. CASE i = m + 1
      <4>1. i - 1 = m
        BY <3>2
      <4> QED
        BY <2>3, <2>5, <3>2, <4>1, Zenon DEF next
    <3>3. i \in 1 .. m \/ i = m + 1
      OBVIOUS
    <3> QED
      BY <3>1, <3>2, <3>3, Zenon
  <2>7. g[0] = a
    BY <2>2, <2>3, <2>5, Zenon
  <2>8. Iterated(S, m + 1, a, G, g)
    BY <2>5, <2>6, <2>7, Zenon DEF Iterated
  <2> QED
    BY <2>8
<1> HIDE DEF T
<1>3. n \in T
  BY <1>1, <1>2, NatInduct
<1> QED
  BY <1>3 DEF T

\* A function on 0 .. n that does what f does as long as it stays in S.
Follows(S, n, a, G, h) ==
  /\ h = [i \in 0 .. n |-> h[i]] /\ h[0] = a
  /\ \A i \in 1 .. n : h[i - 1] \in S => h[i] = G[i][h[i - 1]]

\* It is f.
LEMMA IterationUnique ==
  ASSUME NEW S, NEW n \in Nat, NEW a, NEW G, NEW f, Iterated(S, n, a, G, f),
         NEW h, Follows(S, n, a, G, h)
  PROVE  h = f
<1> USE DEF Follows
<1> DEFINE T == {m \in Nat : m <= n => h[m] = f[m]}
<1>0. f \in [0 .. n -> S] /\ f[0] = a /\ \A i \in 1 .. n : f[i] = G[i][f[i - 1]]
  BY Zenon DEF Iterated
<1>1. 0 \in T
  BY <1>0
<1>2. ASSUME NEW m \in Nat, m \in T PROVE m + 1 \in T
  <2> SUFFICES ASSUME m + 1 <= n PROVE h[m + 1] = f[m + 1]
    OBVIOUS
  <2>1. h[m] = f[m]
    BY <1>2
  <2>2. m + 1 \in 1 .. n /\ (m + 1) - 1 = m /\ m \in 0 .. n
    OBVIOUS
  <2>3. f[m] \in S
    BY <1>0, <2>2, Zenon
  <2>4. h[m + 1] = G[m + 1][h[m]] /\ f[m + 1] = G[m + 1][f[m]]
    BY <1>0, <2>1, <2>2, <2>3, Zenon
  <2> QED
    BY <2>1, <2>4, Zenon
<1>3. \A m \in Nat : m \in T
  BY <1>1, <1>2, NatInduct, Zenon
<1>4. \A i \in 0 .. n : h[i] = f[i]
  <2> TAKE i \in 0 .. n
  <2>1. i \in Nat /\ i <= n
    OBVIOUS
  <2>2. i \in T
    BY <1>3, <2>1
  <2> QED
    BY <2>1, <2>2
<1>5. f = [i \in 0 .. n |-> f[i]]
  BY <1>0
<1> QED
  BY <1>4, <1>5

-----------------------------------------------------------------------------
(* Items of a concatenation, and the last item of a sequence.                *)

\* u is s followed by t, item by item.
Joins(s, t, u) ==
  /\ Len(s) \in Nat /\ Len(t) \in Nat /\ Len(u) = Len(s) + Len(t)
  /\ \A i \in 1 .. Len(s) : u[i] = s[i]
  /\ \A i \in 1 .. Len(t) : u[Len(s) + i] = t[i]

LEMMA Joining ==
  ASSUME NEW X, NEW s \in Seq(X), NEW t \in Seq(X)
  PROVE  s \o t \in Seq(X) /\ Joins(s, t, s \o t)
BY ConcatProperties DEF Joins

WithLast(o, n) == [o EXCEPT ![Len(o)] = n]

LastSet(o, n, w) ==
  Len(w) = Len(o) /\ \A i \in 1 .. Len(o) : w[i] = IF i = Len(o) THEN n ELSE o[i]

LEMMA WithLastIs ==
  ASSUME NEW X, NEW o \in Seq(X), NEW n \in X
  PROVE  WithLast(o, n) \in Seq(X) /\ LastSet(o, n, WithLast(o, n))
<1> DEFINE w == WithLast(o, n)
<1>1. Len(o) \in Nat /\ DOMAIN o = 1 .. Len(o) /\ \A i \in 1 .. Len(o) : o[i] \in X
  OBVIOUS
<1>2. w = [i \in 1 .. Len(o) |-> IF i = Len(o) THEN n ELSE o[i]]
  BY <1>1 DEF WithLast
<1>3. w \in [1 .. Len(o) -> X]
  BY <1>1, <1>2
<1> HIDE DEF w
<1>4. w \in Seq(X) /\ Len(w) = Len(o)
  BY <1>1, <1>3
<1>5. \A i \in 1 .. Len(o) : w[i] = IF i = Len(o) THEN n ELSE o[i]
  BY <1>2
<1> QED
  BY <1>4, <1>5, Zenon DEF w, LastSet

\* The last of two items is replaced.
Replaced(u, p, m, n) == WithLast(u \o <<p, m>>, n) = u \o <<p, n>>

LEMMA ReplaceLast ==
  ASSUME NEW X, NEW u \in Seq(X), NEW p \in X, NEW m \in X, NEW n \in X
  PROVE  Replaced(u, p, m, n)
<1> DEFINE x == <<p, m>>
           y == <<p, n>>
           o == u \o x
           v == u \o y
           w == WithLast(o, n)
<1>0. /\ x \in Seq(X) /\ Len(x) = 2 /\ x[1] = p /\ x[2] = m
      /\ y \in Seq(X) /\ Len(y) = 2 /\ y[1] = p /\ y[2] = n
  OBVIOUS
<1> HIDE DEF x, y
<1>1. o \in Seq(X) /\ Joins(u, x, o) /\ v \in Seq(X) /\ Joins(u, y, v)
  BY <1>0, Joining, Zenon
<1> HIDE DEF o, v, w
<1>2. /\ Len(u) \in Nat /\ Len(o) = Len(u) + Len(x) /\ Len(v) = Len(u) + Len(y)
      /\ (\A i \in 1 .. Len(u) : o[i] = u[i]) /\ (\A i \in 1 .. Len(x) : o[Len(u) + i] = x[i])
      /\ (\A i \in 1 .. Len(u) : v[i] = u[i]) /\ (\A i \in 1 .. Len(y) : v[Len(u) + i] = y[i])
  BY <1>1, Zenon DEF Joins
<1>3. /\ Len(o) = Len(u) + 2 /\ Len(v) = Len(o) /\ 1 \in 1 .. Len(x) /\ 1 \in 1 .. Len(y)
      /\ 2 \in 1 .. Len(y)
  BY <1>0, <1>2
<1>4. v[Len(u) + 1] = o[Len(u) + 1] /\ v[Len(u) + 2] = n
  BY <1>0, <1>2, <1>3, Zenon
<1>5. /\ w \in Seq(X) /\ Len(w) = Len(o)
      /\ \A i \in 1 .. Len(o) : w[i] = IF i = Len(o) THEN n ELSE o[i]
  <2>1. w \in Seq(X) /\ LastSet(o, n, w)
    BY <1>1, WithLastIs, Zenon DEF w
  <2> QED
    BY <2>1, Zenon DEF LastSet
<1>6. ASSUME NEW i \in 1 .. Len(o) PROVE w[i] = v[i]
  <2>1. CASE i <= Len(u)
    <3>1. i \in 1 .. Len(u) /\ i # Len(o)
      BY <1>2, <1>3, <2>1
    <3> QED
      BY <1>2, <1>5, <3>1, Zenon
  <2>2. CASE i = Len(u) + 1
    <3>1. i # Len(o)
      BY <1>2, <1>3, <2>2
    <3> QED
      BY <1>4, <1>5, <2>2, <3>1, Zenon
  <2>3. CASE i = Len(u) + 2
    BY <1>3, <1>4, <1>5, <2>3, Zenon
  <2> QED
    BY <1>2, <1>3, <2>1, <2>2, <2>3
<1>7. w = v
  BY <1>1, <1>3, <1>5, <1>6, SeqEqual
<1> QED
  BY <1>7, Zenon DEF o, v, w, x, y, Replaced
==============================================================================
