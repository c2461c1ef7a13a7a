---------------------------- MODULE SequenceFacts ----------------------------
(***************************************************************************)
(* Facts about sequences that proofs about streams of bytes need: what a   *)
(* slice, a suffix and a concatenation of packets are, element by element. *)
(*                                                                         *)
(* FlattenSeq is a recursive function. What it computes is proved by the   *)
(* least counterexample: the provers cannot use an induction theorem, but  *)
(* every non-empty set of naturals has a least element.                    *)
(***************************************************************************)
EXTENDS Integers, SequencesExt, SequenceTheorems, WellFoundedInduction, TLAPS

LEMMA LeastOf ==
  ASSUME NEW T \in SUBSET Nat, T # {}
  PROVE  \E x \in T : \A y \in T : x <= y
<1> DEFINE R == OpToRel(<, Nat)
<1>1. IsWellFoundedOn(R, Nat)
  BY NatLessThanWellFounded
<1>2. \A x, y \in Nat : y < x => <<y, x>> \in R
  BY DEF OpToRel
<1> HIDE DEF R
<1>3. PICK x \in T : \A y \in T : ~ (<<y, x>> \in R)
  BY <1>1, WFMin
<1>4. \A y \in T : ~(y < x)
  BY <1>2, <1>3
<1> QED
  BY <1>4

LEMMA MinIs ==
  ASSUME NEW T \in SUBSET Nat, T # {}
  PROVE  Min(T) \in T /\ \A y \in T : Min(T) <= y
<1>1. PICK x \in T : \A y \in T : x <= y
  BY LeastOf
<1> QED
  BY <1>1 DEF Min

LEMMA MinUnique ==
  ASSUME NEW T \in SUBSET Nat, NEW x \in T, \A y \in T : x <= y
  PROVE  Min(T) = x
<1>1. Min(T) \in T /\ \A y \in T : Min(T) <= y
  <2> T # {}
    OBVIOUS
  <2> QED
    BY MinIs
<1>2. Min(T) <= x /\ x <= Min(T) /\ Min(T) \in Nat /\ x \in Nat
  BY <1>1
<1> QED
  BY <1>2

LEMMA MaxUnique ==
  ASSUME NEW T \in SUBSET Nat, NEW x \in T, \A y \in T : y <= x
  PROVE  Max(T) = x
<1>1. Max(T) \in T /\ \A y \in T : Max(T) >= y
  BY DEF Max
<1>2. Max(T) <= x /\ x <= Max(T) /\ Max(T) \in Nat /\ x \in Nat
  BY <1>1
<1> QED
  BY <1>2

\* f joins up the first n of seqs, one more with each of its arguments.
Joins(f, seqs, n) ==
  f = [i \in 1..n |-> IF i = 1 THEN seqs[i] ELSE f[i - 1] \o seqs[i]]

LEMMA JoinsAt ==
  ASSUME NEW f, NEW seqs, NEW n \in Nat, Joins(f, seqs, n)
  PROVE  \A i \in 1..n : f[i] = IF i = 1 THEN seqs[i] ELSE f[i - 1] \o seqs[i]
BY DEF Joins

LEMMA JoinsExists == ASSUME NEW seqs, NEW n \in Nat PROVE \E f : Joins(f, seqs, n)
<1> DEFINE Bad == {m \in Nat : ~ \E f : Joins(f, seqs, m)}
<1>1. ASSUME Bad # {} PROVE FALSE
  <2>1. PICK m \in Bad : \A k \in Bad : m <= k
    BY <1>1, LeastOf
  <2>2. m # 0
    <3>1. Joins([i \in 1..0 |-> 0], seqs, 0)
      BY DEF Joins
    <3> QED
      BY <3>1
  <2>3. PICK f : Joins(f, seqs, m - 1)
    <3>1. m - 1 \in Nat /\ ~(m <= m - 1)
      BY <2>2
    <3> QED
      BY <2>1, <3>1
  <2> DEFINE g == [i \in 1..m |-> IF i = m THEN IF m = 1 THEN seqs[m] ELSE f[m - 1] \o seqs[m]
                                         ELSE f[i]]
  <2>4. \A i \in 1..m : g[i] = IF i = 1 THEN seqs[i] ELSE g[i - 1] \o seqs[i]
    <3> SUFFICES ASSUME NEW i \in 1..m
                 PROVE  g[i] = IF i = 1 THEN seqs[i] ELSE g[i - 1] \o seqs[i]
      OBVIOUS
    <3>1. CASE i = m
      <4>1. i # 1 => m - 1 \in 1..m /\ m - 1 # m
        BY <3>1, <2>2
      <4> QED
        BY <3>1, <4>1
    <3>2. CASE i # m
      <4>1. i \in 1..(m - 1) /\ (i # 1 => i - 1 \in 1..(m - 1) /\ i - 1 \in 1..m /\ i - 1 # m)
        BY <3>2, <2>2
      <4>2. f[i] = IF i = 1 THEN seqs[i] ELSE f[i - 1] \o seqs[i]
        BY <2>3, <4>1 DEF Joins
      <4> QED
        BY <3>2, <4>1, <4>2
    <3> QED
      BY <3>1, <3>2
  <2>5. Joins(g, seqs, m)
    BY <2>4 DEF Joins
  <2> QED
    BY <2>5
<1> QED
  BY <1>1

LEMMA JoinsUnique ==
  ASSUME NEW S, NEW seqs \in Seq(Seq(S)), NEW s \in Seq(S), NEW f, NEW g,
         Joins(f, seqs, Len(seqs)), Joins(g, Append(seqs, s), Len(seqs) + 1)
  PROVE  \A i \in 1..Len(seqs) : f[i] = g[i] /\ f[i] \in Seq(S)
<1> DEFINE n == Len(seqs)
           more == Append(seqs, s)
<1>0. n \in Nat /\ n + 1 \in Nat /\ \A i \in 1..n : seqs[i] = more[i] /\ seqs[i] \in Seq(S)
  OBVIOUS
<1>a. /\ \A i \in 1..n : f[i] = IF i = 1 THEN seqs[i] ELSE f[i - 1] \o seqs[i]
      /\ \A i \in 1..(n + 1) : g[i] = IF i = 1 THEN more[i] ELSE g[i - 1] \o more[i]
  <2>1. Joins(f, seqs, n) /\ Joins(g, more, n + 1)
    OBVIOUS
  <2> HIDE DEF n, more
  <2> QED
    BY <1>0, <2>1, JoinsAt
<1> HIDE DEF n, more
<1> DEFINE Bad == {i \in 1..n : ~(f[i] = g[i] /\ f[i] \in Seq(S))}
<1>1. ASSUME Bad # {} PROVE FALSE
  <2>1. PICK i \in Bad : \A k \in Bad : i <= k
    <3>1. Bad \in SUBSET Nat
      OBVIOUS
    <3> QED
      BY <1>1, <3>1, LeastOf
  <2>2. i \in 1..n /\ i \in 1..(n + 1) /\ seqs[i] \in Seq(S) /\ seqs[i] = more[i]
    BY <1>0
  <2>3. /\ f[i] = IF i = 1 THEN seqs[i] ELSE f[i - 1] \o seqs[i]
        /\ g[i] = IF i = 1 THEN more[i] ELSE g[i - 1] \o more[i]
    BY <1>a, <2>2
  <2>4. i # 1
    BY <2>2, <2>3
  <2>5. i - 1 \in 1..n /\ ~(i <= i - 1)
    BY <1>0, <2>2, <2>4
  <2>6. f[i - 1] = g[i - 1] /\ f[i - 1] \in Seq(S)
    BY <2>1, <2>5
  <2>7. f[i] = f[i - 1] \o seqs[i] /\ g[i] = f[i]
    BY <2>2, <2>3, <2>4, <2>6
  <2>8. f[i] \in Seq(S)
    BY <2>2, <2>6, <2>7, ConcatProperties
  <2> QED
    BY <2>7, <2>8
<1> QED
  BY <1>1 DEF n

Joined(seqs, n) == CHOOSE f : Joins(f, seqs, n)

LEMMA JoinedJoins == ASSUME NEW seqs, NEW n \in Nat PROVE Joins(Joined(seqs, n), seqs, n)
BY JoinsExists DEF Joined

LEMMA FlattenJoins ==
  ASSUME NEW seqs
  PROVE  FlattenSeq(seqs) = IF Len(seqs) = 0 THEN seqs ELSE Joined(seqs, Len(seqs))[Len(seqs)]
BY DEF FlattenSeq, Joined, Joins

\* The packets joined up are a sequence of the same elements.
LEMMA FlattenType ==
  ASSUME NEW S, NEW seqs \in Seq(Seq(S))
  PROVE  FlattenSeq(seqs) \in Seq(S)
<1> DEFINE n == Len(seqs)
           f == Joined(seqs, n)
           g == Joined(Append(seqs, <<>>), n + 1)
<1>1. n \in Nat /\ n + 1 \in Nat /\ <<>> \in Seq(S) /\ (n = 0 => seqs \in Seq(S))
  OBVIOUS
<1>2. Joins(f, seqs, n) /\ Joins(g, Append(seqs, <<>>), n + 1)
  BY <1>1, JoinedJoins
<1>3. FlattenSeq(seqs) = IF n = 0 THEN seqs ELSE f[n]
  BY FlattenJoins
<1> HIDE DEF f, g
<1>4. \A i \in 1..n : f[i] \in Seq(S)
  BY <1>1, <1>2, JoinsUnique
<1> QED
  BY <1>1, <1>3, <1>4

\* One more packet is joined to the others.
LEMMA FlattenAppend ==
  ASSUME NEW S, NEW seqs \in Seq(Seq(S)), NEW s \in Seq(S)
  PROVE  FlattenSeq(Append(seqs, s)) = FlattenSeq(seqs) \o s
<1> DEFINE more == Append(seqs, s)
           n == Len(seqs)
           f == Joined(seqs, n)
           g == Joined(more, n + 1)
<1>1. n \in Nat /\ Len(more) = n + 1 /\ more[n + 1] = s
      /\ \A i \in 1..n : seqs[i] = more[i] /\ seqs[i] \in Seq(S)
  OBVIOUS
<1>2. (n = 0 => seqs = <<>>) /\ n + 1 \in Nat /\ n + 1 # 0 /\ n <= n + 1 /\ n + 1 \in 1..(n + 1)
  OBVIOUS
<1>3. FlattenSeq(seqs) = IF n = 0 THEN seqs ELSE f[n]
  BY FlattenJoins
<1>4. FlattenSeq(more) = g[n + 1]
  BY <1>1, <1>2, FlattenJoins
<1>5. Joins(f, seqs, n) /\ Joins(g, more, n + 1)
  BY <1>1, <1>2, JoinedJoins
<1> HIDE DEF more, n, f, g
<1>6. g[n + 1] = IF n + 1 = 1 THEN more[n + 1] ELSE g[n + 1 - 1] \o more[n + 1]
  BY <1>1, <1>2, <1>5, JoinsAt
<1>7. n # 0 => f[n] = g[n]
  <2>1. \A i \in 1..n : seqs[i] = more[i] /\ seqs[i] \in Seq(S)
    BY <1>1
  <2>2. n \in Nat /\ n + 1 \in Nat /\ n <= n + 1
    BY <1>1, <1>2
  <2>3. \A i \in 1..n : f[i] = g[i] /\ f[i] \in Seq(S)
    BY <1>5, JoinsUnique DEF more, n
  <2>4. n # 0 => n \in 1..n
    BY <2>2
  <2> QED
    BY <2>3, <2>4
<1>8. CASE n = 0
  <2>1. FlattenSeq(more) = s /\ FlattenSeq(seqs) = <<>>
    BY <1>1, <1>2, <1>3, <1>4, <1>6, <1>8
  <2> QED
    BY <2>1 DEF more
<1>9. CASE n # 0
  <2>1. n + 1 # 1 /\ n + 1 - 1 = n
    BY <1>1, <1>9
  <2> QED
    BY <1>1, <1>3, <1>4, <1>6, <1>7, <1>9, <2>1 DEF more
<1> QED
  BY <1>8, <1>9

-----------------------------------------------------------------------------
(* Slices, suffixes and appended elements *)

\* A slice is a sequence of the same elements.
LEMMA SliceIs ==
  ASSUME NEW S, NEW s \in Seq(S), NEW t \in Seq(S), NEW m \in Nat, NEW n \in Nat,
         1 <= m, n <= Len(s), Len(t) = n - m + 1
  PROVE  SubSeq(s, m, n) = t <=> \A k \in 1..Len(t) : s[m + k - 1] = t[k]
<1>1. Len(s) \in Nat /\ Len(t) \in Nat
  OBVIOUS
<1>2. \A i \in m..n : s[i] \in S
  BY <1>1
<1>3. /\ SubSeq(s, m, n) \in Seq(S)
      /\ Len(SubSeq(s, m, n)) = Len(t)
      /\ \A k \in 1..Len(t) : SubSeq(s, m, n)[k] = s[m + k - 1]
  BY <1>1, <1>2, SubSeqProperties
<1> QED
  BY <1>1, <1>3, SeqEqual

\* A suffix has its elements at the end of the sequence.
LEMMA SuffixIs ==
  ASSUME NEW S, NEW s \in Seq(S), NEW t \in Seq(S)
  PROVE  IsSuffix(t, s) <=> /\ Len(t) <= Len(s)
                            /\ \A k \in 1..Len(t) : s[Len(s) - Len(t) + k] = t[k]
<1> DEFINE rs == Reverse(s)
           rt == Reverse(t)
           n == Len(s)
           m == Len(t)
<1>1. n \in Nat /\ m \in Nat
  OBVIOUS
<1>2. /\ rs \in Seq(S) /\ Len(rs) = n /\ \A k \in 1..n : rs[k] = s[(n - k) + 1]
      /\ rt \in Seq(S) /\ Len(rt) = m /\ \A k \in 1..m : rt[k] = t[(m - k) + 1]
  BY DEF Reverse
<1>3. IsSuffix(t, s) <=> m <= n /\ SubSeq(rt, 1, m) = SubSeq(rs, 1, m)
  BY <1>2 DEF IsSuffix, IsPrefix
<1> HIDE DEF rs, rt
<1>4. SubSeq(rt, 1, m) = rt
  BY <1>2, SubSeqFull
<1>5. m <= n => (SubSeq(rs, 1, m) = rt <=> \A k \in 1..m : rs[1 + k - 1] = rt[k])
  BY <1>1, <1>2, SliceIs
<1> HIDE DEF n, m
<1>6. m <= n => ((\A k \in 1..m : rs[1 + k - 1] = rt[k]) <=> \A k \in 1..m : s[n - m + k] = t[k])
  <2> SUFFICES ASSUME m <= n
               PROVE  (\A k \in 1..m : rs[1 + k - 1] = rt[k]) <=> \A k \in 1..m : s[n - m + k] = t[k]
    OBVIOUS
  <2>1. ASSUME \A k \in 1..m : rs[1 + k - 1] = rt[k], NEW k \in 1..m
        PROVE  s[n - m + k] = t[k]
    <3>1. PICK j \in 1..m : j = (m - k) + 1
      BY <1>1
    <3>2. j \in 1..n /\ 1 + j - 1 = j /\ (n - j) + 1 = n - m + k /\ (m - j) + 1 = k
      BY <1>1, <3>1
    <3>3. rs[j] = rt[j]
      BY <2>1, <3>2
    <3> QED
      BY <1>2, <3>2, <3>3
  <2>2. ASSUME \A k \in 1..m : s[n - m + k] = t[k], NEW k \in 1..m
        PROVE  rs[1 + k - 1] = rt[k]
    <3>1. PICK j \in 1..m : j = (m - k) + 1
      BY <1>1
    <3>2. k \in 1..n /\ 1 + k - 1 = k /\ n - m + j = (n - k) + 1
      BY <1>1, <3>1
    <3>3. rt[k] = t[j] /\ rs[k] = s[n - m + j]
      BY <1>2, <3>1, <3>2
    <3> QED
      BY <2>2, <3>2, <3>3
  <2> QED
    BY <2>1, <2>2
<1> QED
  BY <1>3, <1>4, <1>5, <1>6 DEF n, m

\* A sequence is what comes before a suffix, and the suffix.
LEMMA SplitSuffix ==
  ASSUME NEW S, NEW s \in Seq(S), NEW t \in Seq(S), IsSuffix(t, s)
  PROVE  /\ SubSeq(s, 1, Len(s) - Len(t)) \in Seq(S)
         /\ Len(SubSeq(s, 1, Len(s) - Len(t))) = Len(s) - Len(t)
         /\ \A i \in 1..(Len(s) - Len(t)) : SubSeq(s, 1, Len(s) - Len(t))[i] = s[i]
         /\ SubSeq(s, 1, Len(s) - Len(t)) \o t = s
<1> DEFINE n == Len(s)
           m == Len(t)
           u == SubSeq(s, 1, n - m)
<1>1. n \in Nat /\ m \in Nat /\ m <= n /\ \A k \in 1..m : s[n - m + k] = t[k]
  BY SuffixIs
<1>2. n - m \in Nat /\ \A i \in 1..(n - m) : s[i] \in S
  BY <1>1
<1>3. u \in Seq(S) /\ Len(u) = n - m /\ \A i \in 1..(n - m) : u[i] = s[i]
  <2>1. /\ u \in Seq(S) /\ Len(u) = IF 1 <= n - m THEN n - m - 1 + 1 ELSE 0
        /\ \A i \in 1..(n - m - 1 + 1) : u[i] = s[1 + i - 1]
    BY <1>2, SubSeqProperties
  <2> HIDE DEF u, n, m
  <2> QED
    BY <1>2, <2>1
<1>4. u \o t \in Seq(S) /\ Len(u \o t) = Len(u) + m
      /\ \A i \in 1..(Len(u) + m) : (u \o t)[i] = IF i <= Len(u) THEN u[i] ELSE t[i - Len(u)]
  BY <1>3, ConcatProperties
<1>5. u \o t = s
  <2> HIDE DEF u
  <2>1. Len(u \o t) = n
    BY <1>1, <1>3, <1>4
  <2>2. ASSUME NEW i \in 1..n PROVE (u \o t)[i] = s[i]
    <3>1. i > n - m => i - (n - m) \in 1..m /\ n - m + (i - (n - m)) = i
      BY <1>1
    <3> HIDE DEF n, m
    <3> QED
      BY <1>1, <1>3, <1>4, <2>1, <3>1
  <2> QED
    BY <1>4, <2>1, <2>2, SeqEqual
<1> QED
  BY <1>3, <1>5

\* A slice up to the end grows with the sequence.
LEMMA SliceAppend ==
  ASSUME NEW S, NEW s \in Seq(S), NEW e \in S, NEW m \in Nat, 1 <= m, m <= Len(s) + 1
  PROVE  SubSeq(Append(s, e), m, Len(s) + 1) = Append(SubSeq(s, m, Len(s)), e)
<1> DEFINE a == Append(s, e)
           n == Len(s)
           u == SubSeq(s, m, n)
           t == Append(u, e)
<1>1. n \in Nat /\ a \in Seq(S) /\ Len(a) = n + 1 /\ a[n + 1] = e /\ \A i \in 1..n : a[i] = s[i]
  OBVIOUS
<1>2. \A i \in m..n : s[i] \in S
  OBVIOUS
<1>3. u \in Seq(S) /\ Len(u) = n - m + 1 /\ \A k \in 1..(n - m + 1) : u[k] = s[m + k - 1]
  <2>1. u \in Seq(S) /\ Len(u) = (IF m <= n THEN n - m + 1 ELSE 0)
        /\ \A k \in 1..(n - m + 1) : u[k] = s[m + k - 1]
    BY <1>1, <1>2, SubSeqProperties
  <2> HIDE DEF u, n
  <2> QED
    BY <1>1, <2>1 DEF n
<1>4. t \in Seq(S) /\ Len(t) = Len(u) + 1 /\ t[Len(u) + 1] = e /\ \A k \in 1..Len(u) : t[k] = u[k]
  <2> HIDE DEF u
  <2> QED
    BY <1>3
<1> HIDE DEF a, n, u, t
<1>5. \A k \in 1..Len(t) : a[m + k - 1] = t[k]
  <2> SUFFICES ASSUME NEW k \in 1..Len(t) PROVE a[m + k - 1] = t[k]
    OBVIOUS
  <2>1. CASE k = Len(u) + 1
    <3>1. m + k - 1 = n + 1
      BY <1>1, <1>3, <2>1
    <3> QED
      BY <1>1, <1>4, <2>1, <3>1
  <2>2. CASE k # Len(u) + 1
    <3>1. k \in 1..(n - m + 1) /\ m + k - 1 \in 1..n
      BY <1>1, <1>3, <1>4, <2>2
    <3> QED
      BY <1>1, <1>3, <1>4, <3>1
  <2> QED
    BY <2>1, <2>2
<1>6. SubSeq(a, m, n + 1) = t
  <2>1. n + 1 \in Nat /\ n + 1 <= Len(a) /\ Len(t) = (n + 1) - m + 1
    BY <1>1, <1>3, <1>4
  <2> QED
    BY <1>1, <1>4, <1>5, <2>1, SliceIs
<1> QED
  BY <1>6 DEF a, n, u, t

LEMMA ConcatAppend ==
  ASSUME NEW S, NEW s \in Seq(S), NEW t \in Seq(S), NEW e \in S
  PROVE  s \o Append(t, e) = Append(s \o t, e)
<1>1. <<e>> \in Seq(S) /\ s \o t \in Seq(S)
  BY ConcatProperties
<1>2. Append(t, e) = t \o <<e>> /\ Append(s \o t, e) = (s \o t) \o <<e>>
  BY <1>1, AppendIsConcat
<1> QED
  BY <1>1, <1>2, ConcatAssociative

-----------------------------------------------------------------------------
(* Where a sequence is found in another one *)

At(t, s, i) == i + Len(t) <= Len(s) + 1 /\ SubSeq(s, i, i + Len(t) - 1) = t

\* The same, element by element.
Agrees(t, s, i) ==
  i + Len(t) <= Len(s) + 1 /\ \A k \in 1..Len(t) : s[i + k - 1] = t[k]

LEMMA AtIs ==
  ASSUME NEW S, NEW s \in Seq(S), NEW t \in Seq(S), t # <<>>, NEW i \in Nat \ {0}
  PROVE  At(t, s, i) <=> Agrees(t, s, i)
<1> DEFINE m == Len(t)
           n == i + m - 1
<1>1. m \in Nat \ {0} /\ Len(s) \in Nat
  OBVIOUS
<1>2. n \in Nat /\ m = n - i + 1 /\ 1 <= i /\ (i + m <= Len(s) + 1 <=> n <= Len(s))
  BY <1>1
<1> HIDE DEF n
<1>3. n <= Len(s) => (SubSeq(s, i, n) = t <=> \A k \in 1..m : s[i + k - 1] = t[k])
  BY <1>2, SliceIs
<1> QED
  BY <1>2, <1>3 DEF At, Agrees, n

\* What is found in a longer sequence was there before, or ends with the new element.
LEMMA AtLonger ==
  ASSUME NEW S, NEW s \in Seq(S), NEW a \in Seq(S), NEW t \in Seq(S), t # <<>>,
         NEW i \in Nat \ {0}
  PROVE  (Len(a) = Len(s) + 1 /\ \A k \in 1..Len(s) : a[k] = s[k])
           => (At(t, a, i) <=> At(t, s, i) \/ (i = Len(s) + 2 - Len(t) /\ IsSuffix(t, a)))
<1> DEFINE n == Len(s)
           m == Len(t)
<1>1. n \in Nat /\ m \in Nat \ {0}
  OBVIOUS
<1>0. (At(t, a, i) <=> Agrees(t, a, i)) /\ (At(t, s, i) <=> Agrees(t, s, i))
  BY AtIs
<1>2. At(t, a, i) <=> i + m <= Len(a) + 1 /\ \A k \in 1..m : a[i + k - 1] = t[k]
  BY <1>0 DEF Agrees
<1>3. At(t, s, i) <=> i + m <= n + 1 /\ \A k \in 1..m : s[i + k - 1] = t[k]
  BY <1>0 DEF Agrees
<1>4. IsSuffix(t, a) <=> m <= Len(a) /\ \A k \in 1..m : a[Len(a) - m + k] = t[k]
  BY SuffixIs, SMTT(60)
<1> SUFFICES ASSUME Len(a) = n + 1, \A k \in 1..n : a[k] = s[k]
             PROVE  At(t, a, i) <=> At(t, s, i) \/ (i = n + 2 - m /\ IsSuffix(t, a))
  OBVIOUS
<1> HIDE DEF n, m
<1>5. CASE i + m <= n + 1
  <2>1. \A k \in 1..m : i + k - 1 \in 1..n
    BY <1>1, <1>5
  <2>2. i # n + 2 - m /\ i + m <= Len(a) + 1
    BY <1>1, <1>5
  <2> QED
    BY <1>2, <1>3, <1>5, <2>1, <2>2
<1>6. CASE i + m = n + 2
  <2>1. i = n + 2 - m /\ m <= Len(a) /\ ~(i + m <= n + 1) /\ i + m <= Len(a) + 1
    BY <1>1, <1>6
  <2>2. \A k \in 1..m : Len(a) - m + k = i + k - 1
    BY <1>1, <1>6
  <2>3. IsSuffix(t, a) <=> \A k \in 1..m : a[i + k - 1] = t[k]
    BY <1>4, <2>1, <2>2
  <2> QED
    BY <1>2, <1>3, <2>1, <2>3
<1>7. CASE i + m > n + 2
  <2>1. i # n + 2 - m /\ ~(i + m <= n + 1) /\ ~(i + m <= Len(a) + 1)
    BY <1>1, <1>7
  <2> QED
    BY <1>2, <1>3, <2>1
<1> QED
  BY <1>1, <1>5, <1>6, <1>7

LEMMA AtAppend ==
  ASSUME NEW S, NEW s \in Seq(S), NEW t \in Seq(S), t # <<>>, NEW e \in S, NEW i \in Nat \ {0}
  PROVE  At(t, Append(s, e), i) <=>
           At(t, s, i) \/ (i = Len(s) + 2 - Len(t) /\ IsSuffix(t, Append(s, e)))
<1> DEFINE a == Append(s, e)
<1>1. a \in Seq(S) /\ Len(a) = Len(s) + 1 /\ \A k \in 1..Len(s) : a[k] = s[k]
  OBVIOUS
<1> HIDE DEF a
<1>2. (Len(a) = Len(s) + 1 /\ \A k \in 1..Len(s) : a[k] = s[k])
        => (At(t, a, i) <=> At(t, s, i) \/ (i = Len(s) + 2 - Len(t) /\ IsSuffix(t, a)))
  BY <1>1, AtLonger, SMTT(60)
<1> QED
  BY <1>1, <1>2 DEF a

\* What is found in the first part of a sequence is found in the sequence, and what is
\* found early enough in the sequence is found in its first part.
LEMMA AtFirstPart ==
  ASSUME NEW S, NEW s \in Seq(S), NEW t \in Seq(S), NEW p \in Seq(S), t # <<>>,
         NEW i \in Nat \ {0}, Len(p) <= Len(s), \A k \in 1..Len(p) : p[k] = s[k]
  PROVE  At(t, p, i) <=> At(t, s, i) /\ i + Len(t) <= Len(p) + 1
<1>1. At(t, p, i) <=> Agrees(t, p, i)
  BY AtIs
<1>2. At(t, s, i) <=> Agrees(t, s, i)
  BY AtIs
<1>3. Len(t) \in Nat /\ Len(p) \in Nat /\ Len(s) \in Nat
  OBVIOUS
<1>4. i + Len(t) <= Len(p) + 1 => /\ i + Len(t) <= Len(s) + 1
                                  /\ \A k \in 1..Len(t) : p[i + k - 1] = s[i + k - 1]
  <2> SUFFICES ASSUME i + Len(t) <= Len(p) + 1
               PROVE  /\ i + Len(t) <= Len(s) + 1
                      /\ \A k \in 1..Len(t) : p[i + k - 1] = s[i + k - 1]
    OBVIOUS
  <2>1. \A k \in 1..Len(t) : i + k - 1 \in 1..Len(p)
    BY <1>3
  <2> QED
    BY <1>3, <2>1
<1> QED
  BY <1>1, <1>2, <1>4 DEF Agrees

\* A sequence that is found at its own beginning and again before its end begins inside
\* itself.
LEMMA AtOverlap ==
  ASSUME NEW S, NEW s \in Seq(S), NEW t \in Seq(S), t # <<>>, At(t, s, 1),
         NEW i \in 2..Len(t), At(t, s, i)
  PROVE  \E n \in 1..(Len(t) - 1) : SubSeq(t, 1, n) = SubSeq(t, Len(t) - n + 1, Len(t))
<1> DEFINE m == Len(t)
           n == m - i + 1
           u == SubSeq(t, i, m)
<1>1. m \in Nat /\ n \in 1..(m - 1) /\ m - n + 1 = i /\ i \in Nat \ {0}
  OBVIOUS
<1>2. (\A k \in 1..m : s[1 + k - 1] = t[k]) /\ (\A k \in 1..m : s[i + k - 1] = t[k])
  <2>1. Agrees(t, s, 1) /\ Agrees(t, s, i)
    BY <1>1, AtIs
  <2> QED
    BY <2>1 DEF Agrees
<1>3. \A k \in 1..n : t[k] = t[i + k - 1]
  <2> SUFFICES ASSUME NEW k \in 1..n PROVE t[k] = t[i + k - 1]
    OBVIOUS
  <2>1. k \in 1..m /\ i + k - 1 \in 1..m /\ 1 + (i + k - 1) - 1 = i + k - 1
    BY <1>1
  <2> QED
    BY <1>2, <2>1
<1>4. u \in Seq(S) /\ Len(u) = n /\ \A k \in 1..n : u[k] = t[i + k - 1]
  <2>1. \A k \in i..m : t[k] \in S
    BY <1>1
  <2>2. /\ u \in Seq(S) /\ Len(u) = (IF i <= m THEN m - i + 1 ELSE 0)
        /\ \A k \in 1..(m - i + 1) : u[k] = t[i + k - 1]
    BY <1>1, <2>1, SubSeqProperties
  <2> HIDE DEF u
  <2> QED
    BY <2>2
<1> HIDE DEF u, n, m
<1>5. SubSeq(t, 1, n) = u
  <2>1. n \in Nat /\ n <= m /\ Len(u) = n - 1 + 1 /\ \A k \in 1..n : 1 + k - 1 = k
    BY <1>1, <1>4
  <2>2. \A k \in 1..Len(u) : t[1 + k - 1] = u[k]
    BY <1>3, <1>4, <2>1
  <2> QED
    BY <1>4, <2>1, <2>2, SliceIs DEF m
<1> QED
  BY <1>1, <1>5 DEF u, m

\* The places where t is found in s, and the first of them, when s grows.
Places(t, s) == {i \in 1..Len(s) : At(t, s, i)}

LEMMA PlacesAppend ==
  ASSUME NEW S, NEW s \in Seq(S), NEW t \in Seq(S), t # <<>>, NEW e \in S
  PROVE  Places(t, Append(s, e)) =
           Places(t, s) \cup
             IF IsSuffix(t, Append(s, e)) THEN {Len(s) + 2 - Len(t)} ELSE {}
<1> DEFINE a == Append(s, e)
           last == Len(s) + 2 - Len(t)
<1>1. a \in Seq(S) /\ Len(a) = Len(s) + 1 /\ Len(s) \in Nat /\ Len(t) \in Nat \ {0}
  OBVIOUS
<1>2. \A i \in Nat \ {0} : At(t, a, i) <=> At(t, s, i) \/ (i = last /\ IsSuffix(t, a))
  BY AtAppend, SMTT(60)
<1> HIDE DEF a
<1>3. IsSuffix(t, a) => Len(t) <= Len(a)
  BY <1>1, SuffixIs, SMTT(60)
<1>4. IsSuffix(t, a) => last \in 1..Len(a)
  BY <1>1, <1>3
<1> HIDE DEF last
<1>5. \A i \in 1..Len(a) : At(t, s, i) => i \in 1..Len(s)
  BY <1>1 DEF At
<1>6. \A i \in 1..Len(a) : i \in Nat \ {0}
  BY <1>1
<1>7. \A i \in 1..Len(s) : i \in 1..Len(a)
  BY <1>1
<1>8. Places(t, a) = Places(t, s) \cup IF IsSuffix(t, a) THEN {last} ELSE {}
  BY <1>2, <1>4, <1>5, <1>6, <1>7 DEF Places
<1> QED
  BY <1>8 DEF a, last

LEMMA FirstPlaceKept ==
  ASSUME NEW S, NEW s \in Seq(S), NEW t \in Seq(S), t # <<>>, NEW e \in S, Places(t, s) # {}
  PROVE  /\ Places(t, Append(s, e)) # {}
         /\ Min(Places(t, s)) \in 1..Len(s)
         /\ Min(Places(t, Append(s, e))) = Min(Places(t, s))
<1> DEFINE P == Places(t, s)
           Q == Places(t, Append(s, e))
           last == Len(s) + 2 - Len(t)
<1>1. P \in SUBSET Nat /\ P \subseteq 1..Len(s) /\ Len(s) \in Nat /\ Len(t) \in Nat \ {0}
  BY DEF Places
<1>2. Q = P \cup IF IsSuffix(t, Append(s, e)) THEN {last} ELSE {}
  BY PlacesAppend, SMTT(60)
<1>3. \A i \in P : i < last
  BY <1>1 DEF Places, At
<1>4. Q \in SUBSET Nat
  BY DEF Places
<1> HIDE DEF P, Q
<1>5. Min(P) \in P /\ \A i \in P : Min(P) <= i
  BY <1>1, MinIs DEF P
<1>6. Min(P) \in Q /\ \A i \in Q : Min(P) <= i
  <2> HIDE DEF last
  <2>1. \A i \in Q : i \in P \/ i = last
    BY <1>2
  <2>2. Min(P) < last /\ Min(P) \in Nat /\ last \in Int
    <3>1. Min(P) \in 1..Len(s)
      BY <1>1, <1>5
    <3>2. Min(P) < last
      BY <1>3, <1>5
    <3>3. last \in Int
      BY <1>1 DEF last
    <3> QED
      BY <1>1, <3>1, <3>2, <3>3
  <2> QED
    BY <1>1, <1>2, <1>5, <2>1, <2>2
<1>7. Min(Q) = Min(P)
  BY <1>4, <1>6, MinUnique
<1> QED
  BY <1>1, <1>5, <1>6, <1>7 DEF P, Q

LEMMA FirstPlaceNew ==
  ASSUME NEW S, NEW s \in Seq(S), NEW t \in Seq(S), t # <<>>, NEW e \in S, NEW a,
         a = Append(s, e), Places(t, s) = {}
  PROVE  /\ ~IsSuffix(t, a) => Places(t, a) = {}
         /\ IsSuffix(t, a) => /\ Places(t, a) # {}
                              /\ SubSeq(a, Min(Places(t, a)), Len(s) + 1) = t
<1> DEFINE last == Len(s) + 2 - Len(t)
<1>1. Places(t, a) = Places(t, s) \cup IF IsSuffix(t, a) THEN {last} ELSE {}
  BY PlacesAppend, SMTT(60)
<1>2. Len(s) \in Nat /\ Len(t) \in Nat \ {0}
  OBVIOUS
<1>3. ASSUME IsSuffix(t, a) PROVE Places(t, a) # {} /\ SubSeq(a, Min(Places(t, a)), Len(s) + 1) = t
  <2>1. Places(t, a) = {last}
    BY <1>1, <1>3
  <2>2. last \in Nat /\ SubSeq(a, last, last + Len(t) - 1) = t
    <3>1. last \in Places(t, a)
      BY <2>1
    <3> HIDE DEF last
    <3> QED
      BY <3>1 DEF Places, At
  <2>3. Min({last}) = last
    BY <2>2, MinUnique
  <2>4. last + Len(t) - 1 = Len(s) + 1
    BY <1>2
  <2> HIDE DEF last
  <2> QED
    BY <2>1, <2>2, <2>3, <2>4
<1> QED
  BY <1>1, <1>3
=============================================================================
