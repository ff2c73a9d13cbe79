----------------------------- MODULE FoldProofs -----------------------------
(***************************************************************************)
(* What the folds of the community modules compute, for every argument:    *)
(* SumFunctionOnSet and FlattenSeq.  Induction over the naturals is stated *)
(* for a set of them, so that it can be cited with the set that a property *)
(* defines.                                                                *)
(***************************************************************************)
EXTENDS Integers, Sequences, FiniteSets, Functions, SequencesExt,
        FiniteSetTheorems, SequenceTheorems, WellFoundedInduction, TLAPS

-----------------------------------------------------------------------------
\* The naturals are well-ordered.
LEMMA LeastNatural ==
  ASSUME NEW S \in SUBSET Nat, S /= {}
  PROVE  \E n \in S : \A m \in S : n <= m
<1>1. PICK n \in S : \A m \in S : <<m, n>> \notin OpToRel(<, Nat)
  BY NatLessThanWellFounded, WFMin
<1>2. ASSUME NEW m \in S PROVE ~(m < n)
  BY <1>1 DEF OpToRel
<1>3. n \in Nat /\ \A m \in S : m \in Nat  OBVIOUS
<1>. QED BY <1>2, <1>3

\* Induction: a set of naturals that has 0 and every successor has them all.
LEMMA InductiveSet ==
  ASSUME NEW P \in SUBSET Nat, 0 \in P, \A n \in P : n + 1 \in P
  PROVE  P = Nat
<1>1. SUFFICES ASSUME P /= Nat PROVE FALSE
  OBVIOUS
<1>2. Nat \ P \in SUBSET Nat /\ Nat \ P /= {}
  BY <1>1
<1>3. PICK n \in Nat \ P : \A m \in Nat \ P : n <= m
  BY <1>2, LeastNatural
<1>4. n /= 0 /\ n - 1 \in Nat /\ n - 1 < n
  BY <1>3
<1>5. n - 1 \in P
  BY <1>3, <1>4
<1>6. (n - 1) + 1 \in P
  BY <1>5
<1>. QED BY <1>3, <1>4, <1>6

-----------------------------------------------------------------------------
\* Sums over finite sets.

\* The element a fold takes out next.
Pick(s) == CHOOSE x \in s : TRUE

\* One unfolding of the recursive function under SumFunctionOnSet.
SumBody(f, S, iter) ==
  [s \in SUBSET S |-> IF s = {} THEN 0 ELSE f[Pick(s)] + iter[s \ {Pick(s)}]]

LEMMA PickElement == ASSUME NEW s, s /= {} PROVE Pick(s) \in s
  BY DEF Pick

LEMMA SumIsIteration ==
  ASSUME NEW f, NEW S
  PROVE  SumFunctionOnSet(f, S) = (CHOOSE iter : iter = SumBody(f, S, iter))[S]
  BY DEF SumFunctionOnSet, FoldFunctionOnSet, MapThenFoldSet, SumBody, Pick

\* A set without its picked element is a smaller one.
LEMMA PickRemoved ==
  ASSUME NEW s, IsFiniteSet(s), s /= {}
  PROVE  /\ Pick(s) \in s /\ s \ {Pick(s)} \in SUBSET s /\ IsFiniteSet(s \ {Pick(s)})
         /\ Cardinality(s) \in Nat /\ Cardinality(s \ {Pick(s)}) = Cardinality(s) - 1
         /\ Cardinality(s \ {Pick(s)}) \in Nat
<1>1. Pick(s) \in s  BY PickElement
<1>2. /\ IsFiniteSet(s \ {Pick(s)}) /\ Cardinality(s \ {Pick(s)}) = Cardinality(s) - 1
  BY <1>1, FS_RemoveElement
<1>3. Cardinality(s) \in Nat /\ Cardinality(s \ {Pick(s)}) \in Nat
  BY <1>2, FS_CardinalityType
<1>. QED BY <1>1, <1>2, <1>3

\* Induction over finite sets: what holds of {} and of every set if it holds of the
\* set without its picked element.  Q is the set of those it holds of.
LEMMA FiniteSetInduction ==
  ASSUME NEW S, IsFiniteSet(S), NEW Q, {} \in Q,
         \A s \in SUBSET S : s /= {} /\ s \ {Pick(s)} \in Q => s \in Q
  PROVE  SUBSET S \subseteq Q
<1>. DEFINE P == {n \in Nat : \A s \in SUBSET S : Cardinality(s) = n => s \in Q}
<1>1. \A s \in SUBSET S : IsFiniteSet(s) /\ Cardinality(s) \in Nat
  BY FS_Subset, FS_CardinalityType
<1>2. 0 \in P
  BY <1>1, FS_EmptySet
<1>3. ASSUME NEW n \in P PROVE n + 1 \in P
  <2>1. SUFFICES ASSUME NEW s \in SUBSET S, Cardinality(s) = n + 1 PROVE s \in Q
    OBVIOUS
  <2>2. s /= {}  BY <2>1, FS_EmptySet
  <2>3. s \ {Pick(s)} \in SUBSET S /\ Cardinality(s \ {Pick(s)}) = n
    BY <1>1, <2>1, <2>2, PickRemoved
  <2>4. s \ {Pick(s)} \in Q  BY <2>3
  <2>. QED BY <2>2, <2>4
<1>4. P = Nat
  <2>. HIDE DEF P
  <2>1. P \in SUBSET Nat  BY DEF P
  <2>. QED BY <2>1, <1>2, <1>3, InductiveSet
<1>. QED BY <1>1, <1>4

\* The recursion of a sum over a finite set has a solution.
LEMMA SumBodyExists ==
  ASSUME NEW f, NEW S, IsFiniteSet(S)
  PROVE  \E iter : iter = SumBody(f, S, iter)
<1>. DEFINE Upto(g, n) == \A s \in SUBSET S : Cardinality(s) <= n => g[s] = SumBody(f, S, g)[s]
            P == {n \in Nat : \E g : Upto(g, n)}
<1>1. \A s \in SUBSET S : IsFiniteSet(s) /\ Cardinality(s) \in Nat
  BY FS_Subset, FS_CardinalityType
<1>2. 0 \in P
  <2>. DEFINE z == [s \in SUBSET S |-> 0]
  <2>1. ASSUME NEW s \in SUBSET S, Cardinality(s) <= 0 PROVE z[s] = SumBody(f, S, z)[s]
    <3>1. s = {}  BY <1>1, <2>1, FS_EmptySet
    <3>. QED BY <3>1 DEF SumBody
  <2>2. Upto(z, 0)  BY <2>1
  <2>. HIDE DEF z, Upto
  <2>. QED BY <2>2
<1>3. ASSUME NEW n \in P PROVE n + 1 \in P
  <2>1. PICK g : Upto(g, n)  OBVIOUS
  <2>. DEFINE h == SumBody(f, S, g)
  <2>. HIDE DEF h
  <2>2. ASSUME NEW s \in SUBSET S, Cardinality(s) <= n + 1 PROVE h[s] = SumBody(f, S, h)[s]
    <3>1. CASE s = {}  BY <3>1 DEF h, SumBody
    <3>2. CASE s /= {}
      <4>. DEFINE t == s \ {Pick(s)}
      <4>1. t \in SUBSET S /\ Cardinality(t) <= n
        BY <1>1, <2>2, <3>2, PickRemoved
      <4>2. h[t] = g[t]  BY <2>1, <4>1 DEF h
      <4>3. h[s] = f[Pick(s)] + g[t]  BY <3>2 DEF h, SumBody
      <4>4. SumBody(f, S, h)[s] = f[Pick(s)] + h[t]  BY <3>2 DEF SumBody
      <4>. QED BY <4>2, <4>3, <4>4
    <3>. QED BY <3>1, <3>2
  <2>3. Upto(h, n + 1)  BY <2>2
  <2>. HIDE DEF Upto
  <2>. QED BY <2>3
<1>4. P = Nat
  <2>. HIDE DEF P
  <2>1. P \in SUBSET Nat  BY DEF P
  <2>. QED BY <2>1, <1>2, <1>3, InductiveSet
<1>5. PICK g : Upto(g, Cardinality(S))
  BY <1>1, <1>4
<1>6. \A s \in SUBSET S : g[s] = SumBody(f, S, g)[s]
  BY <1>1, <1>5, FS_Subset
<1>. DEFINE h == SumBody(f, S, g)
<1>7. \A s \in SUBSET S : h[s] = g[s]  BY <1>6
<1>8. h = SumBody(f, S, h)
  <2>1. ASSUME NEW s \in SUBSET S, s /= {} PROVE h[s \ {Pick(s)}] = g[s \ {Pick(s)}]
    BY <1>7
  <2>. QED BY <2>1 DEF SumBody
<1>. QED BY <1>8

\* Solutions for f over S and for k over a subset T agree where f and k do.
LEMMA SumBodyUnique ==
  ASSUME NEW f, NEW k, NEW S, IsFiniteSet(S), NEW T \in SUBSET S, \A x \in T : f[x] = k[x],
         NEW g, g = SumBody(f, S, g), NEW h, h = SumBody(k, T, h)
  PROVE  g[T] = h[T]
<1>. DEFINE Q == {s \in SUBSET T : g[s] = h[s]}
<1>1. IsFiniteSet(T)  BY FS_Subset
<1>2. \A s \in SUBSET T : /\ g[s] = IF s = {} THEN 0 ELSE f[Pick(s)] + g[s \ {Pick(s)}]
                          /\ h[s] = IF s = {} THEN 0 ELSE k[Pick(s)] + h[s \ {Pick(s)}]
  BY DEF SumBody
<1>3. {} \in Q  BY <1>2
<1>4. ASSUME NEW s \in SUBSET T, s /= {}, s \ {Pick(s)} \in Q PROVE s \in Q
  <2>1. Pick(s) \in T  BY <1>4, PickElement
  <2>. QED BY <1>2, <1>4, <2>1
<1>5. SUBSET T \subseteq Q
  <2>. HIDE DEF Q
  <2>. QED BY <1>1, <1>3, <1>4, FiniteSetInduction
<1>. QED BY <1>5

\* The defining equation of a sum, and that it only looks at the elements of its set.
LEMMA SumUnfold ==
  ASSUME NEW f, NEW S, IsFiniteSet(S)
  PROVE  SumFunctionOnSet(f, S) =
           IF S = {} THEN 0 ELSE f[Pick(S)] + SumFunctionOnSet(f, S \ {Pick(S)})
<1>. DEFINE g == CHOOSE iter : iter = SumBody(f, S, iter)
            T == S \ {Pick(S)}
            h == CHOOSE iter : iter = SumBody(f, T, iter)
<1>1. IsFiniteSet(T) /\ T \in SUBSET S  BY FS_Subset
<1>2. g = SumBody(f, S, g) /\ h = SumBody(f, T, h)
  BY <1>1, SumBodyExists
<1>3. SumFunctionOnSet(f, S) = g[S] /\ SumFunctionOnSet(f, T) = h[T]
  BY SumIsIteration
<1>. HIDE DEF g, h
<1>4. g[T] = h[T]
  BY <1>1, <1>2, SumBodyUnique
<1>5. g[S] = IF S = {} THEN 0 ELSE f[Pick(S)] + g[T]
  BY <1>2 DEF SumBody
<1>. QED BY <1>3, <1>4, <1>5

LEMMA SumCongruence ==
  ASSUME NEW f, NEW k, NEW S, IsFiniteSet(S), \A x \in S : f[x] = k[x]
  PROVE  SumFunctionOnSet(f, S) = SumFunctionOnSet(k, S)
<1>. DEFINE g == CHOOSE iter : iter = SumBody(f, S, iter)
            h == CHOOSE iter : iter = SumBody(k, S, iter)
<1>1. g = SumBody(f, S, g) /\ h = SumBody(k, S, h)
  BY SumBodyExists
<1>2. SumFunctionOnSet(f, S) = g[S] /\ SumFunctionOnSet(k, S) = h[S]
  BY SumIsIteration
<1>. HIDE DEF g, h
<1>. QED BY <1>1, <1>2, SumBodyUnique

LEMMA SumEmpty == ASSUME NEW f PROVE SumFunctionOnSet(f, {}) = 0
  BY SumUnfold, FS_EmptySet

LEMMA SumType ==
  ASSUME NEW f, NEW S, IsFiniteSet(S), \A x \in S : f[x] \in Nat
  PROVE  SumFunctionOnSet(f, S) \in Nat
<1>. DEFINE Q == {s \in SUBSET S : SumFunctionOnSet(f, s) \in Nat}
<1>1. {} \in Q  BY SumEmpty
<1>2. ASSUME NEW s \in SUBSET S, s /= {}, s \ {Pick(s)} \in Q PROVE s \in Q
  <2>1. IsFiniteSet(s) /\ f[Pick(s)] \in Nat  BY <1>2, FS_Subset, PickElement
  <2>2. SumFunctionOnSet(f, s) = f[Pick(s)] + SumFunctionOnSet(f, s \ {Pick(s)})
    BY <1>2, <2>1, SumUnfold
  <2>. QED BY <1>2, <2>1, <2>2
<1>3. SUBSET S \subseteq Q
  <2>. HIDE DEF Q
  <2>. QED BY <1>1, <1>2, FiniteSetInduction
<1>. QED BY <1>3

\* Any element can be taken out of a sum, not only the picked one.
LEMMA SumRemove ==
  ASSUME NEW f, NEW S, IsFiniteSet(S), \A x \in S : f[x] \in Nat, NEW x \in S
  PROVE  SumFunctionOnSet(f, S) = f[x] + SumFunctionOnSet(f, S \ {x})
<1>. DEFINE Sum(s) == SumFunctionOnSet(f, s)
            P == {n \in Nat : \A s \in SUBSET S : Cardinality(s) = n =>
                                \A y \in s : Sum(s) = f[y] + Sum(s \ {y})}
<1>1. ASSUME NEW s \in SUBSET S PROVE IsFiniteSet(s) /\ Cardinality(s) \in Nat /\ Sum(s) \in Nat
  <2>1. IsFiniteSet(s) /\ \A y \in s : f[y] \in Nat
    BY FS_Subset
  <2>. QED BY <2>1, SumType, FS_CardinalityType
<1>2. ASSUME NEW s \in SUBSET S, NEW y \in s
      PROVE  s \ {y} \in SUBSET S /\ Cardinality(s \ {y}) = Cardinality(s) - 1
  BY <1>1, <1>2, FS_RemoveElement
<1>. HIDE DEF Sum
<1>3. 0 \in P
  BY <1>1, FS_EmptySet
<1>4. ASSUME NEW n \in P PROVE n + 1 \in P
  <2>1. SUFFICES ASSUME NEW s \in SUBSET S, Cardinality(s) = n + 1, NEW y \in s
                 PROVE  Sum(s) = f[y] + Sum(s \ {y})
    OBVIOUS
  <2>. DEFINE p == Pick(s)
  <2>2. p \in s  BY PickElement
  <2>. HIDE DEF p
  <2>3. Sum(s) = f[p] + Sum(s \ {p})  BY <1>1, <2>1, SumUnfold DEF p, Sum
  <2>4. ASSUME y /= p PROVE Sum(s) = f[y] + Sum(s \ {y})
    <3>1. /\ s \ {p} \in SUBSET S /\ Cardinality(s \ {p}) = n /\ y \in s \ {p}
          /\ s \ {y} \in SUBSET S /\ Cardinality(s \ {y}) = n /\ p \in s \ {y}
      BY <1>2, <2>1, <2>2, <2>4
    <3>2. Sum(s \ {p}) = f[y] + Sum((s \ {p}) \ {y})  BY <3>1
    <3>3. Sum(s \ {y}) = f[p] + Sum((s \ {y}) \ {p})  BY <3>1
    <3>4. (s \ {p}) \ {y} = (s \ {y}) \ {p} /\ (s \ {p}) \ {y} \in SUBSET S  OBVIOUS
    <3>5. f[p] \in Nat /\ f[y] \in Nat /\ Sum((s \ {p}) \ {y}) \in Nat
      BY <1>1, <2>1, <2>2, <3>4
    <3>. QED BY <2>3, <3>2, <3>3, <3>4, <3>5
  <2>. QED BY <2>3, <2>4
<1>5. P = Nat
  <2>. HIDE DEF P
  <2>1. P \in SUBSET Nat  BY DEF P
  <2>. QED BY <2>1, <1>3, <1>4, InductiveSet
<1>6. Sum(S) = f[x] + Sum(S \ {x})
  BY <1>1, <1>5
<1>. QED BY <1>6 DEF Sum

\* One summand is changed.
LEMMA SumChange ==
  ASSUME NEW f, NEW k, NEW S, IsFiniteSet(S), NEW x \in S,
         \A y \in S : f[y] \in Nat /\ k[y] \in Nat, \A y \in S \ {x} : k[y] = f[y]
  PROVE  SumFunctionOnSet(k, S) + f[x] = SumFunctionOnSet(f, S) + k[x]
<1>1. IsFiniteSet(S \ {x}) /\ \A y \in S \ {x} : f[y] \in Nat  BY FS_Subset
<1>2. SumFunctionOnSet(k, S \ {x}) = SumFunctionOnSet(f, S \ {x})
  BY <1>1, SumCongruence
<1>3. SumFunctionOnSet(f, S \ {x}) \in Nat  BY <1>1, SumType
<1>4. /\ SumFunctionOnSet(f, S) = f[x] + SumFunctionOnSet(f, S \ {x})
      /\ SumFunctionOnSet(k, S) = k[x] + SumFunctionOnSet(k, S \ {x})
  BY SumRemove
<1>. QED BY <1>2, <1>3, <1>4
-----------------------------------------------------------------------------
\* Concatenation of a sequence of sequences.

\* One unfolding of the recursive function under FlattenSeq.
FlatBody(ss, flat) ==
  [k \in 1 .. Len(ss) |-> IF k = 1 THEN ss[k] ELSE flat[k - 1] \o ss[k]]

Flat(ss) == CHOOSE flat : flat = FlatBody(ss, flat)

LEMMA FlattenIsFlat ==
  ASSUME NEW ss, Len(ss) /= 0
  PROVE  FlattenSeq(ss) = Flat(ss)[Len(ss)]
  BY DEF FlattenSeq, Flat, FlatBody

\* The recursion has a solution.
LEMMA FlatExists ==
  ASSUME NEW ss, Len(ss) \in Nat
  PROVE  Flat(ss) = FlatBody(ss, Flat(ss))
<1>. DEFINE Upto(g, n) == \A k \in 1 .. Len(ss) : k <= n => g[k] = FlatBody(ss, g)[k]
            P == {n \in Nat : \E g : Upto(g, n)}
<1>1. 0 \in P
  <2>1. Upto(ss, 0)  OBVIOUS
  <2>. HIDE DEF Upto
  <2>. QED BY <2>1
<1>2. ASSUME NEW n \in P PROVE n + 1 \in P
  <2>1. PICK g : Upto(g, n)  OBVIOUS
  <2>. DEFINE h == FlatBody(ss, g)
  <2>. HIDE DEF h
  <2>2. ASSUME NEW k \in 1 .. Len(ss), k <= n + 1 PROVE h[k] = FlatBody(ss, h)[k]
    <3>1. CASE k = 1  BY <3>1 DEF h, FlatBody
    <3>2. CASE k /= 1
      <4>1. k - 1 \in 1 .. Len(ss) /\ k - 1 <= n  BY <2>2, <3>2
      <4>2. h[k - 1] = g[k - 1]  BY <2>1, <4>1 DEF h
      <4>3. h[k] = g[k - 1] \o ss[k]  BY <3>2 DEF h, FlatBody
      <4>4. FlatBody(ss, h)[k] = h[k - 1] \o ss[k]  BY <3>2 DEF FlatBody
      <4>. QED BY <4>2, <4>3, <4>4
    <3>. QED BY <3>1, <3>2
  <2>3. Upto(h, n + 1)  BY <2>2
  <2>. HIDE DEF Upto
  <2>. QED BY <2>3
<1>3. P = Nat
  <2>. HIDE DEF P
  <2>1. P \in SUBSET Nat  BY DEF P
  <2>. QED BY <2>1, <1>1, <1>2, InductiveSet
<1>4. PICK g : Upto(g, Len(ss))
  BY <1>3
<1>. DEFINE h == FlatBody(ss, g)
<1>5. \A k \in 1 .. Len(ss) : h[k] = g[k]  BY <1>4
<1>6. h = FlatBody(ss, h)
  <2>1. ASSUME NEW k \in 1 .. Len(ss), k /= 1 PROVE h[k - 1] = g[k - 1]
    <3>1. k - 1 \in 1 .. Len(ss)  BY <2>1
    <3>. QED BY <1>5, <3>1
  <2>. QED BY <2>1 DEF FlatBody
<1>. HIDE DEF h
<1>. QED BY <1>6 DEF Flat

LEMMA FlatAt ==
  ASSUME NEW ss, Len(ss) \in Nat, NEW k \in 1 .. Len(ss)
  PROVE  Flat(ss)[k] = IF k = 1 THEN ss[k] ELSE Flat(ss)[k - 1] \o ss[k]
<1>1. Flat(ss) = FlatBody(ss, Flat(ss))  BY FlatExists
<1>2. FlatBody(ss, Flat(ss))[k] = IF k = 1 THEN ss[k] ELSE Flat(ss)[k - 1] \o ss[k]
  BY DEF FlatBody
<1>. QED BY <1>1, <1>2

LEMMA FlatType ==
  ASSUME NEW T, NEW ss \in Seq(Seq(T)), NEW k \in 1 .. Len(ss)
  PROVE  Flat(ss)[k] \in Seq(T)
<1>. DEFINE P == {n \in Nat : \A j \in 1 .. Len(ss) : j <= n => Flat(ss)[j] \in Seq(T)}
<1>0. Len(ss) \in Nat /\ \A j \in 1 .. Len(ss) : ss[j] \in Seq(T)  OBVIOUS
<1>1. 0 \in P  BY <1>0
<1>2. ASSUME NEW n \in P PROVE n + 1 \in P
  <2>1. SUFFICES ASSUME NEW j \in 1 .. Len(ss), j <= n + 1 PROVE Flat(ss)[j] \in Seq(T)
    OBVIOUS
  <2>2. CASE j = 1
    <3>1. Flat(ss)[j] = ss[j]  BY <1>0, <2>2, FlatAt
    <3>. QED BY <1>0, <3>1
  <2>3. CASE j /= 1
    <3>1. Flat(ss)[j] = Flat(ss)[j - 1] \o ss[j]  BY <1>0, <2>3, FlatAt
    <3>2. j - 1 \in 1 .. Len(ss) /\ j - 1 <= n  BY <1>0, <2>1, <2>3
    <3>3. Flat(ss)[j - 1] \in Seq(T) /\ ss[j] \in Seq(T)  BY <1>0, <3>2
    <3>. QED BY <3>1, <3>3
  <2>. QED BY <2>2, <2>3
<1>3. P = Nat
  <2>. HIDE DEF P
  <2>1. P \in SUBSET Nat  BY DEF P
  <2>. QED BY <2>1, <1>1, <1>2, InductiveSet
<1>4. Len(ss) \in P  BY <1>0, <1>3
<1>. QED BY <1>0, <1>4

LEMMA FlattenEmpty == FlattenSeq(<<>>) = <<>>
  BY DEF FlattenSeq

LEMMA FlattenType ==
  ASSUME NEW T, NEW ss \in Seq(Seq(T))
  PROVE  FlattenSeq(ss) \in Seq(T)
<1>1. CASE Len(ss) = 0
  BY <1>1 DEF FlattenSeq
<1>2. CASE Len(ss) /= 0
  <2>1. Len(ss) \in 1 .. Len(ss)  BY <1>2
  <2>. QED BY <1>2, <2>1, FlatType, FlattenIsFlat
<1>. QED BY <1>1, <1>2

\* One sequence more at the end.
LEMMA FlattenAppend ==
  ASSUME NEW T, NEW ss \in Seq(Seq(T)), NEW t \in Seq(T)
  PROVE  FlattenSeq(Append(ss, t)) = FlattenSeq(ss) \o t
<1>. DEFINE n == Len(ss)
            aa == Append(ss, t)
            P == {m \in Nat : \A k \in 1 .. n : k <= m => Flat(aa)[k] = Flat(ss)[k]}
<1>0. /\ n \in Nat /\ aa \in Seq(Seq(T)) /\ Len(aa) = n + 1 /\ aa[n + 1] = t
      /\ \A k \in 1 .. n : aa[k] = ss[k]
  OBVIOUS
<1>. HIDE DEF aa
<1>1. 0 \in P  OBVIOUS
<1>2. ASSUME NEW m \in P PROVE m + 1 \in P
  <2>1. SUFFICES ASSUME NEW k \in 1 .. n, k <= m + 1 PROVE Flat(aa)[k] = Flat(ss)[k]
    OBVIOUS
  <2>2. /\ Flat(aa)[k] = IF k = 1 THEN aa[k] ELSE Flat(aa)[k - 1] \o aa[k]
        /\ Flat(ss)[k] = IF k = 1 THEN ss[k] ELSE Flat(ss)[k - 1] \o ss[k]
    <3>1. k \in 1 .. Len(aa) /\ Len(aa) \in Nat  BY <1>0
    <3>. QED BY <1>0, <3>1, FlatAt
  <2>3. k /= 1 => Flat(aa)[k - 1] = Flat(ss)[k - 1]
    <3>1. SUFFICES ASSUME k /= 1 PROVE k - 1 \in 1 .. n /\ k - 1 <= m
      BY <1>0
    <3>. QED BY <2>1, <3>1, <1>0
  <2>. QED BY <1>0, <2>2, <2>3
<1>3. P = Nat
  <2>. HIDE DEF P
  <2>1. P \in SUBSET Nat  BY DEF P
  <2>. QED BY <2>1, <1>1, <1>2, InductiveSet
<1>4. FlattenSeq(aa) = Flat(aa)[n + 1]
  <2>1. Len(aa) /= 0  BY <1>0
  <2>. QED BY <1>0, <2>1, FlattenIsFlat
<1>5. Flat(aa)[n + 1] = IF n + 1 = 1 THEN aa[n + 1] ELSE Flat(aa)[(n + 1) - 1] \o aa[n + 1]
  <2>1. n + 1 \in 1 .. Len(aa) /\ Len(aa) \in Nat  BY <1>0
  <2>. QED BY <2>1, FlatAt
<1>6. CASE n = 0
  <2>1. ss = <<>> /\ FlattenSeq(ss) = <<>>  BY <1>6, FlattenEmpty
  <2>2. FlattenSeq(aa) = t  BY <1>0, <1>4, <1>5, <1>6
  <2>. QED BY <2>1, <2>2, ConcatEmptySeq DEF aa
<1>7. CASE n /= 0
  <2>1. n \in 1 .. n /\ (n + 1) - 1 = n /\ n + 1 /= 1  BY <1>0, <1>7
  <2>2. Flat(aa)[n] = Flat(ss)[n]
    <3>1. n \in P  BY <1>0, <1>3
    <3>. QED BY <1>0, <2>1, <3>1
  <2>3. FlattenSeq(ss) = Flat(ss)[n]  BY <1>7, FlattenIsFlat
  <2>. QED BY <1>0, <1>4, <1>5, <2>1, <2>2, <2>3 DEF aa
<1>. QED BY <1>6, <1>7

\* Concatenation as an operator the provers do not rewrite.
Cat(s, t) == s \o t

LEMMA CatAssociative ==
  ASSUME NEW T, NEW s \in Seq(T), NEW t \in Seq(T), NEW u \in Seq(T)
  PROVE  Cat(Cat(s, t), u) = Cat(s, Cat(t, u))
  BY DEF Cat

\* One sequence more at the front.
LEMMA FlattenCons ==
  ASSUME NEW T, NEW t \in Seq(T), NEW ss \in Seq(Seq(T))
  PROVE  FlattenSeq(<<t>> \o ss) = t \o FlattenSeq(ss)
<1>. DEFINE n == Len(ss)
            cc == <<t>> \o ss
            P == {m \in Nat : \A k \in 1 .. n : k <= m => Flat(cc)[k + 1] = t \o Flat(ss)[k]}
<1>0. /\ n \in Nat /\ cc \in Seq(Seq(T)) /\ Len(cc) = n + 1 /\ cc[1] = t
      /\ \A k \in 1 .. n : cc[k + 1] = ss[k]
  <2>1. <<t>> \in Seq(Seq(T)) /\ Len(<<t>>) = 1 /\ <<t>>[1] = t  OBVIOUS
  <2>. QED BY <2>1, ConcatProperties
<1>. HIDE DEF cc
<1>c. Flat(cc)[1] = t
  <2>1. 1 \in 1 .. Len(cc) /\ Len(cc) \in Nat  BY <1>0
  <2>. QED BY <1>0, <2>1, FlatAt
<1>1. 0 \in P  OBVIOUS
<1>2. ASSUME NEW m \in P PROVE m + 1 \in P
  <2>1. SUFFICES ASSUME NEW k \in 1 .. n, k <= m + 1 PROVE Flat(cc)[k + 1] = t \o Flat(ss)[k]
    OBVIOUS
  <2>2. Flat(cc)[k + 1] = Flat(cc)[k] \o ss[k]
    <3>1. k + 1 \in 1 .. Len(cc) /\ Len(cc) \in Nat /\ (k + 1) - 1 = k /\ k + 1 /= 1  BY <1>0
    <3>2. Flat(cc)[k + 1] = IF k + 1 = 1 THEN cc[k + 1] ELSE Flat(cc)[(k + 1) - 1] \o cc[k + 1]
      BY <3>1, FlatAt
    <3>. QED BY <1>0, <3>1, <3>2
  <2>3. CASE k = 1
    <3>1. Flat(ss)[k] = ss[k]  BY <1>0, <2>3, FlatAt
    <3>. QED BY <1>c, <2>2, <2>3, <3>1
  <2>4. CASE k /= 1
    <3>1. k - 1 \in 1 .. n /\ k - 1 <= m /\ (k - 1) + 1 = k  BY <1>0, <2>1, <2>4
    <3>2. Flat(cc)[k] = t \o Flat(ss)[k - 1]  BY <3>1
    <3>3. Flat(ss)[k] = Flat(ss)[k - 1] \o ss[k]  BY <1>0, <2>4, FlatAt
    <3>4. Flat(ss)[k - 1] \in Seq(T) /\ ss[k] \in Seq(T)  BY <3>1, FlatType
    <3>5. Flat(cc)[k + 1] = Cat(Cat(t, Flat(ss)[k - 1]), ss[k])  BY <2>2, <3>2 DEF Cat
    <3>6. Flat(ss)[k] = Cat(Flat(ss)[k - 1], ss[k])  BY <3>3 DEF Cat
    <3>7. Flat(cc)[k + 1] = Cat(t, Flat(ss)[k])  BY <3>4, <3>5, <3>6, CatAssociative
    <3>. QED BY <3>7 DEF Cat
  <2>. QED BY <2>3, <2>4
<1>3. P = Nat
  <2>. HIDE DEF P
  <2>1. P \in SUBSET Nat  BY DEF P
  <2>. QED BY <2>1, <1>1, <1>2, InductiveSet
<1>4. FlattenSeq(cc) = Flat(cc)[n + 1]
  <2>1. Len(cc) /= 0  BY <1>0
  <2>. QED BY <1>0, <2>1, FlattenIsFlat
<1>5. CASE n = 0
  <2>1. ss = <<>> /\ FlattenSeq(ss) = <<>>  BY <1>5, FlattenEmpty
  <2>. QED BY <1>c, <1>4, <1>5, <2>1, ConcatEmptySeq DEF cc
<1>6. CASE n /= 0
  <2>1. n \in 1 .. n  BY <1>0, <1>6
  <2>2. FlattenSeq(ss) = Flat(ss)[n]  BY <1>6, FlattenIsFlat
  <2>3. n \in P  BY <1>0, <1>3
  <2>4. Flat(cc)[n + 1] = t \o Flat(ss)[n]  BY <1>0, <2>1, <2>3
  <2>. QED BY <1>4, <2>2, <2>4 DEF cc
<1>. QED BY <1>5, <1>6
=============================================================================
