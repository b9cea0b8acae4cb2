--------------------------- MODULE LeastElements ----------------------------
(***************************************************************************)
(* Facts about numbers and sequences that the proofs of several components *)
(* need.  The provers cannot instantiate an induction theorem, so facts    *)
(* that need an induction argue from a least counterexample.               *)
(***************************************************************************)
EXTENDS Integers, FiniteSets, SequencesExt, SequenceTheorems, WellFoundedInduction, TLAPS

\* A set of naturals has a least element.
LEMMA LeastNatural ==
    ASSUME NEW S, S \subseteq Nat, S # {}
    PROVE  \E m \in S : \A k \in S : m <= k
<1> DEFINE R == OpToRel(<, Nat)
<1>1. IsWellFoundedOn(R, Nat)
  BY NatLessThanWellFounded
<1>2. \A k, m \in S : k < m => <<k, m>> \in R
  BY DEF OpToRel
<1> HIDE DEF R
<1>3. PICK m \in S : \A k \in S : ~ (<<k, m>> \in R)
  BY <1>1, WFMin
<1>4. ASSUME NEW k \in S PROVE m <= k
  <2>1. ~ (k < m)
    BY <1>2, <1>3
  <2>2. k \in Nat /\ m \in Nat
    OBVIOUS
  <2> QED BY <2>1, <2>2
<1> QED BY <1>3, <1>4

\* The recursion of FlattenSeq, as an equation of the function f on 1 .. n.
Joins(f, src, n) ==
    f = [i \in 1 .. n |-> IF i = 1 THEN src[i] ELSE f[i - 1] \o src[i]]

\* The recursion has a solution.
LEMMA JoinExists ==
    ASSUME NEW n \in Nat, NEW src
    PROVE  \E f : Joins(f, src, n)
<1> DEFINE Solved(m) == \E f : Joins(f, src, m)
           Bad == {m \in 0 .. n : ~ Solved(m)}
<1>1. Solved(0)
  <2> DEFINE f == [i \in 1 .. 0 |-> <<>>]
  <2>1. f = [i \in 1 .. 0 |-> IF i = 1 THEN src[i] ELSE f[i - 1] \o src[i]]
    OBVIOUS
  <2>2. Joins(f, src, 0)
    BY <2>1 DEF Joins
  <2> QED BY <2>2
<1>2. ASSUME NEW m \in 1 .. n, Solved(m - 1) PROVE Solved(m)
  <2>1. PICK f : Joins(f, src, m - 1)
    BY <1>2
  <2> DEFINE g == [i \in 1 .. m |->
                    IF i = m THEN IF m = 1 THEN src[1] ELSE f[m - 1] \o src[m] ELSE f[i]]
  <2>2. ASSUME NEW i \in 1 .. m
        PROVE  g[i] = IF i = 1 THEN src[i] ELSE g[i - 1] \o src[i]
    <3>1. CASE i = m
      BY <3>1
    <3>2. CASE i # m
      <4>1. i \in 1 .. m - 1 /\ g[i] = f[i] /\ (i # 1 => g[i - 1] = f[i - 1])
        BY <3>2
      <4>2. f[i] = IF i = 1 THEN src[i] ELSE f[i - 1] \o src[i]
        BY <2>1, <4>1 DEF Joins
      <4> HIDE DEF g
      <4> QED BY <4>1, <4>2
    <3> QED BY <3>1, <3>2
  <2>3. DOMAIN g = 1 .. m /\ g = [i \in 1 .. m |-> g[i]]
    OBVIOUS
  <2> HIDE DEF g
  <2>4. Joins(g, src, m)
    BY <2>2, <2>3 DEF Joins
  <2> QED BY <2>4
<1> HIDE DEF Solved
<1>3. Bad = {}
  <2> SUFFICES ASSUME Bad # {} PROVE FALSE
    OBVIOUS
  <2>1. PICK m \in Bad : \A k \in Bad : m <= k
    <3>1. Bad \subseteq Nat
      OBVIOUS
    <3> HIDE DEF Bad
    <3> QED BY <3>1, LeastNatural
  <2>2. m \in 1 .. n
    BY <1>1, <2>1
  <2>3. Solved(m - 1)
    BY <2>1, <2>2
  <2> QED BY <1>2, <2>1, <2>2, <2>3
<1>4. Solved(n)
  BY <1>3
<1> QED BY <1>4 DEF Solved

\* FlattenSeq computes a solution of its recursion.
LEMMA FlattenJoins ==
    ASSUME NEW n \in Nat \ {0}, NEW src, Len(src) = n
    PROVE  \E f : Joins(f, src, n) /\ FlattenSeq(src) = f[n]
<1> DEFINE F(f) == f = [i \in 1 .. Len(src) |-> IF i = 1 THEN src[i] ELSE f[i - 1] \o src[i]]
           h == CHOOSE f : F(f)
<1>1. \E f : F(f)
  BY JoinExists DEF Joins
<1>2. F(h)
  BY <1>1
<1>3. FlattenSeq(src) = h[Len(src)]
  BY DEF FlattenSeq
<1>4. Joins(h, src, n)
  BY <1>2 DEF Joins
<1> QED BY <1>3, <1>4

\* The recursion has one solution.
LEMMA JoinUnique ==
    ASSUME NEW n \in Nat, NEW src, NEW f, NEW g, Joins(f, src, n), Joins(g, src, n)
    PROVE  \A i \in 1 .. n : f[i] = g[i]
<1> DEFINE Bad == {i \in 1 .. n : f[i] # g[i]}
<1> SUFFICES ASSUME Bad # {} PROVE FALSE
  OBVIOUS
<1>1. PICK m \in Bad : \A k \in Bad : m <= k
  <2>1. Bad \subseteq Nat
    OBVIOUS
  <2> HIDE DEF Bad
  <2> QED BY <2>1, LeastNatural
<1>2. \A i \in 1 .. n : /\ f[i] = IF i = 1 THEN src[i] ELSE f[i - 1] \o src[i]
                        /\ g[i] = IF i = 1 THEN src[i] ELSE g[i - 1] \o src[i]
  BY DEF Joins
<1>3. m # 1
  BY <1>2
<1>4. m - 1 \in 1 .. n /\ f[m - 1] = g[m - 1]
  BY <1>1, <1>3
<1>5. f[m] = f[m - 1] \o src[m] /\ g[m] = g[m - 1] \o src[m]
  BY <1>2, <1>3
<1> QED BY <1>4, <1>5

\* What FlattenSeq computes is what every function with its recursion computes.
LEMMA FlattenUnfolds ==
    ASSUME NEW n \in Nat \ {0}, NEW src, Len(src) = n, NEW g, Joins(g, src, n)
    PROVE  FlattenSeq(src) = g[n]
<1>1. PICK f : Joins(f, src, n) /\ FlattenSeq(src) = f[n]
  BY FlattenJoins
<1>2. n \in Nat /\ n \in 1 .. n
  OBVIOUS
<1> QED BY <1>1, <1>2, JoinUnique

\* Max picks an upper bound of the numbers a function takes on 1 .. n.
LEMMA BoundExists ==
    ASSUME NEW n \in Nat, NEW h, \A i \in 1 .. n : h[i] \in Nat
    PROVE  \E B \in Nat : \A i \in 1 .. n : h[i] <= B
<1> DEFINE Bounded(m) == \E B \in Nat : \A i \in 1 .. m : h[i] <= B
           Bad == {m \in 0 .. n : ~ Bounded(m)}
<1>1. Bounded(0)
  OBVIOUS
<1>2. ASSUME NEW m \in 1 .. n, Bounded(m - 1) PROVE Bounded(m)
  <2>1. PICK B \in Nat : \A i \in 1 .. m - 1 : h[i] <= B
    BY <1>2
  <2>2. h[m] \in Nat
    OBVIOUS
  <2>3. PICK C \in Nat : B <= C /\ h[m] <= C
    BY <2>2
  <2>4. \A i \in 1 .. m : h[i] <= C
    <3> SUFFICES ASSUME NEW i \in 1 .. m PROVE h[i] <= C
      OBVIOUS
    <3>1. CASE i = m
      BY <2>3, <3>1
    <3>2. CASE i # m
      BY <2>1, <2>3, <3>2
    <3> QED BY <3>1, <3>2
  <2> QED BY <2>4
<1> HIDE DEF Bounded
<1>3. Bad = {}
  <2> SUFFICES ASSUME Bad # {} PROVE FALSE
    OBVIOUS
  <2>1. PICK m \in Bad : \A k \in Bad : m <= k
    <3>1. Bad \subseteq Nat
      OBVIOUS
    <3> HIDE DEF Bad
    <3> QED BY <3>1, LeastNatural
  <2>2. m \in 1 .. n
    BY <1>1, <2>1
  <2>3. Bounded(m - 1)
    BY <2>1, <2>2
  <2> QED BY <1>2, <2>1, <2>2, <2>3
<1>4. Bounded(n)
  BY <1>3
<1> QED BY <1>4 DEF Bounded

\* Joining sequences over a set gives a sequence over that set.
LEMMA FlattenType ==
    ASSUME NEW S, NEW src \in Seq(Seq(S))
    PROVE  FlattenSeq(src) \in Seq(S)
<1> DEFINE n == Len(src)
<1>1. CASE n = 0
  BY <1>1 DEF FlattenSeq
<1>2. CASE n # 0
  <2>1. n \in Nat \ {0}
    BY <1>2
  <2>2. PICK f : Joins(f, src, n) /\ FlattenSeq(src) = f[n]
    BY <2>1, FlattenJoins
  <2>3. \A i \in 1 .. n : f[i] = IF i = 1 THEN src[i] ELSE f[i - 1] \o src[i]
    BY <2>2 DEF Joins
  <2>4. \A i \in 1 .. n : src[i] \in Seq(S)
    OBVIOUS
  <2> HIDE DEF n
  <2> DEFINE Bad == {i \in 1 .. n : f[i] \notin Seq(S)}
  <2>5. Bad = {}
    <3> SUFFICES ASSUME Bad # {} PROVE FALSE
      OBVIOUS
    <3>1. PICK m \in Bad : \A k \in Bad : m <= k
      <4>1. Bad \subseteq Nat
        OBVIOUS
      <4> HIDE DEF Bad
      <4> QED BY <4>1, LeastNatural
    <3>2. m # 1
      BY <2>3, <2>4
    <3>3. f[m - 1] \in Seq(S)
      <4>1. n \in Nat /\ m \in 1 .. n
        BY <2>1
      <4>2. m - 1 \in 1 .. n /\ ~ (m <= m - 1)
        BY <3>2, <4>1
      <4> QED BY <3>1, <4>2
    <3>4. f[m] = f[m - 1] \o src[m] /\ src[m] \in Seq(S)
      BY <2>3, <2>4, <3>2
    <3>5. f[m] \notin Seq(S)
      OBVIOUS
    <3> HIDE DEF Bad
    <3> QED BY <3>3, <3>4, <3>5
  <2> QED BY <2>1, <2>2, <2>5
<1> QED BY <1>1, <1>2

\* A single sequence is its own join.
LEMMA FlattenOne ==
    ASSUME NEW src, Len(src) = 1
    PROVE  FlattenSeq(src) = src[1]
<1> DEFINE g == [i \in 1 .. 1 |-> src[1]]
<1>1. Joins(g, src, 1)
  BY DEF Joins
<1>2. 1 \in Nat \ {0} /\ g[1] = src[1]
  OBVIOUS
<1> HIDE DEF g
<1> QED BY <1>1, <1>2, FlattenUnfolds

\* Appending a sequence to a list appends it to the join.
LEMMA FlattenAppend ==
    ASSUME NEW S, NEW src \in Seq(Seq(S)), NEW b \in Seq(S)
    PROVE  FlattenSeq(Append(src, b)) = FlattenSeq(src) \o b
<1> DEFINE n == Len(src)
           more == Append(src, b)
<1>1. /\ n \in Nat /\ Len(more) = n + 1 /\ more[n + 1] = b
      /\ \A i \in 1 .. n : more[i] = src[i]
  OBVIOUS
<1>2. CASE n = 0
  <2>1. FlattenSeq(src) = <<>>
    BY <1>2 DEF FlattenSeq
  <2>2. FlattenSeq(more) = b
    <3>1. Len(more) = 1 /\ more[1] = b
      BY <1>1, <1>2
    <3> HIDE DEF more
    <3> QED BY <3>1, FlattenOne
  <2> QED BY <2>1, <2>2
<1>3. CASE n # 0
  <2> HIDE DEF n, more
  <2>1. n \in Nat \ {0} /\ n + 1 \in Nat \ {0} /\ Len(src) = n
    BY <1>1, <1>3 DEF n
  <2>2. PICK f : Joins(f, src, n) /\ FlattenSeq(src) = f[n]
    BY <2>1, FlattenJoins
  <2>3. \A i \in 1 .. n : f[i] = IF i = 1 THEN src[i] ELSE f[i - 1] \o src[i]
    BY <2>2 DEF Joins
  <2> DEFINE g == [i \in 1 .. n + 1 |-> IF i = n + 1 THEN f[n] \o b ELSE f[i]]
  <2>4. ASSUME NEW i \in 1 .. n + 1
        PROVE  g[i] = IF i = 1 THEN more[i] ELSE g[i - 1] \o more[i]
    <3>1. CASE i = n + 1
      <4>1. i # 1 /\ i - 1 = n /\ n \in 1 .. n + 1 /\ n # n + 1
        BY <2>1, <3>1
      <4> QED BY <1>1, <3>1, <4>1
    <3>2. CASE i # n + 1
      <4>1. i \in 1 .. n /\ (i # 1 => i - 1 \in 1 .. n /\ i - 1 \in 1 .. n + 1 /\ i - 1 # n + 1)
        BY <2>1, <3>2
      <4> QED BY <1>1, <2>3, <3>2, <4>1
    <3> QED BY <3>1, <3>2
  <2>5. g = [i \in 1 .. n + 1 |-> g[i]] /\ g[n + 1] = f[n] \o b
    BY <2>1
  <2> HIDE DEF g
  <2>6. Joins(g, more, n + 1)
    BY <2>4, <2>5 DEF Joins
  <2>7. FlattenSeq(more) = g[n + 1]
    BY <1>1, <2>1, <2>6, FlattenUnfolds
  <2> QED BY <2>2, <2>5, <2>7 DEF more
<1> QED BY <1>2, <1>3

=============================================================================
