------------------------------- MODULE ListProofs -------------------------------
(***************************************************************************)
(* What the proofs about lists need: induction up to a bound, for a set    *)
(* of numbers, and what FlattenSeq joins.                                  *)
(***************************************************************************)
EXTENDS SequencesExt, FiniteSetTheorems, SequenceTheorems, WellFoundedInduction, TLAPS

LEMMA LeastNatural ==
  ASSUME NEW S, S \subseteq Nat, S # {}
  PROVE  \E m \in S : \A k \in S : m <= k
<1>1. PICK m \in S : \A k \in S : ~(<<k, m>> \in OpToRel(<, Nat))
  BY NatLessThanWellFounded, WFMin
<1>2. \A i, j \in Nat : i < j => <<i, j>> \in OpToRel(<, Nat)
  BY DEF OpToRel
<1>3. ASSUME NEW k \in S PROVE m <= k
  <2>1. k \in Nat /\ m \in Nat /\ ~(k < m)
    BY <1>1, <1>2
  <2> QED BY <2>1
<1> QED BY <1>3

(* A set that has 0, and with a number below n the next one, has them all *)
LEMMA UpTo ==
  ASSUME NEW n \in Nat, NEW S, 0 \in S, \A i \in 0..n : i \in S /\ i < n => i + 1 \in S
  PROVE  \A i \in 0..n : i \in S
<1>1. CASE (0..n) \ S = {}
  BY <1>1
<1>2. CASE (0..n) \ S # {}
  <2>1. PICK m \in (0..n) \ S : \A k \in (0..n) \ S : m <= k
    <3>1. PICK T : T = (0..n) \ S
      OBVIOUS
    <3>2. T \subseteq Nat /\ T # {}
      BY <3>1, <1>2
    <3>3. \E m \in T : \A k \in T : m <= k
      BY <3>2, LeastNatural
    <3> QED BY <3>1, <3>3
  <2>2. m # 0 /\ m \in 0..n
    OBVIOUS
  <2>3. m - 1 \in 0..n /\ m - 1 < n /\ ~(m <= m - 1) /\ (m - 1) + 1 = m
    BY <2>2
  <2>4. m - 1 \in S
    BY <2>1, <2>3
  <2>5. m \in S
    BY <2>3, <2>4
  <2> QED BY <2>5
<1> QED BY <1>1, <1>2

(* What is computed in n steps from a first value, each from the one before *)
Computed(g, a, F, n) == g[0] = a /\ \A k \in 1..n : g[k] = F[<<g[k - 1], k>>]

LEMMA StepsExist ==
  ASSUME NEW V, NEW n \in Nat, NEW a \in V, NEW F \in [V \X (1..n) -> V]
  PROVE  \E g \in [0..n -> V] : Computed(g, a, F, n)
<1> DEFINE Reached == {m \in 0..n : \E g \in [0..m -> V] : Computed(g, a, F, m)}
<1>1. 0 \in Reached
  <2>1. PICK g : g = [k \in 0..0 |-> a]
    OBVIOUS
  <2>2. g \in [0..0 -> V] /\ Computed(g, a, F, 0) /\ 0 \in 0..n
    BY <2>1 DEF Computed
  <2> QED BY <2>2
<1>2. ASSUME NEW m \in 0..n, m \in Reached, m < n PROVE m + 1 \in Reached
  <2>1. PICK g \in [0..m -> V] : Computed(g, a, F, m)
    BY <1>2
  <2> HIDE DEF Reached
  <2>2. m \in 0..m /\ m + 1 \in 1..n /\ m + 1 \in 0..n /\ m \in Nat
    BY <1>2
  <2>3. PICK v : v = F[<<g[m], m + 1>>]
    OBVIOUS
  <2>4. v \in V
    BY <2>2, <2>3
  <2>5. PICK h : h = [k \in 0..m + 1 |-> IF k <= m THEN g[k] ELSE v]
    OBVIOUS
  <2>6. h \in [0..m + 1 -> V]
    <3>1. ASSUME NEW k \in 0..m + 1 PROVE (IF k <= m THEN g[k] ELSE v) \in V
      BY <2>2, <2>4
    <3> QED BY <2>5, <3>1
  <2>7. h[0] = a
    BY <2>1, <2>2, <2>5 DEF Computed
  <2>8. ASSUME NEW k \in 1..m + 1 PROVE h[k] = F[<<h[k - 1], k>>]
    <3>1. CASE k <= m
      <4>1. k \in 1..m /\ h[k] = g[k] /\ h[k - 1] = g[k - 1]
        BY <2>2, <2>5, <3>1
      <4> QED BY <4>1, <2>1 DEF Computed
    <3>2. CASE k = m + 1
      <4>1. h[k] = v /\ h[k - 1] = g[m]
        BY <2>2, <2>5, <3>2
      <4> QED BY <4>1, <2>3, <3>2
    <3> QED BY <2>2, <3>1, <3>2
  <2> QED BY <2>2, <2>6, <2>7, <2>8 DEF Reached, Computed
<1>3. n \in Reached
  <2> HIDE DEF Reached
  <2>1. n \in 0..n
    OBVIOUS
  <2> QED BY <2>1, <1>1, <1>2, UpTo
<1> QED BY <1>3

(* A function on the first numbers is a sequence *)
LEMMA FunctionIsSeq ==
  ASSUME NEW S, NEW n \in Nat, NEW f \in [1..n -> S]
  PROVE  f \in Seq(S) /\ Len(f) = n /\ DOMAIN f = 1..n
OBVIOUS

-----------------------------------------------------------------------------
(* Lists joined one after the other, as FlattenSeq does *)
Joins(f, seqs, n) ==
  f = [i \in 1..n |-> IF i = 1 THEN seqs[i] ELSE f[i - 1] \o seqs[i]]

LEMMA JoinsExist ==
  ASSUME NEW n \in Nat, NEW seqs
  PROVE  \E f : Joins(f, seqs, n)
<1> DEFINE Joined == {k \in 0..n : \E f : Joins(f, seqs, k)}
<1>1. 0 \in Joined
  <2>1. PICK f : f = [i \in 1..0 |-> 0]
    OBVIOUS
  <2>2. f = [i \in 1..0 |-> IF i = 1 THEN seqs[i] ELSE f[i - 1] \o seqs[i]]
    BY <2>1
  <2>3. Joins(f, seqs, 0)
    BY <2>2 DEF Joins
  <2> QED BY <2>3
<1>2. ASSUME NEW k \in 0..n, k \in Joined, k < n PROVE k + 1 \in Joined
  <2>1. PICK g : Joins(g, seqs, k)
    BY <1>2
  <2> HIDE DEF Joined
  <2>2. PICK h : h = [i \in 1..k + 1 |-> IF i <= k THEN g[i]
                                ELSE IF i = 1 THEN seqs[i] ELSE g[i - 1] \o seqs[i]]
    OBVIOUS
  <2>3. \A i \in 1..k : g[i] = IF i = 1 THEN seqs[i] ELSE g[i - 1] \o seqs[i]
    BY <2>1 DEF Joins
  <2>4. ASSUME NEW i \in 1..k + 1 PROVE h[i] = IF i = 1 THEN seqs[i] ELSE h[i - 1] \o seqs[i]
    <3>1. CASE i <= k
      <4>1. i \in 1..k /\ h[i] = g[i]
        BY <2>2, <3>1
      <4>2. i # 1 => h[i - 1] = g[i - 1]
        BY <2>2, <3>1
      <4> QED BY <4>1, <4>2, <2>3
    <3>2. CASE i = k + 1
      <4>1. i # 1 => h[i - 1] = g[i - 1]
        BY <2>2, <3>2
      <4>2. h[i] = IF i = 1 THEN seqs[i] ELSE g[i - 1] \o seqs[i]
        BY <2>2, <3>2
      <4> QED BY <4>1, <4>2
    <3> QED BY <3>1, <3>2
  <2>5. h = [i \in 1..k + 1 |-> h[i]]
    BY <2>2
  <2>6. Joins(h, seqs, k + 1)
    BY <2>4, <2>5 DEF Joins
  <2>7. k + 1 \in 0..n
    BY <1>2
  <2> QED BY <2>6, <2>7 DEF Joined
<1>3. n \in Joined
  <2> HIDE DEF Joined
  <2>1. n \in 0..n
    OBVIOUS
  <2> QED BY <2>1, <1>1, <1>2, UpTo
<1> QED BY <1>3

(* FlattenSeq of some lists is the last of the joined lists *)
LEMMA FlattenIsJoined ==
  ASSUME NEW n \in Nat, n > 0, NEW S, NEW seqs \in [1..n -> S]
  PROVE  \E f : Joins(f, seqs, n) /\ FlattenSeq(seqs) = f[n]
<1>1. Len(seqs) = n
  OBVIOUS
<1> DEFINE f == CHOOSE g : Joins(g, seqs, n)
<1>2. Joins(f, seqs, n)
  BY JoinsExist
<1>3. FlattenSeq(seqs) = f[n]
  BY <1>1 DEF FlattenSeq, Joins
<1> QED BY <1>2, <1>3

(* The same from the empty list on *)
Joined(f, seqs, n) == f[0] = <<>> /\ \A i \in 1..n : f[i] = f[i - 1] \o seqs[i]

LEMMA FlattenJoined ==
  ASSUME NEW n \in Nat, NEW S, NEW seqs \in [1..n -> Seq(S)]
  PROVE  \E f \in [0..n -> Seq(S)] : Joined(f, seqs, n) /\ FlattenSeq(seqs) = f[n]
<1>1. CASE n = 0
  <2>1. PICK f : f = [i \in 0..n |-> <<>>]
    OBVIOUS
  <2>2. f \in [0..n -> Seq(S)] /\ Joined(f, seqs, n) /\ f[n] = <<>>
    BY <1>1, <2>1 DEF Joined
  <2>3. seqs = <<>> /\ Len(seqs) = 0
    BY <1>1
  <2>4. FlattenSeq(seqs) = <<>>
    BY <2>3 DEF FlattenSeq
  <2> QED BY <2>2, <2>4
<1>2. CASE n # 0
  <2>1. PICK g : Joins(g, seqs, n) /\ FlattenSeq(seqs) = g[n]
    <3>1. n > 0
      BY <1>2
    <3> QED BY <3>1, FlattenIsJoined
  <2>2. \A i \in 1..n : g[i] = IF i = 1 THEN seqs[i] ELSE g[i - 1] \o seqs[i]
    BY <2>1 DEF Joins
  <2>3. PICK f : f = [i \in 0..n |-> IF i = 0 THEN <<>> ELSE g[i]]
    OBVIOUS
  <2>4. f[0] = <<>> /\ f[n] = g[n]
    BY <1>2, <2>3
  <2>5. ASSUME NEW i \in 1..n PROVE f[i] = f[i - 1] \o seqs[i]
    <3>1. f[i] = g[i]
      BY <2>3
    <3>2. CASE i = 1
      <4>1. g[i] = seqs[i] /\ seqs[i] \in Seq(S) /\ f[i - 1] = <<>>
        BY <2>2, <2>3, <3>2
      <4> QED BY <3>1, <4>1
    <3>3. CASE i # 1
      <4>1. f[i - 1] = g[i - 1]
        BY <2>3, <3>3
      <4> QED BY <2>2, <3>1, <3>3, <4>1
    <3> QED BY <3>2, <3>3
  <2>6. Joined(f, seqs, n)
    BY <2>4, <2>5 DEF Joined
  <2>7. f \in [0..n -> Seq(S)]
    <3> DEFINE Lists == {i \in 0..n : f[i] \in Seq(S)}
    <3>1. 0 \in Lists
      <4>1. <<>> \in Seq(S) /\ 0 \in 0..n
        OBVIOUS
      <4> QED BY <2>4, <4>1
    <3>2. ASSUME NEW i \in 0..n, i \in Lists, i < n PROVE i + 1 \in Lists
      <4>1. i + 1 \in 1..n /\ (i + 1) - 1 = i
        BY <3>2
      <4>2. f[i + 1] = f[i] \o seqs[i + 1] /\ seqs[i + 1] \in Seq(S)
        BY <4>1, <2>5
      <4>3. f[i + 1] \in Seq(S)
        BY <4>2, <3>2
      <4> QED BY <4>1, <4>3
    <3>3. \A i \in 0..n : i \in Lists
      <4> HIDE DEF Lists
      <4> QED BY <3>1, <3>2, UpTo
    <3> QED BY <2>3, <3>3
  <2> QED BY <2>1, <2>4, <2>6, <2>7
<1> QED BY <1>1, <1>2

=============================================================================
