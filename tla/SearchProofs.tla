------------------------------ MODULE SearchProofs ------------------------------
(***************************************************************************)
(* Proofs about Search, for any sources, chunks, entities, tuning and      *)
(* scores, and about the mix of Slices, for any subsets.                   *)
(*                                                                         *)
(* First what the operators do, from the bottom up: sorting a finite set   *)
(* by a strict order lists each member once and in order (SortedFacts);    *)
(* the shares two ranks give agree with the ranks (RankFacts), so that     *)
(* what is fused keeps an order both queries have (FusionFacts); reranking *)
(* moves candidates and changes scores within 0..Unit (RerankedOver); what *)
(* is resolved are entities of the candidates' sources, each once          *)
(* (ResolvedFacts); and the page is a prefix of the sorted rows            *)
(* (PageFacts).  Then SearchInv, one part for each thing a search has in   *)
(* hand, with a lemma per part: what was found was stored when it was      *)
(* found, and stays the user's own.                                        *)
(*                                                                         *)
(* Last the mix of the benchmark, for any number of subsets: what has been *)
(* granted stays even, one turn after the other (GrantStaysEven), so that  *)
(* no subset falls far behind another one (MixTakesAlike).                 *)
(***************************************************************************)
EXTENDS Search, Slices, ListProofs

-----------------------------------------------------------------------------
(* Sorting *)

StrictOrder(S, order) ==
  /\ \A x \in S : <<x, x>> \notin order
  /\ \A x, y \in S : x # y => <<x, y>> \in order \/ <<y, x>> \in order
  /\ \A x, y, z \in S : <<x, y>> \in order /\ <<y, z>> \in order => <<x, z>> \in order

Below(S, order, c) == {d \in S : <<d, c>> \in order}
At(S, order, i) == CHOOSE c \in S : Cardinality(Below(S, order, c)) = i - 1

(* How many stand before a member of a finite set says where it stands *)
LEMMA PlaceFacts ==
  ASSUME NEW S, IsFiniteSet(S), NEW order, StrictOrder(S, order)
  PROVE  /\ Cardinality(S) \in Nat
         /\ \A c \in S : Cardinality(Below(S, order, c)) \in 0..Cardinality(S) - 1
         /\ \A c, d \in S : <<c, d>> \in order =>
              Cardinality(Below(S, order, c)) < Cardinality(Below(S, order, d))
         /\ \A c, d \in S :
              Cardinality(Below(S, order, c)) = Cardinality(Below(S, order, d)) => c = d
<1>1. Cardinality(S) \in Nat
  BY FS_CardinalityType
<1>2. ASSUME NEW c \in S
      PROVE  /\ IsFiniteSet(Below(S, order, c))
             /\ Cardinality(Below(S, order, c)) \in 0..Cardinality(S) - 1
  <2>1. Below(S, order, c) \in SUBSET S /\ c \notin Below(S, order, c)
    BY DEF Below, StrictOrder
  <2>2. /\ IsFiniteSet(Below(S, order, c))
        /\ Cardinality(Below(S, order, c)) <= Cardinality(S)
        /\ Cardinality(Below(S, order, c)) # Cardinality(S)
    BY <2>1, FS_Subset
  <2> QED BY <1>1, <2>2, FS_CardinalityType
<1>3. ASSUME NEW c \in S, NEW d \in S, <<c, d>> \in order
      PROVE  Cardinality(Below(S, order, c)) < Cardinality(Below(S, order, d))
  <2>1. /\ Below(S, order, c) \in SUBSET Below(S, order, d)
        /\ c \in Below(S, order, d) /\ c \notin Below(S, order, c)
    BY <1>3 DEF Below, StrictOrder
  <2>2. /\ Cardinality(Below(S, order, c)) <= Cardinality(Below(S, order, d))
        /\ Cardinality(Below(S, order, c)) # Cardinality(Below(S, order, d))
    BY <2>1, <1>2, FS_Subset
  <2> QED BY <2>2, <1>2
<1>4. ASSUME NEW c \in S, NEW d \in S,
             Cardinality(Below(S, order, c)) = Cardinality(Below(S, order, d))
      PROVE  c = d
  <2>1. ASSUME c # d PROVE FALSE
    <3>1. <<c, d>> \in order \/ <<d, c>> \in order
      BY <2>1 DEF StrictOrder
    <3>2. Cardinality(Below(S, order, c)) \in Int /\ Cardinality(Below(S, order, d)) \in Int
      BY <1>2, <1>1
    <3> QED BY <3>1, <3>2, <1>3, <1>4
  <2> QED BY <2>1
<1> QED BY <1>1, <1>2, <1>3, <1>4

(* Sorted lists each member of a finite set once, in order *)
LEMMA SortedFacts ==
  ASSUME NEW S, IsFiniteSet(S), NEW order, StrictOrder(S, order)
  PROVE  /\ Cardinality(S) \in Nat
         /\ Sorted(S, order) \in [1..Cardinality(S) -> S]
         /\ \A c \in S : \E i \in 1..Cardinality(S) : Sorted(S, order)[i] = c
         /\ \A i, j \in 1..Cardinality(S) :
              i < j => <<Sorted(S, order)[i], Sorted(S, order)[j]>> \in order
         /\ \A i, j \in 1..Cardinality(S) :
              Sorted(S, order)[i] = Sorted(S, order)[j] => i = j
<1> DEFINE n == Cardinality(S)
           place == [c \in S |-> Cardinality(Below(S, order, c)) + 1]
           o == Sorted(S, order)
<1>1. n \in Nat
  BY FS_CardinalityType
<1>2. place \in Injection(S, 1..n)
  <2>1. \A c \in S : Cardinality(Below(S, order, c)) \in 0..n - 1
    BY PlaceFacts
  <2>2. \A c, d \in S : Cardinality(Below(S, order, c)) = Cardinality(Below(S, order, d)) => c = d
    BY PlaceFacts
  <2>3. place \in [S -> 1..n]
    BY <2>1, <1>1
  <2>4. \A c, d \in S : place[c] = place[d] => c = d
    BY <2>1, <2>2, <1>1
  <2> QED BY <2>3, <2>4 DEF Injection, IsInjective
<1>3. place \in Surjection(S, 1..n)
  <2>1. IsFiniteSet(1..n) /\ Cardinality(1..n) = n
    BY <1>1, FS_Interval
  <2> HIDE DEF n, place
  <2>2. Cardinality(S) = n
    BY DEF n
  <2> QED BY <1>2, <2>1, <2>2, FS_Injection
<1>4. ASSUME NEW i \in 1..n PROVE o[i] \in S /\ Cardinality(Below(S, order, o[i])) = i - 1
  <2>1. PICK c \in S : place[c] = i
    BY <1>3 DEF Surjection
  <2>2. Cardinality(Below(S, order, c)) = i - 1
    BY <2>1, PlaceFacts, <1>1
  <2>3. o[i] = CHOOSE d \in S : Cardinality(Below(S, order, d)) = i - 1
    BY DEF Sorted, Below
  <2> HIDE DEF o
  <2> QED BY <2>2, <2>3
<1>5. o \in [1..n -> S]
  <2>1. o = [i \in 1..n |-> At(S, order, i)]
    BY DEF Sorted, At, Below
  <2> HIDE DEF o, n
  <2>2. o = [i \in 1..n |-> o[i]]
    BY <2>1
  <2> QED BY <2>2, <1>4
<1>6. ASSUME NEW c \in S PROVE \E i \in 1..n : o[i] = c
  <2>1. place[c] \in 1..n
    BY <1>2 DEF Injection
  <2>2. Cardinality(Below(S, order, o[place[c]])) = Cardinality(Below(S, order, c))
    <3>1. Cardinality(Below(S, order, c)) \in Int
      BY PlaceFacts, <1>1
    <3> HIDE DEF o
    <3> QED BY <2>1, <1>4, <3>1
  <2>3. o[place[c]] = c
    BY <2>1, <1>4, <2>2, PlaceFacts
  <2> QED BY <2>1, <2>3
<1>7. ASSUME NEW i \in 1..n, NEW j \in 1..n, i < j PROVE <<o[i], o[j]>> \in order
  <2> HIDE DEF o
  <2>1. o[i] \in S /\ o[j] \in S
    BY <1>4
  <2>2. Cardinality(Below(S, order, o[i])) = i - 1 /\ Cardinality(Below(S, order, o[j])) = j - 1
    BY <1>4
  <2>3. o[i] # o[j]
    BY <2>2, <1>7
  <2>4. <<o[j], o[i]>> \notin order
    <3>1. <<o[j], o[i]>> \in order => Cardinality(Below(S, order, o[j])) < Cardinality(Below(S, order, o[i]))
      BY <2>1, PlaceFacts
    <3> QED BY <3>1, <2>2, <1>7
  <2> QED BY <2>1, <2>3, <2>4 DEF StrictOrder
<1>8. ASSUME NEW i \in 1..n, NEW j \in 1..n, o[i] = o[j] PROVE i = j
  <2> HIDE DEF o
  <2> QED BY <1>4, <1>8
<1> HIDE DEF o
<1>9. o = Sorted(S, order) /\ n = Cardinality(S)
  BY DEF o
<1> HIDE DEF n
<1> QED BY <1>1, <1>5, <1>6, <1>7, <1>8, <1>9

(* The m positions kept, one after the other, are those of P *)
Picks(kept, m, list, P) ==
  /\ m \in Nat /\ kept \in [1..m -> P]
  /\ Picked(list, P) = [i \in 1..m |-> list[kept[i]]]
  /\ \A p \in P : \E i \in 1..m : kept[i] = p
  /\ \A i, j \in 1..m : i < j => kept[i] < kept[j]
  /\ \A i, j \in 1..m : kept[i] = kept[j] => i = j

LEMMA PickedFacts ==
  ASSUME NEW list, NEW n \in Nat, NEW P \in SUBSET (1..n)
  PROVE  \E kept, m : Picks(kept, m, list, P)
<1> DEFINE order == {p \in P \X P : p[1] < p[2]}
           kept == Sorted(P, order)
<1>1. IsFiniteSet(P)
  <2>1. 0 \in Int /\ 1 \in Int /\ n \in Int
    OBVIOUS
  <2>2. IsFiniteSet(1..n)
    BY <2>1, FS_Interval
  <2> QED BY <2>2, FS_Subset
<1>2. \A x, y \in P : <<x, y>> \in order <=> x < y
  OBVIOUS
<1>3. StrictOrder(P, order)
  BY <1>2 DEF StrictOrder
<1>4. Picked(list, P) = [i \in DOMAIN kept |-> list[kept[i]]]
  BY DEF Picked
<1>5. /\ Cardinality(P) \in Nat
      /\ kept \in [1..Cardinality(P) -> P]
      /\ \A p \in P : \E i \in 1..Cardinality(P) : kept[i] = p
      /\ \A i, j \in 1..Cardinality(P) : i < j => <<kept[i], kept[j]>> \in order
      /\ \A i, j \in 1..Cardinality(P) : kept[i] = kept[j] => i = j
  BY <1>1, <1>3, SortedFacts
<1>6. \A i, j \in 1..Cardinality(P) : i < j => kept[i] < kept[j]
  BY <1>5, <1>2
<1> HIDE DEF kept
<1>7. Picks(kept, Cardinality(P), list, P)
  BY <1>4, <1>5, <1>6 DEF Picks
<1> QED BY <1>7

-----------------------------------------------------------------------------
(* Fusion *)

(* One part of n of what a weight of a half is worth *)
Part(n) == Unit \div (2 * n)

LEMMA DivisionFacts ==
  ASSUME NEW a \in Nat, NEW b \in Nat, b > 0
  PROVE  /\ a \div b \in Nat
         /\ b * (a \div b) <= a
         /\ a < b * ((a \div b) + 1)
<1>1. a \div b \in Int /\ a % b \in 0..b - 1 /\ a = b * (a \div b) + (a % b)
  OBVIOUS
<1> QED BY <1>1

LEMMA QuotientBound ==
  ASSUME NEW a \in Nat, NEW b \in Nat, b > 0, NEW q \in Nat
  PROVE  b * q <= a <=> q <= a \div b
<1> PICK d \in Nat : d = a \div b
  BY DivisionFacts
<1>1. b * d <= a /\ a < b * (d + 1)
  BY DivisionFacts
<1>2. ASSUME q <= d PROVE b * q <= a
  <2>1. b * q <= b * d
    BY <1>2
  <2> QED BY <2>1, <1>1
<1>3. ASSUME b * q <= a, ~(q <= d) PROVE FALSE
  <2>1. d + 1 <= q
    BY <1>3
  <2>2. b * (d + 1) <= b * q
    BY <2>1
  <2> QED BY <2>2, <1>1, <1>3
<1> QED BY <1>2, <1>3

LEMMA UnitIsNat == Unit \in Nat
<1>1. \A a, b, c \in Nat : 40 * (a + 1) * (b + 2) * (c + 3) \in Nat
  OBVIOUS
<1>2. RrfK \in Nat
  BY DEF RrfK
<1> QED BY <1>1, <1>2 DEF Unit

RankedPlace(n) == n \in Nat /\ 61 <= n /\ n <= 1061
PartSize(p) == p \in Nat /\ 1 <= p /\ 122 * p <= Unit

LEMMA PartSizes == ASSUME NEW n, RankedPlace(n) PROVE PartSize(Part(n)) /\ n <= Part(n)
<1>1. Unit \in Nat /\ 2 * (1061 * 1061) <= Unit
  BY SMT DEF Unit, RrfK
<1>2. n \in Nat /\ 61 <= n /\ n <= 1061 /\ 2 * n \in Nat /\ 2 * n > 0 /\ Unit \in Nat
  BY <1>1 DEF RankedPlace
<1>3. Part(n) \in Nat
  BY <1>2, DivisionFacts DEF Part
<1>4. (2 * n) * n <= Unit
  <2>1. n * n <= n * 1061 /\ n * 1061 <= 1061 * 1061
    BY <1>2
  <2>2. n * n \in Nat /\ n * n <= 1061 * 1061
    BY <2>1, <1>2
  <2>3. (2 * n) * n = 2 * (n * n)
    BY <1>2
  <2> QED BY <2>2, <2>3, <1>1, SMT
<1>5. n <= Part(n)
  BY <1>2, <1>4, QuotientBound DEF Part
<1>6. (2 * n) * Part(n) <= Unit
  BY <1>2, DivisionFacts DEF Part
<1>7. 122 * Part(n) <= Unit
  <2> PICK q \in Nat : q = Part(n)
    BY <1>3
  <2>1. 122 * q <= (2 * n) * q /\ (2 * n) * q \in Nat
    BY <1>2
  <2>2. (2 * n) * q <= Unit
    BY <1>6
  <2>3. 122 * q <= Unit
    BY <2>1, <2>2, <1>2
  <2> QED BY <2>3
<1> QED BY <1>2, <1>3, <1>5, <1>7 DEF PartSize

(* The worse of two ranks is worth less *)
LEMMA PartsFall ==
  ASSUME NEW m, NEW n, RankedPlace(m), RankedPlace(n), m < n
  PROVE  Part(n) < Part(m)
<1>1. m \in Nat /\ n \in Nat /\ 2 * n \in Nat /\ 2 * n > 0 /\ 2 * m \in Nat /\ 2 * m > 0
  BY DEF RankedPlace
<1>2. Unit \in Nat
  BY UnitIsNat
<1> PICK q \in Nat : q = Part(n) /\ n <= q
  BY PartSizes DEF PartSize
<1>3. (2 * n) * q <= Unit
  BY <1>1, <1>2, DivisionFacts DEF Part
<1>4. (2 * m) * (q + 1) <= (2 * n) * q
  <2>1. (m + 1) * q <= n * q
    BY <1>1
  <2>2. (m + 1) * q = m * q + q
    BY <1>1
  <2>3. m * (q + 1) = m * q + m
    BY <1>1
  <2>4. m * q \in Int /\ n * q \in Int
    BY <1>1
  <2>5. m * (q + 1) <= n * q
    BY <2>1, <2>2, <2>3, <2>4, <1>1
  <2> QED BY <2>5, <1>1
<1>5. (2 * m) * (q + 1) <= Unit
  BY <1>1, <1>2, <1>3, <1>4
<1>6. q + 1 <= Part(m)
  BY <1>1, <1>2, <1>5, QuotientBound DEF Part
<1> QED BY <1>6, PartSizes DEF PartSize

(* What a query answers *)
Scored(scored) ==
  /\ scored \in [DOMAIN scored -> Int] /\ DOMAIN scored \subseteq Nat
  /\ IsFiniteSet(DOMAIN scored) /\ Cardinality(DOMAIN scored) <= 1000

LEMMA RankFacts ==
  ASSUME NEW scored, Scored(scored)
  PROVE  /\ \A c \in DOMAIN scored : RankedPlace(61 + Rank(scored, c)) /\ Rank(scored, c) \in Nat
         /\ \A c, d \in DOMAIN scored : Rank(scored, c) = Rank(scored, d) => c = d
<1> PICK D : D = DOMAIN scored
  OBVIOUS
<1> DEFINE order == {p \in D \X D : \/ scored[p[1]] > scored[p[2]]
                                    \/ scored[p[1]] = scored[p[2]] /\ p[1] < p[2]}
<1>1. IsFiniteSet(D) /\ Cardinality(D) <= 1000 /\ D \subseteq Nat /\ \A c \in D : scored[c] \in Int
  BY DEF Scored
<1>2. \A x, y \in D : <<x, y>> \in order <=> \/ scored[x] > scored[y]
                                             \/ (scored[x] = scored[y] /\ x < y)
  OBVIOUS
<1> HIDE DEF order
<1>3. StrictOrder(D, order)
  <2>1. \A x \in D : <<x, x>> \notin order
    BY <1>1, <1>2
  <2>2. \A x, y \in D : x # y => <<x, y>> \in order \/ <<y, x>> \in order
    BY <1>1, <1>2
  <2>3. ASSUME NEW x \in D, NEW y \in D, NEW z \in D, <<x, y>> \in order, <<y, z>> \in order
        PROVE  <<x, z>> \in order
    <3>1. \/ scored[x] > scored[y]
          \/ scored[x] = scored[y] /\ x < y
      BY <2>3, <1>2
    <3>2. \/ scored[y] > scored[z]
          \/ scored[y] = scored[z] /\ y < z
      BY <2>3, <1>2
    <3>3. \/ scored[x] > scored[z]
          \/ scored[x] = scored[z] /\ x < z
      BY <3>1, <3>2, <1>1
    <3> QED BY <3>3, <1>2
  <2> QED BY <2>1, <2>2, <2>3 DEF StrictOrder
<1>4. \A c \in D : Rank(scored, c) = Cardinality(Below(D, order, c))
  <2>1. ASSUME NEW c \in D
        PROVE  Below(D, order, c) = {d \in DOMAIN scored : \/ scored[d] > scored[c]
                                                           \/ scored[d] = scored[c] /\ d < c}
    BY <1>2 DEF Below
  <2> QED BY <2>1 DEF Rank
<1>5. /\ \A c \in D : Cardinality(Below(D, order, c)) \in 0..Cardinality(D) - 1
      /\ \A c, d \in D : Cardinality(Below(D, order, c)) = Cardinality(Below(D, order, d)) => c = d
      /\ Cardinality(D) \in Nat
  BY <1>1, <1>3, PlaceFacts
<1>6. ASSUME NEW c \in D PROVE RankedPlace(61 + Rank(scored, c)) /\ Rank(scored, c) \in Nat
  <2>1. Cardinality(Below(D, order, c)) \in 0..Cardinality(D) - 1
    BY <1>5
  <2> QED BY <2>1, <1>1, <1>4, <1>5 DEF RankedPlace
<1>7. ASSUME NEW c \in D, NEW d \in D, Rank(scored, c) = Rank(scored, d) PROVE c = d
  BY <1>4, <1>5, <1>7
<1> QED BY <1>6, <1>7

(* A query that does not place c behind d gives it no less, and the same    *)
(* only if it knows neither or they are one                                 *)
NotBehind(scored, c, d) ==
  d \in DOMAIN scored => (c \in DOMAIN scored /\ Rank(scored, c) <= Rank(scored, d))

LEMMA ContributionFacts ==
  ASSUME NEW halves \in {2, 3}, NEW scored, Scored(scored), NEW c
  PROVE  /\ Contribution(halves, scored, c) \in Nat
         /\ 122 * Contribution(halves, scored, c) <= 3 * Unit
         /\ c \in DOMAIN scored =>
              Contribution(halves, scored, c) = halves * Part(61 + Rank(scored, c))
         /\ c \notin DOMAIN scored => Contribution(halves, scored, c) = 0
<1>4. Unit \in Nat
  BY UnitIsNat
<1>1. ASSUME c \in DOMAIN scored
      PROVE  Contribution(halves, scored, c) = halves * Part(61 + Rank(scored, c))
  <2>1. Rank(scored, c) \in Nat
    BY <1>1, RankFacts
  <2>2. RrfK + Rank(scored, c) + 1 = 61 + Rank(scored, c)
    BY <2>1 DEF RrfK
  <2> QED BY <1>1, <2>2 DEF Contribution, Part
<1>2. ASSUME c \in DOMAIN scored
      PROVE  Contribution(halves, scored, c) \in Nat /\ 122 * Contribution(halves, scored, c) <= 3 * Unit
  <2>1. PartSize(Part(61 + Rank(scored, c)))
    BY <1>2, RankFacts, PartSizes
  <2> QED BY <2>1, <1>1, <1>2, <1>4 DEF PartSize
<1>3. ASSUME c \notin DOMAIN scored PROVE Contribution(halves, scored, c) = 0
  BY <1>3 DEF Contribution
<1> QED BY <1>1, <1>2, <1>3, <1>4

LEMMA ContributionsAgree ==
  ASSUME NEW halves \in {2, 3}, NEW scored, Scored(scored), NEW c, NEW d, NotBehind(scored, c, d)
  PROVE  /\ Contribution(halves, scored, d) <= Contribution(halves, scored, c)
         /\ Contribution(halves, scored, d) = Contribution(halves, scored, c) =>
              c = d \/ c \notin DOMAIN scored
<1>1. CASE d \in DOMAIN scored
  <2>1. c \in DOMAIN scored /\ Rank(scored, c) <= Rank(scored, d)
    BY <1>1 DEF NotBehind
  <2>2. /\ RankedPlace(61 + Rank(scored, c)) /\ Rank(scored, c) \in Nat
        /\ RankedPlace(61 + Rank(scored, d)) /\ Rank(scored, d) \in Nat
    BY <1>1, <2>1, RankFacts
  <2>3. /\ Contribution(halves, scored, c) = halves * Part(61 + Rank(scored, c))
        /\ Contribution(halves, scored, d) = halves * Part(61 + Rank(scored, d))
    BY <1>1, <2>1, ContributionFacts
  <2>4. PartSize(Part(61 + Rank(scored, c))) /\ PartSize(Part(61 + Rank(scored, d)))
    BY <2>2, PartSizes
  <2>5. CASE Rank(scored, c) = Rank(scored, d)
    <3>1. c = d
      BY <1>1, <2>1, <2>5, RankFacts
    <3> QED BY <3>1, <2>3, <2>4 DEF PartSize
  <2>6. CASE Rank(scored, c) < Rank(scored, d)
    <3>1. Part(61 + Rank(scored, d)) < Part(61 + Rank(scored, c))
      <4>1. 61 + Rank(scored, c) < 61 + Rank(scored, d)
        BY <2>2, <2>6
      <4> QED BY <4>1, <2>2, PartsFall
    <3> QED BY <3>1, <2>3, <2>4 DEF PartSize
  <2> QED BY <2>1, <2>2, <2>5, <2>6
<1>2. CASE d \notin DOMAIN scored /\ c \in DOMAIN scored
  <2>1. PartSize(Part(61 + Rank(scored, c)))
    BY <1>2, RankFacts, PartSizes
  <2>2. /\ Contribution(halves, scored, c) = halves * Part(61 + Rank(scored, c))
        /\ Contribution(halves, scored, d) = 0
    BY <1>2, ContributionFacts
  <2> QED BY <2>1, <2>2 DEF PartSize
<1>3. CASE d \notin DOMAIN scored /\ c \notin DOMAIN scored
  BY <1>3, ContributionFacts
<1> QED BY <1>1, <1>2, <1>3

(* A list of candidates, each of these chunks and none twice *)
ListOver(list, C) ==
  /\ list \in Seq([chunk : C, score : 0..Unit])
  /\ \A i, j \in DOMAIN list : list[i].chunk = list[j].chunk => i = j

LEMMA FusedScores ==
  ASSUME NEW v, NEW t, NEW n, Scored(v), Scored(t), NEW c
  PROVE  FusedScore(v, t, n, c) \in 0..Unit
<1>1. TextWeight(n) \in {2, 3}
  BY DEF TextWeight
<1>2. /\ Contribution(2, v, c) \in Nat /\ 122 * Contribution(2, v, c) <= 3 * Unit
      /\ Contribution(TextWeight(n), t, c) \in Nat
      /\ 122 * Contribution(TextWeight(n), t, c) <= 3 * Unit
  BY <1>1, ContributionFacts
<1>3. Unit \in Nat
  BY UnitIsNat
<1>4. \A a, b \in Nat : (122 * a <= 3 * Unit /\ 122 * b <= 3 * Unit) => a + b <= Unit
  BY <1>3
<1>5. FusedScore(v, t, n, c) \in Nat /\ FusedScore(v, t, n, c) <= Unit
  BY <1>2, <1>3, <1>4 DEF FusedScore
<1> QED BY <1>3, <1>5

Merged(v, t) ==
  (IF Tuning.useVector THEN DOMAIN v ELSE {}) \cup (IF Tuning.useFts THEN DOMAIN t ELSE {})

(* If no query places c behind d, the fusion does not, and they are apart   *)
LEMMA FusedScoresAgree ==
  ASSUME NEW v, NEW t, NEW n, Scored(v), Scored(t), NEW c, NEW d,
         NotBehind(v, c, d), NotBehind(t, c, d)
  PROVE  /\ FusedScore(v, t, n, d) <= FusedScore(v, t, n, c)
         /\ FusedScore(v, t, n, d) = FusedScore(v, t, n, c) =>
              c = d \/ c \notin Merged(v, t)
<1>1. TextWeight(n) \in {2, 3}
  BY DEF TextWeight
<1>2. /\ Contribution(2, v, c) \in Nat /\ Contribution(TextWeight(n), t, c) \in Nat
      /\ Contribution(2, v, d) \in Nat /\ Contribution(TextWeight(n), t, d) \in Nat
  BY <1>1, ContributionFacts
<1>3. /\ Contribution(2, v, d) <= Contribution(2, v, c)
      /\ Contribution(2, v, d) = Contribution(2, v, c) => c = d \/ c \notin DOMAIN v
  BY ContributionsAgree
<1>4. /\ Contribution(TextWeight(n), t, d) <= Contribution(TextWeight(n), t, c)
      /\ Contribution(TextWeight(n), t, d) = Contribution(TextWeight(n), t, c) =>
           c = d \/ c \notin DOMAIN t
  BY <1>1, ContributionsAgree
<1> QED BY <1>2, <1>3, <1>4 DEF FusedScore, Merged

Agrees(list, v, t) ==
  \A i, j \in DOMAIN list :
    NotBehind(v, list[i].chunk, list[j].chunk) /\ NotBehind(t, list[i].chunk, list[j].chunk)
      => i <= j

LEMMA FusionFacts ==
  ASSUME NEW v, NEW t, NEW n, Scored(v), Scored(t), NEW C, DOMAIN v \cup DOMAIN t \subseteq C
  PROVE  ListOver(Fusion(v, t, n), C) /\ Agrees(Fusion(v, t, n), v, t)
<1>1. PICK M : M = Merged(v, t)
  OBVIOUS
<1>2. PICK fused : fused = [c \in M |-> FusedScore(v, t, n, c)]
  OBVIOUS
<1>3. PICK before : before = {p \in M \X M : \/ fused[p[1]] > fused[p[2]]
                                             \/ fused[p[1]] = fused[p[2]] /\ p[1] < p[2]}
  OBVIOUS
<1>4. PICK ranked : ranked = Sorted(M, before)
  OBVIOUS
<1>5. PICK m : m = Cardinality(M)
  OBVIOUS
<1>6. PICK list : list = Fusion(v, t, n)
  OBVIOUS
<1>7. IsFiniteSet(M) /\ M \subseteq Nat /\ M \subseteq C
  <2>1. M \subseteq DOMAIN v \cup DOMAIN t
    BY <1>1 DEF Merged
  <2>2. IsFiniteSet(DOMAIN v \cup DOMAIN t)
    BY FS_Union DEF Scored
  <2> QED BY <2>1, <2>2, FS_Subset DEF Scored
<1>8. Unit \in Nat
  BY UnitIsNat
<1>9. \A c \in M : fused[c] \in 0..Unit /\ fused[c] \in Int
  BY <1>2, <1>8, FusedScores
<1>10. \A x, y \in M : <<x, y>> \in before <=> \/ fused[x] > fused[y]
                                               \/ (fused[x] = fused[y] /\ x < y)
  BY <1>3
<1>11. StrictOrder(M, before)
  <2>1. \A x \in M : <<x, x>> \notin before
    BY <1>7, <1>9, <1>10
  <2>2. \A x, y \in M : x # y => <<x, y>> \in before \/ <<y, x>> \in before
    BY <1>7, <1>9, <1>10
  <2>3. ASSUME NEW x \in M, NEW y \in M, NEW z \in M, <<x, y>> \in before, <<y, z>> \in before
        PROVE  <<x, z>> \in before
    <3>1. \/ fused[x] > fused[y]
          \/ fused[x] = fused[y] /\ x < y
      BY <2>3, <1>10
    <3>2. \/ fused[y] > fused[z]
          \/ fused[y] = fused[z] /\ y < z
      BY <2>3, <1>10
    <3>3. \/ fused[x] > fused[z]
          \/ fused[x] = fused[z] /\ x < z
      BY <3>1, <3>2, <1>7, <1>9
    <3> QED BY <3>3, <1>10
  <2> QED BY <2>1, <2>2, <2>3 DEF StrictOrder
<1>12. /\ m \in Nat /\ ranked \in [1..m -> M]
       /\ \A i, j \in 1..m : i < j => <<ranked[i], ranked[j]>> \in before
       /\ \A i, j \in 1..m : ranked[i] = ranked[j] => i = j
  BY <1>4, <1>5, <1>7, <1>11, SortedFacts
<1>13. list = [i \in 1..m |-> [chunk |-> ranked[i], score |-> fused[ranked[i]]]]
  <2>1. DOMAIN ranked = 1..m
    BY <1>12
  <2>2. list = [i \in DOMAIN ranked |-> [chunk |-> ranked[i], score |-> fused[ranked[i]]]]
    BY ONLY <1>1, <1>2, <1>3, <1>4, <1>6 DEF Fusion, Merged
  <2> QED BY <2>1, <2>2
<1>14. list \in [1..m -> [chunk : C, score : 0..Unit]]
  BY <1>7, <1>9, <1>12, <1>13
<1>15. list \in Seq([chunk : C, score : 0..Unit]) /\ DOMAIN list = 1..m
  <2>1. m \in Nat
    BY <1>12
  <2> QED BY ONLY <2>1, <1>14, FunctionIsSeq
<1>16. \A i \in 1..m : list[i].chunk = ranked[i]
  BY <1>13
<1>17. ListOver(list, C)
  BY <1>12, <1>15, <1>16 DEF ListOver
<1>18. ASSUME NEW i \in 1..m, NEW j \in 1..m,
              NotBehind(v, ranked[i], ranked[j]), NotBehind(t, ranked[i], ranked[j]), ~(i <= j)
       PROVE  FALSE
  <2>1. ranked[i] \in M /\ ranked[j] \in M /\ i # j
    BY <1>12, <1>18
  <2>2. <<ranked[j], ranked[i]>> \in before
    BY <1>12, <1>18
  <2>3. fused[ranked[j]] >= fused[ranked[i]]
    BY <2>1, <2>2, <1>9, <1>10
  <2>4. /\ fused[ranked[i]] = FusedScore(v, t, n, ranked[i])
        /\ fused[ranked[j]] = FusedScore(v, t, n, ranked[j])
    BY <2>1, <1>2
  <2>5. fused[ranked[j]] <= fused[ranked[i]]
    BY <1>18, <2>4, FusedScoresAgree
  <2>6. fused[ranked[j]] = fused[ranked[i]]
    BY <2>1, <2>3, <2>5, <1>9
  <2>7. ranked[i] = ranked[j]
    BY <1>1, <1>18, <2>1, <2>4, <2>6, FusedScoresAgree
  <2> QED BY <2>1, <2>7, <1>12
<1>19. Agrees(list, v, t)
  BY <1>15, <1>16, <1>18 DEF Agrees
<1> QED BY <1>6, <1>17, <1>19

-----------------------------------------------------------------------------
(* Lists, cut and joined *)

LEMMA PrefixFacts ==
  ASSUME NEW S, NEW s \in Seq(S), NEW n \in Nat
  PROVE  /\ Prefix(s, n) \in Seq(S) /\ Len(Prefix(s, n)) \in Nat
         /\ Len(Prefix(s, n)) <= n /\ Len(Prefix(s, n)) <= Len(s)
         /\ \A i \in 1..Len(Prefix(s, n)) : Prefix(s, n)[i] = s[i]
         /\ (n > 0 /\ Len(s) > 0) => Len(Prefix(s, n)) > 0
<1> PICK m : m = IF n < Len(s) THEN n ELSE Len(s)
  OBVIOUS
<1>1. Len(s) \in Nat /\ m \in Nat /\ m <= n /\ m <= Len(s) /\ 1 \in Int /\ m \in Int
  BY LenProperties
<1>2. \A i \in 1..m : s[i] \in S
  BY <1>1, ElementOfSeq
<1>3. /\ SubSeq(s, 1, m) \in Seq(S)
      /\ Len(SubSeq(s, 1, m)) = IF 1 <= m THEN m - 1 + 1 ELSE 0
      /\ \A i \in 1..m - 1 + 1 : SubSeq(s, 1, m)[i] = s[1 + i - 1]
  BY <1>1, <1>2, SubSeqProperties
<1>4. Len(SubSeq(s, 1, m)) = m
  BY <1>1, <1>3
<1>5. \A i \in 1..m : SubSeq(s, 1, m)[i] = s[i]
  BY <1>1, <1>3
<1>6. Prefix(s, n) = SubSeq(s, 1, m)
  BY DEF Prefix
<1> QED BY <1>1, <1>3, <1>4, <1>5, <1>6

LEMMA ListFacts ==
  ASSUME NEW list, NEW C, ListOver(list, C)
  PROVE  /\ Len(list) \in Nat /\ DOMAIN list = 1..Len(list)
         /\ list \in Seq([chunk : C, score : 0..Unit])
         /\ \A i \in 1..Len(list) : /\ list[i] \in [chunk : C, score : 0..Unit]
                                    /\ list[i].chunk \in C /\ list[i].score \in 0..Unit
         /\ \A i, j \in 1..Len(list) : list[i].chunk = list[j].chunk => i = j
<1>1. list \in Seq([chunk : C, score : 0..Unit])
  BY DEF ListOver
<1>2. Len(list) \in Nat /\ DOMAIN list = 1..Len(list)
  BY <1>1, LenProperties
<1>3. \A i \in 1..Len(list) : list[i] \in [chunk : C, score : 0..Unit]
  BY <1>1, ElementOfSeq
<1> QED BY <1>1, <1>2, <1>3 DEF ListOver

LEMMA IsListOver ==
  ASSUME NEW C, NEW list \in Seq([chunk : C, score : 0..Unit]),
         \A i, j \in 1..Len(list) : list[i].chunk = list[j].chunk => i = j
  PROVE  ListOver(list, C)
<1>1. DOMAIN list = 1..Len(list)
  BY LenProperties
<1> QED BY <1>1 DEF ListOver

LEMMA PrefixOver ==
  ASSUME NEW list, NEW C, ListOver(list, C), NEW n \in Nat
  PROVE  ListOver(Prefix(list, n), C) /\ Len(Prefix(list, n)) <= Len(list)
<1> PICK cut : cut = Prefix(list, n)
  OBVIOUS
<1>1. /\ list \in Seq([chunk : C, score : 0..Unit]) /\ Len(list) \in Nat
      /\ \A i, j \in 1..Len(list) : list[i].chunk = list[j].chunk => i = j
  BY ListFacts
<1>2. /\ cut \in Seq([chunk : C, score : 0..Unit]) /\ Len(cut) \in Nat /\ Len(cut) <= Len(list)
      /\ \A i \in 1..Len(cut) : cut[i] = list[i]
  BY <1>1, PrefixFacts
<1>3. \A i, j \in 1..Len(cut) : cut[i].chunk = cut[j].chunk => i = j
  <2>1. \A i \in 1..Len(cut) : i \in 1..Len(list)
    BY <1>1, <1>2
  <2> QED BY <2>1, <1>1, <1>2
<1> QED BY <1>2, <1>3, IsListOver

LEMMA JoinedOver ==
  ASSUME NEW a, NEW b, NEW C, ListOver(a, C), ListOver(b, C),
         \A i \in 1..Len(a), j \in 1..Len(b) : a[i].chunk # b[j].chunk
  PROVE  ListOver(a \o b, C)
<1> PICK both : both = a \o b
  OBVIOUS
<1>1. /\ a \in Seq([chunk : C, score : 0..Unit]) /\ Len(a) \in Nat
      /\ b \in Seq([chunk : C, score : 0..Unit]) /\ Len(b) \in Nat
      /\ \A i, j \in 1..Len(a) : a[i].chunk = a[j].chunk => i = j
      /\ \A i, j \in 1..Len(b) : b[i].chunk = b[j].chunk => i = j
  BY ListFacts
<1>2. /\ both \in Seq([chunk : C, score : 0..Unit]) /\ Len(both) = Len(a) + Len(b)
      /\ \A i \in 1..Len(a) + Len(b) : both[i] = IF i <= Len(a) THEN a[i] ELSE b[i - Len(a)]
  BY <1>1, ConcatProperties
<1>3. ASSUME NEW i \in 1..Len(both), NEW j \in 1..Len(both), both[i].chunk = both[j].chunk
      PROVE  i = j
  <2>1. CASE i <= Len(a) /\ j <= Len(a)
    BY <1>1, <1>2, <1>3, <2>1
  <2>2. CASE i <= Len(a) /\ ~(j <= Len(a))
    <3>1. i \in 1..Len(a) /\ j - Len(a) \in 1..Len(b)
      BY <1>1, <1>2, <2>2
    <3> QED BY <3>1, <1>2, <1>3, <2>2
  <2>3. CASE ~(i <= Len(a)) /\ j <= Len(a)
    <3>1. j \in 1..Len(a) /\ i - Len(a) \in 1..Len(b)
      BY <1>1, <1>2, <2>3
    <3> QED BY <3>1, <1>2, <1>3, <2>3
  <2>4. CASE ~(i <= Len(a)) /\ ~(j <= Len(a))
    <3>1. j - Len(a) \in 1..Len(b) /\ i - Len(a) \in 1..Len(b)
      BY <1>1, <1>2, <2>4
    <3>2. b[i - Len(a)].chunk = b[j - Len(a)].chunk
      BY <1>2, <1>3, <2>4
    <3>3. i - Len(a) = j - Len(a)
      BY <3>1, <3>2, <1>1
    <3> QED BY <3>3, <1>1, <1>2
  <2> QED BY <2>1, <2>2, <2>3, <2>4
<1> QED BY <1>2, <1>3, IsListOver

LEMMA PickedOver ==
  ASSUME NEW list, NEW C, ListOver(list, C), NEW P \in SUBSET (1..Len(list))
  PROVE  /\ ListOver(Picked(list, P), C)
         /\ \A i \in 1..Len(Picked(list, P)) : \E p \in P : Picked(list, P)[i] = list[p]
         /\ P # {} => Len(Picked(list, P)) > 0
<1>1. /\ Len(list) \in Nat
      /\ \A i \in 1..Len(list) : list[i] \in [chunk : C, score : 0..Unit]
      /\ \A i, j \in 1..Len(list) : list[i].chunk = list[j].chunk => i = j
  BY ListFacts
<1>2. PICK kept, m : Picks(kept, m, list, P)
  BY <1>1, PickedFacts
<1>3. PICK q : q = Picked(list, P)
  OBVIOUS
<1>4. /\ m \in Nat /\ kept \in [1..m -> P] /\ q = [i \in 1..m |-> list[kept[i]]]
      /\ \A i, j \in 1..m : kept[i] = kept[j] => i = j
  BY <1>2, <1>3 DEF Picks
<1>5. q \in [1..m -> [chunk : C, score : 0..Unit]]
  BY <1>1, <1>4
<1>6. q \in Seq([chunk : C, score : 0..Unit]) /\ Len(q) = m
  <2>1. m \in Nat
    BY <1>4
  <2> QED BY ONLY <2>1, <1>5, FunctionIsSeq
<1>7. \A i \in 1..m : q[i] = list[kept[i]] /\ kept[i] \in P
  BY <1>4
<1>8. ASSUME NEW i \in 1..m, NEW j \in 1..m, q[i].chunk = q[j].chunk PROVE i = j
  <2>1. kept[i] \in 1..Len(list) /\ kept[j] \in 1..Len(list)
    BY <1>7
  <2>2. kept[i] = kept[j]
    BY <1>1, <1>7, <1>8, <2>1
  <2> QED BY <1>4, <2>2
<1>9. ListOver(q, C)
  BY <1>6, <1>8, IsListOver
<1>10. ASSUME P # {} PROVE m > 0
  <2>1. PICK p \in P : TRUE
    BY <1>10
  <2>2. PICK i \in 1..m : kept[i] = p
    BY <1>2 DEF Picks
  <2> QED BY <2>2, <1>4
<1> QED BY <1>3, <1>6, <1>7, <1>9, <1>10

-----------------------------------------------------------------------------
(* Reranking *)

LEMMA ExtremesExist ==
  ASSUME NEW S, IsFiniteSet(S), S \subseteq Int, S # {}
  PROVE  /\ \E low \in S : \A y \in S : low <= y
         /\ \E high \in S : \A y \in S : high >= y
<1> DEFINE order == {p \in S \X S : p[1] < p[2]}
<1>1. \A x, y \in S : <<x, y>> \in order <=> x < y
  OBVIOUS
<1> HIDE DEF order
<1>2. StrictOrder(S, order)
  BY <1>1 DEF StrictOrder
<1>3. PICK n : n = Cardinality(S)
  OBVIOUS
<1>4. PICK o : o = Sorted(S, order)
  OBVIOUS
<1>5. /\ n \in Nat /\ o \in [1..n -> S]
      /\ \A c \in S : \E i \in 1..n : o[i] = c
      /\ \A i, j \in 1..n : i < j => <<o[i], o[j]>> \in order
  BY <1>2, <1>3, <1>4, SortedFacts
<1>6. 1 \in 1..n /\ n \in 1..n
  <2>1. PICK c \in S : TRUE
    OBVIOUS
  <2>2. PICK i \in 1..n : o[i] = c
    BY <1>5
  <2> QED BY <2>2, <1>5
<1>7. ASSUME NEW i \in 1..n, NEW j \in 1..n, i <= j PROVE o[i] <= o[j]
  <2>1. o[i] \in S /\ o[j] \in S /\ o[i] \in Int
    BY <1>5
  <2>2. CASE i = j
    BY <2>1, <2>2
  <2>3. CASE i < j
    <3>1. <<o[i], o[j]>> \in order
      BY <1>5, <2>3
    <3>2. o[i] < o[j]
      BY <3>1, <2>1, <1>1
    <3>3. o[i] \in Int /\ o[j] \in Int
      BY <2>1
    <3> QED BY <3>2, <3>3
  <2> QED BY <2>2, <2>3, <1>5, <1>7
<1>8. \A i \in 1..n : o[1] <= o[i] /\ o[i] <= o[n]
  BY <1>5, <1>6, <1>7
<1>9. \A y \in S : o[1] <= y /\ o[n] >= y
  BY <1>5, <1>6, <1>8
<1> QED BY <1>5, <1>6, <1>9

Lowest(S) == CHOOSE m \in S : \A y \in S : m <= y
Highest(S) == CHOOSE m \in S : \A y \in S : m >= y

LEMMA NormalizedFacts ==
  ASSUME NEW S, IsFiniteSet(S), S \subseteq Int, NEW x \in S
  PROVE  MinMaxNormalize(x, S) \in 0..Unit
<1>1. PICK low : low = Lowest(S)
  OBVIOUS
<1>2. PICK high : high = Highest(S)
  OBVIOUS
<1>3. low \in S /\ \A y \in S : low <= y
  BY <1>1, ExtremesExist DEF Lowest
<1>4. high \in S /\ \A y \in S : high >= y
  BY <1>2, ExtremesExist DEF Highest
<1>5. PICK u \in Nat : u = Unit
  BY UnitIsNat
<1>6. low <= x /\ x <= high /\ x \in Int /\ low \in Int /\ high \in Int
  BY <1>3, <1>4
<1>7. MinMaxNormalize(x, S) = IF low = high THEN u ELSE ((x - low) * u) \div (high - low)
  <2>1. MinMaxNormalize(x, S) =
          IF Lowest(S) = Highest(S) THEN Unit
            ELSE ((x - Lowest(S)) * Unit) \div (Highest(S) - Lowest(S))
    BY DEF MinMaxNormalize, Lowest, Highest
  <2> QED BY <2>1, <1>1, <1>2, <1>5
<1>8. CASE low = high
  BY <1>5, <1>7, <1>8
<1>9. CASE low # high
  <2>1. PICK a : a = x - low
    OBVIOUS
  <2>2. PICK b : b = high - low
    OBVIOUS
  <2>3. a \in Nat /\ b \in Nat /\ b > 0 /\ a <= b
    BY <1>6, <1>9, <2>1, <2>2
  <2>4. a * u \in Nat /\ a * u <= b * u /\ b * u \in Nat
    BY <2>3
  <2>5. PICK q : q = (a * u) \div b
    OBVIOUS
  <2>6. q \in Nat /\ b * q <= a * u
    BY <2>3, <2>4, <2>5, DivisionFacts
  <2>7. ASSUME ~(q <= u) PROVE FALSE
    <3>1. u + 1 <= q
      BY <2>6, <2>7
    <3>2. b * (u + 1) <= b * q
      BY <3>1, <2>3, <2>6
    <3>3. b * (u + 1) = b * u + b
      BY <2>3
    <3>4. b * q \in Int
      BY <2>3, <2>6
    <3> QED BY <3>2, <3>3, <3>4, <2>3, <2>4, <2>6
  <2>8. MinMaxNormalize(x, S) = q
    BY <1>7, <1>9, <2>1, <2>2, <2>5
  <2> QED BY <2>6, <2>7, <2>8, <1>5
<1> QED BY <1>8, <1>9

LEMMA BlendFacts ==
  ASSUME NEW fused \in 0..Unit, NEW normalized \in 0..Unit
  PROVE  Blend(fused, normalized) \in 0..Unit
<1>1. PICK u \in Nat : u = Unit
  BY UnitIsNat
<1>2. PICK a : a = 7 * fused + 13 * normalized
  OBVIOUS
<1>3. a \in Nat /\ a <= 20 * u
  BY <1>1, <1>2
<1>4. a \div 20 \in Nat /\ 20 * (a \div 20) <= a
  BY <1>3, DivisionFacts
<1>5. a \div 20 \in 0..Unit
  BY <1>1, <1>3, <1>4
<1> QED BY <1>2, <1>5 DEF Blend

Said == [index : Nat, score : Int]

(* What is counted of an opinion is of candidates, each once *)
RawScores(o) == {o[i].score : i \in DOMAIN o}

Leading(list, o) ==
  LET counted == Picked(o, Opinions(list, o))
  IN [n \in DOMAIN counted |->
        [list[counted[n].index] EXCEPT
           !.score = Blend(@, MinMaxNormalize(counted[n].score, RawScores(o)))]]

LEMMA RawScoresAreFinite ==
  ASSUME NEW o \in Seq(Said)
  PROVE  IsFiniteSet(RawScores(o)) /\ RawScores(o) \subseteq Int
<1>1. PICK l : l = Len(o)
  OBVIOUS
<1>2. l \in Nat /\ DOMAIN o = 1..l /\ \A i \in 1..l : o[i] \in Said
  BY <1>1, LenProperties, ElementOfSeq
<1>3. \A i \in 1..l : o[i].score \in Int
  BY <1>2 DEF Said
<1> DEFINE f == [i \in 1..l |-> o[i].score]
<1>4. f \in Surjection(1..l, RawScores(o))
  BY <1>2 DEF Surjection, RawScores
<1>5. IsFiniteSet(1..l)
  <2>1. 1 \in Int /\ l \in Int
    BY <1>2
  <2> QED BY <2>1, FS_Interval
<1> HIDE DEF f
<1>6. IsFiniteSet(RawScores(o))
  BY <1>4, <1>5, FS_Surjection
<1> QED BY <1>2, <1>3, <1>6 DEF RawScores

LEMMA OpinionFacts ==
  ASSUME NEW list, NEW C, ListOver(list, C), NEW o \in Seq(Said)
  PROVE  /\ Len(o) \in Nat /\ Opinions(list, o) \in SUBSET (1..Len(o))
         /\ \A i \in Opinions(list, o) : /\ o[i].index \in 1..Len(list)
                                         /\ o[i].score \in RawScores(o)
         /\ \A i, j \in Opinions(list, o) : o[i].index = o[j].index => i = j
<1>1. Len(o) \in Nat /\ DOMAIN o = 1..Len(o)
  BY LenProperties
<1>2. DOMAIN list = 1..Len(list)
  BY ListFacts
<1>3. Opinions(list, o) \in SUBSET (1..Len(o))
  BY <1>1 DEF Opinions
<1>4. \A i \in Opinions(list, o) : o[i].index \in 1..Len(list) /\ o[i].score \in RawScores(o)
  BY <1>2 DEF Opinions, RawScores
<1>5. ASSUME NEW i \in Opinions(list, o), NEW j \in Opinions(list, o), o[i].index = o[j].index
      PROVE  i = j
  <2>1. i \in Nat /\ j \in Nat /\ i >= 1 /\ j >= 1
    BY <1>1, <1>3
  <2>2. ~(i < j)
    <3>1. i < j => i \in 1..j - 1
      BY <2>1
    <3> QED BY <3>1, <1>5 DEF Opinions
  <2>3. ~(j < i)
    <3>1. j < i => j \in 1..i - 1
      BY <2>1
    <3> QED BY <3>1, <1>5 DEF Opinions
  <2> QED BY <2>1, <2>2, <2>3
<1> QED BY <1>1, <1>3, <1>4, <1>5

LEMMA LeadingFacts ==
  ASSUME NEW list, NEW C, ListOver(list, C), NEW o \in Seq(Said)
  PROVE  /\ ListOver(Leading(list, o), C)
         /\ \A n \in 1..Len(Leading(list, o)) :
              \E i \in Opinions(list, o) : Leading(list, o)[n].chunk = list[o[i].index].chunk
<1>1. PICK P : P = Opinions(list, o)
  OBVIOUS
<1>2. PICK first : first = Leading(list, o)
  OBVIOUS
<1>3. PICK raw : raw = RawScores(o)
  OBVIOUS
<1>4. /\ Len(list) \in Nat
      /\ \A i \in 1..Len(list) : list[i] \in [chunk : C, score : 0..Unit]
      /\ \A i, j \in 1..Len(list) : list[i].chunk = list[j].chunk => i = j
  BY ListFacts
<1>5. /\ Len(o) \in Nat /\ P \in SUBSET (1..Len(o))
      /\ \A i \in P : o[i].index \in 1..Len(list) /\ o[i].score \in raw
      /\ \A i, j \in P : o[i].index = o[j].index => i = j
  BY <1>1, <1>3, OpinionFacts
<1>6. IsFiniteSet(raw) /\ raw \subseteq Int
  BY <1>3, RawScoresAreFinite
<1>7. PICK kept, m : Picks(kept, m, o, P)
  BY <1>5, PickedFacts
<1>8. /\ m \in Nat /\ kept \in [1..m -> P]
      /\ \A i, j \in 1..m : kept[i] = kept[j] => i = j
  BY <1>7 DEF Picks
<1>9. PICK counted : counted = Picked(o, P)
  OBVIOUS
<1>10. counted = [n \in 1..m |-> o[kept[n]]]
  BY <1>7, <1>9 DEF Picks
<1>11. first = [n \in DOMAIN counted |->
                  [list[counted[n].index] EXCEPT
                     !.score = Blend(@, MinMaxNormalize(counted[n].score, raw))]]
  BY <1>1, <1>2, <1>3, <1>9 DEF Leading
<1>12. DOMAIN first = 1..m /\ first = [n \in 1..m |-> first[n]]
  BY <1>10, <1>11
<1>13. ASSUME NEW n \in 1..m
       PROVE  /\ first[n] \in [chunk : C, score : 0..Unit]
              /\ first[n].chunk = list[o[kept[n]].index].chunk
  <2>1. PICK k \in P : k = kept[n]
    BY <1>8
  <2>2. o[k].index \in 1..Len(list) /\ o[k].score \in raw
    BY <1>5
  <2>3. PICK c \in [chunk : C, score : 0..Unit] : c = list[o[k].index]
    BY <2>2, <1>4
  <2>4. MinMaxNormalize(o[k].score, raw) \in 0..Unit
    BY <2>2, <1>6, NormalizedFacts
  <2>5. c.score \in 0..Unit
    BY <2>3
  <2>6. Blend(c.score, MinMaxNormalize(o[k].score, raw)) \in 0..Unit
    BY <2>4, <2>5, BlendFacts
  <2>7. counted[n] = o[k] /\ n \in DOMAIN counted
    BY <2>1, <1>10
  <2>8. first[n] = [c EXCEPT !.score = Blend(c.score, MinMaxNormalize(o[k].score, raw))]
    BY <2>3, <2>7, <1>11
  <2> QED BY <2>1, <2>3, <2>6, <2>8
<1>14. first \in [1..m -> [chunk : C, score : 0..Unit]]
  BY <1>12, <1>13
<1>15. first \in Seq([chunk : C, score : 0..Unit]) /\ Len(first) = m
  <2>1. m \in Nat
    BY <1>8
  <2> QED BY ONLY <2>1, <1>14, FunctionIsSeq
<1>16. ASSUME NEW i \in 1..m, NEW j \in 1..m, first[i].chunk = first[j].chunk PROVE i = j
  <2>1. PICK k \in P : k = kept[i]
    BY <1>8
  <2>2. PICK l \in P : l = kept[j]
    BY <1>8
  <2>3. list[o[k].index].chunk = list[o[l].index].chunk
    BY <1>13, <1>16, <2>1, <2>2
  <2>4. o[k].index \in 1..Len(list) /\ o[l].index \in 1..Len(list)
    BY <1>5
  <2>5. o[k].index = o[l].index
    BY <2>3, <2>4, <1>4
  <2>6. k = l
    BY <2>5, <1>5
  <2> QED BY <2>1, <2>2, <2>6, <1>8
<1>17. ListOver(first, C)
  BY <1>15, <1>16, IsListOver
<1>18. \A n \in 1..m : \E i \in P : first[n].chunk = list[o[i].index].chunk
  BY <1>8, <1>13
<1> QED BY <1>1, <1>2, <1>15, <1>17, <1>18

(* Whatever the reranker says, the list is of the same candidates *)
LEMMA RerankedOver ==
  ASSUME NEW list, NEW C, ListOver(list, C), NEW o \in Seq(Said)
  PROVE  ListOver(Reranked(list, o), C)
<1>1. PICK first : first = Leading(list, o)
  OBVIOUS
<1>2. PICK unranked : unranked = DOMAIN list \ {o[i].index : i \in Opinions(list, o)}
  OBVIOUS
<1>3. PICK rest : rest = Picked(list, unranked)
  OBVIOUS
<1>4. /\ ListOver(first, C)
      /\ \A n \in 1..Len(first) :
           \E i \in Opinions(list, o) : first[n].chunk = list[o[i].index].chunk
  BY <1>1, LeadingFacts
<1>5. /\ Len(list) \in Nat /\ DOMAIN list = 1..Len(list)
      /\ \A i, j \in 1..Len(list) : list[i].chunk = list[j].chunk => i = j
  BY ListFacts
<1>6. unranked \in SUBSET (1..Len(list))
  BY <1>2, <1>5
<1>7. /\ ListOver(rest, C)
      /\ \A n \in 1..Len(rest) : \E p \in unranked : rest[n] = list[p]
  BY <1>3, <1>6, PickedOver
<1>8. ASSUME NEW n \in 1..Len(first), NEW k \in 1..Len(rest) PROVE first[n].chunk # rest[k].chunk
  <2>1. PICK i \in Opinions(list, o) : first[n].chunk = list[o[i].index].chunk
    BY <1>4
  <2>2. PICK p \in unranked : rest[k] = list[p]
    BY <1>7
  <2>3. o[i].index \in 1..Len(list)
    BY OpinionFacts
  <2>4. o[i].index # p /\ p \in 1..Len(list)
    BY <1>2, <1>6
  <2> QED BY <1>5, <2>1, <2>2, <2>3, <2>4
<1>9. PICK joined : joined = first \o rest
  OBVIOUS
<1>10. ListOver(joined, C)
  BY <1>4, <1>7, <1>8, <1>9, JoinedOver
<1>11. Reranked(list, o) = IF Tuning.keepTop > 0 THEN Prefix(joined, Tuning.keepTop) ELSE joined
  BY <1>1, <1>2, <1>3, <1>9 DEF Reranked, Leading, RawScores
<1>12. Tuning.keepTop \in Nat
  BY SearchAssumption
<1> QED BY <1>10, <1>11, <1>12, PrefixOver

-----------------------------------------------------------------------------
(* Entities *)

Entity(E, C) == [entity : E, score : 0..Unit, chunks : Seq([chunk : C, score : 0..Unit])]

(* A list of entities, each of these and none twice *)
EntitiesOver(list, E, C) ==
  /\ list \in Seq(Entity(E, C))
  /\ \A i, j \in 1..Len(list) : list[i].entity = list[j].entity => i = j

(* Lists of disjoint sets of entities are joined to one of them all *)
LEMMA JoinedEntities ==
  ASSUME NEW a, NEW b, NEW D, NEW E, NEW C, EntitiesOver(a, D, C), EntitiesOver(b, E, C), D \cap E = {}
  PROVE  /\ EntitiesOver(a \o b, D \cup E, C)
         /\ Len(a \o b) = Len(a) + Len(b) /\ Len(a) \in Nat /\ Len(b) \in Nat
         /\ \A i \in 1..Len(a \o b) : \/ i \in 1..Len(a) /\ (a \o b)[i] = a[i]
                                      \/ i - Len(a) \in 1..Len(b) /\ (a \o b)[i] = b[i - Len(a)]
<1> PICK both : both = a \o b
  OBVIOUS
<1>1. /\ a \in Seq(Entity(D \cup E, C)) /\ Len(a) \in Nat
      /\ b \in Seq(Entity(D \cup E, C)) /\ Len(b) \in Nat
  <2>1. a \in Seq(Entity(D, C)) /\ b \in Seq(Entity(E, C))
    BY DEF EntitiesOver
  <2>2. Entity(D, C) \subseteq Entity(D \cup E, C) /\ Entity(E, C) \subseteq Entity(D \cup E, C)
    BY DEF Entity
  <2>3. a \in Seq(Entity(D \cup E, C)) /\ b \in Seq(Entity(D \cup E, C))
    BY <2>1, <2>2, SeqMonotonic
  <2> QED BY <2>3, LenProperties
<1>2. /\ \A i \in 1..Len(a) : a[i].entity \in D
      /\ \A i \in 1..Len(b) : b[i].entity \in E
  <2>1. /\ \A i \in 1..Len(a) : a[i] \in Entity(D, C)
        /\ \A i \in 1..Len(b) : b[i] \in Entity(E, C)
    BY ElementOfSeq DEF EntitiesOver
  <2> QED BY <2>1 DEF Entity
<1>3. /\ both \in Seq(Entity(D \cup E, C)) /\ Len(both) = Len(a) + Len(b)
      /\ \A i \in 1..Len(a) + Len(b) : both[i] = IF i <= Len(a) THEN a[i] ELSE b[i - Len(a)]
  BY <1>1, ConcatProperties
<1>4. \A i \in 1..Len(both) : \/ i \in 1..Len(a) /\ both[i] = a[i]
                              \/ i - Len(a) \in 1..Len(b) /\ both[i] = b[i - Len(a)]
  BY <1>1, <1>3
<1>5. ASSUME NEW i \in 1..Len(both), NEW j \in 1..Len(both), both[i].entity = both[j].entity
      PROVE  i = j
  <2>1. /\ \A k, l \in 1..Len(a) : a[k].entity = a[l].entity => k = l
        /\ \A k, l \in 1..Len(b) : b[k].entity = b[l].entity => k = l
    BY DEF EntitiesOver
  <2>2. \/ i \in 1..Len(a) /\ both[i] = a[i]
        \/ i - Len(a) \in 1..Len(b) /\ both[i] = b[i - Len(a)]
    BY <1>4
  <2>3. \/ j \in 1..Len(a) /\ both[j] = a[j]
        \/ j - Len(a) \in 1..Len(b) /\ both[j] = b[j - Len(a)]
    BY <1>4
  <2>4. CASE i \in 1..Len(a) /\ both[i] = a[i]
    BY <1>2, <1>5, <2>1, <2>3, <2>4
  <2>5. CASE i - Len(a) \in 1..Len(b) /\ both[i] = b[i - Len(a)]
    <3>1. CASE j \in 1..Len(a) /\ both[j] = a[j]
      BY <1>2, <1>5, <2>5, <3>1
    <3>2. CASE j - Len(a) \in 1..Len(b) /\ both[j] = b[j - Len(a)]
      <4>1. i - Len(a) = j - Len(a)
        BY <1>5, <2>1, <2>5, <3>2
      <4> QED BY <4>1, <1>1, <1>3
    <3> QED BY <2>3, <3>1, <3>2
  <2> QED BY <2>2, <2>4, <2>5
<1> QED BY <1>1, <1>3, <1>4, <1>5 DEF EntitiesOver

(* n lists, each of some of these entities, which are of one list alone *)
ListsOver(seqs, n, E, C) ==
  /\ n \in Nat /\ seqs = [k \in 1..n |-> seqs[k]]
  /\ \A k \in 1..n : EntitiesOver(seqs[k], E[k], C)
  /\ \A k, l \in 1..n : k # l => E[k] \cap E[l] = {}

FromLists(list, seqs, n) ==
  \A i \in 1..Len(list) : \E k \in 1..n : \E j \in 1..Len(seqs[k]) : list[i] = seqs[k][j]

(* What is flattened is a list of the entities of all the lists, and each   *)
(* stands in one of them                                                    *)
LEMMA FlattenFacts ==
  ASSUME NEW n, NEW C, NEW E, NEW seqs, ListsOver(seqs, n, E, C)
  PROVE  /\ EntitiesOver(FlattenSeq(seqs), UNION {E[k] : k \in 1..n}, C)
         /\ FromLists(FlattenSeq(seqs), seqs, n)
<1> /\ n \in Nat /\ seqs = [k \in 1..n |-> seqs[k]]
    /\ \A k \in 1..n : EntitiesOver(seqs[k], E[k], C)
    /\ \A k, l \in 1..n : k # l => E[k] \cap E[l] = {}
  BY DEF ListsOver
<1> USE DEF FromLists
<1> DEFINE To(m) == UNION {E[k] : k \in 1..m}
           Of(list, m) == FromLists(list, seqs, m)
<1>1. CASE n = 0
  <2>1. seqs = << >>
    BY <1>1
  <2>2. Len(seqs) = 0 /\ FlattenSeq(seqs) = << >>
    BY <2>1 DEF FlattenSeq
  <2>3. << >> \in Seq(Entity(To(n), C)) /\ Len(<< >>) = 0
    BY EmptySeq
  <2>4. EntitiesOver(<< >>, To(n), C)
    <3> HIDE DEF To
    <3> QED BY <2>3 DEF EntitiesOver
  <2>5. Of(<< >>, n)
    BY <2>3
  <2> HIDE DEF To, Of
  <2>6. EntitiesOver(FlattenSeq(seqs), To(n), C) /\ Of(FlattenSeq(seqs), n)
    BY <2>2, <2>4, <2>5
  <2> QED BY <2>6 DEF To, Of
<1>2. CASE n > 0
  <2>1. seqs \in [1..n -> {seqs[k] : k \in 1..n}]
    OBVIOUS
  <2>2. PICK f : Joins(f, seqs, n) /\ FlattenSeq(seqs) = f[n]
    BY <2>1, <1>2, FlattenIsJoined
  <2>3. \A i \in 1..n : f[i] = IF i = 1 THEN seqs[i] ELSE f[i - 1] \o seqs[i]
    BY <2>2 DEF Joins
  <2> DEFINE Bad == {m \in 1..n : ~(EntitiesOver(f[m], To(m), C) /\ Of(f[m], m))}
  <2>4. ASSUME Bad # {} PROVE FALSE
    <3>1. IsFiniteSet(Bad) /\ Bad \subseteq Int
      <4>1. 1 \in Int /\ n \in Int
        OBVIOUS
      <4>2. IsFiniteSet(1..n)
        BY <4>1, FS_Interval
      <4>3. Bad \in SUBSET (1..n)
        OBVIOUS
      <4> HIDE DEF Bad
      <4> QED BY <4>2, <4>3, FS_Subset
    <3> HIDE DEF Bad
    <3>2. PICK m \in Bad : \A y \in Bad : m <= y
      BY <3>1, <2>4, ExtremesExist
    <3>3. m \in 1..n
      BY DEF Bad
    <3>4. CASE m = 1
      <4>1. f[1] = seqs[1] /\ 1 \in 1..n
        BY <2>3, <1>2
      <4>2. To(1) = E[1]
        OBVIOUS
      <4>3. EntitiesOver(f[1], To(1), C)
        <5> HIDE DEF To
        <5> QED BY <4>1, <4>2
      <4>4. Of(f[1], 1)
        BY <4>1
      <4> QED BY <3>4, <4>3, <4>4 DEF Bad
    <3>5. CASE m # 1
      <4>1. m - 1 \in 1..n /\ ~(m <= m - 1)
        BY <3>3, <3>5
      <4>2. m - 1 \notin Bad
        BY <4>1, <3>2
      <4>3. EntitiesOver(f[m - 1], To(m - 1), C) /\ Of(f[m - 1], m - 1)
        BY <4>1, <4>2 DEF Bad
      <4>4. f[m] = f[m - 1] \o seqs[m]
        BY <2>3, <3>3, <3>5
      <4>5. To(m) = To(m - 1) \cup E[m]
        <5>1. \A k : k \in 1..m <=> k \in 1..m - 1 \/ k = m
          BY <3>3
        <5> QED BY <5>1
      <4>6. To(m - 1) \cap E[m] = {}
        <5>1. \A k \in 1..m - 1 : k \in 1..n /\ k # m
          BY <3>3
        <5> QED BY <5>1, <3>3
      <4>7. EntitiesOver(seqs[m], E[m], C)
        BY <3>3
      <4> PICK a : a = f[m - 1]
        OBVIOUS
      <4> PICK b : b = seqs[m]
        OBVIOUS
      <4>8. /\ EntitiesOver(a \o b, To(m), C)
            /\ Len(a \o b) = Len(a) + Len(b) /\ Len(a) \in Nat /\ Len(b) \in Nat
            /\ \A i \in 1..Len(a \o b) : \/ i \in 1..Len(a) /\ (a \o b)[i] = a[i]
                                         \/ i - Len(a) \in 1..Len(b) /\ (a \o b)[i] = b[i - Len(a)]
        <5> HIDE DEF To, Of
        <5>1. PICK T : T = To(m - 1)
          OBVIOUS
        <5>2. PICK D : D = E[m]
          OBVIOUS
        <5>3. EntitiesOver(a, T, C) /\ EntitiesOver(b, D, C) /\ T \cap D = {} /\ To(m) = T \cup D
          BY <4>3, <4>5, <4>6, <4>7, <5>1, <5>2
        <5>4. /\ EntitiesOver(a \o b, T \cup D, C)
              /\ Len(a \o b) = Len(a) + Len(b) /\ Len(a) \in Nat /\ Len(b) \in Nat
              /\ \A i \in 1..Len(a \o b) : \/ i \in 1..Len(a) /\ (a \o b)[i] = a[i]
                                           \/ i - Len(a) \in 1..Len(b) /\ (a \o b)[i] = b[i - Len(a)]
          BY ONLY <5>3, JoinedEntities
        <5> QED BY <5>3, <5>4
      <4>9. Of(a \o b, m)
        <5>1. ASSUME NEW i \in 1..Len(a \o b)
              PROVE  \E k \in 1..m : \E j \in 1..Len(seqs[k]) : (a \o b)[i] = seqs[k][j]
          <6>1. CASE i \in 1..Len(a) /\ (a \o b)[i] = a[i]
            <7>1. PICK k \in 1..m - 1 : \E j \in 1..Len(seqs[k]) : a[i] = seqs[k][j]
              BY <4>3, <6>1
            <7>2. k \in 1..m
              BY <3>3
            <7> QED BY <6>1, <7>1, <7>2
          <6>2. CASE i - Len(a) \in 1..Len(b) /\ (a \o b)[i] = b[i - Len(a)]
            <7>1. m \in 1..m
              BY <3>3
            <7> QED BY <6>2, <7>1
          <6> QED BY <4>8, <6>1, <6>2
        <5> QED BY <5>1
      <4> HIDE DEF To, Of
      <4> QED BY <4>4, <4>8, <4>9 DEF Bad
    <3> QED BY <3>4, <3>5
  <2>5. EntitiesOver(f[n], To(n), C) /\ Of(f[n], n)
    <3>1. n \in 1..n
      BY <1>2
    <3> HIDE DEF Bad
    <3>2. n \notin Bad
      BY <2>4
    <3> HIDE DEF To, Of
    <3> QED BY <3>1, <3>2 DEF Bad
  <2> HIDE DEF To, Of
  <2>6. EntitiesOver(FlattenSeq(seqs), To(n), C) /\ Of(FlattenSeq(seqs), n)
    BY <2>2, <2>5
  <2> QED BY <2>6 DEF To, Of
<1> QED BY <1>1, <1>2

-----------------------------------------------------------------------------
(* The entities of the candidates' sources *)

LEMMA SourceFacts ==
  /\ \A s \in Sources : \A r \in ChunksOf[s] \cup EntitiesOf[s] : SourceOf(r) = s
  /\ \A c \in ChunkIds : SourceOf(c) \in Sources
  /\ ChunkIds \cap EntityIds = {} /\ ChunkIds \subseteq Nat /\ IsFiniteSet(ChunkIds)
<1>1. ASSUME NEW s \in Sources, NEW r \in ChunksOf[s] \cup EntitiesOf[s] PROVE SourceOf(r) = s
  <2>1. \A t \in Sources : r \in ChunksOf[t] \cup EntitiesOf[t] => t = s
    BY SearchAssumption
  <2> QED BY <2>1 DEF SourceOf
<1>2. ChunkIds \cap EntityIds = {} /\ ChunkIds \subseteq Nat
  BY SearchAssumption DEF ChunkIds, EntityIds
<1>3. IsFiniteSet(ChunkIds)
  <2> DEFINE all == {ChunksOf[s] : s \in Sources}
             f == [s \in Sources |-> ChunksOf[s]]
  <2>1. f \in Surjection(Sources, all)
    BY DEF Surjection
  <2>2. IsFiniteSet(Sources) /\ \A T \in all : IsFiniteSet(T)
    BY SearchAssumption
  <2> HIDE DEF f, all
  <2>3. IsFiniteSet(all)
    BY <2>1, <2>2, FS_Surjection
  <2>4. IsFiniteSet(UNION all)
    BY <2>2, <2>3, FS_UNION
  <2> QED BY <2>4 DEF all, ChunkIds
<1> QED BY <1>1, <1>2, <1>3 DEF ChunkIds

LEMMA OfSourceFacts ==
  ASSUME NEW list, NEW C, ListOver(list, C), NEW s
  PROVE  /\ ListOver(OfSource(list, s), C) /\ Len(OfSource(list, s)) \in Nat
         /\ (\E i \in 1..Len(list) : SourceOf(list[i].chunk) = s) => Len(OfSource(list, s)) > 0
         /\ \A i \in 1..Len(OfSource(list, s)) : \E p \in 1..Len(list) :
              SourceOf(list[p].chunk) = s /\ OfSource(list, s)[i] = list[p]
<1>1. PICK P : P = {i \in 1..Len(list) : SourceOf(list[i].chunk) = s}
  OBVIOUS
<1>2. OfSource(list, s) = Picked(list, P)
  <2>1. DOMAIN list = 1..Len(list)
    BY ListFacts
  <2> QED BY <1>1, <2>1 DEF OfSource
<1>3. /\ ListOver(Picked(list, P), C) /\ (P # {} => Len(Picked(list, P)) > 0)
      /\ \A i \in 1..Len(Picked(list, P)) : \E p \in P : Picked(list, P)[i] = list[p]
  <2>1. P \in SUBSET (1..Len(list))
    BY <1>1
  <2> QED BY ONLY <2>1, ListOver(list, C), PickedOver
<1>4. Len(Picked(list, P)) \in Nat
  BY <1>3, ListFacts
<1> QED BY <1>1, <1>2, <1>3, <1>4

(* The sources of a list, each once *)
LEMMA SourceOrderFacts ==
  ASSUME NEW list, NEW C, ListOver(list, C)
  PROVE  \E m \in Nat :
           /\ DOMAIN SourceOrder(list) = 1..m
           /\ \A n \in 1..m : \E i \in 1..Len(list) : SourceOf(list[i].chunk) = SourceOrder(list)[n]
           /\ \A n, k \in 1..m : SourceOrder(list)[n] = SourceOrder(list)[k] => n = k
<1>1. /\ Len(list) \in Nat /\ DOMAIN list = 1..Len(list)
      /\ \A i, j \in 1..Len(list) : list[i].chunk = list[j].chunk => i = j
  BY ListFacts
<1>2. PICK P : P = {i \in 1..Len(list) :
                      \A j \in 1..i - 1 : SourceOf(list[j].chunk) # SourceOf(list[i].chunk)}
  OBVIOUS
<1>3. PICK firsts : firsts = Picked(list, P)
  OBVIOUS
<1>4. P \in SUBSET (1..Len(list))
  BY <1>2
<1>5. ListOver(firsts, C) /\ \A n \in 1..Len(firsts) : \E p \in P : firsts[n] = list[p]
  BY <1>3, <1>4, PickedOver
<1>6. /\ Len(firsts) \in Nat /\ DOMAIN firsts = 1..Len(firsts)
      /\ \A i, j \in 1..Len(firsts) : firsts[i].chunk = firsts[j].chunk => i = j
  BY <1>5, ListFacts
<1>7. SourceOrder(list) = [n \in 1..Len(firsts) |-> SourceOf(firsts[n].chunk)]
  BY <1>1, <1>2, <1>3, <1>6 DEF SourceOrder
<1>8. \A p, q \in P : SourceOf(list[p].chunk) = SourceOf(list[q].chunk) => p = q
  <2>1. ASSUME NEW p \in P, NEW q \in P, SourceOf(list[p].chunk) = SourceOf(list[q].chunk), p < q
        PROVE  FALSE
    <3>1. p \in Nat /\ q \in Nat /\ p >= 1
      BY <1>4, <1>1
    <3>2. p \in 1..q - 1
      BY <2>1, <3>1
    <3> QED BY <2>1, <3>2, <1>2
  <2>2. \A p \in P : p \in Int
    BY <1>4, <1>1
  <2> QED BY <2>1, <2>2
<1>9. ASSUME NEW n \in 1..Len(firsts)
      PROVE  \E i \in 1..Len(list) : SourceOf(list[i].chunk) = SourceOrder(list)[n]
  <2>1. PICK p \in P : firsts[n] = list[p]
    BY <1>5
  <2> QED BY <2>1, <1>4, <1>7
<1>10. ASSUME NEW n \in 1..Len(firsts), NEW k \in 1..Len(firsts),
              SourceOrder(list)[n] = SourceOrder(list)[k]
       PROVE  n = k
  <2>1. PICK p \in P : firsts[n] = list[p]
    BY <1>5
  <2>2. PICK q \in P : firsts[k] = list[q]
    BY <1>5
  <2>3. SourceOf(list[p].chunk) = SourceOf(list[q].chunk)
    BY <2>1, <2>2, <1>7, <1>10
  <2>4. p = q
    BY <2>3, <1>8
  <2> QED BY <2>1, <2>2, <2>4, <1>6
<1>11. DOMAIN SourceOrder(list) = 1..Len(firsts)
  BY <1>7
<1> QED BY <1>6, <1>9, <1>10, <1>11

OwnOrder(list) ==
  LET sources == SourceOrder(list)
  IN Picked(sources, {n \in DOMAIN sources : sources[n] \in OwnSources})

(* Sources of the user, each once and each with a candidate *)
OwnersOf(list, own, m) ==
  /\ m \in Nat /\ own \in [1..m -> OwnSources]
  /\ \A n \in 1..m : \E i \in 1..Len(list) : SourceOf(list[i].chunk) = own[n]
  /\ \A n, k \in 1..m : own[n] = own[k] => n = k

LEMMA OwnOrderFacts ==
  ASSUME NEW list, NEW C, ListOver(list, C)
  PROVE  \E m : OwnersOf(list, OwnOrder(list), m)
<1>1. PICK sources : sources = SourceOrder(list)
  OBVIOUS
<1>2. PICK m \in Nat :
        /\ DOMAIN sources = 1..m
        /\ \A n \in 1..m : \E i \in 1..Len(list) : SourceOf(list[i].chunk) = sources[n]
        /\ \A n, k \in 1..m : sources[n] = sources[k] => n = k
  BY <1>1, SourceOrderFacts
<1>3. PICK P : P = {n \in 1..m : sources[n] \in OwnSources}
  OBVIOUS
<1>4. P \in SUBSET (1..m)
  BY <1>3
<1>5. PICK kept, l : Picks(kept, l, sources, P)
  BY <1>4, PickedFacts
<1>6. PICK own : own = OwnOrder(list)
  OBVIOUS
<1>7. /\ l \in Nat /\ kept \in [1..l -> P] /\ own = [n \in 1..l |-> sources[kept[n]]]
      /\ \A i, j \in 1..l : kept[i] = kept[j] => i = j
  <2>1. own = Picked(sources, P)
    BY <1>1, <1>2, <1>3, <1>6 DEF OwnOrder
  <2> QED BY <2>1, <1>5 DEF Picks
<1>8. \A n \in 1..l : kept[n] \in P /\ kept[n] \in 1..m /\ own[n] = sources[kept[n]]
  BY <1>4, <1>7
<1>9. own \in [1..l -> OwnSources]
  BY <1>3, <1>7, <1>8
<1>10. \A n \in 1..l : \E i \in 1..Len(list) : SourceOf(list[i].chunk) = own[n]
  BY <1>2, <1>8
<1>11. \A n, k \in 1..l : own[n] = own[k] => n = k
  BY <1>2, <1>7, <1>8
<1>12. OwnersOf(list, own, l)
  BY <1>7, <1>9, <1>10, <1>11 DEF OwnersOf
<1> QED BY <1>6, <1>12

LEMMA SetToSeqFacts ==
  ASSUME NEW S, IsFiniteSet(S)
  PROVE  /\ Cardinality(S) \in Nat /\ SetToSeq(S) \in [1..Cardinality(S) -> S]
         /\ \A i, j \in 1..Cardinality(S) : SetToSeq(S)[i] = SetToSeq(S)[j] => i = j
<1>1. Cardinality(S) \in Nat /\ ExistsBijection(1..Cardinality(S), S)
  BY FS_CardinalityType
<1>2. PICK f : f \in Bijection(1..Cardinality(S), S)
  BY <1>1 DEF ExistsBijection
<1>3. f \in [1..Cardinality(S) -> S] /\ IsInjective(f)
  BY <1>2 DEF Bijection, Injection
<1>4. PICK g : g = SetToSeq(S)
  OBVIOUS
<1>5. g \in [1..Cardinality(S) -> S] /\ IsInjective(g)
  BY <1>3, <1>4 DEF SetToSeq
<1>6. \A i, j \in 1..Cardinality(S) : g[i] = g[j] => i = j
  BY <1>5 DEF IsInjective
<1> QED BY <1>1, <1>4, <1>5, <1>6

LEMMA EntitiesForFacts ==
  ASSUME NEW list, NEW C, ListOver(list, C), NEW s \in Sources, Len(OfSource(list, s)) > 0
  PROVE  /\ EntitiesOver(EntitiesFor(list, s), EntitiesOf[s] \cap stored, C)
         /\ \A i \in 1..Len(EntitiesFor(list, s)) :
              EntitiesFor(list, s)[i].score = OfSource(list, s)[1].score
<1>1. PICK chunks : chunks = OfSource(list, s)
  OBVIOUS
<1>2. ListOver(chunks, C) /\ Len(chunks) > 0
  BY <1>1, OfSourceFacts
<1>3. chunks \in Seq([chunk : C, score : 0..Unit]) /\ chunks[1].score \in 0..Unit
  <2>1. Len(chunks) \in Nat /\ \A i \in 1..Len(chunks) : chunks[i].score \in 0..Unit
    BY <1>2, ListFacts
  <2>2. 1 \in 1..Len(chunks)
    BY <2>1, <1>2
  <2> QED BY <2>1, <2>2, <1>2, ListFacts
<1>4. PICK S : S = EntitiesOf[s] \cap stored
  OBVIOUS
<1>5. IsFiniteSet(S)
  BY <1>4, SearchAssumption, FS_Subset
<1>6. PICK found : found = SetToSeq(S)
  OBVIOUS
<1>7. PICK m \in Nat : /\ found \in [1..m -> S]
                       /\ \A i, j \in 1..m : found[i] = found[j] => i = j
  BY <1>5, <1>6, SetToSeqFacts
<1>8. PICK few : few = Prefix(chunks, AtLeastOne(Tuning.perEntity))
  OBVIOUS
<1>9. few \in Seq([chunk : C, score : 0..Unit])
  <2>1. AtLeastOne(Tuning.perEntity) \in Nat
    BY SearchAssumption DEF AtLeastOne
  <2> QED BY <2>1, <1>3, <1>8, PrefixFacts
<1>10. PICK es : es = EntitiesFor(list, s)
  OBVIOUS
<1>11. es = [n \in 1..m |-> [entity |-> found[n], score |-> chunks[1].score, chunks |-> few]]
  BY <1>1, <1>4, <1>6, <1>7, <1>8, <1>10 DEF EntitiesFor
<1>12. es \in [1..m -> Entity(S, C)]
  BY <1>3, <1>7, <1>9, <1>11 DEF Entity
<1>13. es \in Seq(Entity(S, C)) /\ Len(es) = m
  <2>1. m \in Nat
    OBVIOUS
  <2> QED BY ONLY <2>1, <1>12, FunctionIsSeq
<1>14. \A i \in 1..m : es[i].entity = found[i] /\ es[i].score = chunks[1].score
  BY <1>11
<1>15. EntitiesOver(es, S, C)
  BY <1>7, <1>13, <1>14 DEF EntitiesOver
<1> QED BY <1>1, <1>4, <1>10, <1>13, <1>14, <1>15

(* An entity has the score of a candidate of its source *)
Sourced(list, e) == Contributes(list, e.entity, e.score)

FoundEntities(rows) == {e \in EntityIds \cap rows : Own(e)}

LEMMA EntitiesOverMore ==
  ASSUME NEW list, NEW D, NEW E, NEW B, NEW C, EntitiesOver(list, D, B), D \subseteq E, B \subseteq C
  PROVE  EntitiesOver(list, E, C)
<1>1. Seq([chunk : B, score : 0..Unit]) \subseteq Seq([chunk : C, score : 0..Unit])
  <2>1. [chunk : B, score : 0..Unit] \subseteq [chunk : C, score : 0..Unit]
    OBVIOUS
  <2> QED BY <2>1, SeqMonotonic
<1>2. Entity(D, B) \subseteq Entity(E, C)
  BY <1>1 DEF Entity
<1>3. list \in Seq(Entity(E, C))
  BY <1>2, SeqMonotonic DEF EntitiesOver
<1> QED BY <1>3 DEF EntitiesOver

LEMMA ResolvedFacts ==
  ASSUME NEW list, NEW C, ListOver(list, C)
  PROVE  /\ EntitiesOver(ResolvedEntities(list), FoundEntities(stored), C)
         /\ \A i \in 1..Len(ResolvedEntities(list)) : Sourced(list, ResolvedEntities(list)[i])
<1>1. PICK own : own = OwnOrder(list)
  OBVIOUS
<1>2. PICK m : OwnersOf(list, own, m)
  BY <1>1, OwnOrderFacts
<1>3. /\ m \in Nat /\ own \in [1..m -> OwnSources]
      /\ \A n, k \in 1..m : own[n] = own[k] => n = k
  BY <1>2 DEF OwnersOf
<1>4. PICK seqs : seqs = [n \in 1..m |-> EntitiesFor(list, own[n])]
  OBVIOUS
<1>5. PICK all : all = ResolvedEntities(list)
  OBVIOUS
<1>6. all = FlattenSeq(seqs)
  <2>1. DOMAIN own = 1..m
    BY <1>3
  <2> QED BY <1>1, <1>4, <1>5, <2>1 DEF ResolvedEntities, OwnOrder
<1>7. PICK E : E = [n \in 1..m |-> EntitiesOf[own[n]] \cap stored]
  OBVIOUS
<1>8. ASSUME NEW n \in 1..m
      PROVE  /\ own[n] \in Sources /\ own[n] \in OwnSources
             /\ EntitiesOver(seqs[n], E[n], C)
             /\ \A i \in 1..Len(seqs[n]) : Sourced(list, seqs[n][i])
  <2>1. PICK s : s = own[n]
    OBVIOUS
  <2>2. s \in Sources /\ s \in OwnSources
    BY <2>1, <1>3, SearchAssumption
  <2>3. \E i \in 1..Len(list) : SourceOf(list[i].chunk) = s
    BY <2>1, <1>2 DEF OwnersOf
  <2>4. /\ Len(OfSource(list, s)) > 0
        /\ \E p \in DOMAIN list : SourceOf(list[p].chunk) = s /\ OfSource(list, s)[1] = list[p]
    <3>1. Len(OfSource(list, s)) > 0 /\ Len(OfSource(list, s)) \in Nat
      BY <2>3, OfSourceFacts
    <3>2. 1 \in 1..Len(OfSource(list, s)) /\ DOMAIN list = 1..Len(list)
      BY <3>1, ListFacts
    <3> QED BY <3>1, <3>2, OfSourceFacts
  <2>5. PICK es : es = EntitiesFor(list, s)
    OBVIOUS
  <2>6. /\ EntitiesOver(es, EntitiesOf[s] \cap stored, C)
        /\ \A i \in 1..Len(es) : es[i].score = OfSource(list, s)[1].score
    BY <2>2, <2>4, <2>5, EntitiesForFacts
  <2>7. \A i \in 1..Len(es) : SourceOf(es[i].entity) = s
    <3>1. \A i \in 1..Len(es) : es[i] \in Entity(EntitiesOf[s] \cap stored, C)
      BY <2>6, ElementOfSeq DEF EntitiesOver
    <3>2. \A i \in 1..Len(es) : es[i].entity \in EntitiesOf[s]
      BY <3>1 DEF Entity
    <3> QED BY <3>2, <2>2, SourceFacts
  <2>8. \A i \in 1..Len(es) : Sourced(list, es[i])
    BY <2>4, <2>6, <2>7 DEF Sourced, Contributes
  <2>9. seqs[n] = es /\ E[n] = EntitiesOf[s] \cap stored
    BY <2>1, <2>5, <1>4, <1>7
  <2> QED BY <2>1, <2>2, <2>6, <2>8, <2>9
<1>9. \A n, k \in 1..m : n # k => E[n] \cap E[k] = {}
  <2>1. \A n, k \in 1..m : n # k => EntitiesOf[own[n]] \cap EntitiesOf[own[k]] = {}
    BY <1>3, <1>8, SearchAssumption
  <2> QED BY <2>1, <1>7
<1>10. seqs = [n \in 1..m |-> seqs[n]]
  BY <1>4
<1>11. /\ EntitiesOver(FlattenSeq(seqs), UNION {E[n] : n \in 1..m}, C)
       /\ FromLists(FlattenSeq(seqs), seqs, m)
  <2>1. m \in Nat /\ \A n \in 1..m : EntitiesOver(seqs[n], E[n], C)
    BY <1>3, <1>8
  <2>2. ListsOver(seqs, m, E, C)
    BY <2>1, <1>9, <1>10 DEF ListsOver
  <2> QED BY <2>2, FlattenFacts
<1>12. UNION {E[n] : n \in 1..m} \subseteq FoundEntities(stored)
  <2>1. ASSUME NEW n \in 1..m, NEW e \in E[n] PROVE e \in FoundEntities(stored)
    <3>1. e \in EntitiesOf[own[n]] /\ e \in stored /\ own[n] \in Sources
      BY <1>7, <1>8
    <3>2. SourceOf(e) = own[n]
      BY <3>1, SourceFacts
    <3> QED BY <3>1, <3>2, <1>8 DEF FoundEntities, EntityIds, Own
  <2> QED BY <2>1
<1>13. EntitiesOver(all, FoundEntities(stored), C)
  BY <1>6, <1>11, <1>12, EntitiesOverMore
<1>14. ASSUME NEW i \in 1..Len(all) PROVE Sourced(list, all[i])
  <2>1. PICK n \in 1..m : \E j \in 1..Len(seqs[n]) : all[i] = seqs[n][j]
    BY <1>6, <1>11 DEF FromLists
  <2> QED BY <2>1, <1>8
<1> QED BY <1>5, <1>13, <1>14

-----------------------------------------------------------------------------
(* The page *)

Row(R) == [row : R, score : 0..Unit]

(* Chunks and entities, as they are to be sorted *)
Rows(chunks, found) ==
  [n \in DOMAIN chunks |-> [row |-> chunks[n].chunk, score |-> chunks[n].score]]
    \o [n \in DOMAIN found |-> [row |-> found[n].entity, score |-> found[n].score]]

RowsOnce(rows, R) ==
  rows \in Seq(Row(R)) /\ \A i, j \in 1..Len(rows) : rows[i].row = rows[j].row => i = j

FromEntities(rows, E, found) ==
  \A i \in 1..Len(rows) : rows[i].row \in E =>
    \E k \in 1..Len(found) : rows[i].row = found[k].entity /\ rows[i].score = found[k].score

LEMMA RowsFacts ==
  ASSUME NEW chunks, NEW C, ListOver(chunks, C),
         NEW found, NEW E, NEW B, EntitiesOver(found, E, B), C \cap E = {}
  PROVE  /\ RowsOnce(Rows(chunks, found), C \cup E)
         /\ FromEntities(Rows(chunks, found), E, found)
         /\ Len(Rows(chunks, found)) = Len(chunks) + Len(found)
         /\ Len(chunks) \in Nat /\ Len(found) \in Nat
<1>1. PICK a : a = [n \in DOMAIN chunks |-> [row |-> chunks[n].chunk, score |-> chunks[n].score]]
  OBVIOUS
<1>2. PICK b : b = [n \in DOMAIN found |-> [row |-> found[n].entity, score |-> found[n].score]]
  OBVIOUS
<1>3. PICK both : both = Rows(chunks, found)
  OBVIOUS
<1>4. both = a \o b
  BY <1>1, <1>2, <1>3 DEF Rows
<1>5. /\ Len(chunks) \in Nat /\ DOMAIN chunks = 1..Len(chunks)
      /\ \A i \in 1..Len(chunks) : chunks[i].chunk \in C /\ chunks[i].score \in 0..Unit
      /\ \A i, j \in 1..Len(chunks) : chunks[i].chunk = chunks[j].chunk => i = j
  BY ListFacts
<1>6. /\ Len(found) \in Nat /\ DOMAIN found = 1..Len(found)
      /\ \A i \in 1..Len(found) : found[i].entity \in E /\ found[i].score \in 0..Unit
      /\ \A i, j \in 1..Len(found) : found[i].entity = found[j].entity => i = j
  <2>1. found \in Seq(Entity(E, B))
    BY DEF EntitiesOver
  <2>2. Len(found) \in Nat /\ DOMAIN found = 1..Len(found)
    BY <2>1, LenProperties
  <2>3. \A i \in 1..Len(found) : found[i] \in Entity(E, B)
    BY <2>1, ElementOfSeq
  <2> QED BY <2>2, <2>3 DEF EntitiesOver, Entity
<1>7. a \in Seq(Row(C \cup E)) /\ Len(a) = Len(chunks)
  <2>1. a \in [1..Len(chunks) -> Row(C \cup E)]
    BY <1>1, <1>5 DEF Row
  <2>2. Len(chunks) \in Nat
    BY <1>5
  <2> QED BY ONLY <2>1, <2>2, FunctionIsSeq
<1>8. b \in Seq(Row(C \cup E)) /\ Len(b) = Len(found)
  <2>1. b \in [1..Len(found) -> Row(C \cup E)]
    BY <1>2, <1>6 DEF Row
  <2>2. Len(found) \in Nat
    BY <1>6
  <2> QED BY ONLY <2>1, <2>2, FunctionIsSeq
<1>9. /\ both \in Seq(Row(C \cup E)) /\ Len(both) = Len(a) + Len(b)
      /\ \A i \in 1..Len(a) + Len(b) : both[i] = IF i <= Len(a) THEN a[i] ELSE b[i - Len(a)]
  <2>1. PICK R : R = Row(C \cup E)
    OBVIOUS
  <2>2. a \in Seq(R) /\ b \in Seq(R)
    BY <1>7, <1>8, <2>1
  <2>3. /\ a \o b \in Seq(R) /\ Len(a \o b) = Len(a) + Len(b)
        /\ \A i \in 1..Len(a) + Len(b) : (a \o b)[i] = IF i <= Len(a) THEN a[i] ELSE b[i - Len(a)]
    BY ONLY <2>2, ConcatProperties
  <2> QED BY ONLY <1>4, <2>1, <2>3
<1>10. ASSUME NEW i \in 1..Len(both), i <= Len(chunks)
       PROVE  i \in 1..Len(chunks) /\ both[i].row = chunks[i].chunk /\ both[i].row \in C
  <2>1. i \in 1..Len(chunks) /\ both[i] = a[i]
    BY <1>5, <1>7, <1>9, <1>10
  <2> QED BY <2>1, <1>1, <1>5
<1>11. ASSUME NEW i \in 1..Len(both), ~(i <= Len(chunks))
       PROVE  /\ i - Len(chunks) \in 1..Len(found)
              /\ both[i].row = found[i - Len(chunks)].entity /\ both[i].row \in E
              /\ both[i].score = found[i - Len(chunks)].score
  <2>1. i - Len(chunks) \in 1..Len(found) /\ both[i] = b[i - Len(chunks)]
    BY <1>5, <1>6, <1>7, <1>8, <1>9, <1>11
  <2> QED BY <2>1, <1>2, <1>6
<1>12. ASSUME NEW i \in 1..Len(both), NEW j \in 1..Len(both), both[i].row = both[j].row
       PROVE  i = j
  <2>1. CASE i <= Len(chunks) /\ j <= Len(chunks)
    BY <1>5, <1>10, <1>12, <2>1
  <2>2. CASE ~(i <= Len(chunks)) /\ ~(j <= Len(chunks))
    <3>1. i - Len(chunks) = j - Len(chunks)
      BY <1>6, <1>11, <1>12, <2>2
    <3> QED BY <3>1, <1>5, <1>6, <1>7, <1>8, <1>9
  <2>3. CASE (i <= Len(chunks)) # (j <= Len(chunks))
    BY <1>10, <1>11, <1>12, <2>3
  <2> QED BY <2>1, <2>2, <2>3
<1>13. ASSUME NEW i \in 1..Len(both), both[i].row \in E
       PROVE  \E k \in 1..Len(found) : both[i].row = found[k].entity /\ both[i].score = found[k].score
  BY <1>10, <1>11, <1>13
<1>14. Len(both) = Len(chunks) + Len(found)
  BY <1>7, <1>8, <1>9
<1>15. RowsOnce(both, C \cup E)
  BY <1>9, <1>12 DEF RowsOnce
<1>16. FromEntities(both, E, found)
  BY <1>13 DEF FromEntities
<1> QED BY <1>3, <1>5, <1>6, <1>14, <1>15, <1>16

(* Some of these rows, the better scores first *)
BestOf(page, rows) ==
  /\ Len(page) \in Nat /\ Len(page) <= TotalLimit /\ Len(page) <= Len(rows)
  /\ \A i \in 1..Len(page) : \E k \in 1..Len(rows) : page[i] = rows[k]
  /\ \A i \in 1..Len(page) - 1 : page[i].score >= page[i + 1].score

LEMMA PageFacts ==
  ASSUME NEW R, NEW chunks, NEW found, RowsOnce(Rows(chunks, found), R)
  PROVE  /\ RowsOnce(Page(chunks, found), R)
         /\ BestOf(Page(chunks, found), Rows(chunks, found))
<1>1. PICK both : both = Rows(chunks, found)
  OBVIOUS
<1>2. PICK n : n = Len(both)
  OBVIOUS
<1>3. /\ n \in Nat /\ DOMAIN both = 1..n
      /\ \A i \in 1..n : both[i] \in Row(R) /\ both[i].score \in Int
      /\ \A i, j \in 1..n : both[i].row = both[j].row => i = j
  <2>1. n \in Nat /\ DOMAIN both = 1..n
    BY <1>1, <1>2, LenProperties DEF RowsOnce
  <2>2. \A i \in 1..n : both[i] \in Row(R)
    BY <1>1, <1>2, ElementOfSeq DEF RowsOnce
  <2>3. \A i \in 1..n : both[i].score \in Int
    BY <2>2, UnitIsNat DEF Row
  <2>4. \A i, j \in 1..n : both[i].row = both[j].row => i = j
    BY <1>1, <1>2 DEF RowsOnce
  <2> QED BY <2>1, <2>2, <2>3, <2>4
<1>4. PICK places : places = 1..n
  OBVIOUS
<1>5. PICK before : before = {p \in places \X places :
                               \/ both[p[1]].score > both[p[2]].score
                               \/ both[p[1]].score = both[p[2]].score /\ p[1] < p[2]}
  OBVIOUS
<1>6. \A x, y \in places : <<x, y>> \in before <=>
                             \/ both[x].score > both[y].score
                             \/ (both[x].score = both[y].score /\ x < y)
  BY <1>5
<1>7. IsFiniteSet(places) /\ Cardinality(places) = n
  <2>1. 1 \in Int /\ n \in Int
    BY <1>3
  <2>2. IsFiniteSet(1..n) /\ Cardinality(1..n) = IF 1 > n THEN 0 ELSE n - 1 + 1
    BY <2>1, FS_Interval
  <2> QED BY <2>2, <1>3, <1>4
<1>8. \A x \in places : x \in Int /\ both[x].score \in Int
  BY <1>3, <1>4
<1>9. StrictOrder(places, before)
  <2>1. \A x \in places : <<x, x>> \notin before
    BY <1>6, <1>8
  <2>2. \A x, y \in places : x # y => <<x, y>> \in before \/ <<y, x>> \in before
    BY <1>6, <1>8
  <2>3. ASSUME NEW x \in places, NEW y \in places, NEW z \in places,
               <<x, y>> \in before, <<y, z>> \in before
        PROVE  <<x, z>> \in before
    <3>1. \/ both[x].score > both[y].score
          \/ both[x].score = both[y].score /\ x < y
      BY <2>3, <1>6
    <3>2. \/ both[y].score > both[z].score
          \/ both[y].score = both[z].score /\ y < z
      BY <2>3, <1>6
    <3>3. \/ both[x].score > both[z].score
          \/ both[x].score = both[z].score /\ x < z
      BY <3>1, <3>2, <1>8
    <3> QED BY <3>3, <1>6
  <2> QED BY <2>1, <2>2, <2>3 DEF StrictOrder
<1>10. PICK order : order = Sorted(places, before)
  OBVIOUS
<1>11. /\ order \in [1..n -> places]
       /\ \A i, j \in 1..n : i < j => <<order[i], order[j]>> \in before
       /\ \A i, j \in 1..n : order[i] = order[j] => i = j
  BY <1>7, <1>9, <1>10, SortedFacts
<1>12. PICK all : all = [i \in 1..n |-> both[order[i]]]
  OBVIOUS
<1>13. \A i \in 1..n : order[i] \in 1..n /\ all[i] = both[order[i]]
  BY <1>4, <1>11, <1>12
<1>14. all \in Seq(Row(R)) /\ Len(all) = n
  <2>1. all \in [1..n -> Row(R)]
    BY <1>3, <1>12, <1>13
  <2>2. n \in Nat
    BY <1>3
  <2> QED BY ONLY <2>1, <2>2, FunctionIsSeq
<1>15. PICK page : page = Page(chunks, found)
  OBVIOUS
<1>16. page = Prefix(all, TotalLimit)
  <2>1. DOMAIN order = 1..n
    BY <1>11
  <2>2. DOMAIN both = places
    BY <1>3, <1>4
  <2>3. page = Prefix([i \in DOMAIN order |-> both[order[i]]], TotalLimit)
    BY <1>1, <1>5, <1>10, <1>15, <2>2 DEF Page, Rows
  <2> QED BY <2>1, <2>3, <1>12
<1>17. /\ page \in Seq(Row(R)) /\ Len(page) \in Nat
       /\ Len(page) <= TotalLimit /\ Len(page) <= n
       /\ \A i \in 1..Len(page) : page[i] = all[i]
  <2>1. TotalLimit \in Nat
    BY SearchAssumption
  <2> QED BY <2>1, <1>14, <1>16, PrefixFacts
<1>18. ASSUME NEW i \in 1..Len(page) PROVE i \in 1..n /\ page[i] = both[order[i]] /\ order[i] \in 1..n
  <2>1. i \in 1..n
    BY <1>17, <1>3
  <2> QED BY <2>1, <1>13, <1>17
<1>19. ASSUME NEW i \in 1..Len(page), NEW j \in 1..Len(page), page[i].row = page[j].row PROVE i = j
  <2>1. order[i] = order[j]
    BY <1>3, <1>18, <1>19
  <2> QED BY <2>1, <1>11, <1>18
<1>20. ASSUME NEW i \in 1..Len(page) - 1 PROVE page[i].score >= page[i + 1].score
  <2>1. i \in 1..Len(page) /\ i + 1 \in 1..Len(page) /\ i < i + 1
    BY <1>17
  <2>2. <<order[i], order[i + 1]>> \in before
    BY <2>1, <1>11, <1>18
  <2>3. order[i] \in places /\ order[i + 1] \in places
    BY <2>1, <1>4, <1>18
  <2>4. both[order[i]].score >= both[order[i + 1]].score
    BY <2>2, <2>3, <1>6, <1>8
  <2> QED BY <2>1, <2>4, <1>18
<1>21. \A i \in 1..Len(page) : \E k \in 1..n : page[i] = both[k]
  BY <1>18
<1>22. RowsOnce(page, R)
  BY <1>17, <1>19 DEF RowsOnce
<1>23. BestOf(page, both)
  BY <1>2, <1>17, <1>20, <1>21 DEF BestOf
<1> QED BY <1>1, <1>15, <1>22, <1>23

-----------------------------------------------------------------------------
(* The invariant of a search *)

FoundChunks(rows) == {c \in ChunkIds \cap rows : Own(c)}

Running == {"embed", "search", "rerank", "resolve", "assemble", "label"}

StageInv ==
  /\ stage \in Running \cup {"new", "answered", "failed"}
  /\ stored \subseteq ChunkIds \cup EntityIds
  /\ stage = "new" => lived = {}
  /\ stage \in Running => stored \subseteq lived

Found(scored) == Scored(scored) /\ DOMAIN scored \subseteq FoundChunks(lived)

QueriesInv == Found(vectorScored) /\ Found(textScored)

CandidatesInv ==
  /\ ListOver(candidates, FoundChunks(lived))
  /\ stage = "rerank" => Agrees(candidates, vectorScored, textScored)

EntitiesInv ==
  /\ EntitiesOver(entities, FoundEntities(lived), FoundChunks(lived))
  /\ stage \in {"new", "embed", "search", "rerank", "resolve"} => entities = <<>>
  /\ \A i \in 1..Len(entities) : Sourced(candidates, entities[i])

HitsInv ==
  /\ stage \notin {"label", "answered"} => hits = <<>>
  /\ stage = "label" => ListOver(hits, FoundChunks(lived)) /\ Len(hits) <= Len(candidates)
  /\ Len(hits) <= Len(candidates) + Len(entities)
  /\ HitsAreSound

SearchInv == StageInv /\ QueriesInv /\ CandidatesInv /\ EntitiesInv /\ HitsInv

LEMMA EmptyListOver == ASSUME NEW C PROVE ListOver(<<>>, C) /\ Len(<<>>) = 0
<1>1. <<>> \in Seq([chunk : C, score : 0..Unit]) /\ Len(<<>>) = 0
  BY EmptySeq
<1>2. \A i, j \in 1..Len(<<>>) : <<>>[i].chunk = <<>>[j].chunk => i = j
  BY <1>1
<1> QED BY ONLY <1>1, <1>2, IsListOver

LEMMA EmptyEntitiesOver == ASSUME NEW E, NEW C PROVE EntitiesOver(<<>>, E, C) /\ Len(<<>>) = 0
<1>1. <<>> \in Seq(Entity(E, C)) /\ Len(<<>>) = 0
  BY EmptySeq
<1> QED BY <1>1 DEF EntitiesOver

LEMMA NoHitsAreSound ==
  ASSUME hits = <<>>
  PROVE  HitsAreSound
<1>1. Len(hits) = 0 /\ DOMAIN hits = {}
  OBVIOUS
<1>2. Shown = {}
  BY <1>1 DEF Shown
<1>3. Cardinality(Shown) = 0
  BY <1>2, FS_EmptySet
<1>4. TotalLimit \in Nat
  BY SearchAssumption
<1> QED BY <1>1, <1>2, <1>3, <1>4 DEF HitsAreSound

LEMMA NoScoresScored == Scored(NoScores) /\ DOMAIN NoScores = {}
<1>1. DOMAIN NoScores = {} /\ NoScores \in [{} -> Int]
  BY DEF NoScores
<1>2. IsFiniteSet({}) /\ Cardinality({}) = 0
  BY FS_EmptySet
<1> QED BY <1>1, <1>2 DEF Scored

LEMMA SearchInvInit == ASSUME SearchInit PROVE SearchInv
<1>1. StageInv
  BY SearchAssumption DEF SearchInit, StageInv, ChunkIds, EntityIds, Running
<1>2. QueriesInv
  BY NoScoresScored DEF SearchInit, QueriesInv, Found
<1>3. CandidatesInv
  BY EmptyListOver DEF SearchInit, CandidatesInv
<1>4. EntitiesInv
  BY EmptyEntitiesOver DEF SearchInit, EntitiesInv
<1>5. HitsInv
  <2>1. hits = <<>> /\ Len(hits) = 0 /\ Len(candidates) = 0 /\ Len(entities) = 0 /\ stage = "new"
    BY DEF SearchInit
  <2> QED BY <2>1, NoHitsAreSound DEF HitsInv
<1> QED BY <1>1, <1>2, <1>3, <1>4, <1>5 DEF SearchInv

-----------------------------------------------------------------------------
(* The stages *)

LEMMA RowsAreOfSources ==
  \A s \in Sources : ChunksOf[s] \cup EntitiesOf[s] \subseteq ChunkIds \cup EntityIds
BY DEF ChunkIds, EntityIds

LEMMA StageStep ==
  ASSUME StageInv, [SearchNext]_searchVars
  PROVE  StageInv' /\ lived \subseteq lived'
<1>1. CASE UNCHANGED searchVars
  BY <1>1 DEF StageInv, searchVars, dataVars
<1>2. CASE BeginSearch
  BY <1>2 DEF BeginSearch, StageInv, Running
<1>3. CASE EmbedQuery \/ QueryVectors \/ QueryTexts \/ FuseCandidates
  BY <1>3 DEF EmbedQuery, QueryVectors, QueryTexts, FuseCandidates, StageInv, Running, dataVars
<1>4. CASE RerankCandidates
  BY <1>4 DEF RerankCandidates, AfterRerank, StageInv, Running, dataVars
<1>5. CASE ResolveEntities \/ AssembleChunks \/ ShowHits \/ FailSearch
  BY <1>5 DEF ResolveEntities, AssembleChunks, ShowHits, FailSearch, StageInv, Running, dataVars
<1>6. ASSUME NEW rows, Change(rows), rows \subseteq ChunkIds \cup EntityIds
      PROVE  StageInv' /\ lived \subseteq lived'
  BY <1>6 DEF Change, StageInv, Running
<1>7. CASE StoreContent
  <2>1. PICK s \in Sources : Change(stored \cup ChunksOf[s] \cup EntitiesOf[s])
    BY <1>7 DEF StoreContent
  <2>2. stored \cup ChunksOf[s] \cup EntitiesOf[s] \subseteq ChunkIds \cup EntityIds
    BY RowsAreOfSources DEF StageInv
  <2> QED BY <2>1, <2>2, <1>6
<1>8. CASE DeleteRows
  <2>1. PICK rows : Change(stored \ rows)
    BY <1>8 DEF DeleteRows
  <2>2. stored \ rows \subseteq ChunkIds \cup EntityIds
    BY DEF StageInv
  <2> QED BY <2>1, <2>2, <1>6
<1> QED BY <1>1, <1>2, <1>3, <1>4, <1>5, <1>7, <1>8 DEF SearchNext

LEMMA FoundGrow ==
  ASSUME lived \subseteq lived'
  PROVE  /\ FoundChunks(lived) \subseteq FoundChunks(lived')
         /\ FoundEntities(lived) \subseteq FoundEntities(lived')
BY DEF FoundChunks, FoundEntities

(* What a change of the contents or a step without effect leaves *)
SearchStays ==
  /\ stage' = stage /\ UNCHANGED queryVars
  /\ candidates' = candidates /\ entities' = entities /\ hits' = hits

LEMMA QuietSteps ==
  ASSUME StoreContent \/ DeleteRows \/ UNCHANGED searchVars
  PROVE  SearchStays /\ (stage = "answered" => lived' = lived)
<1>1. CASE UNCHANGED searchVars
  BY <1>1 DEF SearchStays, searchVars, dataVars
<1>2. ASSUME NEW rows, Change(rows) PROVE SearchStays /\ stage # "answered"
  BY <1>2 DEF Change, SearchStays
<1> QED BY <1>1, <1>2 DEF StoreContent, DeleteRows

-----------------------------------------------------------------------------
(* The queries *)

LEMMA AnswersAreScored ==
  ASSUME NEW take \in Nat, take <= 1000, NEW scores, scores \subseteq Int,
         NEW scored \in Answers(take, scores)
  PROVE  Scored(scored) /\ DOMAIN scored \subseteq FoundChunks(stored)
<1>1. PICK found \in SUBSET {c \in ChunkIds \cap stored : Own(c)} :
        Cardinality(found) <= take /\ scored \in [found -> scores]
  BY DEF Answers
<1>2. found \subseteq FoundChunks(stored) /\ found \subseteq ChunkIds
  BY <1>1 DEF FoundChunks
<1>3. IsFiniteSet(found) /\ found \subseteq Nat
  BY <1>2, SourceFacts, FS_Subset
<1>4. Cardinality(found) <= 1000
  BY <1>1, <1>3, FS_CardinalityType
<1>5. DOMAIN scored = found /\ scored \in [found -> Int]
  BY <1>1
<1> QED BY <1>2, <1>3, <1>4, <1>5 DEF Scored

LEMMA FoundStays ==
  ASSUME NEW scored, Found(scored), lived \subseteq lived'
  PROVE  Scored(scored) /\ DOMAIN scored \subseteq FoundChunks(lived')
BY FoundGrow DEF Found

LEMMA QueriesStep ==
  ASSUME StageInv, StageInv', QueriesInv, lived \subseteq lived', [SearchNext]_searchVars
  PROVE  QueriesInv'
<1>1. ASSUME vectorScored' = vectorScored \/ vectorScored' = NoScores PROVE Found(vectorScored)'
  <2>1. Scored(vectorScored') /\ DOMAIN vectorScored' \subseteq FoundChunks(lived')
    BY <1>1, FoundStays, NoScoresScored DEF QueriesInv
  <2> QED BY <2>1 DEF Found, Scored, FoundChunks, Own, SourceOf, ChunkIds
<1>2. ASSUME textScored' = textScored \/ textScored' = NoScores PROVE Found(textScored)'
  <2>1. Scored(textScored') /\ DOMAIN textScored' \subseteq FoundChunks(lived')
    BY <1>2, FoundStays, NoScoresScored DEF QueriesInv
  <2> QED BY <2>1 DEF Found, Scored, FoundChunks, Own, SourceOf, ChunkIds
<1>3. CASE QueryVectors
  <2>1. /\ vectorScored' \in Answers(Tuning.vectorTake, VectorScores) /\ textScored' = textScored
        /\ lived' = lived /\ stage = "search"
    BY <1>3 DEF QueryVectors, dataVars
  <2>2. Tuning.vectorTake \in Nat /\ Tuning.vectorTake <= 1000 /\ VectorScores \subseteq Int
    BY SearchAssumption
  <2>3. Scored(vectorScored') /\ DOMAIN vectorScored' \subseteq FoundChunks(stored)
    BY <2>1, <2>2, AnswersAreScored
  <2>4. FoundChunks(stored) \subseteq FoundChunks(lived')
    BY <2>1 DEF StageInv, Running, FoundChunks
  <2>5. Found(vectorScored)'
    BY <2>3, <2>4 DEF Found, Scored, FoundChunks, Own, SourceOf, ChunkIds
  <2> QED BY <2>1, <2>5, <1>2 DEF QueriesInv
<1>4. CASE QueryTexts
  <2>1. vectorScored' = vectorScored /\ lived' = lived /\ stage = "search"
    BY <1>4 DEF QueryTexts, dataVars
  <2>2. CASE textScored' = textScored
    BY <2>1, <2>2, <1>1, <1>2 DEF QueriesInv
  <2>3. CASE textScored' \in Answers(Tuning.ftsTake, TextScores)
    <3>1. Tuning.ftsTake \in Nat /\ Tuning.ftsTake <= 1000 /\ TextScores \subseteq Int
      BY SearchAssumption
    <3>2. Scored(textScored') /\ DOMAIN textScored' \subseteq FoundChunks(stored)
      BY <2>3, <3>1, AnswersAreScored
    <3>3. FoundChunks(stored) \subseteq FoundChunks(lived')
      BY <2>1 DEF StageInv, Running, FoundChunks
    <3>4. Found(textScored)'
      BY <3>2, <3>3 DEF Found, Scored, FoundChunks, Own, SourceOf, ChunkIds
    <3> QED BY <2>1, <3>4, <1>1 DEF QueriesInv
  <2> QED BY <1>4, <2>2, <2>3 DEF QueryTexts
<1>5. CASE StoreContent \/ DeleteRows \/ UNCHANGED searchVars
  <2>1. vectorScored' = vectorScored /\ textScored' = textScored
    BY <1>5, QuietSteps DEF SearchStays, queryVars
  <2> QED BY <2>1, <1>1, <1>2 DEF QueriesInv
<1>6. CASE BeginSearch \/ EmbedQuery \/ FuseCandidates \/ ResolveEntities \/ AssembleChunks \/ ShowHits
  <2>1. vectorScored' = vectorScored /\ textScored' = textScored
    BY <1>6 DEF BeginSearch, EmbedQuery, FuseCandidates, ResolveEntities, AssembleChunks, ShowHits,
                queryVars
  <2> QED BY <2>1, <1>1, <1>2 DEF QueriesInv
<1>7. CASE RerankCandidates \/ FailSearch
  <2>1. vectorScored' = NoScores /\ textScored' = NoScores
    BY <1>7 DEF RerankCandidates, FailSearch
  <2> QED BY <2>1, <1>1, <1>2 DEF QueriesInv
<1> QED BY <1>3, <1>4, <1>5, <1>6, <1>7 DEF SearchNext

-----------------------------------------------------------------------------
(* The candidates *)

LEMMA ListOverMore ==
  ASSUME NEW list, NEW B, NEW C, ListOver(list, B), B \subseteq C
  PROVE  ListOver(list, C)
<1>1. [chunk : B, score : 0..Unit] \subseteq [chunk : C, score : 0..Unit]
  OBVIOUS
<1>2. list \in Seq([chunk : C, score : 0..Unit])
  BY <1>1, SeqMonotonic DEF ListOver
<1> QED BY <1>2 DEF ListOver

LEMMA CandidatesAreOver ==
  ASSUME ListOver(candidates', FoundChunks(lived'))
  PROVE  ListOver(candidates, FoundChunks(lived))'
BY DEF ListOver, FoundChunks, Own, SourceOf, ChunkIds, Unit, RrfK

LEMMA AgreesStays ==
  ASSUME Agrees(candidates', vectorScored', textScored')
  PROVE  Agrees(candidates, vectorScored, textScored)'
BY DEF Agrees, NotBehind, Rank

LEMMA OpinionsAreSaid ==
  ASSUME ListOver(candidates, FoundChunks(lived)), Len(candidates) > 1, Tuning.keepTop > 1,
         NEW o \in OpinionsOn(Len(Prefix(candidates, Tuning.keepTop)))
  PROVE  o \in Seq(Said)
<1>1. PICK n : n = Len(Prefix(candidates, Tuning.keepTop))
  OBVIOUS
<1>2. candidates \in Seq([chunk : FoundChunks(lived), score : 0..Unit]) /\ Len(candidates) \in Nat
  BY ListFacts
<1>3. Tuning.keepTop \in Nat
  BY SearchAssumption
<1>4. n \in Nat /\ n > 0
  BY <1>1, <1>2, <1>3, PrefixFacts
<1>5. PICK S : S = [index : 1..Len(candidates) + 1, score : RerankScores]
  OBVIOUS
<1>6. S \subseteq Said
  <2>1. RerankScores \subseteq Int
    BY SearchAssumption
  <2>2. 1..Len(candidates) + 1 \subseteq Nat
    BY <1>2
  <2> HIDE SearchAssumption
  <2> QED BY ONLY <1>5, <2>1, <2>2 DEF Said
<1>7. o \in [1..n - 1 -> S] \cup [1..n -> S]
  BY <1>1, <1>5 DEF OpinionsOn
<1>8. CASE o \in [1..n - 1 -> S]
  <2>1. PICK k \in Nat : k = n - 1
    BY <1>4
  <2>2. o \in [1..k -> Said]
    BY <1>6, <1>8, <2>1
  <2> QED BY ONLY <2>1, <2>2, FunctionIsSeq
<1>9. CASE o \in [1..n -> S]
  <2>1. o \in [1..n -> Said] /\ n \in Nat
    BY <1>4, <1>6, <1>9
  <2> QED BY ONLY <2>1, FunctionIsSeq
<1> QED BY <1>7, <1>8, <1>9

LEMMA CandidatesStep ==
  ASSUME QueriesInv, CandidatesInv, QueriesInv', lived \subseteq lived', [SearchNext]_searchVars
  PROVE  CandidatesInv'
<1>1. ASSUME candidates' = candidates PROVE ListOver(candidates, FoundChunks(lived))'
  <2>1. ListOver(candidates, FoundChunks(lived'))
    BY FoundGrow, ListOverMore DEF CandidatesInv
  <2> QED BY <1>1, <2>1, CandidatesAreOver
<1>2. ASSUME candidates' = candidates, stage' # "rerank" PROVE CandidatesInv'
  BY <1>1, <1>2 DEF CandidatesInv
<1>3. CASE FuseCandidates
  <2>1. /\ candidates' = Fusion(vectorScored, textScored, terms) /\ lived' = lived
        /\ vectorScored' = vectorScored /\ textScored' = textScored
    BY <1>3 DEF FuseCandidates, dataVars, queryVars
  <2>2. /\ Scored(vectorScored) /\ DOMAIN vectorScored \subseteq FoundChunks(lived)
        /\ Scored(textScored) /\ DOMAIN textScored \subseteq FoundChunks(lived)
    BY DEF QueriesInv, Found
  <2>3. /\ ListOver(candidates', FoundChunks(lived))
        /\ Agrees(candidates', vectorScored, textScored)
    BY <2>1, <2>2, FusionFacts
  <2> QED BY <2>1, <2>3, CandidatesAreOver, AgreesStays DEF CandidatesInv
<1>4. CASE RerankCandidates
  <2>1. lived' = lived /\ stage' # "rerank"
    BY <1>4 DEF RerankCandidates, AfterRerank, dataVars
  <2>2. CASE candidates' = candidates
    BY <2>1, <2>2, <1>2
  <2>3. ASSUME Len(candidates) > 1, Tuning.keepTop > 1,
               NEW o \in OpinionsOn(Len(Prefix(candidates, Tuning.keepTop))),
               candidates' = Reranked(candidates, o)
        PROVE  CandidatesInv'
    <3>1. ListOver(candidates, FoundChunks(lived))
      BY DEF CandidatesInv
    <3>2. o \in Seq(Said)
      BY <2>3, <3>1, OpinionsAreSaid
    <3>3. ListOver(candidates', FoundChunks(lived'))
      BY <2>1, <2>3, <3>1, <3>2, RerankedOver
    <3> QED BY <2>1, <3>3, CandidatesAreOver DEF CandidatesInv
  <2> QED BY <1>4, <2>2, <2>3 DEF RerankCandidates
<1>5. CASE FailSearch
  <2>1. candidates' = <<>> /\ stage' # "rerank"
    BY <1>5 DEF FailSearch
  <2> QED BY <2>1, EmptyListOver, CandidatesAreOver DEF CandidatesInv
<1>6. CASE StoreContent \/ DeleteRows \/ UNCHANGED searchVars
  <2>1. /\ stage' = stage /\ candidates' = candidates
        /\ vectorScored' = vectorScored /\ textScored' = textScored
    BY <1>6, QuietSteps DEF SearchStays, queryVars
  <2>2. ASSUME stage = "rerank" PROVE Agrees(candidates, vectorScored, textScored)'
    BY <2>1, <2>2, AgreesStays DEF CandidatesInv
  <2> QED BY <2>1, <2>2, <1>1 DEF CandidatesInv
<1>7. CASE BeginSearch \/ EmbedQuery \/ QueryVectors \/ QueryTexts
  <2>1. candidates' = candidates /\ stage' # "rerank"
    BY <1>7 DEF BeginSearch, EmbedQuery, QueryVectors, QueryTexts
  <2> QED BY <2>1, <1>2
<1>8. CASE ResolveEntities \/ AssembleChunks \/ ShowHits
  <2>1. candidates' = candidates /\ stage' # "rerank"
    BY <1>8 DEF ResolveEntities, AssembleChunks, ShowHits
  <2> QED BY <2>1, <1>2
<1> QED BY <1>3, <1>4, <1>5, <1>6, <1>7, <1>8 DEF SearchNext

-----------------------------------------------------------------------------
(* The entities *)

LEMMA EntitiesAreOver ==
  ASSUME EntitiesOver(entities', FoundEntities(lived'), FoundChunks(lived')),
         \A i \in 1..Len(entities') : Sourced(candidates', entities'[i]),
         stage' \in {"new", "embed", "search", "rerank", "resolve"} => entities' = <<>>
  PROVE  EntitiesInv'
<1>1. EntitiesOver(entities, FoundEntities(lived), FoundChunks(lived))'
  BY DEF EntitiesOver, Entity, FoundEntities, FoundChunks, Own, SourceOf, ChunkIds, EntityIds,
         Unit, RrfK
<1>2. \A i \in 1..Len(entities') : Sourced(candidates, entities[i])'
  BY DEF Sourced, Contributes, SourceOf
<1> QED BY <1>1, <1>2 DEF EntitiesInv

LEMMA EntitiesStep ==
  ASSUME StageInv, CandidatesInv, EntitiesInv, lived \subseteq lived', [SearchNext]_searchVars
  PROVE  EntitiesInv'
<1>1. ASSUME entities' = entities, candidates' = candidates,
             stage' \in {"new", "embed", "search", "rerank", "resolve"} => entities' = <<>>
      PROVE  EntitiesInv'
  <2>1. EntitiesOver(entities', FoundEntities(lived'), FoundChunks(lived'))
    BY <1>1, FoundGrow, EntitiesOverMore DEF EntitiesInv
  <2> QED BY <1>1, <2>1, EntitiesAreOver DEF EntitiesInv
<1>2. ASSUME entities' = <<>> PROVE EntitiesInv'
  <2>1. EntitiesOver(entities', FoundEntities(lived'), FoundChunks(lived')) /\ Len(entities') = 0
    BY <1>2, EmptyEntitiesOver
  <2>2. \A i \in 1..Len(entities') : Sourced(candidates', entities'[i])
    BY <2>1
  <2> QED BY <1>2, <2>1, <2>2, EntitiesAreOver
<1>3. CASE BeginSearch \/ EmbedQuery \/ QueryVectors \/ QueryTexts \/ FuseCandidates
  <2>1. entities' = entities /\ stage \in {"new", "embed", "search"}
    BY <1>3 DEF BeginSearch, EmbedQuery, QueryVectors, QueryTexts, FuseCandidates
  <2> QED BY <2>1, <1>2 DEF EntitiesInv
<1>4. CASE RerankCandidates
  <2>1. entities' = entities /\ stage = "rerank"
    BY <1>4 DEF RerankCandidates
  <2> QED BY <2>1, <1>2 DEF EntitiesInv
<1>5. CASE ResolveEntities
  <2>1. /\ entities' = ResolvedEntities(candidates) /\ candidates' = candidates /\ lived' = lived
        /\ stage = "resolve" /\ stage' = "assemble"
    BY <1>5 DEF ResolveEntities, dataVars
  <2>2. ListOver(candidates, FoundChunks(lived))
    BY DEF CandidatesInv
  <2>3. /\ EntitiesOver(entities', FoundEntities(stored), FoundChunks(lived))
        /\ \A i \in 1..Len(entities') : Sourced(candidates, entities'[i])
    BY <2>1, <2>2, ResolvedFacts
  <2>4. FoundEntities(stored) \subseteq FoundEntities(lived)
    BY <2>1 DEF StageInv, Running, FoundEntities
  <2>5. EntitiesOver(entities', FoundEntities(lived'), FoundChunks(lived'))
    BY <2>1, <2>3, <2>4, EntitiesOverMore
  <2> QED BY <2>1, <2>3, <2>5, EntitiesAreOver
<1>6. CASE AssembleChunks \/ ShowHits
  <2>1. /\ entities' = entities /\ candidates' = candidates
        /\ stage' \notin {"new", "embed", "search", "rerank", "resolve"}
    BY <1>6 DEF AssembleChunks, ShowHits, queryVars
  <2> QED BY <2>1, <1>1
<1>7. CASE FailSearch
  BY <1>7, <1>2 DEF FailSearch
<1>8. CASE StoreContent \/ DeleteRows \/ UNCHANGED searchVars
  <2>1. stage' = stage /\ entities' = entities /\ candidates' = candidates
    BY <1>8, QuietSteps DEF SearchStays
  <2> QED BY <2>1, <1>1 DEF EntitiesInv
<1> QED BY <1>3, <1>4, <1>5, <1>6, <1>7, <1>8 DEF SearchNext

-----------------------------------------------------------------------------
(* What is shown *)

(* What is shown of these candidates, with the rows that were there *)
SoundPage(page, list, rows) ==
  LET shown == {page[i].row : i \in DOMAIN page}
  IN /\ Len(page) <= TotalLimit /\ Cardinality(shown) = Len(page)
     /\ \A i \in 1..Len(page) - 1 : page[i].score >= page[i + 1].score
     /\ shown \subseteq {r \in rows : Own(r)}
     /\ \A i \in DOMAIN page :
          page[i].row \in EntityIds => Contributes(list, page[i].row, page[i].score)

LEMMA ShownAreSound ==
  ASSUME NEW chunks, ListOver(chunks, FoundChunks(lived)), EntitiesInv
  PROVE  /\ SoundPage(Page(chunks, entities), candidates, lived)
         /\ Len(Page(chunks, entities)) \in Nat
         /\ Len(Page(chunks, entities)) <= Len(chunks) + Len(entities)
<1>1. PICK C : C = FoundChunks(lived)
  OBVIOUS
<1>2. PICK E : E = FoundEntities(lived)
  OBVIOUS
<1>3. C \cap EntityIds = {} /\ E \subseteq EntityIds /\ C \cup E \subseteq {r \in lived : Own(r)}
  BY <1>1, <1>2, SourceFacts DEF FoundChunks, FoundEntities
<1>4. PICK both : both = Rows(chunks, entities)
  OBVIOUS
<1>5. /\ RowsOnce(both, C \cup E) /\ FromEntities(both, E, entities)
      /\ Len(both) = Len(chunks) + Len(entities)
      /\ Len(chunks) \in Nat /\ Len(entities) \in Nat
  <2>1. ListOver(chunks, C) /\ EntitiesOver(entities, E, C) /\ C \cap E = {}
    BY <1>1, <1>2, <1>3 DEF EntitiesInv
  <2> QED BY ONLY <2>1, <1>4, RowsFacts
<1>6. PICK page : page = Page(chunks, entities)
  OBVIOUS
<1>7. RowsOnce(page, C \cup E) /\ BestOf(page, both)
  BY ONLY <1>4, <1>5, <1>6, PageFacts
<1>8. /\ Len(page) \in Nat /\ Len(page) <= TotalLimit /\ Len(page) <= Len(both)
      /\ \A i \in 1..Len(page) : \E k \in 1..Len(both) : page[i] = both[k]
      /\ \A i \in 1..Len(page) - 1 : page[i].score >= page[i + 1].score
  BY <1>7 DEF BestOf
<1>9. page \in Seq(Row(C \cup E)) /\ \A i, j \in 1..Len(page) : page[i].row = page[j].row => i = j
  BY <1>7 DEF RowsOnce
<1>10. DOMAIN page = 1..Len(page) /\ \A i \in 1..Len(page) : page[i].row \in C \cup E
  <2>1. DOMAIN page = 1..Len(page) /\ \A i \in 1..Len(page) : page[i] \in Row(C \cup E)
    BY <1>9, LenProperties, ElementOfSeq
  <2> QED BY <2>1 DEF Row
<1>11. PICK shown : shown = {page[i].row : i \in DOMAIN page}
  OBVIOUS
<1>12. Cardinality(shown) = Len(page)
  <2> DEFINE f == [i \in 1..Len(page) |-> page[i].row]
  <2>1. f \in Surjection(1..Len(page), shown)
    BY <1>10, <1>11 DEF Surjection
  <2>2. f \in Injection(1..Len(page), shown)
    BY <1>9, <1>10, <1>11 DEF Injection, IsInjective
  <2>3. IsFiniteSet(1..Len(page)) /\ Cardinality(1..Len(page)) = Len(page)
    <3>1. 1 \in Int /\ Len(page) \in Int
      BY <1>8
    <3>2. /\ IsFiniteSet(1..Len(page))
          /\ Cardinality(1..Len(page)) = IF 1 > Len(page) THEN 0 ELSE Len(page) - 1 + 1
      BY <3>1, FS_Interval
    <3> QED BY <3>2, <1>8
  <2> HIDE DEF f
  <2> QED BY <2>1, <2>2, <2>3, FS_Surjection
<1>13. ASSUME NEW i \in 1..Len(page), page[i].row \in EntityIds
       PROVE  Contributes(candidates, page[i].row, page[i].score)
  <2>1. page[i].row \in E
    BY <1>3, <1>10, <1>13
  <2>2. PICK k \in 1..Len(both) : page[i] = both[k]
    BY <1>8
  <2>3. PICK n \in 1..Len(entities) : /\ both[k].row = entities[n].entity
                                      /\ both[k].score = entities[n].score
    BY <1>5, <2>1, <2>2 DEF FromEntities
  <2>4. Sourced(candidates, entities[n])
    BY DEF EntitiesInv
  <2> QED BY <2>2, <2>3, <2>4 DEF Sourced
<1>14. shown \subseteq {r \in lived : Own(r)}
  BY <1>3, <1>10, <1>11
<1>15. Len(page) <= Len(chunks) + Len(entities)
  BY <1>5, <1>8
<1>16. SoundPage(page, candidates, lived)
  BY <1>8, <1>10, <1>11, <1>12, <1>13, <1>14 DEF SoundPage
<1> QED BY <1>6, <1>8, <1>15, <1>16

LEMMA EmptyPageIsSound == ASSUME NEW list, NEW rows PROVE SoundPage(<<>>, list, rows)
<1>1. Len(<<>>) = 0 /\ DOMAIN <<>> = {}
  BY EmptySeq
<1>2. {<<>>[i].row : i \in DOMAIN <<>>} = {}
  BY <1>1
<1>3. Cardinality({}) = 0
  BY FS_EmptySet
<1>4. TotalLimit \in Nat
  BY SearchAssumption
<1> QED BY <1>1, <1>2, <1>3, <1>4 DEF SoundPage

LEMMA HitsWereSound ==
  ASSUME stage = "answered", HitsAreSound
  PROVE  SoundPage(hits, candidates, lived)
BY DEF HitsAreSound, Shown, SoundPage

LEMMA HitsAreSoundThen ==
  ASSUME SoundPage(hits', candidates', lived')
  PROVE  HitsAreSound'
BY DEF HitsAreSound, Shown, SoundPage, Contributes, SourceOf, Own, EntityIds

LEMMA HitsStay ==
  ASSUME hits' = hits, stage' = stage, candidates' = candidates,
         stage = "answered" => lived' = lived, HitsAreSound
  PROVE  HitsAreSound'
<1>1. CASE stage # "answered"
  BY <1>1 DEF HitsAreSound
<1>2. CASE stage = "answered"
  <2>1. SoundPage(hits', candidates', lived')
    BY <1>2, HitsWereSound
  <2> QED BY <2>1, HitsAreSoundThen
<1> QED BY <1>1, <1>2

LEMMA HitsStep ==
  ASSUME StageInv, CandidatesInv, CandidatesInv', EntitiesInv, EntitiesInv', HitsInv,
         lived \subseteq lived', [SearchNext]_searchVars
  PROVE  HitsInv'
<1>1. Len(candidates) \in Nat /\ Len(candidates') \in Nat /\ Len(entities) \in Nat /\ Len(entities') \in Nat
  <2>1. Len(candidates) \in Nat
    BY ListFacts DEF CandidatesInv
  <2>2. Len(entities) \in Nat
    BY LenProperties DEF EntitiesInv, EntitiesOver
  <2>3. Len(candidates') \in Nat
    BY LenProperties DEF CandidatesInv, ListOver
  <2>4. Len(entities') \in Nat
    BY LenProperties DEF EntitiesInv, EntitiesOver
  <2> QED BY <2>1, <2>2, <2>3, <2>4
<1>2. ASSUME hits' = <<>>, stage' # "label" PROVE HitsInv'
  <2>1. Len(hits') = 0
    BY <1>2
  <2>2. SoundPage(<<>>, candidates', lived')
    BY EmptyPageIsSound
  <2>3. HitsAreSound'
    BY <1>2, <2>2, HitsAreSoundThen
  <2> QED BY <1>1, <1>2, <2>1, <2>3 DEF HitsInv
<1>3. CASE BeginSearch \/ EmbedQuery \/ QueryVectors \/ QueryTexts \/ FuseCandidates
  <2>1. hits' = hits /\ stage \notin {"label", "answered"} /\ stage' # "label"
    BY <1>3 DEF BeginSearch, EmbedQuery, QueryVectors, QueryTexts, FuseCandidates
  <2> QED BY <2>1, <1>2 DEF HitsInv
<1>4. CASE RerankCandidates \/ ResolveEntities
  <2>1. hits' = hits /\ stage \notin {"label", "answered"} /\ stage' # "label"
    BY <1>4 DEF RerankCandidates, AfterRerank, ResolveEntities
  <2> QED BY <2>1, <1>2 DEF HitsInv
<1>5. CASE FailSearch
  BY <1>5, <1>2 DEF FailSearch
<1>6. CASE AssembleChunks
  <2>1. PICK n : hits' = Prefix(candidates, n) /\ n \in Nat
    <3>1. /\ AtLeastOne(Tuning.resultCap) \in Nat /\ AtLeastOne(Tuning.vectorTake) \in Nat
      BY SearchAssumption DEF AtLeastOne
    <3>2. \E n : hits' = Prefix(candidates, n) /\ n \in {AtLeastOne(Tuning.resultCap), AtLeastOne(Tuning.vectorTake)}
      BY <1>6 DEF AssembleChunks
    <3> QED BY <3>1, <3>2
  <2>2. candidates' = candidates /\ lived' = lived /\ stage' = "label" /\ entities' = entities
    BY <1>6 DEF AssembleChunks, dataVars
  <2>3. ListOver(hits', FoundChunks(lived')) /\ Len(hits') <= Len(candidates')
    BY <2>1, <2>2, PrefixOver DEF CandidatesInv
  <2>4. Len(hits') \in Nat
    BY <2>3, ListFacts
  <2>5. ListOver(hits, FoundChunks(lived))'
    BY <2>3 DEF ListOver, FoundChunks, Own, SourceOf, ChunkIds, Unit, RrfK
  <2>6. HitsAreSound'
    BY <2>2 DEF HitsAreSound
  <2> QED BY <1>1, <2>2, <2>3, <2>4, <2>5, <2>6 DEF HitsInv
<1>7. CASE ShowHits
  <2>1. PICK chunks : hits' = Page(chunks, entities) /\ chunks \in {<<>>, hits} /\ stage = "label"
    BY <1>7 DEF ShowHits
  <2>2. /\ candidates' = candidates /\ lived' = lived /\ stage' = "answered" /\ entities' = entities
    BY <1>7 DEF ShowHits, dataVars
  <2>3. ListOver(chunks, FoundChunks(lived)) /\ Len(chunks) <= Len(candidates) /\ Len(chunks) \in Nat
    <3>1. CASE chunks = <<>>
      BY <3>1, <1>1, EmptyListOver
    <3>2. CASE chunks = hits
      BY <2>1, <3>2, ListFacts DEF HitsInv
    <3> QED BY <2>1, <3>1, <3>2
  <2>4. /\ SoundPage(hits', candidates', lived') /\ Len(hits') \in Nat
        /\ Len(hits') <= Len(chunks) + Len(entities)
    BY <2>1, <2>2, <2>3, ShownAreSound
  <2>6. HitsAreSound'
    BY <2>4, HitsAreSoundThen
  <2>7. Len(hits') <= Len(candidates') + Len(entities')
    BY <1>1, <2>2, <2>3, <2>4
  <2> QED BY <2>2, <2>6, <2>7 DEF HitsInv
<1>8. CASE StoreContent \/ DeleteRows \/ UNCHANGED searchVars
  <2>1. /\ stage' = stage /\ entities' = entities /\ candidates' = candidates /\ hits' = hits
        /\ stage = "answered" => lived' = lived
    BY <1>8, QuietSteps DEF SearchStays
  <2>2. HitsAreSound'
    BY <2>1, HitsStay DEF HitsInv
  <2>3. ASSUME stage = "label" PROVE ListOver(hits, FoundChunks(lived))'
    <3>1. ListOver(hits', FoundChunks(lived'))
      BY <2>1, <2>3, FoundGrow, ListOverMore DEF HitsInv
    <3> QED BY <3>1 DEF ListOver, FoundChunks, Own, SourceOf, ChunkIds, Unit, RrfK
  <2> QED BY <2>1, <2>2, <2>3 DEF HitsInv
<1> QED BY <1>3, <1>4, <1>5, <1>6, <1>7, <1>8 DEF SearchNext

LEMMA SearchInvStep == ASSUME SearchInv, [SearchNext]_searchVars PROVE SearchInv'
<1>1. StageInv /\ QueriesInv /\ CandidatesInv /\ EntitiesInv /\ HitsInv
  BY DEF SearchInv
<1>2. StageInv' /\ lived \subseteq lived'
  BY <1>1, StageStep
<1>3. QueriesInv'
  BY <1>1, <1>2, QueriesStep
<1>4. CandidatesInv'
  BY <1>1, <1>2, <1>3, CandidatesStep
<1>5. EntitiesInv'
  BY <1>1, <1>2, EntitiesStep
<1>6. HitsInv'
  BY <1>1, <1>2, <1>4, <1>5, HitsStep
<1> QED BY <1>2, <1>3, <1>4, <1>5, <1>6 DEF SearchInv

(* What a search fuses agrees with its queries, and what it shows is of the *)
(* user, was there, stands once and in order, and entities have the scores  *)
(* of their candidates (pipeline/mod.rs:121), for any contents, any tuning  *)
(* and whatever the indexes and the reranker say                            *)
THEOREM SearchesStaySound == SearchSpec => []SearchesAreSound
<1>1. ASSUME SearchInv PROVE SearchesAreSound
  <2>1. FusionKeepsAgreement
    BY <1>1 DEF SearchInv, CandidatesInv, Agrees, NotBehind, FusionKeepsAgreement
  <2> QED BY <1>1, <2>1 DEF SearchInv, HitsInv, SearchesAreSound
<1> QED BY <1>1, SearchInvInit, SearchInvStep, PTL DEF SearchSpec

(* Rows, candidates and hits have their types (pipeline/context.rs:17)      *)
THEOREM SearchTypes == SearchSpec => []SearchTypeOK
<1>1. ASSUME SearchInv PROVE SearchTypeOK
  <2>1. stored \subseteq ChunkIds \cup EntityIds
    BY <1>1 DEF SearchInv, StageInv
  <2>2. /\ \A i \in DOMAIN candidates : candidates[i].chunk \in ChunkIds
        /\ \A i \in DOMAIN candidates : candidates[i].score \in 0..Unit
    <3>1. PICK C : C = FoundChunks(lived)
      OBVIOUS
    <3>2. ListOver(candidates, C)
      BY <1>1, <3>1 DEF SearchInv, CandidatesInv
    <3>3. C \subseteq ChunkIds
      BY <3>1 DEF FoundChunks
    <3>4. /\ DOMAIN candidates = 1..Len(candidates)
          /\ \A i \in 1..Len(candidates) : candidates[i].chunk \in C /\ candidates[i].score \in 0..Unit
      BY ONLY <3>2, ListFacts
    <3> QED BY <3>3, <3>4
  <2>3. \A i \in DOMAIN entities : entities[i].entity \in EntityIds
    <3>1. entities \in Seq(Entity(FoundEntities(lived), FoundChunks(lived)))
      BY <1>1 DEF SearchInv, EntitiesInv, EntitiesOver
    <3>2. \A i \in DOMAIN entities : entities[i] \in Entity(FoundEntities(lived), FoundChunks(lived))
      BY <3>1, LenProperties, ElementOfSeq
    <3> QED BY <3>2 DEF Entity, FoundEntities
  <2> QED BY <1>1, <2>1, <2>2, <2>3 DEF SearchTypeOK, SearchInv, HitsInv
<1> QED BY <1>1, SearchInvInit, SearchInvStep, PTL DEF SearchSpec

-----------------------------------------------------------------------------
(* The mix of the benchmark (Slices), for any subsets and any target *)
LEMMA LeastOfTwo ==
  ASSUME NEW a \in Nat, NEW b \in Nat
  PROVE  Min({a, b}) = IF a <= b THEN a ELSE b
<1>1. PICK m : m = IF a <= b THEN a ELSE b
  OBVIOUS
<1>2. m \in {a, b} /\ \A y \in {a, b} : m <= y
  BY <1>1
<1>3. \A x \in {a, b} : (\A y \in {a, b} : x <= y) => x = m
  BY <1>1
<1> QED BY <1>1, <1>2, <1>3 DEF Min

LEMMA LeastIsMember ==
  ASSUME NEW S, S \subseteq Nat, S # {}
  PROVE  Min(S) \in S
<1>1. \E x \in S : \A y \in S : x <= y
  BY LeastNatural
<1> QED BY <1>1 DEF Min

(* Two quotas differ by one case at most *)
LEMMA QuotasAreEven ==
  ASSUME NEW n \in Nat, n > 0, NEW target \in Nat, NEW i \in 1..n, NEW j \in 1..n
  PROVE  /\ MixQuota(i, target, n) \in Nat
         /\ MixQuota(i, target, n) <= MixQuota(j, target, n) + 1
<1>1. PICK d : d = target \div n
  OBVIOUS
<1>2. PICK r : r = target % n
  OBVIOUS
<1>3. d \in Nat /\ r \in Nat
  BY <1>1, <1>2
<1>4. MixQuota(i, target, n) = d + (IF i <= r THEN 1 ELSE 0)
  BY <1>1, <1>2 DEF MixQuota
<1>5. MixQuota(j, target, n) = d + (IF j <= r THEN 1 ELSE 0)
  BY <1>1, <1>2 DEF MixQuota
<1> QED BY <1>3, <1>4, <1>5

(* What every subset is first given: its quota, or all it has *)
LEMMA FirstTaken ==
  ASSUME NEW n \in Nat, n > 0, NEW size \in [1..n -> Nat], NEW target \in Nat
  PROVE  /\ FirstTakes(size, target) \in [1..n -> Nat]
         /\ \A i \in 1..n :
              FirstTakes(size, target)[i] = IF MixQuota(i, target, n) <= size[i]
                                            THEN MixQuota(i, target, n) ELSE size[i]
<1>1. Len(size) = n /\ DOMAIN size = 1..n
  OBVIOUS
<1>2. PICK f : f = FirstTakes(size, target)
  OBVIOUS
<1>3. f = [i \in 1..n |-> Min({MixQuota(i, target, n), size[i]})]
  BY <1>1, <1>2 DEF FirstTakes
<1>4. ASSUME NEW i \in 1..n
      PROVE  /\ f[i] \in Nat
             /\ f[i] = IF MixQuota(i, target, n) <= size[i] THEN MixQuota(i, target, n) ELSE size[i]
  <2>1. PICK q \in Nat : q = MixQuota(i, target, n)
    BY QuotasAreEven
  <2>2. PICK z \in Nat : z = size[i]
    OBVIOUS
  <2>3. f[i] = Min({q, z})
    BY <1>3, <2>1, <2>2
  <2>4. Min({q, z}) = IF q <= z THEN q ELSE z
    BY LeastOfTwo
  <2> QED BY <2>1, <2>2, <2>3, <2>4
<1> QED BY <1>2, <1>3, <1>4

(* The shortfall is a number of cases *)
LEMMA ShortfallIsNatural ==
  ASSUME NEW n \in Nat, n > 0, NEW size \in [1..n -> Nat], NEW target \in Nat
  PROVE  Shortfall(size, target) \in Nat
<1>1. Len(size) = n
  OBVIOUS
<1>2. PICK take : take = FirstTakes(size, target)
  OBVIOUS
<1>3. PICK miss : miss = [i \in 1..n |-> MixQuota(i, target, n) - take[i]]
  OBVIOUS
<1>4. ASSUME NEW i \in 1..n PROVE miss[i] \in Nat
  <2>1. PICK q \in Nat : q = MixQuota(i, target, n)
    BY QuotasAreEven
  <2>2. PICK z \in Nat : z = size[i]
    OBVIOUS
  <2>3. take[i] = IF q <= z THEN q ELSE z
    <3>1. take[i] = IF MixQuota(i, target, n) <= size[i] THEN MixQuota(i, target, n) ELSE size[i]
      BY <1>2, FirstTaken
    <3> QED BY <2>1, <2>2, <3>1
  <2>4. miss[i] = q - take[i]
    BY <1>3, <2>1
  <2> QED BY <2>3, <2>4
<1>5. PICK F : F = [x \in Nat \X (1..n) |-> x[1] + miss[x[2]]]
  OBVIOUS
<1>6. F \in [Nat \X (1..n) -> Nat]
  BY <1>4, <1>5
<1>7. PICK g \in [0..n -> Nat] : Computed(g, 0, F, n)
  <2>1. 0 \in Nat
    OBVIOUS
  <2> QED BY ONLY <2>1, <1>6, n \in Nat, StepsExist
<1> DEFINE Sums(f) ==
      f = [i \in 0..n |-> IF i = 0 THEN 0
                          ELSE f[i - 1] + (MixQuota(i, target, n) - take[i])]
<1>8. Sums(g)
  <2>1. ASSUME NEW i \in 0..n
        PROVE  g[i] = IF i = 0 THEN 0 ELSE g[i - 1] + (MixQuota(i, target, n) - take[i])
    <3>1. CASE i = 0
      BY <1>7, <3>1 DEF Computed
    <3>2. CASE i # 0
      <4>1. i \in 1..n /\ i - 1 \in 0..n
        BY <3>2
      <4>2. g[i] = F[<<g[i - 1], i>>] /\ g[i - 1] \in Nat
        BY <4>1, <1>7 DEF Computed
      <4>3. g[i] = g[i - 1] + miss[i]
        BY <4>1, <4>2, <1>5
      <4> QED BY <4>1, <4>3, <1>3
    <3> QED BY <3>1, <3>2
  <2> QED BY <2>1
<1> DEFINE c == CHOOSE f : Sums(f)
<1>9. Sums(c)
  <2> HIDE DEF Sums
  <2> QED BY <1>8
<1>10. Shortfall(size, target) = c[n]
  BY <1>1, <1>2 DEF Shortfall
<1> HIDE DEF c
<1>11. c[0] = 0 /\ \A i \in 1..n : c[i] = c[i - 1] + miss[i]
  <2>1. c[0] = 0
    BY <1>9
  <2>2. ASSUME NEW i \in 1..n PROVE c[i] = c[i - 1] + miss[i]
    <3>1. i \in 0..n /\ i # 0
      OBVIOUS
    <3> QED BY <3>1, <1>3, <1>9
  <2> QED BY <2>1, <2>2
<1> DEFINE Naturals0 == {i \in 0..n : c[i] \in Nat}
<1>12. 0 \in Naturals0
  BY <1>11
<1>13. ASSUME NEW i \in 0..n, i \in Naturals0, i < n PROVE i + 1 \in Naturals0
  <2>1. i + 1 \in 1..n /\ i + 1 \in 0..n /\ (i + 1) - 1 = i
    BY <1>13
  <2>2. c[i] \in Nat /\ miss[i + 1] \in Nat
    BY <2>1, <1>4, <1>13
  <2>3. c[i + 1] = c[i] + miss[i + 1]
    BY <2>1, <1>11
  <2>4. c[i + 1] \in Nat
    BY <2>2, <2>3
  <2> QED BY <2>1, <2>4
<1>14. n \in Naturals0
  <2> HIDE DEF Naturals0
  <2>1. n \in 0..n
    OBVIOUS
  <2> QED BY <2>1, <1>12, <1>13, UpTo
<1> QED BY <1>10, <1>14

(* What has been granted: never more than there is, and no subset more than *)
(* one case before another one that has more to give                        *)
GrantedEvenly(g, take, size, n) ==
  /\ \A i \in 1..n : take[i] <= g[i] /\ g[i] <= size[i]
  /\ \A i, j \in 1..n : g[j] < size[j] => g[i] - take[i] <= g[j] - take[j] + 1

LEMMA GrantStaysEven ==
  ASSUME NEW n \in Nat, NEW size \in [1..n -> Nat], NEW take \in [1..n -> Nat],
         NEW g \in [1..n -> Nat], GrantedEvenly(g, take, size, n)
  PROVE  /\ Granted(g, take, size) \in [1..n -> Nat]
         /\ GrantedEvenly(Granted(g, take, size), take, size, n)
<1>1. PICK spare : spare = {i \in 1..n : size[i] > g[i]}
  OBVIOUS
<1>2. PICK next : next = {i \in spare : \A j \in spare : g[i] - take[i] <= g[j] - take[j]}
  OBVIOUS
<1>3. DOMAIN g = 1..n
  OBVIOUS
<1>4. Granted(g, take, size) = IF next = {} THEN g ELSE [g EXCEPT ![Min(next)] = g[Min(next)] + 1]
  BY <1>1, <1>2, <1>3 DEF Granted
<1>5. CASE next = {}
  BY <1>4, <1>5
<1>6. CASE next # {}
  <2>1. PICK m : m = Min(next)
    OBVIOUS
  <2>2. next \subseteq Nat
    BY <1>1, <1>2
  <2>3. m \in next
    BY <2>1, <2>2, <1>6, LeastIsMember
  <2>4. m \in 1..n /\ size[m] > g[m] /\ \A j \in spare : g[m] - take[m] <= g[j] - take[j]
    BY <2>3, <1>1, <1>2
  <2>5. PICK h : h = [g EXCEPT ![m] = g[m] + 1]
    OBVIOUS
  <2>6. Granted(g, take, size) = h
    BY <1>4, <1>6, <2>1, <2>5
  <2>7. h \in [1..n -> Nat] /\ h[m] = g[m] + 1 /\ \A i \in 1..n : i # m => h[i] = g[i]
    <3>1. m \in 1..n /\ g \in [1..n -> Nat]
      BY <2>4
    <3>2. PICK v \in Nat : v = g[m] + 1
      BY <3>1
    <3>3. h = [g EXCEPT ![m] = v]
      BY <2>5, <3>2
    <3>4. h \in [1..n -> Nat] /\ h[m] = v /\ \A i \in 1..n : i # m => h[i] = g[i]
      BY ONLY <3>1, <3>3, v \in Nat
    <3> QED BY <3>2, <3>4
  <2>8. ASSUME NEW i \in 1..n PROVE take[i] <= h[i] /\ h[i] <= size[i]
    <3>1. take[i] <= g[i] /\ g[i] <= size[i] /\ g[i] \in Nat /\ size[i] \in Nat /\ take[i] \in Nat
      BY DEF GrantedEvenly
    <3>2. CASE i = m
      BY <3>1, <3>2, <2>4, <2>7
    <3>3. CASE i # m
      BY <3>1, <3>3, <2>7
    <3> QED BY <3>2, <3>3
  <2>9. ASSUME NEW i \in 1..n, NEW j \in 1..n, h[j] < size[j]
        PROVE  h[i] - take[i] <= h[j] - take[j] + 1
    <3>1. /\ g[i] \in Nat /\ g[j] \in Nat /\ g[m] \in Nat /\ h[i] \in Nat /\ h[j] \in Nat
          /\ take[i] \in Nat /\ take[j] \in Nat /\ take[m] \in Nat /\ size[j] \in Nat
      BY <2>4, <2>7
    <3>2. g[j] <= h[j]
      <4>1. PICK a \in Nat, b \in Nat : a = g[j] /\ b = h[j]
        BY <3>1
      <4>2. b = a \/ b = a + 1
        BY <2>7, <4>1
      <4>3. a <= b
        BY ONLY <4>2, a \in Nat
      <4> QED BY <4>1, <4>3
    <3>3. g[j] < size[j]
      BY <3>1, <3>2, <2>9
    <3>4. g[i] - take[i] <= g[j] - take[j] + 1
      BY <3>3 DEF GrantedEvenly
    <3>5. g[m] - take[m] <= g[j] - take[j]
      BY <3>1, <3>3, <2>4, <1>1
    <3> PICK gi \in Nat, gj \in Nat, gm \in Nat, hi \in Nat, hj \in Nat,
             ti \in Nat, tj \in Nat, tm \in Nat :
          /\ gi = g[i] /\ gj = g[j] /\ gm = g[m] /\ hi = h[i] /\ hj = h[j]
          /\ ti = take[i] /\ tj = take[j] /\ tm = take[m]
      BY <3>1
    <3>8. gj <= hj /\ gi - ti <= gj - tj + 1 /\ gm - tm <= gj - tj
      BY <3>2, <3>4, <3>5
    <3>9. hi - ti <= hj - tj + 1 => h[i] - take[i] <= h[j] - take[j] + 1
      OBVIOUS
    <3>10. /\ gi \in Nat /\ gj \in Nat /\ gm \in Nat /\ hi \in Nat /\ hj \in Nat
           /\ ti \in Nat /\ tj \in Nat /\ tm \in Nat
      OBVIOUS
    <3>6. CASE i # m
      <4>1. hi = gi
        BY <3>6, <2>7
      <4>2. hi - ti <= hj - tj + 1
        BY ONLY <4>1, <3>8, <3>10
      <4> QED BY <4>2, <3>9
    <3>7. CASE i = m
      <4>1. hi = gm + 1 /\ ti = tm
        BY <3>7, <2>7
      <4>2. hi - ti <= hj - tj + 1
        BY ONLY <4>1, <3>8, <3>10
      <4> QED BY <4>2, <3>9
    <3> QED BY <3>6, <3>7
  <2> QED BY <2>6, <2>7, <2>8, <2>9 DEF GrantedEvenly
<1> QED BY <1>5, <1>6

(* However many cases are granted *)
LEMMA ToppedStaysEven ==
  ASSUME NEW n \in Nat, NEW size \in [1..n -> Nat], NEW take \in [1..n -> Nat], NEW turns \in Nat,
         \A i \in 1..n : take[i] <= size[i]
  PROVE  /\ Topped(take, size, turns) \in [1..n -> Nat]
         /\ GrantedEvenly(Topped(take, size, turns), take, size, n)
<1>1. PICK V : V = {g \in [1..n -> Nat] : GrantedEvenly(g, take, size, n)}
  OBVIOUS
<1>2. take \in V
  <2>1. ASSUME NEW i \in 1..n, NEW j \in 1..n
        PROVE  take[i] <= take[i] /\ take[i] - take[i] <= take[j] - take[j] + 1
    <3>1. take[i] \in Nat /\ take[j] \in Nat
      OBVIOUS
    <3> QED BY <3>1
  <2>2. GrantedEvenly(take, take, size, n)
    BY <2>1 DEF GrantedEvenly
  <2> QED BY <1>1, <2>2
<1>3. ASSUME NEW g \in V PROVE Granted(g, take, size) \in V
  <2>1. g \in [1..n -> Nat] /\ GrantedEvenly(g, take, size, n)
    BY <1>1
  <2>2. /\ Granted(g, take, size) \in [1..n -> Nat]
        /\ GrantedEvenly(Granted(g, take, size), take, size, n)
    BY <2>1, GrantStaysEven
  <2> QED BY <1>1, <2>2
<1>4. PICK F : F = [x \in V \X (1..turns) |-> Granted(x[1], take, size)]
  OBVIOUS
<1>5. F \in [V \X (1..turns) -> V]
  <2>1. ASSUME NEW x \in V \X (1..turns) PROVE Granted(x[1], take, size) \in V
    <3>1. x[1] \in V
      OBVIOUS
    <3> QED BY <3>1, <1>3
  <2> QED BY <1>4, <2>1
<1>6. PICK r \in [0..turns -> V] : Computed(r, take, F, turns)
  BY <1>2, <1>5, StepsExist
<1> DEFINE Tops(f) ==
      f = [t \in 0..turns |-> IF t = 0 THEN take ELSE Granted(f[t - 1], take, size)]
<1>7. Tops(r)
  <2>1. ASSUME NEW t \in 0..turns
        PROVE  r[t] = IF t = 0 THEN take ELSE Granted(r[t - 1], take, size)
    <3>1. CASE t = 0
      BY <1>6, <3>1 DEF Computed
    <3>2. CASE t # 0
      <4>1. t \in 1..turns /\ t - 1 \in 0..turns
        BY <3>2
      <4>2. r[t] = F[<<r[t - 1], t>>] /\ r[t - 1] \in V
        BY <4>1, <1>6 DEF Computed
      <4>3. PICK x : x = <<r[t - 1], t>>
        OBVIOUS
      <4>4. x \in V \X (1..turns) /\ x[1] = r[t - 1]
        BY <4>1, <4>2, <4>3
      <4>5. F[x] = Granted(x[1], take, size)
        BY <1>4, <4>4
      <4> QED BY <3>2, <4>2, <4>3, <4>4, <4>5
    <3> QED BY <3>1, <3>2
  <2> QED BY <2>1
<1> DEFINE c == CHOOSE f : Tops(f)
<1>8. Tops(c)
  <2> HIDE DEF Tops
  <2> QED BY <1>7
<1>9. Topped(take, size, turns) = c[turns]
  BY DEF Topped
<1> HIDE DEF c
<1> DEFINE Even == {t \in 0..turns : c[t] \in V}
<1>10. 0 \in Even
  <2>1. 0 \in 0..turns /\ c[0] = take
    BY <1>8
  <2> QED BY <2>1, <1>2
<1>11. ASSUME NEW t \in 0..turns, t \in Even, t < turns PROVE t + 1 \in Even
  <2>1. t + 1 \in 0..turns /\ t + 1 # 0 /\ (t + 1) - 1 = t
    BY <1>11
  <2>2. c[t + 1] = Granted(c[t], take, size)
    BY <1>8, <2>1
  <2>3. c[t] \in V
    BY <1>11
  <2> QED BY <2>1, <2>2, <2>3, <1>3
<1>12. c[turns] \in V
  <2> HIDE DEF Even
  <2>1. turns \in 0..turns
    OBVIOUS
  <2>2. turns \in Even
    BY <2>1, <1>10, <1>11, UpTo
  <2> QED BY <2>2 DEF Even
<1> QED BY <1>1, <1>9, <1>12

(* THE MIX TAKES FROM EVERY SUBSET ALIKE: whatever the subsets have and      *)
(* however many cases are asked for, no subset gives more than it has, and   *)
(* one that has more to give is at most two cases behind any other: one for  *)
(* the quotas' remainder, one for the shortfall (ordered_question_refs_beir) *)
THEOREM MixTakesAlike ==
  ASSUME NEW n \in Nat, n > 0, NEW size \in [1..n -> Nat], NEW target \in Nat
  PROVE  LET g == MixTakes(size, target)
         IN  /\ g \in [1..n -> Nat]
             /\ \A i \in 1..n : g[i] <= size[i]
             /\ \A i, j \in 1..n : g[i] > g[j] + 2 => g[j] = size[j]
<1>1. PICK take \in [1..n -> Nat] :
        /\ take = FirstTakes(size, target)
        /\ \A i \in 1..n : take[i] = IF MixQuota(i, target, n) <= size[i]
                                     THEN MixQuota(i, target, n) ELSE size[i]
  BY FirstTaken
<1>2. ASSUME NEW i \in 1..n PROVE take[i] <= size[i]
  <2>1. size[i] \in Nat /\ MixQuota(i, target, n) \in Nat
    BY QuotasAreEven
  <2> QED BY <2>1, <1>1
<1>3. PICK turns \in Nat : turns = Shortfall(size, target)
  BY ShortfallIsNatural
<1>4. PICK g : g = MixTakes(size, target)
  OBVIOUS
<1>5. g = Topped(take, size, turns)
  BY <1>1, <1>3, <1>4 DEF MixTakes
<1>6. g \in [1..n -> Nat] /\ GrantedEvenly(g, take, size, n)
  BY <1>2, <1>5, ToppedStaysEven
<1>7. ASSUME NEW i \in 1..n, NEW j \in 1..n, g[i] > g[j] + 2 PROVE g[j] = size[j]
  <2>1. /\ g[i] \in Nat /\ g[j] \in Nat /\ take[i] \in Nat /\ take[j] \in Nat
        /\ size[i] \in Nat /\ size[j] \in Nat
    BY <1>6
  <2>2. /\ MixQuota(i, target, n) \in Nat /\ MixQuota(j, target, n) \in Nat
        /\ MixQuota(i, target, n) <= MixQuota(j, target, n) + 1
    BY QuotasAreEven
  <2>3. take[j] <= g[j] /\ g[j] <= size[j]
    BY <1>6 DEF GrantedEvenly
  <2>4. take[i] <= MixQuota(i, target, n)
    BY <1>1, <2>1, <2>2
  <2>5. CASE g[j] < size[j]
    <3>1. take[j] = MixQuota(j, target, n)
      BY <1>1, <2>1, <2>2, <2>3, <2>5
    <3>2. g[i] - take[i] <= g[j] - take[j] + 1
      BY <1>6, <2>5 DEF GrantedEvenly
    <3> PICK gi \in Nat, gj \in Nat, ti \in Nat, tj \in Nat, qi \in Nat, qj \in Nat :
          /\ gi = g[i] /\ gj = g[j] /\ ti = take[i] /\ tj = take[j]
          /\ qi = MixQuota(i, target, n) /\ qj = MixQuota(j, target, n)
      BY <2>1, <2>2
    <3>3. /\ gi > gj + 2 /\ gi - ti <= gj - tj + 1
          /\ ti <= qi /\ qi <= qj + 1 /\ tj = qj
      BY <1>7, <2>2, <2>4, <3>1, <3>2
    <3>4. FALSE
      BY ONLY <3>3, gi \in Nat, gj \in Nat, ti \in Nat, tj \in Nat, qi \in Nat, qj \in Nat
    <3> QED BY <3>4
  <2> QED BY <2>1, <2>3, <2>5
<1>8. \A i \in 1..n : g[i] <= size[i]
  BY <1>6 DEF GrantedEvenly
<1> QED BY <1>4, <1>6, <1>7, <1>8
=============================================================================
