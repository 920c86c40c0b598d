---------------------------- MODULE FiguresProofs ----------------------------
(***************************************************************************)
(* What the figures keep, for inputs of any size.                          *)
(***************************************************************************)
EXTENDS Figures, FiniteSetTheorems, FunctionTheorems, SequenceTheorems, WellFoundedInduction, TLAPS

-----------------------------------------------------------------------------
(* Induction over the subsets of a finite set.                              *)
LEMMA SubsetInduction ==
  ASSUME NEW S, IsFiniteSet(S), NEW Good,
         \A s \in SUBSET S : (\A x \in s : s \ {x} \in Good) => s \in Good
  PROVE  SUBSET S \subseteq Good
<1> SUFFICES ASSUME (SUBSET S) \ Good # {} PROVE FALSE
  OBVIOUS
<1>1. IsWellFoundedOn(StrictSubsetOrdering(S), SUBSET S)
  <2>1. FiniteSubsetsOf(S) = SUBSET S
    BY FS_FiniteSubsetsOfFinite
  <2>2. IsWellFoundedOn(StrictSubsetOrdering(S), FiniteSubsetsOf(S))
    BY FS_StrictSubsetOrderingWellFounded
  <2> QED BY <2>1, <2>2
<1>2. PICK s \in (SUBSET S) \ Good :
        \A r \in (SUBSET S) \ Good : <<r, s>> \notin StrictSubsetOrdering(S)
  BY <1>1, WFMin
<1>3. ASSUME NEW x \in s PROVE s \ {x} \in Good
  <2>1. s \ {x} \in SUBSET S /\ s \in SUBSET S /\ s \ {x} # s
    OBVIOUS
  <2>2. <<s \ {x}, s>> \in StrictSubsetOrdering(S)
    BY <2>1 DEF StrictSubsetOrdering
  <2> QED BY <1>2, <2>1, <2>2
<1> QED BY <1>2, <1>3

-----------------------------------------------------------------------------
(* A sum of natural numbers is the number of ticks on as many tallies.      *)
Ticks(f, S) == {p \in S \X Nat : p[2] < f[p[1]]}
Tally(f, S) == IsFiniteSet(S) /\ \A x \in S : f[x] \in Nat

(* A tally of one has as many ticks as its number says...                   *)
LEMMA TicksOfOne ==
  ASSUME NEW f, NEW x, f[x] \in Nat
  PROVE  IsFiniteSet(Ticks(f, {x})) /\ Cardinality(Ticks(f, {x})) = f[x]
<1> DEFINE ticks == 0..(f[x] - 1)
<1>1. IsFiniteSet(ticks) /\ Cardinality(ticks) = f[x]
  <2>1. 0 \in Int /\ f[x] - 1 \in Int
    OBVIOUS
  <2>2. IsFiniteSet(ticks) /\ Cardinality(ticks) = IF 0 > f[x] - 1 THEN 0 ELSE f[x] - 1 - 0 + 1
    BY <2>1, FS_Interval
  <2> QED BY <2>2
<1>2. Ticks(f, {x}) = {x} \X ticks
  <2>1. \A t \in Nat : t < f[x] <=> t \in ticks
    OBVIOUS
  <2>2. ticks \subseteq Nat
    OBVIOUS
  <2> HIDE DEF ticks
  <2> QED BY <2>1, <2>2 DEF Ticks
<1>3. IsFiniteSet({x}) /\ Cardinality({x}) = 1
  BY FS_Singleton
<1> HIDE DEF ticks
<1>4. IsFiniteSet({x} \X ticks) /\ Cardinality({x} \X ticks) = 1 * f[x]
  BY <1>1, <1>3, FS_Product
<1>5. \A n \in Nat : 1 * n = n
  OBVIOUS
<1> QED BY <1>2, <1>4, <1>5

(* ... and disjoint tallies add.                                            *)
LEMMA TicksAdd ==
  ASSUME NEW f, NEW A, NEW B, IsFiniteSet(Ticks(f, A)), IsFiniteSet(Ticks(f, B)), A \cap B = {}
  PROVE  /\ IsFiniteSet(Ticks(f, A \cup B))
         /\ Cardinality(Ticks(f, A \cup B)) = Cardinality(Ticks(f, A)) + Cardinality(Ticks(f, B))
<1> DEFINE a == Ticks(f, A)
           b == Ticks(f, B)
<1>1. Ticks(f, A \cup B) = a \cup b /\ a \cap b = {}
  BY DEF Ticks
<1>2. IsFiniteSet(a) /\ IsFiniteSet(b)
  OBVIOUS
<1> HIDE DEF a, b
<1>3. /\ IsFiniteSet(a \cup b)
      /\ Cardinality(a \cup b) = Cardinality(a) + Cardinality(b) - Cardinality(a \cap b)
      /\ Cardinality(a) \in Nat /\ Cardinality(b) \in Nat /\ Cardinality(a \cap b) = 0
  BY <1>1, <1>2, FS_Union, FS_EmptySet, FS_CardinalityType
<1>4. Cardinality(a \cup b) = Cardinality(a) + Cardinality(b)
  BY <1>3
<1> QED BY <1>1, <1>3, <1>4 DEF a, b

(* The ticks of natural numbers over a finite set are finitely many.        *)
LEMMA TicksFinite ==
  ASSUME NEW f, NEW S, Tally(f, S)
  PROVE  \A s \in SUBSET S : IsFiniteSet(Ticks(f, s)) /\ Cardinality(Ticks(f, s)) \in Nat
<1> DEFINE Good == {s \in SUBSET S : IsFiniteSet(Ticks(f, s))}
<1>1. ASSUME NEW s \in SUBSET S, \A x \in s : s \ {x} \in Good PROVE s \in Good
  <2>1. CASE s = {}
    <3>1. Ticks(f, s) = {}
      BY <2>1 DEF Ticks
    <3> QED BY <3>1, FS_EmptySet
  <2>2. CASE s # {}
    <3>1. PICK x \in s : TRUE
      BY <2>2
    <3>2. IsFiniteSet(Ticks(f, s \ {x})) /\ IsFiniteSet(Ticks(f, {x}))
      BY <1>1, <3>1, TicksOfOne DEF Tally
    <3>3. (s \ {x}) \cup {x} = s /\ (s \ {x}) \cap {x} = {}
      BY <3>1
    <3>4. IsFiniteSet(Ticks(f, (s \ {x}) \cup {x}))
      BY <3>2, <3>3, TicksAdd
    <3> QED BY <3>3, <3>4
  <2> QED BY <2>1, <2>2
<1>2. IsFiniteSet(S)
  BY DEF Tally
<1> HIDE DEF Good
<1>3. SUBSET S \subseteq Good
  BY <1>1, <1>2, SubsetInduction
<1> QED BY <1>3, FS_CardinalityType DEF Good

(* The sum goes through the set by CHOOSE; its result is the tally's.       *)
LEMMA SumIsTicks ==
  ASSUME NEW f, NEW S, Tally(f, S)
  PROVE  SumFunctionOnSet(f, S) = Cardinality(Ticks(f, S))
<1> DEFINE Pick(s) == CHOOSE x \in s : TRUE
           Sums(F) == F = [s \in SUBSET S |-> IF s = {} THEN 0 ELSE f[Pick(s)] + F[s \ {Pick(s)}]]
           T       == [s \in SUBSET S |-> Cardinality(Ticks(f, s))]
<1>0. IsFiniteSet(S) /\ \A x \in S : f[x] \in Nat
  BY DEF Tally
<1>1. Sums(T)
  <2>1. T[{}] = 0
    <3>1. Ticks(f, {}) = {}
      BY DEF Ticks
    <3> QED BY <3>1, FS_EmptySet
  <2>2. ASSUME NEW s \in SUBSET S, s # {} PROVE T[s] = f[Pick(s)] + T[s \ {Pick(s)}]
    <3>1. Pick(s) \in s
      BY <2>2
    <3> DEFINE x == Pick(s)
               r == s \ {x}
    <3> HIDE DEF Pick, x
    <3>2. x \in S /\ r \in SUBSET S /\ r \cup {x} = s /\ r \cap {x} = {}
      BY <3>1 DEF x
    <3>3. f[x] \in Nat
      BY <1>0, <3>2
    <3>4. IsFiniteSet(Ticks(f, {x})) /\ Cardinality(Ticks(f, {x})) = f[x]
      BY <3>3, TicksOfOne
    <3> HIDE DEF r
    <3>5. IsFiniteSet(Ticks(f, r)) /\ Cardinality(Ticks(f, r)) \in Nat
      BY <3>2, TicksFinite
    <3>6. Cardinality(Ticks(f, r \cup {x})) = Cardinality(Ticks(f, r)) + Cardinality(Ticks(f, {x}))
      BY <3>2, <3>4, <3>5, TicksAdd
    <3>7. T[s] = Cardinality(Ticks(f, s)) /\ T[r] = Cardinality(Ticks(f, r))
      BY <3>2
    <3> HIDE DEF T
    <3>8. Ticks(f, r \cup {x}) = Ticks(f, s)
      BY Zenon, <3>2
    <3>9. T[s] = f[x] + T[r]
      BY <3>3, <3>4, <3>5, <3>6, <3>7, <3>8
    <3> QED BY <3>9 DEF x, r
  <2> HIDE DEF Pick
  <2> QED BY <2>1, <2>2
<1>2. \E F : Sums(F) /\ SumFunctionOnSet(f, S) = F[S]
  <2>1. SumFunctionOnSet(f, S) = (CHOOSE F : Sums(F))[S]
    BY DEF SumFunctionOnSet, FoldFunctionOnSet, MapThenFoldSet
  <2> QED BY <1>1, <2>1
<1>3. ASSUME NEW F, Sums(F) PROVE F[S] = T[S]
  <2> DEFINE Good == {s \in SUBSET S : F[s] = T[s]}
  <2>1. ASSUME NEW s \in SUBSET S, \A x \in s : s \ {x} \in Good PROVE s \in Good
    <3>1. s # {} => Pick(s) \in s
      OBVIOUS
    <3> HIDE DEF Pick
    <3>2. s # {} => F[s \ {Pick(s)}] = T[s \ {Pick(s)}]
      BY <2>1, <3>1
    <3>3. F[s] = IF s = {} THEN 0 ELSE f[Pick(s)] + F[s \ {Pick(s)}]
      BY <1>3
    <3>4. T[s] = IF s = {} THEN 0 ELSE f[Pick(s)] + T[s \ {Pick(s)}]
      BY <1>1
    <3> QED BY <3>2, <3>3, <3>4
  <2> HIDE DEF Good
  <2>2. SUBSET S \subseteq Good
    BY <1>0, <2>1, SubsetInduction
  <2> QED BY <2>2 DEF Good
<1> HIDE DEF Sums
<1> QED BY <1>2, <1>3

-----------------------------------------------------------------------------
(* What follows for sums.                                                   *)
LEMMA SumType ==
  ASSUME NEW f, NEW S, Tally(f, S)
  PROVE  SumFunctionOnSet(f, S) \in Nat
BY SumIsTicks, TicksFinite

(* The empty sum is 0.                                                      *)
LEMMA SumOfNone == ASSUME NEW f PROVE SumFunctionOnSet(f, {}) = 0
<1>1. Tally(f, {})
  BY FS_EmptySet DEF Tally
<1>2. Ticks(f, {}) = {}
  BY DEF Ticks
<1> QED BY <1>1, <1>2, SumIsTicks, FS_EmptySet

(* A part of the addends has no greater sum; in particular one of them.     *)
LEMMA SumOfPart ==
  ASSUME NEW f, NEW S, Tally(f, S), NEW A \in SUBSET S
  PROVE  Tally(f, A) /\ SumFunctionOnSet(f, A) <= SumFunctionOnSet(f, S)
<1>1. Tally(f, A)
  BY FS_Subset DEF Tally
<1>2. Ticks(f, A) \in SUBSET Ticks(f, S)
  BY DEF Ticks
<1>3. IsFiniteSet(Ticks(f, S))
  BY TicksFinite
<1>4. Cardinality(Ticks(f, A)) <= Cardinality(Ticks(f, S))
  BY <1>2, <1>3, FS_Subset
<1> QED BY <1>1, <1>4, SumIsTicks

(* The sum over one element is its addend.                                  *)
LEMMA SumOfOne ==
  ASSUME NEW f, NEW x, f[x] \in Nat
  PROVE  Tally(f, {x}) /\ SumFunctionOnSet(f, {x}) = f[x]
<1>1. Tally(f, {x})
  BY FS_Singleton DEF Tally
<1> QED BY <1>1, SumIsTicks, TicksOfOne

(* No addend is more than the sum.                                          *)
LEMMA AddendInSum ==
  ASSUME NEW f, NEW S, Tally(f, S), NEW x \in S
  PROVE  f[x] \in Nat /\ f[x] <= SumFunctionOnSet(f, S)
<1>1. f[x] \in Nat
  BY DEF Tally
<1>2. SumFunctionOnSet(f, {x}) = f[x]
  BY <1>1, SumOfOne
<1>3. {x} \in SUBSET S
  OBVIOUS
<1>4. SumFunctionOnSet(f, {x}) <= SumFunctionOnSet(f, S)
  BY <1>3, SumOfPart
<1> QED BY <1>1, <1>2, <1>4

(* The sum over two disjoint sets is the sum of their sums.                 *)
LEMMA SumOfTwo ==
  ASSUME NEW f, NEW S, Tally(f, S), NEW A \in SUBSET S, NEW B \in SUBSET S, A \cap B = {}
  PROVE  SumFunctionOnSet(f, A \cup B) = SumFunctionOnSet(f, A) + SumFunctionOnSet(f, B)
<1>1. IsFiniteSet(Ticks(f, A)) /\ IsFiniteSet(Ticks(f, B))
  BY TicksFinite
<1>2. Cardinality(Ticks(f, A \cup B)) = Cardinality(Ticks(f, A)) + Cardinality(Ticks(f, B))
  BY <1>1, TicksAdd
<1>3. A \cup B \in SUBSET S
  OBVIOUS
<1>4. Tally(f, A) /\ Tally(f, B) /\ Tally(f, A \cup B)
  BY <1>3, SumOfPart
<1>5. /\ SumFunctionOnSet(f, A) = Cardinality(Ticks(f, A))
      /\ SumFunctionOnSet(f, B) = Cardinality(Ticks(f, B))
      /\ SumFunctionOnSet(f, A \cup B) = Cardinality(Ticks(f, A \cup B))
  BY <1>4, SumIsTicks
<1> QED BY <1>2, <1>5

(* Equal addends have equal sums, also under other names: k renames those   *)
(* of D one to one to those of S.                                           *)
LEMMA SumRenamed ==
  ASSUME NEW f, NEW S, Tally(f, S), NEW D, NEW k \in Bijection(D, S),
         NEW g, \A x \in D : g[x] = f[k[x]]
  PROVE  Tally(g, D) /\ SumFunctionOnSet(g, D) = SumFunctionOnSet(f, S)
<1>1. k \in Injection(D, S) /\ k \in [D -> S] /\ \A y \in S : \E x \in D : k[x] = y
  BY DEF Bijection, Injection, Surjection
<1>2. IsFiniteSet(S) /\ \A x \in S : f[x] \in Nat
  BY DEF Tally
<1>3. IsFiniteSet(D)
  BY <1>1, <1>2, FS_Injection
<1>4. Tally(g, D)
  BY <1>1, <1>2, <1>3 DEF Tally
<1> DEFINE move == [p \in Ticks(g, D) |-> <<k[p[1]], p[2]>>]
<1>5. move \in Bijection(Ticks(g, D), Ticks(f, S))
  <2>1. \A p \in Ticks(g, D) : move[p] \in Ticks(f, S)
    BY <1>1 DEF Ticks
  <2>2. ASSUME NEW p \in Ticks(g, D), NEW q \in Ticks(g, D), move[p] = move[q] PROVE p = q
    <3>1. k[p[1]] = k[q[1]] /\ p[2] = q[2] /\ p[1] \in D /\ q[1] \in D
      BY <2>2 DEF Ticks
    <3>2. p[1] = q[1]
      BY <1>1, <3>1 DEF Injection, IsInjective
    <3>3. p = <<p[1], p[2]>> /\ q = <<q[1], q[2]>>
      BY DEF Ticks
    <3> QED BY <3>1, <3>2, <3>3
  <2>3. ASSUME NEW q \in Ticks(f, S) PROVE \E p \in Ticks(g, D) : move[p] = q
    <3>1. PICK x \in D : k[x] = q[1]
      BY <1>1 DEF Ticks
    <3>2. <<x, q[2]>> \in Ticks(g, D) /\ q = <<q[1], q[2]>>
      BY <3>1 DEF Ticks
    <3> QED BY <3>1, <3>2
  <2>4. move \in [Ticks(g, D) -> Ticks(f, S)]
    BY <2>1
  <2> HIDE DEF move
  <2> QED BY <2>2, <2>3, <2>4 DEF Bijection, Injection, Surjection, IsInjective
<1>6. Cardinality(Ticks(f, S)) = Cardinality(Ticks(g, D))
  <2>1. IsFiniteSet(Ticks(g, D))
    BY <1>4, TicksFinite
  <2> QED BY <1>5, <2>1, FS_Bijection DEF ExistsBijection
<1> QED BY <1>4, <1>6, SumIsTicks

(* Sums of equal addends are equal.                                         *)
LEMMA SumOfEquals ==
  ASSUME NEW f, NEW S, Tally(f, S), NEW g, \A x \in S : g[x] = f[x]
  PROVE  Tally(g, S) /\ SumFunctionOnSet(g, S) = SumFunctionOnSet(f, S)
<1>1. Tally(g, S)
  BY DEF Tally
<1>2. Ticks(g, S) = Ticks(f, S)
  BY DEF Ticks
<1> QED BY <1>1, <1>2, SumIsTicks

(* Zeros may be left out.                                                   *)
LEMMA SumWithoutZeros ==
  ASSUME NEW f, NEW S, Tally(f, S), NEW A \in SUBSET S, \A x \in S \ A : f[x] = 0
  PROVE  SumFunctionOnSet(f, A) = SumFunctionOnSet(f, S)
<1>1. Ticks(f, A) = Ticks(f, S)
  BY DEF Ticks, Tally
<1>2. Tally(f, A)
  BY SumOfPart
<1> QED BY <1>1, <1>2, SumIsTicks

(* Sums by group: the sum over the groups of G is that over their members.  *)
GroupOf(S, at, y) == {x \in S : at[x] = y}
GroupsOf(S, at, G) == {x \in S : at[x] \in G}
Groups(f, S, at, g, G) == \A y \in G : g[y] = SumFunctionOnSet(f, GroupOf(S, at, y))

(* Summing group by group is summing.                                       *)
LEMMA SumOfGroups ==
  ASSUME NEW f, NEW S, Tally(f, S), NEW G, IsFiniteSet(G), NEW at,
         NEW g, Groups(f, S, at, g, G)
  PROVE  /\ Tally(g, G)
         /\ SumFunctionOnSet(g, G) = SumFunctionOnSet(f, GroupsOf(S, at, G))
<1> DEFINE Of1(y)  == {x \in S : at[x] = y}
           In(H)   == {x \in S : at[x] \in H}
           Good    == {H \in SUBSET G : SumFunctionOnSet(g, H) = SumFunctionOnSet(f, In(H))}
<1>1. \A y : Of1(y) \in SUBSET S
  OBVIOUS
<1>2. \A y \in G : g[y] = SumFunctionOnSet(f, Of1(y)) /\ g[y] \in Nat
  <2>0. \A y : GroupOf(S, at, y) = Of1(y)
    BY DEF GroupOf
  <2> HIDE DEF Of1
  <2>1. \A y : Tally(f, Of1(y)) /\ SumFunctionOnSet(f, Of1(y)) \in Nat
    BY <1>1, SumOfPart, SumType
  <2> QED BY <2>0, <2>1 DEF Groups
<1>3. Tally(g, G)
  BY <1>2 DEF Tally
<1>4. ASSUME NEW H \in SUBSET G, \A y \in H : H \ {y} \in Good PROVE H \in Good
  <2>1. CASE H = {}
    <3>1. In(H) = {}
      BY <2>1
    <3> QED BY <2>1, <3>1, SumOfNone
  <2>2. CASE H # {}
    <3>1. PICK y \in H : TRUE
      BY <2>2
    <3> DEFINE R == H \ {y}
    <3>2. In(H) = In(R) \cup Of1(y) /\ In(R) \cap Of1(y) = {} /\ In(R) \in SUBSET S
      BY <3>1
    <3>3. H = R \cup {y} /\ R \cap {y} = {} /\ R \in SUBSET G /\ {y} \in SUBSET G
      BY <3>1
    <3>4. SumFunctionOnSet(g, R) = SumFunctionOnSet(f, In(R))
      BY <1>4, <3>1
    <3> HIDE DEF In, R, Of1
    <3>5. SumFunctionOnSet(g, R \cup {y}) = SumFunctionOnSet(g, R) + SumFunctionOnSet(g, {y})
      BY <1>3, <3>3, SumOfTwo
    <3>6. SumFunctionOnSet(f, In(R) \cup Of1(y)) = SumFunctionOnSet(f, In(R)) + SumFunctionOnSet(f, Of1(y))
      BY <1>1, <3>2, SumOfTwo
    <3>7. SumFunctionOnSet(g, {y}) = g[y] /\ g[y] = SumFunctionOnSet(f, Of1(y))
      BY <1>2, <3>1, SumOfOne
    <3>8. SumFunctionOnSet(g, H) = SumFunctionOnSet(g, R \cup {y})
      BY Zenon, <3>3
    <3>9. SumFunctionOnSet(f, In(H)) = SumFunctionOnSet(f, In(R) \cup Of1(y))
      BY Zenon, <3>2
    <3>10. SumFunctionOnSet(g, H) = SumFunctionOnSet(f, In(H))
      BY <3>4, <3>5, <3>6, <3>7, <3>8, <3>9
    <3> QED BY <3>10
  <2> QED BY <2>1, <2>2
<1> HIDE DEF Good, In
<1>5. SUBSET G \subseteq Good
  BY <1>4, SubsetInduction
<1>6. SumFunctionOnSet(g, G) = SumFunctionOnSet(f, In(G))
  BY <1>5 DEF Good
<1> QED BY <1>3, <1>6 DEF In, GroupsOf

-----------------------------------------------------------------------------
(* The rank of an element is the number of elements before it.              *)
RankIn(x, R, S) == Cardinality(SetLessThan(x, R, S))

(* In a finite set of n elements with a strict total order, each of 0..n-1  *)
(* is the rank of exactly one element.                                      *)
LEMMA Ranks ==
  ASSUME NEW S, IsFiniteSet(S), NEW R,
         \A x \in S : <<x, x>> \notin R,
         \A x, y, z \in S : <<x, y>> \in R /\ <<y, z>> \in R => <<x, z>> \in R,
         \A x, y \in S : x # y => <<x, y>> \in R \/ <<y, x>> \in R
  PROVE  /\ \A x \in S : RankIn(x, R, S) \in 0..(Cardinality(S) - 1)
         /\ \A x, y \in S : RankIn(x, R, S) = RankIn(y, R, S) => x = y
         /\ \A i \in 0..(Cardinality(S) - 1) : \E x \in S : RankIn(x, R, S) = i
<1> DEFINE Below(x) == SetLessThan(x, R, S)
           size == Cardinality(S)
           rank == [x \in S |-> Cardinality(Below(x))]
<1>1. size \in Nat
  BY FS_CardinalityType
<1>2. ASSUME NEW x \in S
      PROVE  /\ IsFiniteSet(Below(x)) /\ rank[x] \in Nat /\ rank[x] < size
             /\ rank[x] = Cardinality(Below(x))
  <2>1. Below(x) \in SUBSET S /\ x \notin Below(x)
    BY DEF SetLessThan
  <2> DEFINE below == Below(x)
  <2> HIDE DEF below
  <2>2. /\ IsFiniteSet(below) /\ Cardinality(below) \in Nat
        /\ Cardinality(below) <= size /\ (Cardinality(S) = Cardinality(below) => S = below)
    BY <2>1, FS_Subset, FS_CardinalityType DEF below
  <2> HIDE DEF size
  <2>3. Cardinality(below) < size
    BY <1>1, <2>1, <2>2 DEF below, size
  <2> QED BY <2>2, <2>3 DEF below
<1>3. ASSUME NEW x \in S, NEW y \in S, <<x, y>> \in R
      PROVE  rank[x] # rank[y]
  <2>1. Below(x) \in SUBSET Below(y) /\ x \in Below(y) /\ x \notin Below(x)
    BY <1>3 DEF SetLessThan
  <2>2. IsFiniteSet(Below(y)) /\ rank[x] = Cardinality(Below(x)) /\ rank[y] = Cardinality(Below(y))
    BY <1>2
  <2> HIDE DEF Below, rank
  <2> QED BY <2>1, <2>2, FS_Subset
<1>4. rank \in Injection(S, 0..(size - 1))
  <2>1. \A x \in S : rank[x] \in 0..(size - 1)
    <3>1. \A x \in S : rank[x] \in Nat /\ rank[x] < size
      BY <1>2
    <3> HIDE DEF rank, size
    <3> QED BY <1>1, <3>1
  <2>2. rank \in [S -> 0..(size - 1)]
    BY <2>1
  <2> HIDE DEF rank
  <2> QED BY <1>3, <2>2 DEF Injection, IsInjective
<1>5. IsFiniteSet(0..(size - 1)) /\ Cardinality(0..(size - 1)) = size
  <2> HIDE DEF size
  <2>1. /\ IsFiniteSet(0..(size - 1))
        /\ Cardinality(0..(size - 1)) = IF 0 > size - 1 THEN 0 ELSE size - 1 - 0 + 1
    <3>1. 0 \in Int /\ size - 1 \in Int
      BY <1>1
    <3> QED BY <3>1, FS_Interval
  <2> QED BY <1>1, <2>1
<1>6. rank \in Surjection(S, 0..(size - 1))
  <2> HIDE DEF rank
  <2> QED BY <1>4, <1>5, FS_Injection
<1>7. \A x \in S : RankIn(x, R, S) = rank[x]
  BY DEF RankIn
<1> HIDE DEF rank
<1> QED BY <1>4, <1>6, <1>7 DEF Injection, Surjection, IsInjective

(* The elements of S lined up by the relation R: what Arranged makes of an  *)
(* order that is an operator.                                               *)
Lined(S, R) == [k \in 1..Cardinality(S) |-> CHOOSE x \in S : RankIn(x, R, S) = k - 1]

(* All of them are there, once, and in order.                               *)
LEMMA LinedUp ==
  ASSUME NEW S, IsFiniteSet(S), NEW R,
         \A x \in S : <<x, x>> \notin R,
         \A x, y, z \in S : <<x, y>> \in R /\ <<y, z>> \in R => <<x, z>> \in R,
         \A x, y \in S : x # y => <<x, y>> \in R \/ <<y, x>> \in R
  PROVE  /\ Cardinality(S) \in Nat /\ Lined(S, R) \in [1..Cardinality(S) -> S]
         /\ \A x \in S : \E k \in 1..Cardinality(S) : Lined(S, R)[k] = x
         /\ \A i, j \in 1..Cardinality(S) : i < j => <<Lined(S, R)[i], Lined(S, R)[j]>> \in R
<1> DEFINE size == Cardinality(S)
           L == Lined(S, R)
<1>1. size \in Nat
  BY FS_CardinalityType
<1>2. /\ \A x \in S : RankIn(x, R, S) \in 0..(size - 1)
      /\ \A x, y \in S : RankIn(x, R, S) = RankIn(y, R, S) => x = y
      /\ \A i \in 0..(size - 1) : \E x \in S : RankIn(x, R, S) = i
  BY Ranks
<1>3. L = [k \in 1..size |-> CHOOSE x \in S : RankIn(x, R, S) = k - 1]
  BY DEF Lined
<1> HIDE DEF size, L
<1>4. ASSUME NEW k \in 1..size PROVE L[k] \in S /\ RankIn(L[k], R, S) = k - 1
  <2>1. k - 1 \in 0..(size - 1)
    BY <1>1
  <2>2. \E x \in S : RankIn(x, R, S) = k - 1
    BY <1>2, <2>1
  <2>3. L[k] = CHOOSE x \in S : RankIn(x, R, S) = k - 1
    BY <1>3
  <2> QED BY <2>2, <2>3
<1>5. ASSUME NEW x \in S PROVE \E k \in 1..size : L[k] = x
  <2>1. RankIn(x, R, S) + 1 \in 1..size
    BY <1>1, <1>2
  <2>2. RankIn(L[RankIn(x, R, S) + 1], R, S) = RankIn(x, R, S)
    BY <1>1, <1>2, <1>4, <2>1
  <2> QED BY <1>2, <1>4, <2>1, <2>2
<1>6. ASSUME NEW i \in 1..size, NEW j \in 1..size, i < j PROVE <<L[i], L[j]>> \in R
  <2> DEFINE x == L[i]
             y == L[j]
  <2>1. x \in S /\ y \in S /\ RankIn(x, R, S) = i - 1 /\ RankIn(y, R, S) = j - 1
    BY <1>4
  <2> HIDE DEF x, y
  <2>2. RankIn(x, R, S) < RankIn(y, R, S) /\ RankIn(x, R, S) \in Nat /\ RankIn(y, R, S) \in Nat
    BY <1>1, <1>6, <2>1
  <2>3. SetLessThan(x, R, S) \in SUBSET S
    BY DEF SetLessThan
  <2>4. IsFiniteSet(SetLessThan(x, R, S))
    BY <2>3, FS_Subset
  <2>5. ASSUME <<y, x>> \in R PROVE FALSE
    <3>1. SetLessThan(y, R, S) \in SUBSET SetLessThan(x, R, S)
      BY <2>1, <2>5 DEF SetLessThan
    <3>2. Cardinality(SetLessThan(y, R, S)) <= Cardinality(SetLessThan(x, R, S))
      BY <2>4, <3>1, FS_Subset
    <3> QED BY <2>2, <3>2 DEF RankIn
  <2>6. x # y
    BY <2>2
  <2> QED BY <2>1, <2>5, <2>6 DEF x, y
<1>7. L \in [1..size -> S]
  BY <1>3, <1>4
<1> QED BY <1>1, <1>5, <1>6, <1>7 DEF size, L

(* The same, for one order that is known as such.                           *)
StrictlyOrders(R, S) ==
  /\ \A x \in S : <<x, x>> \notin R
  /\ \A x, y, z \in S : <<x, y>> \in R /\ <<y, z>> \in R => <<x, z>> \in R
  /\ \A x, y \in S : x # y => <<x, y>> \in R \/ <<y, x>> \in R
LinesUp(L, R, S) ==
  /\ L \in [1..Cardinality(S) -> S]
  /\ \A x \in S : \E k \in 1..Cardinality(S) : L[k] = x
  /\ \A i, j \in 1..Cardinality(S) : i < j => <<L[i], L[j]>> \in R

LEMMA OrderLinesUp ==
  ASSUME NEW S, IsFiniteSet(S), NEW R, StrictlyOrders(R, S)
  PROVE  LinesUp(Lined(S, R), R, S)
<1>1. /\ \A x \in S : <<x, x>> \notin R
      /\ \A x, y, z \in S : <<x, y>> \in R /\ <<y, z>> \in R => <<x, z>> \in R
      /\ \A x, y \in S : x # y => <<x, y>> \in R \/ <<y, x>> \in R
  BY DEF StrictlyOrders
<1> QED BY <1>1, LinedUp DEF LinesUp

(* The positions of a set, in ascending order: what Filter goes through.    *)
Positions(I) == Arranged(I, LAMBDA i, j : i < j)
Kept(s, I) == [k \in DOMAIN Positions(I) |-> s[Positions(I)[k]]]

(* They are the elements of the set, ascending.                             *)
LEMMA PositionsAscend ==
  ASSUME NEW I \in SUBSET Int, IsFiniteSet(I)
  PROVE  /\ Cardinality(I) \in Nat /\ Positions(I) \in [1..Cardinality(I) -> I]
         /\ \A i \in I : \E k \in 1..Cardinality(I) : Positions(I)[k] = i
         /\ \A k, l \in 1..Cardinality(I) : k < l => Positions(I)[k] < Positions(I)[l]
<1> DEFINE R == {p \in I \X I : p[1] < p[2]}
<1>1. \A x \in I : RankIn(x, R, I) = Cardinality({y \in I : y < x})
  <2> SUFFICES ASSUME NEW x \in I PROVE SetLessThan(x, R, I) = {y \in I : y < x}
    BY DEF RankIn
  <2> QED BY DEF SetLessThan
<1>2. /\ \A x \in I : <<x, x>> \notin R
      /\ \A x, y, z \in I : <<x, y>> \in R /\ <<y, z>> \in R => <<x, z>> \in R
      /\ \A x, y \in I : x # y => <<x, y>> \in R \/ <<y, x>> \in R
  OBVIOUS
<1>3. \A x, y : <<x, y>> \in R => x < y
  OBVIOUS
<1> DEFINE Before(x) == Cardinality({y \in I : y < x})
           size == Cardinality(I)
<1>4. /\ Positions(I) = [k \in 1..size |-> CHOOSE x \in I : Before(x) = k - 1]
      /\ Lined(I, R) = [k \in 1..size |-> CHOOSE x \in I : RankIn(x, R, I) = k - 1]
  BY DEF Positions, Arranged, Lined
<1>7. \A x \in I : RankIn(x, R, I) = Before(x)
  BY <1>1
<1> HIDE DEF R, Before
<1>5. /\ Cardinality(I) \in Nat /\ Lined(I, R) \in [1..Cardinality(I) -> I]
      /\ \A x \in I : \E k \in 1..Cardinality(I) : Lined(I, R)[k] = x
      /\ \A i, j \in 1..Cardinality(I) : i < j => <<Lined(I, R)[i], Lined(I, R)[j]>> \in R
  BY <1>2, LinedUp
<1>8. size \in Nat
  BY FS_CardinalityType
<1>9. /\ \A x, y \in I : RankIn(x, R, I) = RankIn(y, R, I) => x = y
      /\ \A i \in 0..(size - 1) : \E x \in I : RankIn(x, R, I) = i
  BY <1>2, Ranks
<1> HIDE DEF size
<1>6. Positions(I) = Lined(I, R)
  <2> SUFFICES ASSUME NEW k \in 1..size PROVE Positions(I)[k] = Lined(I, R)[k]
    BY <1>4
  <2>1. k - 1 \in 0..(size - 1)
    BY <1>8
  <2>2. PICK x \in I : RankIn(x, R, I) = k - 1
    BY <1>9, <2>1
  <2>3. Positions(I)[k] \in I /\ Before(Positions(I)[k]) = k - 1
    BY <1>4, <1>7, <2>2
  <2>4. Lined(I, R)[k] \in I /\ RankIn(Lined(I, R)[k], R, I) = k - 1
    BY <1>4, <2>2
  <2> QED BY <1>7, <1>9, <2>3, <2>4
<1> QED BY <1>3, <1>5, <1>6

(* What is kept of a sequence: the elements at the positions and no other,  *)
(* in the order of the sequence.                                            *)
LEMMA KeptElements ==
  ASSUME NEW T, NEW s \in Seq(T), NEW I \in SUBSET DOMAIN s
  PROVE  /\ Kept(s, I) \in Seq(T) /\ Len(Kept(s, I)) = Cardinality(I)
         /\ \A i \in I : \E k \in DOMAIN Kept(s, I) : Kept(s, I)[k] = s[i]
         /\ \A k \in DOMAIN Kept(s, I) : Positions(I)[k] \in I /\ Kept(s, I)[k] = s[Positions(I)[k]]
         /\ \A k, l \in DOMAIN Kept(s, I) : k < l => Positions(I)[k] < Positions(I)[l]
<1>1. Len(s) \in Nat /\ DOMAIN s = 1..Len(s)
  OBVIOUS
<1>2. IsFiniteSet(1..Len(s))
  BY <1>1, FS_Interval
<1>3. I \in SUBSET Int /\ IsFiniteSet(I)
  <2>1. IsFiniteSet(I)
    BY <1>1, <1>2, FS_Subset
  <2> QED BY <1>1, <2>1
<1>4. /\ Positions(I) \in [1..Cardinality(I) -> I] /\ Cardinality(I) \in Nat
      /\ \A i \in I : \E k \in 1..Cardinality(I) : Positions(I)[k] = i
      /\ \A k, l \in 1..Cardinality(I) : k < l => Positions(I)[k] < Positions(I)[l]
  BY <1>3, PositionsAscend
<1>5. Kept(s, I) = [k \in 1..Cardinality(I) |-> s[Positions(I)[k]]]
  BY <1>4 DEF Kept
<1>6. \A k \in 1..Cardinality(I) : Positions(I)[k] \in I /\ s[Positions(I)[k]] \in T
  BY <1>4
<1>7. Kept(s, I) \in Seq(T)
  BY <1>4, <1>5, <1>6
<1>8. Len(Kept(s, I)) = Cardinality(I) /\ DOMAIN Kept(s, I) = 1..Cardinality(I)
  BY <1>4, <1>5, <1>7
<1>9. /\ \A i \in I : \E k \in DOMAIN Kept(s, I) : Kept(s, I)[k] = s[i]
      /\ \A k \in DOMAIN Kept(s, I) : Positions(I)[k] \in I /\ Kept(s, I)[k] = s[Positions(I)[k]]
  <2>1. \A k \in 1..Cardinality(I) : Kept(s, I)[k] = s[Positions(I)[k]]
    BY <1>5
  <2>2. DOMAIN Kept(s, I) = 1..Cardinality(I)
    BY <1>8
  <2>3. ASSUME NEW i \in I PROVE \E k \in DOMAIN Kept(s, I) : Kept(s, I)[k] = s[i]
    BY <1>4, <2>1, <2>2
  <2>4. ASSUME NEW k \in DOMAIN Kept(s, I)
        PROVE  Positions(I)[k] \in I /\ Kept(s, I)[k] = s[Positions(I)[k]]
    BY <1>6, <2>1, <2>2
  <2> QED BY <2>3, <2>4
<1>10. \A k, l \in DOMAIN Kept(s, I) : k < l => Positions(I)[k] < Positions(I)[l]
  BY <1>4, <1>8
<1> QED BY <1>7, <1>8, <1>9, <1>10

-----------------------------------------------------------------------------
(* The snapshot of the FinOps page is well formed.                          *)
IsSnapshot(s) ==
  /\ Counter(s.configured, CapacityTypes \X Buckets)
  /\ Counter(s.configuredByCapacityType, CapacityTypes)
  /\ Counter(s.idleByCapacityType, CapacityTypes)
  /\ Counter(s.configuredByBucket, Buckets) /\ Counter(s.demand, Buckets)
  /\ s.configuredMachines = SumFunction(s.configuredByCapacityType)
  /\ s.idleMachines = SumFunction(s.idleByCapacityType)
  /\ s.capacityTypes = OrderCapacityTypes(CapacitySet(s.configured, s.configuredByCapacityType,
                                                      s.idleByCapacityType))
  /\ s.buckets = OrderBuckets(BucketSet(s.configured, s.demand, s.configuredByBucket))
  /\ s.redFlags = DetectRedFlags(s.configured)

(* A world of the scrapes: both fleets are fleets.                          *)
IsWorld(w) == w.old \in Fleets /\ w.new \in Fleets /\ w.stored \in Nat /\ w.at \in Nat

(* What the k-th query finds is a fleet, and the old one unless the new     *)
(* scrape is of the handler's first moment.                                 *)
LEMMA FoundFleet ==
  ASSUME NEW w, IsWorld(w), NEW k
  PROVE  IsFleet(Found(w, k)) /\ (w.at > 0 => Found(w, k) = w.old)
<1>1. Found(w, k) \in {w.old, w.new}
  BY DEF Found
<1>2. \A f \in Fleets : IsFleet(f)
  BY FinOpsAssumption
<1>3. w.at > 0 => Found(w, k) = w.old
  BY DEF Found, EvaluatedAt, IsWorld
<1> QED BY <1>1, <1>2, <1>3 DEF IsWorld

(* A counter is a tally of its domain.                                      *)
LEMMA CounterTally ==
  ASSUME NEW f, NEW S, Counter(f, S)
  PROVE  Tally(f, DOMAIN f) /\ \A k : At(f, k) \in Nat
BY DEF Counter, Tally, At

(* A function into the numbers, of finitely many keys, is a counter.        *)
LEMMA CounterOf ==
  ASSUME NEW D, IsFiniteSet(D), NEW T, D \subseteq T, NEW f \in [D -> Nat]
  PROVE  Counter(f, T)
BY DEF Counter

(* A part of a counter is a counter.                                        *)
LEMMA CounterPart ==
  ASSUME NEW f, NEW S, Counter(f, S), NEW A \in SUBSET DOMAIN f, NEW T, A \subseteq T
  PROVE  Counter(Restrict(f, A), T) /\ \A x \in A : Restrict(f, A)[x] = f[x]
<1>1. IsFiniteSet(A)
  BY FS_Subset DEF Counter
<1> QED BY <1>1 DEF Counter, Restrict

(* The machines of a scrape by capacity type, and by bucket.                *)
TypesIn(f)   == {x[1] : x \in DOMAIN f} \ {""}
BucketsIn(f) == {x[2] : x \in DOMAIN f} \ {NoBucket}

(* A counter by capacity type and bucket, either of which may be missing.  *)
HasLabels(f) == Counter(f, (CapacityTypes \cup {""}) \X (Buckets \cup {NoBucket}))

(* Summing a counter by one of its labels gives counters.                   *)
LEMMA ByLabel ==
  ASSUME NEW f, HasLabels(f)
  PROVE  /\ Counter(ByCapacity(f), CapacityTypes) /\ Counter(ByBucket(f), Buckets)
         /\ DOMAIN ByCapacity(f) = TypesIn(f) /\ DOMAIN ByBucket(f) = BucketsIn(f)
         /\ \A c \in TypesIn(f) :
              ByCapacity(f)[c] = SumFunctionOnSet(f, {x \in DOMAIN f : x[1] = c})
         /\ \A b \in BucketsIn(f) :
              ByBucket(f)[b] = SumFunctionOnSet(f, {x \in DOMAIN f : x[2] = b})
<1> DEFINE One1(c) == {x \in DOMAIN f : x[1] = c}
           One2(b) == {x \in DOMAIN f : x[2] = b}
<1>1. ByCapacity(f) = [c \in TypesIn(f) |-> SumFunctionOnSet(f, One1(c))]
  BY DEF ByCapacity, SumBy, TypesIn
<1>2. ByBucket(f) = [b \in BucketsIn(f) |-> SumFunctionOnSet(f, One2(b))]
  BY DEF ByBucket, SumBy, BucketsIn
<1>3. Tally(f, DOMAIN f) /\ IsFiniteSet(DOMAIN f)
  BY CounterTally DEF HasLabels, Counter
<1>4. \A c : One1(c) \in SUBSET DOMAIN f /\ One2(c) \in SUBSET DOMAIN f
  OBVIOUS
<1>5. ASSUME NEW c PROVE SumFunctionOnSet(f, One1(c)) \in Nat /\ SumFunctionOnSet(f, One2(c)) \in Nat
  <2> HIDE DEF One1, One2
  <2>1. Tally(f, One1(c)) /\ Tally(f, One2(c))
    BY <1>3, <1>4, SumOfPart
  <2> QED BY <2>1, SumType
<1>6. IsFiniteSet(TypesIn(f)) /\ TypesIn(f) \subseteq CapacityTypes
  <2> DEFINE D == {x[1] : x \in DOMAIN f}
             h == [x \in DOMAIN f |-> x[1]]
  <2>1. h \in Surjection(DOMAIN f, D)
    BY DEF Surjection
  <2> HIDE DEF h
  <2>2. IsFiniteSet(D)
    BY <1>3, <2>1, FS_Surjection
  <2>3. TypesIn(f) \in SUBSET D
    BY DEF TypesIn
  <2>4. TypesIn(f) \subseteq CapacityTypes
    BY DEF TypesIn, HasLabels, Counter
  <2> HIDE DEF D
  <2> QED BY <2>2, <2>3, <2>4, FS_Subset
<1>7. IsFiniteSet(BucketsIn(f)) /\ BucketsIn(f) \subseteq Buckets
  <2> DEFINE D == {x[2] : x \in DOMAIN f}
             h == [x \in DOMAIN f |-> x[2]]
  <2>1. h \in Surjection(DOMAIN f, D)
    BY DEF Surjection
  <2> HIDE DEF h
  <2>2. IsFiniteSet(D)
    BY <1>3, <2>1, FS_Surjection
  <2>3. BucketsIn(f) \in SUBSET D
    BY DEF BucketsIn
  <2>4. BucketsIn(f) \subseteq Buckets
    BY DEF BucketsIn, HasLabels, Counter
  <2> HIDE DEF D
  <2> QED BY <2>2, <2>3, <2>4, FS_Subset
<1>8. Counter(ByCapacity(f), CapacityTypes)
  <2> HIDE DEF One1
  <2>1. ByCapacity(f) \in [TypesIn(f) -> Nat]
    BY <1>1, <1>5
  <2> QED BY <1>6, <2>1, CounterOf
<1>9. Counter(ByBucket(f), Buckets)
  <2> HIDE DEF One2
  <2>1. ByBucket(f) \in [BucketsIn(f) -> Nat]
    BY <1>2, <1>5
  <2> QED BY <1>7, <2>1, CounterOf
<1> QED BY <1>1, <1>2, <1>8, <1>9

(* The seven queries make a well-formed snapshot of any two scrapes.        *)
LEMMA FinOpsIsSnapshot ==
  ASSUME NEW w, IsWorld(w)
  PROVE  IsSnapshot(FinOps(w)) /\ FinOps(w).demandMachines \in Nat
<1> DEFINE f(k) == Found(w, k)
           conf     == ByCapacity(f(1).configured)
           idle     == Restrict(f(2).idle, DOMAIN f(2).idle \ {""})
           samples  == f(3).configured
           kept     == {x \in DOMAIN samples : x[1] # "" /\ x[2] # NoBucket}
           m        == Restrict(samples, kept)
           demand   == Restrict(f(4).demand, DOMAIN f(4).demand \ {NoBucket})
           byBucket == ByBucket(f(5).configured)
<1>1. \A k : IsFleet(f(k))
  BY FoundFleet
<1>2. \A k : /\ HasLabels(f(k).configured)
             /\ Counter(f(k).idle, CapacityTypes \cup {""})
             /\ Counter(f(k).demand, Buckets \cup {NoBucket})
  BY <1>1 DEF IsFleet, HasLabels
<1> HIDE DEF f
<1>3. Counter(conf, CapacityTypes) /\ Counter(byBucket, Buckets)
  BY <1>2, ByLabel
<1>4. Counter(idle, CapacityTypes)
  <2>1. DOMAIN f(2).idle \ {""} \subseteq CapacityTypes
    BY <1>2 DEF Counter
  <2> QED BY <1>2, <2>1, CounterPart
<1>5. Counter(demand, Buckets)
  <2>1. DOMAIN f(4).demand \ {NoBucket} \subseteq Buckets
    BY <1>2 DEF Counter
  <2> QED BY <1>2, <2>1, CounterPart
<1>6. Counter(m, CapacityTypes \X Buckets)
  <2>1. kept \subseteq CapacityTypes \X Buckets /\ kept \in SUBSET DOMAIN samples
    <3>1. DOMAIN samples \subseteq (CapacityTypes \cup {""}) \X (Buckets \cup {NoBucket})
      BY <1>2 DEF HasLabels, Counter
    <3> HIDE DEF samples
    <3> QED BY <3>1
  <2> HIDE DEF kept
  <2> QED BY <1>2, <2>1, CounterPart DEF HasLabels
<1>7. SumFunction(f(6).demand) \in Nat
  <2>1. Tally(f(6).demand, DOMAIN f(6).demand)
    BY <1>2, CounterTally
  <2> QED BY <2>1, SumType DEF SumFunction
<1>8. /\ FinOps(w).configured = m /\ FinOps(w).configuredByCapacityType = conf
      /\ FinOps(w).idleByCapacityType = idle /\ FinOps(w).configuredByBucket = byBucket
      /\ FinOps(w).demand = demand /\ FinOps(w).configuredMachines = SumFunction(conf)
      /\ FinOps(w).idleMachines = SumFunction(idle)
      /\ FinOps(w).demandMachines = SumFunction(f(6).demand)
      /\ FinOps(w).capacityTypes = OrderCapacityTypes(CapacitySet(m, conf, idle))
      /\ FinOps(w).buckets = OrderBuckets(BucketSet(m, demand, byBucket))
      /\ FinOps(w).redFlags = DetectRedFlags(m)
  BY DEF FinOps, f
<1> HIDE DEF conf, idle, m, demand, byBucket
<1> QED BY <1>3, <1>4, <1>5, <1>6, <1>7, <1>8 DEF IsSnapshot

-----------------------------------------------------------------------------
(* The order of the columns is a strict total order of the labels.          *)
LEMMA BucketOrder ==
  /\ \A a \in Buckets : ~BucketLess(a, a)
  /\ \A a, b, c \in Buckets : BucketLess(a, b) /\ BucketLess(b, c) => BucketLess(a, c)
  /\ \A a, b \in Buckets : a # b => BucketLess(a, b) \/ BucketLess(b, a)
<1>1. \A a \in Buckets : a.rank \in Nat /\ a.half \in Nat \cup {NoNumber}
  BY FinOpsAssumption
<1>2. \A a, b \in Buckets :
        /\ a.rank = b.rank => a = b
        /\ a.half = b.half /\ a.half # NoNumber => a = b
        /\ a.half # NoNumber /\ b.half = NoNumber => a.rank < b.rank
  BY FinOpsAssumption
<1>3. NoNumber = -1
  BY DEF NoNumber
<1>4. \A a \in Buckets : ~BucketLess(a, a)
  BY DEF BucketLess
<1>5. ASSUME NEW a \in Buckets, NEW b \in Buckets, a # b PROVE BucketLess(a, b) \/ BucketLess(b, a)
  <2>1. a.rank # b.rank
    BY <1>2, <1>5
  <2>2. a.half # NoNumber => a.half # b.half
    BY <1>2, <1>5
  <2> QED BY <1>1, <1>3, <1>5, <2>1, <2>2 DEF BucketLess
<1>6. ASSUME NEW a \in Buckets, NEW b \in Buckets, NEW c \in Buckets, BucketLess(a, b), BucketLess(b, c)
      PROVE  BucketLess(a, c)
  <2>1. a # Pinned /\ b # Pinned
    BY <1>6 DEF BucketLess
  <2>2. CASE c = Pinned
    BY <2>1, <2>2 DEF BucketLess
  <2>3. CASE c # Pinned
    <3>1. \/ a.half # NoNumber /\ b.half # NoNumber /\ a.half < b.half
          \/ (a.half = NoNumber \/ b.half = NoNumber) /\ a.rank < b.rank
      BY <1>6, <2>1 DEF BucketLess
    <3>2. \/ b.half # NoNumber /\ c.half # NoNumber /\ b.half < c.half
          \/ (b.half = NoNumber \/ c.half = NoNumber) /\ b.rank < c.rank
      BY <1>6, <2>3 DEF BucketLess
    <3>3. \/ a.half # NoNumber /\ c.half # NoNumber /\ a.half < c.half
          \/ (a.half = NoNumber \/ c.half = NoNumber) /\ a.rank < c.rank
      BY <1>1, <1>2, <1>3, <3>1, <3>2
    <3>4. a # c
      BY <1>1, <1>3, <3>3
    <3> QED BY <2>1, <3>3, <3>4 DEF BucketLess
  <2> QED BY <2>2, <2>3
<1> QED BY <1>4, <1>5, <1>6

(* The columns are the labels, each once, in that order.                    *)
LEMMA ColumnsInOrder ==
  ASSUME NEW S \in SUBSET Buckets, IsFiniteSet(S)
  PROVE  /\ OrderBuckets(S) \in Seq(S)
         /\ \A b \in S : \E k \in DOMAIN OrderBuckets(S) : OrderBuckets(S)[k] = b
         /\ \A i, j \in DOMAIN OrderBuckets(S) : i < j => BucketLess(OrderBuckets(S)[i], OrderBuckets(S)[j])
<1> DEFINE R == {p \in S \X S : BucketLess(p[1], p[2])}
           Before(x) == Cardinality({y \in S : BucketLess(y, x)})
           size == Cardinality(S)
           L == OrderBuckets(S)
<1>1. /\ \A x \in S : <<x, x>> \notin R
      /\ \A x, y, z \in S : <<x, y>> \in R /\ <<y, z>> \in R => <<x, z>> \in R
      /\ \A x, y \in S : x # y => <<x, y>> \in R \/ <<y, x>> \in R
  BY BucketOrder
<1>2. \A x \in S : RankIn(x, R, S) = Before(x)
  <2> SUFFICES ASSUME NEW x \in S PROVE SetLessThan(x, R, S) = {y \in S : BucketLess(y, x)}
    BY DEF RankIn
  <2> QED BY DEF SetLessThan
<1>3. \A x, y : <<x, y>> \in R => BucketLess(x, y)
  OBVIOUS
<1>4. /\ L = [k \in 1..size |-> CHOOSE x \in S : Before(x) = k - 1]
      /\ Lined(S, R) = [k \in 1..size |-> CHOOSE x \in S : RankIn(x, R, S) = k - 1]
  BY DEF OrderBuckets, Arranged, Lined
<1> HIDE DEF R, Before, L
<1>5. size \in Nat
  BY FS_CardinalityType
<1>6. /\ \A x, y \in S : RankIn(x, R, S) = RankIn(y, R, S) => x = y
      /\ \A i \in 0..(size - 1) : \E x \in S : RankIn(x, R, S) = i
  BY <1>1, Ranks
<1>7. /\ Lined(S, R) \in [1..size -> S]
      /\ \A x \in S : \E k \in 1..size : Lined(S, R)[k] = x
      /\ \A i, j \in 1..size : i < j => <<Lined(S, R)[i], Lined(S, R)[j]>> \in R
  BY <1>1, LinedUp
<1> HIDE DEF size
<1>8. L = Lined(S, R)
  <2> SUFFICES ASSUME NEW k \in 1..size PROVE L[k] = Lined(S, R)[k]
    BY <1>4
  <2>1. k - 1 \in 0..(size - 1)
    BY <1>5
  <2>2. PICK x \in S : RankIn(x, R, S) = k - 1
    BY <1>6, <2>1
  <2>3. L[k] \in S /\ Before(L[k]) = k - 1
    BY <1>2, <1>4, <2>2
  <2>4. Lined(S, R)[k] \in S /\ RankIn(Lined(S, R)[k], R, S) = k - 1
    BY <1>4, <2>2
  <2> QED BY <1>2, <1>6, <2>3, <2>4
<1>9. L \in [1..size -> S] /\ DOMAIN L = 1..size
  BY <1>7, <1>8
<1>10. L \in Seq(S)
  BY <1>5, <1>9
<1> QED BY <1>3, <1>7, <1>8, <1>9, <1>10 DEF L

(* The rows and bars of capacity types are those of the set, each once.     *)
LEMMA TypesInOrder ==
  ASSUME NEW S \in SUBSET CapacityTypes
  PROVE  /\ OrderCapacityTypes(S) \in Seq(S)
         /\ \A c \in S : \E k \in DOMAIN OrderCapacityTypes(S) : OrderCapacityTypes(S)[k] = c
         /\ \A i, j \in DOMAIN OrderCapacityTypes(S) :
              OrderCapacityTypes(S)[i] = OrderCapacityTypes(S)[j] => i = j
<1> DEFINE order == CapacityTypeOrder
           I == {i \in DOMAIN order : order[i] \in S}
           L == OrderCapacityTypes(S)
           T == STRING \cup {"BareMetal", "Reserved", "OnDemand", "Spot"}
<1>1. order \in Seq(T)
  <2>1. OtherTypes \in Seq(STRING \ {""})
    BY FinOpsAssumption
  <2>2. OtherTypes \in Seq(T)
    <3>1. \A U, V : U \subseteq V => \A s \in Seq(U) : s \in Seq(V)
      OBVIOUS
    <3>2. STRING \ {""} \subseteq T
      OBVIOUS
    <3> QED BY Zenon, <2>1, <3>1, <3>2
  <2>3. <<"BareMetal", "Reserved", "OnDemand", "Spot">> \in Seq(T)
    <3>1. \A V : \A a, b, c, d \in V : <<a, b, c, d>> \in Seq(V)
      OBVIOUS
    <3>2. "BareMetal" \in T /\ "Reserved" \in T /\ "OnDemand" \in T /\ "Spot" \in T
      OBVIOUS
    <3> QED BY Zenon, <3>1, <3>2
  <2> QED BY <2>2, <2>3 DEF CapacityTypeOrder
<1>2. \A i, j \in DOMAIN order : order[i] = order[j] => i = j
  BY FinOpsAssumption
<1>3. L = Kept(order, I)
  BY Zenon DEF OrderCapacityTypes, Filter, Kept, Positions, Arranged
<1>4. \A c \in S : \E i \in I : order[i] = c
  BY DEF CapacityTypes, ToSet
<1>5. I \in SUBSET DOMAIN order /\ \A i \in I : order[i] \in S
  OBVIOUS
<1> HIDE DEF order, I, T
<1>6. /\ Kept(order, I) \in Seq(T)
      /\ \A i \in I : \E k \in DOMAIN Kept(order, I) : Kept(order, I)[k] = order[i]
      /\ \A k \in DOMAIN Kept(order, I) :
           Positions(I)[k] \in I /\ Kept(order, I)[k] = order[Positions(I)[k]]
      /\ \A k, l \in DOMAIN Kept(order, I) : k < l => Positions(I)[k] < Positions(I)[l]
  BY <1>1, <1>5, KeptElements
<1> HIDE DEF L
<1>7. /\ L \in Seq(T) /\ \A k \in DOMAIN L : L[k] \in S
      /\ \A c \in S : \E k \in DOMAIN L : L[k] = c
  BY <1>3, <1>4, <1>5, <1>6
<1>8. DOMAIN L = 1..Len(L) /\ Len(L) \in Nat
  BY <1>7
<1>9. L \in Seq(S)
  BY <1>7, <1>8
<1>10. ASSUME NEW i \in DOMAIN L, NEW j \in DOMAIN L, L[i] = L[j] PROVE i = j
  <2>1. Positions(I)[i] = Positions(I)[j] /\ Positions(I)[i] \in Nat
    <3>1. DOMAIN order \subseteq Nat
      BY <1>1
    <3> QED BY <1>2, <1>3, <1>5, <1>6, <1>10, <3>1
  <2>2. ~(i < j) /\ ~(j < i)
    BY <1>3, <1>6, <2>1
  <2> QED BY <1>8, <2>2
<1> QED BY <1>7, <1>9, <1>10 DEF L

-----------------------------------------------------------------------------
(* Every label a snapshot knows has its column, and every type its row.     *)
LEMMA ColumnsOfSnapshot ==
  ASSUME NEW s, IsSnapshot(s)
  PROVE  /\ s.buckets \in Seq(Buckets) /\ s.capacityTypes \in Seq(CapacityTypes)
         /\ \A i, j \in DOMAIN s.buckets : i < j => BucketLess(s.buckets[i], s.buckets[j])
         /\ \A i, j \in DOMAIN s.capacityTypes : s.capacityTypes[i] = s.capacityTypes[j] => i = j
         /\ \A b \in DOMAIN s.demand \cup DOMAIN s.configuredByBucket :
              \E j \in DOMAIN s.buckets : s.buckets[j] = b
         /\ \A c \in DOMAIN s.configuredByCapacityType \cup DOMAIN s.idleByCapacityType :
              \E i \in DOMAIN s.capacityTypes : s.capacityTypes[i] = c
         /\ \A x \in DOMAIN s.configured :
              \E i \in DOMAIN s.capacityTypes, j \in DOMAIN s.buckets :
                x = <<s.capacityTypes[i], s.buckets[j]>>
<1> DEFINE m == s.configured
           B == BucketSet(m, s.demand, s.configuredByBucket)
           C == CapacitySet(m, s.configuredByCapacityType, s.idleByCapacityType)
<1>1. /\ Counter(m, CapacityTypes \X Buckets)
      /\ Counter(s.configuredByCapacityType, CapacityTypes)
      /\ Counter(s.idleByCapacityType, CapacityTypes)
      /\ Counter(s.configuredByBucket, Buckets) /\ Counter(s.demand, Buckets)
      /\ s.capacityTypes = OrderCapacityTypes(C) /\ s.buckets = OrderBuckets(B)
  BY DEF IsSnapshot
<1>2. \A x \in DOMAIN m : x = <<x[1], x[2]>> /\ x[1] \in CapacityTypes /\ x[2] \in Buckets
  BY <1>1 DEF Counter
<1>3. B \in SUBSET Buckets /\ IsFiniteSet(B)
  <2> DEFINE D == {x[2] : x \in DOMAIN m}
             h == [x \in DOMAIN m |-> x[2]]
  <2>1. IsFiniteSet(DOMAIN m) /\ IsFiniteSet(DOMAIN s.demand) /\ IsFiniteSet(DOMAIN s.configuredByBucket)
    BY <1>1 DEF Counter
  <2>2. h \in Surjection(DOMAIN m, D)
    BY DEF Surjection
  <2>3. B = D \cup DOMAIN s.demand \cup DOMAIN s.configuredByBucket
    BY DEF BucketSet
  <2>4. D \subseteq Buckets /\ DOMAIN s.demand \subseteq Buckets /\ DOMAIN s.configuredByBucket \subseteq Buckets
    BY <1>1, <1>2 DEF Counter
  <2> HIDE DEF h, m, B, D
  <2>5. IsFiniteSet(D)
    BY <2>1, <2>2, FS_Surjection
  <2>6. IsFiniteSet(D \cup DOMAIN s.demand)
    BY <2>1, <2>5, FS_Union
  <2>7. IsFiniteSet((D \cup DOMAIN s.demand) \cup DOMAIN s.configuredByBucket)
    BY <2>1, <2>6, FS_Union
  <2> QED BY <2>3, <2>4, <2>7
<1>4. C \in SUBSET CapacityTypes
  BY <1>1, <1>2 DEF CapacitySet, Counter
<1>5. /\ \A x \in DOMAIN m : x[1] \in C /\ x[2] \in B
      /\ DOMAIN s.demand \cup DOMAIN s.configuredByBucket \subseteq B
      /\ DOMAIN s.configuredByCapacityType \cup DOMAIN s.idleByCapacityType \subseteq C
  BY DEF CapacitySet, BucketSet
<1> HIDE DEF B, C
<1>6. /\ OrderBuckets(B) \in Seq(B)
      /\ \A b \in B : \E k \in DOMAIN OrderBuckets(B) : OrderBuckets(B)[k] = b
      /\ \A i, j \in DOMAIN OrderBuckets(B) : i < j => BucketLess(OrderBuckets(B)[i], OrderBuckets(B)[j])
  BY <1>3, ColumnsInOrder
<1>7. /\ OrderCapacityTypes(C) \in Seq(C)
      /\ \A c \in C : \E k \in DOMAIN OrderCapacityTypes(C) : OrderCapacityTypes(C)[k] = c
      /\ \A i, j \in DOMAIN OrderCapacityTypes(C) :
           OrderCapacityTypes(C)[i] = OrderCapacityTypes(C)[j] => i = j
  BY <1>4, TypesInOrder
<1>8. s.buckets \in Seq(Buckets) /\ s.capacityTypes \in Seq(CapacityTypes)
  <2>1. \A U, V : U \subseteq V => \A q \in Seq(U) : q \in Seq(V)
    OBVIOUS
  <2> QED BY <1>1, <1>3, <1>4, <1>6, <1>7, <2>1
<1>9. ASSUME NEW x \in DOMAIN m
      PROVE  \E i \in DOMAIN s.capacityTypes, j \in DOMAIN s.buckets :
               x = <<s.capacityTypes[i], s.buckets[j]>>
  <2> HIDE DEF m
  <2>1. PICK i \in DOMAIN s.capacityTypes : s.capacityTypes[i] = x[1]
    BY <1>1, <1>5, <1>7
  <2>2. PICK j \in DOMAIN s.buckets : s.buckets[j] = x[2]
    BY <1>1, <1>5, <1>6
  <2> QED BY <1>2, <2>1, <2>2
<1> QED BY <1>1, <1>5, <1>6, <1>7, <1>8, <1>9

(* The columns are in the order of dollars.                                 *)
LEMMA DollarOrder ==
  ASSUME NEW s, IsSnapshot(s)
  PROVE  BucketsInDollarOrder(s)
<1> SUFFICES ASSUME NEW i \in DOMAIN s.buckets, NEW j \in DOMAIN s.buckets, i < j
             PROVE  /\ s.buckets[i] # Pinned
                    /\ s.buckets[i].half # NoNumber /\ s.buckets[j].half # NoNumber
                         => s.buckets[i].half < s.buckets[j].half
                    /\ s.buckets[i].half = NoNumber => s.buckets[j].half = NoNumber
  BY DEF BucketsInDollarOrder
<1> DEFINE a == s.buckets[i]
           b == s.buckets[j]
<1>1. a \in Buckets /\ b \in Buckets /\ BucketLess(a, b)
  BY ColumnsOfSnapshot
<1>2. /\ a.half # NoNumber /\ b.half = NoNumber => a.rank < b.rank
      /\ b.half # NoNumber /\ a.half = NoNumber => b.rank < a.rank
      /\ a.rank \in Nat /\ b.rank \in Nat
  BY <1>1, FinOpsAssumption
<1>3. Pinned.half = NoNumber
  BY DEF Pinned, Bucket
<1> QED BY <1>1, <1>2, <1>3 DEF BucketLess

(* The alarm, the red cell and the all-clear agree.                         *)
LEMMA AlarmsAgree ==
  ASSUME NEW s, IsSnapshot(s)
  PROVE  RedFlagsAgree(s, Page(s))
<1> DEFINE p == Page(s)
           spot == <<"Spot", Pinned>>
           shown == {<<s.capacityTypes[i], s.buckets[j]>> : i \in DOMAIN s.capacityTypes, j \in DOMAIN s.buckets}
           cells == PenaltyDistribution(s).cells
           red == \E x \in DOMAIN cells : cells[x].flagged
           alarm == Cell(s.configured, "Spot", Pinned) > 0
<1>1. DOMAIN cells = shown /\ \A x \in shown : cells[x].flagged <=> x = spot /\ Cell(s.configured, x[1], x[2]) > 0
  <2> DEFINE cell(x) == [value |-> Cell(s.configured, x[1], x[2]),
                         flagged |-> x = spot /\ Cell(s.configured, x[1], x[2]) > 0]
  <2>1. cells = [x \in shown |-> cell(x)]
    BY DEF PenaltyDistribution
  <2>2. \A x : cell(x).flagged = (x = spot /\ Cell(s.configured, x[1], x[2]) > 0)
    OBVIOUS
  <2> HIDE DEF cell, cells, shown
  <2> QED BY <2>1, <2>2
<1>2. alarm => spot \in shown
  <2>1. alarm => spot \in DOMAIN s.configured
    BY DEF Cell, At
  <2>2. spot \in DOMAIN s.configured => spot \in shown
    BY ColumnsOfSnapshot
  <2> QED BY <2>1, <2>2
<1>3. red <=> alarm
  <2> HIDE DEF cells, shown
  <2> QED BY <1>1, <1>2
<1>4. /\ p.matrix.cells = cells /\ p.flags = s.redFlags
      /\ p.posture.sentences = PostureSummary(s).sentences
  BY DEF Page
<1>5. s.redFlags # {} <=> alarm
  BY DEF IsSnapshot, DetectRedFlags
<1>6. "noFlags" \in PostureSummary(s).sentences => s.redFlags = {}
  BY DEF PostureSummary
<1>7. RedFlagsAgree(s, p) <=>
        LET told == \E x \in DOMAIN p.matrix.cells : p.matrix.cells[x].flagged
        IN  /\ told = (p.flags # {}) /\ told = alarm
            /\ told => "noFlags" \notin p.posture.sentences
  BY DEF RedFlagsAgree
<1> HIDE DEF p, cells, alarm
<1>8. (\E x \in DOMAIN p.matrix.cells : p.matrix.cells[x].flagged) <=> red
  BY <1>4
<1> HIDE DEF red
<1> QED BY <1>3, <1>4, <1>5, <1>6, <1>7, <1>8 DEF p

-----------------------------------------------------------------------------
(* A finite set of numbers has a greatest one.                              *)
LEMMA GreatestOf ==
  ASSUME NEW S \in SUBSET Nat, IsFiniteSet(S), S # {}
  PROVE  Max(S) \in S /\ \A y \in S : Max(S) >= y
<1> DEFINE Good == {s \in SUBSET S : s = {} \/ \E x \in s : \A y \in s : x >= y}
<1>1. ASSUME NEW s \in SUBSET S, \A x \in s : s \ {x} \in Good PROVE s \in Good
  <2>1. CASE s = {}
    BY <2>1
  <2>2. CASE s # {}
    <3>1. PICK x \in s : TRUE
      BY <2>2
    <3>2. s \ {x} = {} \/ \E z \in s \ {x} : \A y \in s \ {x} : z >= y
      BY <1>1, <3>1
    <3>3. CASE s \ {x} = {}
      BY <3>1, <3>3
    <3>4. CASE \E z \in s \ {x} : \A y \in s \ {x} : z >= y
      <4>1. PICK z \in s \ {x} : \A y \in s \ {x} : z >= y
        BY <3>4
      <4>2. x \in Nat /\ z \in Nat /\ \A y \in s : y \in Nat
        BY <3>1, <4>1
      <4>3. CASE z >= x
        BY <4>1, <4>3
      <4>4. CASE x > z
        <5>1. \A y \in s : x >= y
          BY <4>1, <4>2, <4>4
        <5> QED BY <3>1, <5>1
      <4> QED BY <4>2, <4>3, <4>4
    <3> QED BY <3>2, <3>3, <3>4
  <2> QED BY <2>1, <2>2
<1> HIDE DEF Good
<1>2. SUBSET S \subseteq Good
  BY <1>1, SubsetInduction
<1>3. \E x \in S : \A y \in S : x >= y
  BY <1>2 DEF Good
<1> QED BY <1>3 DEF Max

(* The greatest of a number n and what g makes of a finite set.             *)
LEMMA GreatestWith ==
  ASSUME NEW n \in Nat, NEW D, IsFiniteSet(D), NEW g \in [D -> Nat]
  PROVE  \A x \in D : g[x] <= Max({n} \cup {g[y] : y \in D})
<1> DEFINE V == {g[y] : y \in D}
<1>1. g \in Surjection(D, V)
  BY DEF Surjection
<1>2. IsFiniteSet(V) /\ IsFiniteSet({n})
  BY <1>1, FS_Surjection, FS_Singleton
<1>3. V \subseteq Nat /\ \A x \in D : g[x] \in V
  OBVIOUS
<1> HIDE DEF V
<1>4. IsFiniteSet({n} \cup V)
  BY <1>2, FS_Union
<1>5. {n} \cup V \in SUBSET Nat /\ {n} \cup V # {}
  BY <1>3
<1>6. /\ Max({n} \cup V) \in {n} \cup V
      /\ \A y \in {n} \cup V : Max({n} \cup V) >= y
  BY <1>4, <1>5, GreatestOf
<1>7. ASSUME NEW x \in D PROVE g[x] <= Max({n} \cup V)
  <2>1. g[x] \in {n} \cup V
    BY <1>3
  <2> DEFINE top == Max({n} \cup V)
  <2>2. top >= g[x] /\ top \in Nat /\ g[x] \in Nat
    BY <1>5, <1>6, <2>1
  <2> HIDE DEF top
  <2>3. g[x] <= top
    BY <2>2
  <2> QED BY <2>3 DEF top
<1> QED BY <1>7 DEF V

(* The domain of a sequence is finite.                                      *)
LEMMA DomainFinite ==
  ASSUME NEW T, NEW s \in Seq(T)
  PROVE  IsFiniteSet(DOMAIN s) /\ DOMAIN s = 1..Len(s) /\ Len(s) \in Nat
<1>1. DOMAIN s = 1..Len(s) /\ Len(s) \in Nat
  OBVIOUS
<1>2. IsFiniteSet(1..Len(s))
  <2>1. 1 \in Int /\ Len(s) \in Int
    BY <1>1
  <2> QED BY <2>1, FS_Interval
<1> QED BY <1>1, <1>2

(* A stacked bar shows each value above zero once: its segments add up to   *)
(* the sum of all values.                                                   *)
LEMMA BarIsWhole ==
  ASSUME NEW T, NEW types \in Seq(T), NEW f, NEW S, Counter(f, S),
         \A i, j \in DOMAIN types : types[i] = types[j] => i = j,
         \A c \in DOMAIN f : \E i \in DOMAIN types : types[i] = c
  PROVE  StackedBar(types, f).total = SumFunction(f)
<1> DEFINE I == {i \in DOMAIN types : At(f, types[i]) > 0}
           seg == Kept(types, I)
           P == {c \in DOMAIN f : f[c] > 0}
           g == [i \in DOMAIN seg |-> f[seg[i]]]
<1>1. StackedBar(types, f).total = SumFunctionOnSet(g, DOMAIN seg)
  <2>1. Filter(types, LAMBDA c : At(f, c) > 0) = seg
    BY Zenon DEF Filter, Kept, Positions, Arranged
  <2>2. StackedBar(types, f).total =
          LET segments == Filter(types, LAMBDA c : At(f, c) > 0)
          IN  SumFunctionOnSet([i \in DOMAIN segments |-> f[segments[i]]], DOMAIN segments)
    BY DEF StackedBar
  <2> HIDE DEF seg
  <2> QED BY Zenon, <2>1, <2>2
<1>2. Tally(f, DOMAIN f) /\ \A c \in DOMAIN f : f[c] \in Nat
  BY CounterTally DEF Counter
<1>3. I \in SUBSET DOMAIN types
  OBVIOUS
<1>4. \A i \in I : types[i] \in P
  BY DEF At
<1>5. \A c \in P : \E i \in I : types[i] = c
  BY DEF At
<1> HIDE DEF I, P
<1>6. /\ \A i \in I : \E k \in DOMAIN seg : seg[k] = types[i]
      /\ \A k \in DOMAIN seg : Positions(I)[k] \in I /\ seg[k] = types[Positions(I)[k]]
      /\ \A k, l \in DOMAIN seg : k < l => Positions(I)[k] < Positions(I)[l]
      /\ seg \in Seq(T)
  BY <1>3, KeptElements
<1> HIDE DEF seg
<1>7. seg \in Bijection(DOMAIN seg, P)
  <2>1. DOMAIN seg \subseteq Nat /\ DOMAIN types \subseteq Nat
    BY <1>6
  <2>2. \A k \in DOMAIN seg : seg[k] \in P
    BY <1>4, <1>6
  <2>3. ASSUME NEW k \in DOMAIN seg, NEW l \in DOMAIN seg, seg[k] = seg[l] PROVE k = l
    <3>1. Positions(I)[k] = Positions(I)[l] /\ Positions(I)[k] \in Nat
      BY <1>3, <1>6, <2>1, <2>3
    <3>2. ~(k < l) /\ ~(l < k)
      BY <1>6, <3>1
    <3> QED BY <2>1, <3>2
  <2>4. \A c \in P : \E k \in DOMAIN seg : seg[k] = c
    BY <1>5, <1>6
  <2>5. seg \in [DOMAIN seg -> P]
    BY <1>6, <2>2
  <2> QED BY <2>3, <2>4, <2>5 DEF Bijection, Injection, Surjection, IsInjective
<1>8. P \in SUBSET DOMAIN f /\ \A c \in DOMAIN f \ P : f[c] = 0
  BY <1>2 DEF P
<1>9. Tally(f, P) /\ SumFunctionOnSet(f, P) = SumFunctionOnSet(f, DOMAIN f)
  BY <1>2, <1>8, SumOfPart, SumWithoutZeros
<1>10. SumFunctionOnSet(g, DOMAIN seg) = SumFunctionOnSet(f, P)
  <2>1. \A k \in DOMAIN seg : g[k] = f[seg[k]]
    OBVIOUS
  <2> HIDE DEF g
  <2> QED BY <1>7, <1>9, <2>1, SumRenamed
<1> QED BY <1>1, <1>9, <1>10 DEF SumFunction

-----------------------------------------------------------------------------
(* The rows of the gaps are the buckets in supply or in demand.             *)
Rows(s) == DemandVsSupply(s).rows

(* The rows of the gaps are buckets, and leave out none with a figure.      *)
LEMMA RowsOfGaps ==
  ASSUME NEW s, IsSnapshot(s)
  PROVE  /\ Rows(s) \in Seq(Buckets)
         /\ \A b \in DOMAIN s.demand \cup DOMAIN s.configuredByBucket :
              At(s.demand, b) > 0 \/ At(s.configuredByBucket, b) > 0 => b \in ToSet(Rows(s))
<1> DEFINE I == {j \in DOMAIN s.buckets : \/ At(s.demand, s.buckets[j]) > 0
                                          \/ At(s.configuredByBucket, s.buckets[j]) > 0}
<1>1. Rows(s) = Kept(s.buckets, I)
  <2>1. Rows(s) = Filter(s.buckets, LAMBDA b : At(s.demand, b) > 0 \/ At(s.configuredByBucket, b) > 0)
    BY DEF Rows, DemandVsSupply
  <2>2. Filter(s.buckets, LAMBDA b : At(s.demand, b) > 0 \/ At(s.configuredByBucket, b) > 0)
          = Kept(s.buckets, I)
    BY Zenon DEF Filter, Kept, Positions, Arranged
  <2> QED BY Zenon, <2>1, <2>2
<1>2. s.buckets \in Seq(Buckets)
  BY ColumnsOfSnapshot
<1>3. I \in SUBSET DOMAIN s.buckets
  OBVIOUS
<1>4. ASSUME NEW b \in DOMAIN s.demand \cup DOMAIN s.configuredByBucket,
             At(s.demand, b) > 0 \/ At(s.configuredByBucket, b) > 0
      PROVE  \E j \in I : s.buckets[j] = b
  BY <1>4, ColumnsOfSnapshot
<1> HIDE DEF I
<1>5. /\ Kept(s.buckets, I) \in Seq(Buckets)
      /\ \A i \in I : \E k \in DOMAIN Kept(s.buckets, I) : Kept(s.buckets, I)[k] = s.buckets[i]
  BY <1>2, <1>3, KeptElements
<1> QED BY <1>1, <1>4, <1>5 DEF ToSet

(* No bar of the gaps is wider than the widest.                             *)
LEMMA WidestBar ==
  ASSUME NEW s, IsSnapshot(s)
  PROVE  \A i \in DOMAIN Rows(s) : /\ At(s.demand, Rows(s)[i]) <= DemandVsSupply(s).widest
                                   /\ At(s.configuredByBucket, Rows(s)[i]) <= DemandVsSupply(s).widest
<1> DEFINE rows == Rows(s)
           d == [i \in DOMAIN rows |-> At(s.demand, rows[i])]
           u == [i \in DOMAIN rows |-> At(s.configuredByBucket, rows[i])]
           W == {1} \cup {d[i] : i \in DOMAIN rows} \cup {u[i] : i \in DOMAIN rows}
<1>1. DemandVsSupply(s).widest = Max(W)
  BY DEF DemandVsSupply, Rows
<1>2. IsFiniteSet(DOMAIN rows)
  BY RowsOfGaps, DomainFinite
<1>3. \A b : At(s.demand, b) \in Nat /\ At(s.configuredByBucket, b) \in Nat
  BY CounterTally DEF IsSnapshot
<1>4. \A i \in DOMAIN rows : /\ d[i] \in Nat /\ u[i] \in Nat
                             /\ d[i] = At(s.demand, rows[i]) /\ u[i] = At(s.configuredByBucket, rows[i])
  BY <1>3
<1>5. DOMAIN d = DOMAIN rows /\ DOMAIN u = DOMAIN rows
  OBVIOUS
<1> HIDE DEF d, u
<1>6. W \in SUBSET Nat /\ 1 \in W
  BY <1>4
<1>7. IsFiniteSet(W)
  <2>1. /\ d \in Surjection(DOMAIN rows, {d[i] : i \in DOMAIN rows})
        /\ u \in Surjection(DOMAIN rows, {u[i] : i \in DOMAIN rows})
    BY DEF Surjection, d, u
  <2>2. IsFiniteSet({d[i] : i \in DOMAIN rows}) /\ IsFiniteSet({u[i] : i \in DOMAIN rows})
    BY <1>2, <2>1, FS_Surjection
  <2>3. IsFiniteSet({1})
    BY FS_Singleton
  <2>4. IsFiniteSet({1} \cup {d[i] : i \in DOMAIN rows})
    BY <2>2, <2>3, FS_Union
  <2> QED BY <2>2, <2>4, FS_Union
<1>8. \A i \in DOMAIN rows : d[i] \in W /\ u[i] \in W
  OBVIOUS
<1> HIDE DEF W
<1>9. Max(W) \in Nat /\ \A y \in W : y \in Nat /\ Max(W) >= y
  BY <1>6, <1>7, GreatestOf
<1>10. ASSUME NEW i \in DOMAIN rows PROVE d[i] <= Max(W) /\ u[i] <= Max(W)
  <2> DEFINE top == Max(W)
  <2>1. d[i] \in Nat /\ u[i] \in Nat /\ top \in Nat /\ top >= d[i] /\ top >= u[i]
    BY <1>8, <1>9
  <2> HIDE DEF top
  <2>2. d[i] <= top /\ u[i] <= top
    BY <2>1
  <2> QED BY <2>2 DEF top
<1> QED BY <1>1, <1>4, <1>10

(* Finitely many pairs.                                                     *)
Pairs(A, B, a, b) == {<<a[i], b[j]>> : i \in A, j \in B}

(* The pairs over two finite sets are finitely many.                        *)
LEMMA PairsFinite ==
  ASSUME NEW A, NEW B, IsFiniteSet(A), IsFiniteSet(B), NEW a, NEW b
  PROVE  IsFiniteSet(Pairs(A, B, a, b))
<1> DEFINE h == [p \in A \X B |-> <<a[p[1]], b[p[2]]>>]
           V == {<<a[i], b[j]>> : i \in A, j \in B}
<1>1. IsFiniteSet(A \X B)
  BY FS_Product
<1>2. \A p \in A \X B : h[p] \in V
  OBVIOUS
<1>3. \A i \in A, j \in B : <<i, j>> \in A \X B /\ h[<<i, j>>] = <<a[i], b[j]>>
  OBVIOUS
<1>4. \A y \in V : \E i \in A, j \in B : y = <<a[i], b[j]>>
  OBVIOUS
<1>5. h \in [A \X B -> V]
  BY <1>2
<1> HIDE DEF h, V
<1>6. h \in Surjection(A \X B, V)
  <2> SUFFICES ASSUME NEW y \in V PROVE \E p \in A \X B : h[p] = y
    BY <1>5 DEF Surjection
  <2>1. PICK i \in A, j \in B : y = <<a[i], b[j]>>
    BY <1>4
  <2>2. <<i, j>> \in A \X B /\ h[<<i, j>>] = y
    BY <1>3, <2>1
  <2> WITNESS <<i, j>> \in A \X B
  <2> QED BY <2>2
<1>7. IsFiniteSet(V)
  BY <1>1, <1>6, FS_Surjection
<1> QED BY <1>7 DEF V, Pairs

(* Every sample has its cell, no cell above the greatest.                   *)
LEMMA CellsOfMatrix ==
  ASSUME NEW s, IsSnapshot(s)
  PROVE  \A x \in DOMAIN s.configured :
           x \in DOMAIN PenaltyDistribution(s).cells /\ s.configured[x] <= PenaltyDistribution(s).max
<1> DEFINE m == s.configured
           R == DOMAIN s.capacityTypes
           C == DOMAIN s.buckets
           shown == {<<s.capacityTypes[i], s.buckets[j]>> : i \in R, j \in C}
           value == [x \in shown |-> Cell(m, x[1], x[2])]
<1>1. /\ DOMAIN PenaltyDistribution(s).cells = shown
      /\ PenaltyDistribution(s).max = Max({0} \cup {Cell(m, x[1], x[2]) : x \in shown})
  BY DEF PenaltyDistribution
<1>2. IsFiniteSet(R) /\ IsFiniteSet(C)
  BY ColumnsOfSnapshot, DomainFinite
<1>3. IsFiniteSet(shown)
  <2> DEFINE a == s.capacityTypes
             b == s.buckets
  <2> HIDE DEF R, C, a, b
  <2>1. IsFiniteSet(Pairs(R, C, a, b))
    BY <1>2, PairsFinite
  <2> QED BY <2>1 DEF Pairs, a, b
<1>4. \A x \in DOMAIN m : x \in shown /\ x = <<x[1], x[2]>>
  BY ColumnsOfSnapshot
<1>5. \A b, c : Cell(m, b, c) \in Nat
  <2>1. \A k : At(m, k) \in Nat
    BY CounterTally DEF IsSnapshot
  <2> QED BY <2>1 DEF Cell
<1>6. \A x \in DOMAIN m : m[x] = Cell(m, x[1], x[2])
  BY <1>4 DEF Cell, At
<1> HIDE DEF shown, m
<1>7. value \in [shown -> Nat] /\ \A x \in shown : value[x] = Cell(m, x[1], x[2])
  BY <1>5
<1> HIDE DEF value
<1>8. {Cell(m, x[1], x[2]) : x \in shown} = {value[x] : x \in shown}
  BY <1>7
<1>9. \A x \in shown : value[x] <= Max({0} \cup {value[y] : y \in shown})
  <2>1. 0 \in Nat
    OBVIOUS
  <2> QED BY <1>3, <1>7, <2>1, GreatestWith
<1> QED BY <1>1, <1>4, <1>6, <1>7, <1>8, <1>9 DEF m

(* No machine is left out.                                                  *)
LEMMA PageIsWhole ==
  ASSUME NEW s, IsSnapshot(s)
  PROVE  NothingLeftOut(s, Page(s))
<1> DEFINE p == Page(s)
<1>1. /\ p.mix.active.total = StackedBar(s.capacityTypes, s.configuredByCapacityType).total
      /\ p.mix.idle.total = StackedBar(s.capacityTypes, s.idleByCapacityType).total
      /\ p.metrics.active = s.configuredMachines /\ p.metrics.idle = s.idleMachines
  BY DEF Page, CapacityMix, KeyMetrics
<1>2. /\ p.matrix.cells = PenaltyDistribution(s).cells /\ p.matrix.max = PenaltyDistribution(s).max
      /\ p.gaps.rows = Rows(s) /\ p.gaps.widest = DemandVsSupply(s).widest
  BY DEF Page, Rows
<1> HIDE DEF p
<1>3. /\ s.capacityTypes \in Seq(CapacityTypes)
      /\ \A i, j \in DOMAIN s.capacityTypes : s.capacityTypes[i] = s.capacityTypes[j] => i = j
      /\ \A c \in DOMAIN s.configuredByCapacityType : \E i \in DOMAIN s.capacityTypes : s.capacityTypes[i] = c
      /\ \A c \in DOMAIN s.idleByCapacityType : \E i \in DOMAIN s.capacityTypes : s.capacityTypes[i] = c
  BY ColumnsOfSnapshot
<1>4. /\ Counter(s.configuredByCapacityType, CapacityTypes) /\ Counter(s.idleByCapacityType, CapacityTypes)
      /\ s.configuredMachines = SumFunction(s.configuredByCapacityType)
      /\ s.idleMachines = SumFunction(s.idleByCapacityType)
  BY DEF IsSnapshot
<1>5. p.mix.active.total = p.metrics.active
  BY <1>1, <1>3, <1>4, BarIsWhole
<1>6. p.mix.idle.total = p.metrics.idle
  BY <1>1, <1>3, <1>4, BarIsWhole
<1>7. \A x \in DOMAIN s.configured : x \in DOMAIN p.matrix.cells /\ s.configured[x] <= p.matrix.max
  BY <1>2, CellsOfMatrix
<1>8. /\ \A b \in DOMAIN s.demand : s.demand[b] > 0 => b \in ToSet(p.gaps.rows)
      /\ \A b \in DOMAIN s.configuredByBucket :
           At(s.configuredByBucket, b) > 0 => b \in ToSet(p.gaps.rows)
  <2>1. \A b \in DOMAIN s.demand : s.demand[b] = At(s.demand, b)
    BY DEF At
  <2> QED BY <1>2, <2>1, RowsOfGaps
<1>9. \A i \in DOMAIN p.gaps.rows : /\ At(s.demand, p.gaps.rows[i]) <= p.gaps.widest
                                    /\ At(s.configuredByBucket, p.gaps.rows[i]) <= p.gaps.widest
  BY <1>2, WidestBar
<1> QED BY <1>5, <1>6, <1>7, <1>8, <1>9 DEF NothingLeftOut, p

(* The lists under the chart are complete.                                  *)
LEMMA ListsAreComplete ==
  ASSUME NEW s, IsSnapshot(s)
  PROVE  GapsAreListed(s, Page(s))
<1> DEFINE p == Page(s)
           rows == Rows(s)
           D(i) == At(s.demand, rows[i])
           S(i) == At(s.configuredByBucket, rows[i])
           tone(i) == IF S(i) < D(i) THEN "red" ELSE IF S(i) - D(i) > 2 * D(i) THEN "amber" ELSE "subtle"
<1>1. /\ p.gaps.rows = rows
      /\ p.gaps.tone = [i \in DOMAIN rows |-> tone(i)]
      /\ p.gaps.short = {rows[i] : i \in {j \in DOMAIN rows : S(j) < D(j)}}
      /\ p.gaps.over = {rows[i] : i \in {j \in DOMAIN rows : S(j) > 2 * D(j) /\ D(j) > 0}}
  BY DEF Page, DemandVsSupply, Rows
<1>2. \A b : At(s.demand, b) \in Nat /\ At(s.configuredByBucket, b) \in Nat
  BY CounterTally DEF IsSnapshot
<1>3. ASSUME NEW i \in DOMAIN rows
      PROVE  /\ tone(i) = "red" <=> S(i) < D(i)
             /\ tone(i) = "amber" => S(i) > 2 * D(i)
  BY <1>2
<1>4. ASSUME NEW i \in DOMAIN rows PROVE rows[i] \in p.gaps.short <=> S(i) < D(i)
  BY <1>1
<1>5. ASSUME NEW i \in DOMAIN rows, S(i) > 2 * D(i), D(i) > 0 PROVE rows[i] \in p.gaps.over
  BY <1>1, <1>5
<1>6. \A i \in DOMAIN rows : p.gaps.tone[i] = tone(i)
  BY <1>1
<1>7. p.gaps.rows = rows
  BY <1>1
<1>8. GapsAreListed(s, p) <=>
        \A i \in DOMAIN p.gaps.rows :
          /\ (p.gaps.tone[i] = "red") = (p.gaps.rows[i] \in p.gaps.short)
          /\ p.gaps.tone[i] = "amber" /\ At(s.demand, p.gaps.rows[i]) > 0
               => p.gaps.rows[i] \in p.gaps.over
  BY DEF GapsAreListed
<1>9. \A i \in DOMAIN rows : D(i) = At(s.demand, rows[i])
  OBVIOUS
<1> HIDE DEF p, rows, D, S, tone
<1> QED BY <1>3, <1>4, <1>5, <1>6, <1>7, <1>8, <1>9 DEF p

-----------------------------------------------------------------------------
(* The sum of the configured machines by type is that over the samples      *)
(* that have a type.                                                        *)
LEMMA TypesAddUp ==
  ASSUME NEW f, HasLabels(f)
  PROVE  SumFunction(ByCapacity(f)) = SumFunctionOnSet(f, {x \in DOMAIN f : x[1] # ""})
<1> DEFINE first == [x \in DOMAIN f |-> x[1]]
           G == TypesIn(f)
           g == ByCapacity(f)
<1>1. Tally(f, DOMAIN f) /\ IsFiniteSet(G) /\ DOMAIN g = G
  BY CounterTally, ByLabel DEF HasLabels, Counter
<1>2. ASSUME NEW y \in G PROVE g[y] = SumFunctionOnSet(f, GroupOf(DOMAIN f, first, y))
  <2>1. g[y] = SumFunctionOnSet(f, {x \in DOMAIN f : x[1] = y})
    BY ByLabel
  <2>2. {x \in DOMAIN f : x[1] = y} = GroupOf(DOMAIN f, first, y)
    BY DEF GroupOf
  <2> HIDE DEF g, first
  <2> QED BY Zenon, <2>1, <2>2
<1>3. GroupsOf(DOMAIN f, first, G) = {x \in DOMAIN f : x[1] # ""}
  BY DEF TypesIn, GroupsOf
<1> HIDE DEF g, G, first
<1>4. SumFunctionOnSet(g, G) = SumFunctionOnSet(f, GroupsOf(DOMAIN f, first, G))
  <2> DEFINE S == DOMAIN f
  <2>1. Tally(f, S) /\ IsFiniteSet(G)
    BY <1>1
  <2>2. Groups(f, S, first, g, G)
    BY <1>2 DEF Groups
  <2> HIDE DEF S
  <2>3. SumFunctionOnSet(g, G) = SumFunctionOnSet(f, GroupsOf(S, first, G))
    BY <2>1, <2>2, SumOfGroups
  <2> QED BY <2>3 DEF S
<1>5. SumFunctionOnSet(g, G) = SumFunctionOnSet(f, {x \in DOMAIN f : x[1] # ""})
  BY Zenon, <1>3, <1>4
<1> QED BY Zenon, <1>1, <1>5 DEF SumFunction, g

(* The figures of one moment.                                               *)
LEMMA FiguresOfOneMoment ==
  ASSUME NEW w, IsWorld(w)
  PROVE  OneInstant(w, FinOps(w), Page(FinOps(w)))
<1> SUFFICES ASSUME w.at > 0
             PROVE  LET s == FinOps(w)
                        p == Page(s)
                    IN  /\ ~Exceeds(s.spotFraction, <<1, 1>>) /\ ~Exceeds(s.pinnedFraction, <<1, 1>>)
                        /\ \A x \in DOMAIN s.configured :
                             /\ s.configured[x] <= At(s.configuredByCapacityType, x[1])
                             /\ s.configured[x] <= At(s.configuredByBucket, x[2])
                        /\ SumFunction(s.demand) <= s.demandMachines
                        /\ p.matrix.high <= p.matrix.total
  BY DEF OneInstant
<1> DEFINE f      == w.old.configured
           d      == w.old.demand
           conf   == ByCapacity(f)
           kept   == {x \in DOMAIN f : x[1] # "" /\ x[2] # NoBucket}
           m      == Restrict(f, kept)
           by     == ByBucket(f)
           total  == SumFunction(conf)
           demand == Restrict(d, DOMAIN d \ {NoBucket})
           pinned == SumFunctionOnSet(m, {x \in DOMAIN m : x[2] = Pinned})
           s      == FinOps(w)
<1>1. \A k : Found(w, k) = w.old
  BY FoundFleet
<1>2. /\ s.spotFraction = Fraction(At(conf, "Spot"), total) /\ s.pinnedFraction = Fraction(pinned, total)
      /\ s.configured = m /\ s.configuredByCapacityType = conf /\ s.configuredByBucket = by
      /\ s.demand = demand /\ s.demandMachines = SumFunction(d)
  BY <1>1 DEF FinOps
<1>3. HasLabels(f) /\ Counter(d, Buckets \cup {NoBucket})
  BY <1>1, FoundFleet DEF IsFleet, HasLabels
<1>4. Tally(f, DOMAIN f) /\ Tally(d, DOMAIN d)
  BY <1>3, CounterTally DEF HasLabels
<1>5. /\ Counter(conf, CapacityTypes) /\ Counter(by, Buckets)
      /\ DOMAIN conf = TypesIn(f) /\ DOMAIN by = BucketsIn(f)
      /\ \A c \in TypesIn(f) : conf[c] = SumFunctionOnSet(f, {x \in DOMAIN f : x[1] = c})
      /\ \A b \in BucketsIn(f) : by[b] = SumFunctionOnSet(f, {x \in DOMAIN f : x[2] = b})
  BY <1>3, ByLabel
<1>6. /\ kept \in SUBSET DOMAIN f /\ DOMAIN m = kept /\ \A x \in kept : m[x] = f[x]
  BY DEF Restrict
<1>7. Tally(conf, DOMAIN conf) /\ total = SumFunctionOnSet(conf, DOMAIN conf) /\ total \in Nat
  <2>1. Tally(conf, DOMAIN conf)
    BY <1>5, CounterTally
  <2> QED BY <2>1, SumType DEF SumFunction
(* No share is above one.                                                   *)
<1>8. \A a \in Nat : a <= total => ~Exceeds(Fraction(a, total), <<1, 1>>)
  <2> HIDE DEF total
  <2> SUFFICES ASSUME NEW a \in Nat, a <= total PROVE ~Exceeds(Fraction(a, total), <<1, 1>>)
    OBVIOUS
  <2>1. CASE total = 0
    <3>1. Fraction(a, total) = <<0, 1>>
      BY <2>1 DEF Fraction
    <3> QED BY <3>1 DEF Exceeds
  <2>2. CASE total # 0
    <3>1. Fraction(a, total) = <<a, total>>
      BY <2>2 DEF Fraction
    <3>2. a * 1 = a /\ 1 * total = total
      BY <1>7
    <3> QED BY <1>7, <3>1, <3>2 DEF Exceeds
  <2> QED BY <2>1, <2>2
<1>9. At(conf, "Spot") \in Nat /\ At(conf, "Spot") <= total
  <2>1. CASE "Spot" \in DOMAIN conf
    <3>1. conf["Spot"] \in Nat /\ conf["Spot"] <= SumFunctionOnSet(conf, DOMAIN conf)
      <4> HIDE DEF conf
      <4> QED BY <1>7, <2>1, AddendInSum
    <3> QED BY <1>7, <2>1, <3>1 DEF At
  <2>2. CASE "Spot" \notin DOMAIN conf
    <3>1. At(conf, "Spot") = 0
      BY <2>2 DEF At
    <3> HIDE DEF total, conf
    <3> QED BY <1>7, <3>1
  <2> QED BY <2>1, <2>2
<1>10. pinned \in Nat /\ pinned <= total
  <2> DEFINE P == {x \in DOMAIN m : x[2] = Pinned}
             Q == {x \in DOMAIN f : x[1] # ""}
  <2>1. P \in SUBSET Q /\ P \in SUBSET DOMAIN f /\ Q \in SUBSET DOMAIN f /\ \A x \in P : m[x] = f[x]
    BY <1>6
  <2>2. total = SumFunctionOnSet(f, Q)
    BY <1>3, TypesAddUp
  <2> HIDE DEF P, Q, m, total
  <2>3. Tally(f, P) /\ Tally(f, Q)
    BY <1>4, <2>1, SumOfPart
  <2>4. SumFunctionOnSet(m, P) = SumFunctionOnSet(f, P)
    BY <2>1, <2>3, SumOfEquals
  <2>5. SumFunctionOnSet(f, P) <= SumFunctionOnSet(f, Q) /\ SumFunctionOnSet(f, P) \in Nat
    BY <2>1, <2>3, SumOfPart, SumType
  <2> QED BY <2>2, <2>4, <2>5 DEF P
(* A sample counts in the sums by its type and by its bucket.               *)
<1>11. ASSUME NEW x \in DOMAIN m PROVE m[x] <= At(conf, x[1]) /\ m[x] <= At(by, x[2])
  <2> DEFINE C == {y \in DOMAIN f : y[1] = x[1]}
             B == {y \in DOMAIN f : y[2] = x[2]}
  <2>1. x \in DOMAIN f /\ x[1] \in TypesIn(f) /\ x[2] \in BucketsIn(f) /\ m[x] = f[x]
    BY <1>6 DEF TypesIn, BucketsIn
  <2>2. At(conf, x[1]) = SumFunctionOnSet(f, C) /\ At(by, x[2]) = SumFunctionOnSet(f, B)
    BY <1>5, <2>1 DEF At
  <2>3. C \in SUBSET DOMAIN f /\ B \in SUBSET DOMAIN f /\ x \in C /\ x \in B
    BY <2>1
  <2> HIDE DEF C, B, m, conf, by
  <2>4. Tally(f, C) /\ Tally(f, B)
    BY <1>4, <2>3, SumOfPart
  <2>5. f[x] <= SumFunctionOnSet(f, C) /\ f[x] <= SumFunctionOnSet(f, B)
    BY <2>3, <2>4, AddendInSum
  <2> QED BY <2>1, <2>2, <2>5
(* The demand by bucket is part of all the demand.                          *)
<1>12. SumFunction(demand) <= SumFunction(d)
  <2> DEFINE D == DOMAIN d \ {NoBucket}
  <2>1. D \in SUBSET DOMAIN d /\ DOMAIN demand = D /\ \A x \in D : demand[x] = d[x]
    BY DEF Restrict
  <2> HIDE DEF D, demand
  <2>2. Tally(d, D) /\ SumFunctionOnSet(d, D) <= SumFunctionOnSet(d, DOMAIN d)
    BY <1>4, <2>1, SumOfPart
  <2>3. SumFunctionOnSet(demand, D) = SumFunctionOnSet(d, D)
    BY <2>1, <2>2, SumOfEquals
  <2> QED BY <2>1, <2>2, <2>3 DEF SumFunction
<1>13. Page(s).matrix.high <= Page(s).matrix.total
  <2> DEFINE H == {b \in DOMAIN by : HighPenalty(b)}
  <2>1. /\ Page(s).matrix.high = SumFunctionOnSet(s.configuredByBucket, {b \in DOMAIN s.configuredByBucket : HighPenalty(b)})
        /\ Page(s).matrix.total = SumFunction(s.configuredByBucket)
    BY DEF Page, PenaltyDistribution
  <2>2. Page(s).matrix.high = SumFunctionOnSet(by, H) /\ Page(s).matrix.total = SumFunctionOnSet(by, DOMAIN by)
    BY <1>2, <2>1 DEF SumFunction
  <2>3. Tally(by, DOMAIN by)
    BY <1>5, CounterTally
  <2>4. H \in SUBSET DOMAIN by
    OBVIOUS
  <2> HIDE DEF H, by, s
  <2>5. SumFunctionOnSet(by, H) <= SumFunctionOnSet(by, DOMAIN by)
    BY <2>3, <2>4, SumOfPart
  <2> QED BY <2>2, <2>5
<1> HIDE DEF s, m, conf, by, total, pinned, demand
<1>14. ~Exceeds(s.spotFraction, <<1, 1>>) /\ ~Exceeds(s.pinnedFraction, <<1, 1>>)
  BY <1>2, <1>8, <1>9, <1>10
<1>15. \A x \in DOMAIN s.configured : /\ s.configured[x] <= At(s.configuredByCapacityType, x[1])
                                      /\ s.configured[x] <= At(s.configuredByBucket, x[2])
  BY <1>2, <1>11
<1> QED BY <1>2, <1>12, <1>13, <1>14, <1>15 DEF s

-----------------------------------------------------------------------------
(* An input of the FinOps page is a snapshot of a world.                    *)
FinOpsInput ==
  kind = "finops" =>
    /\ IsWorld(input.world) /\ input.snapshot = FinOps(input.world)
    /\ output = Page(FinOps(input.world))

(* FinOps.tsx and handlers_finops.go, for any fleets with any capacity      *)
(* types and penalty buckets and any two scrapes: the alarm, the red cell   *)
(* and the all-clear agree, no machine is left out of bars and matrix, the  *)
(* lists under the chart are complete, the columns are in the order of      *)
(* dollars, and the seven queries agree unless a scrape is stored late.     *)
THEOREM FinOpsConsistency == FiguresSpec => []FinOpsIsConsistent
<1>1. Init => FinOpsInput
  BY DEF Init, FinOpsInput
<1>2. FinOpsInput /\ [Next]_figures => FinOpsInput'
  <2> SUFFICES ASSUME FinOpsInput, [Next]_figures PROVE FinOpsInput'
    OBVIOUS
  <2>1. CASE UNCHANGED figures
    BY <2>1 DEF FinOpsInput, figures
  <2>2. CASE Finance
    <3>1. PICK old \in Fleets, new \in Fleets, stored \in 1..7, at \in 0..7 :
            LET w == World(old, new, stored, at)
            IN  /\ input' = [world |-> w, snapshot |-> FinOps(w)] /\ output' = Page(FinOps(w))
      BY <2>2 DEF Finance, Computes
    <3> DEFINE w == World(old, new, stored, at)
    <3>2. IsWorld(w)
      BY DEF IsWorld, World
    <3> HIDE DEF w
    <3>3. input' = [world |-> w, snapshot |-> FinOps(w)] /\ output' = Page(FinOps(w))
      BY <3>1 DEF w
    <3>4. (input').world = w /\ (input').snapshot = FinOps(w)
      BY <3>3
    <3> QED BY <3>2, <3>3, <3>4 DEF FinOpsInput
  <2>3. CASE Next /\ ~Finance
    <3>1. kind' # "finops"
      BY <2>3 DEF Next, Walk, Compete, Verdict, Penalty, Sample, Overview, Report, Coordinator,
                  Shard, Cluster, Hints, Computes
    <3> QED BY <3>1 DEF FinOpsInput
  <2> QED BY <2>1, <2>2, <2>3
<1>3. FinOpsInput => FinOpsIsConsistent
  <2> SUFFICES ASSUME FinOpsInput, kind = "finops" PROVE FinOpsIsConsistent
    BY DEF FinOpsIsConsistent
  <2> DEFINE w == input.world
             s == FinOps(w)
  <2>1. IsWorld(w) /\ input.snapshot = s /\ output = Page(s)
    BY DEF FinOpsInput
  <2>2. IsSnapshot(s)
    BY <2>1, FinOpsIsSnapshot
  <2>3. /\ RedFlagsAgree(s, Page(s)) /\ NothingLeftOut(s, Page(s)) /\ GapsAreListed(s, Page(s))
        /\ BucketsInDollarOrder(s)
    BY <2>2, AlarmsAgree, PageIsWhole, ListsAreComplete, DollarOrder
  <2>4. OneInstant(w, s, Page(s))
    BY <2>1, FiguresOfOneMoment
  <2> HIDE DEF s
  <2> QED BY <2>1, <2>3, <2>4 DEF FinOpsIsConsistent
<1> QED BY <1>1, <1>2, <1>3, PTL DEF FiguresSpec

-----------------------------------------------------------------------------
(* A metric of numbers is a tally of its samples, and has a number for      *)
(* every key.                                                               *)
LEMMA MetricTally ==
  ASSUME NEW f, Metric(f, Nat)
  PROVE  Tally(f, DOMAIN f) /\ \A k : At(f, k) \in Nat
BY DEF Metric, Tally, At

(* Sums by a label add up to the sum of all samples: label gives the label  *)
(* of a sample, g the sums.                                                 *)
SumsBy(g, f, S, label) ==
  /\ DOMAIN g = {label[x] : x \in S}
  /\ \A y \in DOMAIN g : g[y] = SumFunctionOnSet(f, GroupOf(S, label, y))

(* The sums by a label add up to the whole sum.                             *)
LEMMA SumsAddUp ==
  ASSUME NEW f, NEW S, Tally(f, S), NEW label, NEW g, SumsBy(g, f, S, label)
  PROVE  Tally(g, DOMAIN g) /\ SumFunction(g) = SumFunctionOnSet(f, S)
<1> DEFINE G == {label[x] : x \in S}
           h == [x \in S |-> label[x]]
<1>1. IsFiniteSet(G)
  <2>1. h \in Surjection(S, G)
    BY DEF Surjection
  <2> HIDE DEF h, G
  <2> QED BY <2>1, FS_Surjection DEF Tally
<1>2. DOMAIN g = G /\ Groups(f, S, label, g, G)
  BY DEF SumsBy, Groups
<1>3. GroupsOf(S, label, G) = S
  BY DEF GroupsOf
<1> HIDE DEF G
<1>4. Tally(g, G) /\ SumFunctionOnSet(g, G) = SumFunctionOnSet(f, GroupsOf(S, label, G))
  BY <1>1, <1>2, SumOfGroups
<1>5. SumFunctionOnSet(f, GroupsOf(S, label, G)) = SumFunctionOnSet(f, S)
  BY Zenon, <1>3
<1>6. SumFunction(g) = SumFunctionOnSet(g, G)
  BY Zenon, <1>2 DEF SumFunction
<1> QED BY <1>2, <1>4, <1>5, <1>6

(* Without the samples that lack the label they add up to the others.       *)
LEMMA LabelledAddUp ==
  ASSUME NEW f, NEW S, Tally(f, S), NEW label, NEW g, SumsBy(g, f, S, label)
  PROVE  /\ Tally(Labelled(g), DOMAIN Labelled(g))
         /\ SumFunction(Labelled(g)) + SumFunctionOnSet(f, GroupOf(S, label, "")) = SumFunctionOnSet(f, S)
<1> DEFINE K == DOMAIN g \ {""}
           l == Labelled(g)
           A == GroupsOf(S, label, K)
           B == GroupOf(S, label, "")
<1>1. DOMAIN l = K /\ \A y \in K : l[y] = g[y]
  BY DEF Labelled, Restrict
<1>2. IsFiniteSet(K)
  <2>1. IsFiniteSet(DOMAIN g) /\ K \in SUBSET DOMAIN g
    BY SumsAddUp DEF Tally
  <2> HIDE DEF K
  <2> QED BY <2>1, FS_Subset
<1>3. DOMAIN g = {label[x] : x \in S} /\ \A y \in DOMAIN g : g[y] = SumFunctionOnSet(f, GroupOf(S, label, y))
  BY DEF SumsBy
<1>4. Groups(f, S, label, l, K)
  <2> HIDE DEF l
  <2> QED BY <1>1, <1>3 DEF Groups
<1>5. A \in SUBSET S /\ B \in SUBSET S /\ A \cap B = {} /\ A \cup B = S
  BY <1>3 DEF GroupsOf, GroupOf
<1> HIDE DEF l, K
<1>6. Tally(l, K) /\ SumFunctionOnSet(l, K) = SumFunctionOnSet(f, A)
  BY <1>2, <1>4, SumOfGroups
<1> HIDE DEF A, B
<1>7. SumFunctionOnSet(f, A \cup B) = SumFunctionOnSet(f, A) + SumFunctionOnSet(f, B)
  BY <1>5, SumOfTwo
<1>8. SumFunction(l) = SumFunctionOnSet(l, K)
  BY Zenon, <1>1 DEF SumFunction
<1>9. Tally(l, DOMAIN l) /\ SumFunction(l) + SumFunctionOnSet(f, B) = SumFunctionOnSet(f, S)
  BY <1>1, <1>5, <1>6, <1>7, <1>8
<1> QED BY <1>9 DEF l, B

(* A bar of the values above zero adds up to all of them.                   *)
LEMMA BarAddsUp ==
  ASSUME NEW f, Tally(f, DOMAIN f)
  PROVE  SumFunction(BarOf(f)) = SumFunction(f)
<1> DEFINE P == {x \in DOMAIN f : f[x] > 0}
           g == BarOf(f)
<1>1. P \in SUBSET DOMAIN f /\ \A x \in DOMAIN f \ P : f[x] = 0
  BY DEF Tally
<1>2. DOMAIN g = P /\ \A x \in P : g[x] = f[x]
  BY DEF BarOf, Restrict
<1> HIDE DEF P, g
<1>3. Tally(f, P) /\ SumFunctionOnSet(f, P) = SumFunctionOnSet(f, DOMAIN f)
  BY <1>1, SumOfPart, SumWithoutZeros
<1>4. SumFunctionOnSet(g, P) = SumFunctionOnSet(f, P)
  BY <1>2, <1>3, SumOfEquals
<1>5. SumFunction(g) = SumFunctionOnSet(g, P)
  BY Zenon, <1>2 DEF SumFunction
<1> QED BY <1>3, <1>4, <1>5 DEF SumFunction, g

(* A share above a line is the share of something.                          *)
LEMMA ShareOfSome ==
  ASSUME NEW x \in Nat, NEW y \in Nat, 10 * y > 3 * (x + y) \/ 20 * y > 3 * (x + y)
  PROVE  y > 0
<1>1. 7 * y > 3 * x \/ 17 * y > 3 * x
  OBVIOUS
<1>2. 3 * x >= 0
  OBVIOUS
<1> QED BY <1>1, <1>2

(* The row of a shard and its page tell the same.                           *)
LEMMA ShardPages ==
  ASSUME NEW w \in Scrapes
  PROVE  ShardPagesAgree(w, ShardsList(w))
<1> DEFINE list == ShardsList(w)
           m == w.machines
           Pods == {x[1] : x \in DOMAIN m} \ {""}
<1>1. /\ Metric(m, Nat) /\ Metric(w.shortfalls, Nat) /\ Metric(w.sessions, Nat)
      /\ Metric(w.cycle, Nat \cup {Bad}) /\ Metric(w.occ, Nat)
  BY InventoryAssumption
<1>2. /\ DOMAIN list = Pods
      /\ \A pod \in Pods :
           list[pod] = [cycle |-> At(Valid(w.cycle), pod),
                        machines |-> SumFunctionOnSet(m, {x \in DOMAIN m : x[1] = pod}),
                        shortfalls |-> At(w.shortfalls, pod), sessions |-> At(w.sessions, pod)]
  <2> DEFINE g == SumBy(m, LAMBDA x : x[1])
             l == Labelled(g)
  <2>1. g = [y \in {x[1] : x \in DOMAIN m} |-> SumFunctionOnSet(m, {x \in DOMAIN m : x[1] = y})]
    BY DEF SumBy
  <2>2. list = [pod \in DOMAIN l |->
                  [cycle |-> At(Valid(w.cycle), pod), machines |-> l[pod],
                   shortfalls |-> At(w.shortfalls, pod), sessions |-> At(w.sessions, pod)]]
    BY DEF ShardsList
  <2>3. l = Restrict(g, DOMAIN g \ {""})
    BY DEF Labelled
  <2> HIDE DEF g, l, list
  <2>4. DOMAIN g = {x[1] : x \in DOMAIN m}
    BY <2>1
  <2>5. DOMAIN l = Pods /\ \A pod \in Pods : l[pod] = g[pod]
    BY <2>3, <2>4 DEF Restrict
  <2>6. \A pod \in Pods : g[pod] = SumFunctionOnSet(m, {x \in DOMAIN m : x[1] = pod})
    BY <2>1
  <2> QED BY <2>2, <2>5, <2>6
<1>3. Bad = -1
  BY DEF Bad
<1>4. ASSUME NEW pod
      PROVE  /\ Scalar(w.shortfalls, pod) = At(w.shortfalls, pod)
             /\ Scalar(w.sessions, pod) = At(w.sessions, pod)
             /\ Scalar(w.cycle, pod) = At(Valid(w.cycle), pod) /\ Scalar(w.cycle, pod) # Bad
  <2>1. ASSUME NEW f, Metric(f, Nat) PROVE Scalar(f, pod) = At(f, pod)
    BY <1>3, <2>1 DEF Scalar, JsonSafe, At, Metric
  <2>2. Scalar(w.cycle, pod) = At(Valid(w.cycle), pod)
    BY DEF Scalar, JsonSafe, At, Valid, Restrict
  <2>3. Scalar(w.cycle, pod) # Bad
    BY <1>3 DEF Scalar, JsonSafe
  <2> QED BY <1>1, <2>1, <2>2, <2>3
<1> HIDE DEF list
<1> SUFFICES ASSUME NEW pod \in Pods
             PROVE  LET d == ShardDetail(w, pod)
                        p == DetailPage(d)
                        r == ShardRow(list[pod])
                    IN  /\ d.machines + Lacking(m, pod, 2) = list[pod].machines
                        /\ SumFunction(p.states) = d.machines
                        /\ SumFunction(p.capacities) + Lacking(m, pod, 3) = list[pod].machines
                        /\ d.shortfalls = list[pod].shortfalls
                        /\ d.sessions = list[pod].sessions /\ d.cycle = list[pod].cycle /\ d.cycle # Bad
                        /\ p.cycle = r.cycle /\ p.shortfalls = r.shortfalls
                        /\ p.occ # "plain" => d.conflict > 0
  BY <1>2 DEF ShardPagesAgree, list
<1> DEFINE d == ShardDetail(w, pod)
           p == DetailPage(d)
           r == ShardRow(list[pod])
           own == Of(m, pod)
           D == {x \in DOMAIN m : x[1] = pod}
           states == SumBy(own, LAMBDA x : x[2])
           capacities == SumBy(own, LAMBDA x : x[3])
           byState == Labelled(states)
           byCapacity == Labelled(capacities)
<1>5. /\ DOMAIN own = D /\ D \in SUBSET DOMAIN m /\ \A x \in D : own[x] = m[x]
  BY DEF Of, Restrict
<1>6. Tally(own, D) /\ SumFunctionOnSet(own, D) = SumFunctionOnSet(m, D)
  <2>1. Tally(m, D)
    <3> HIDE DEF D
    <3> QED BY <1>1, <1>5, MetricTally, SumOfPart
  <2> HIDE DEF own, D, m
  <2> QED BY <1>5, <2>1, SumOfEquals
<1>7. /\ Tally(byState, DOMAIN byState)
      /\ SumFunction(byState) + Lacking(m, pod, 2) = SumFunctionOnSet(own, D)
      /\ Tally(byCapacity, DOMAIN byCapacity)
      /\ SumFunction(byCapacity) + Lacking(m, pod, 3) = SumFunctionOnSet(own, D)
  <2> DEFINE state == [x \in D |-> x[2]]
             type  == [x \in D |-> x[3]]
             A     == {x \in DOMAIN m : x[1] = pod /\ x[2] = ""}
             B     == {x \in DOMAIN m : x[1] = pod /\ x[3] = ""}
  <2>1. SumsBy(states, own, D, state)
    <3>1. states = [y \in {x[2] : x \in DOMAIN own} |-> SumFunctionOnSet(own, {x \in DOMAIN own : x[2] = y})]
      BY DEF SumBy
    <3>2. states = [y \in {x[2] : x \in D} |-> SumFunctionOnSet(own, {x \in D : x[2] = y})]
      BY <1>5, <3>1, Zenon
    <3>3. {x[2] : x \in D} = {state[x] : x \in D}
      OBVIOUS
    <3>4. \A y : {x \in D : x[2] = y} = GroupOf(D, state, y)
      BY DEF GroupOf
    <3> HIDE DEF states, state, own, D
    <3> QED BY <3>2, <3>3, <3>4 DEF SumsBy
  <2>2. SumsBy(capacities, own, D, type)
    <3>1. capacities = [y \in {x[3] : x \in DOMAIN own} |-> SumFunctionOnSet(own, {x \in DOMAIN own : x[3] = y})]
      BY DEF SumBy
    <3>2. capacities = [y \in {x[3] : x \in D} |-> SumFunctionOnSet(own, {x \in D : x[3] = y})]
      BY <1>5, <3>1, Zenon
    <3>3. {x[3] : x \in D} = {type[x] : x \in D}
      OBVIOUS
    <3>4. \A y : {x \in D : x[3] = y} = GroupOf(D, type, y)
      BY DEF GroupOf
    <3> HIDE DEF capacities, type, own, D
    <3> QED BY <3>2, <3>3, <3>4 DEF SumsBy
  <2>3. A = GroupOf(D, state, "") /\ B = GroupOf(D, type, "") /\ A \in SUBSET D /\ B \in SUBSET D
    BY DEF GroupOf
  <2>4. Lacking(m, pod, 2) = SumFunctionOnSet(m, A) /\ Lacking(m, pod, 3) = SumFunctionOnSet(m, B)
    BY DEF Lacking
  <2> HIDE DEF states, capacities, state, type, own, D, A, B
  <2>5. SumFunctionOnSet(own, A) = SumFunctionOnSet(m, A) /\ SumFunctionOnSet(own, B) = SumFunctionOnSet(m, B)
    <3>1. Tally(m, A) /\ Tally(m, B)
      <4>1. Tally(m, DOMAIN m) /\ A \in SUBSET DOMAIN m /\ B \in SUBSET DOMAIN m
        BY <1>1, <1>5, <2>3, MetricTally
      <4> HIDE DEF m
      <4> QED BY <4>1, SumOfPart
    <3>2. (\A x \in A : own[x] = m[x]) /\ \A x \in B : own[x] = m[x]
      BY <1>5, <2>3
    <3> HIDE DEF m
    <3> QED BY <3>1, <3>2, SumOfEquals
  <2>6. /\ Tally(byState, DOMAIN byState)
        /\ SumFunction(byState) + SumFunctionOnSet(own, A) = SumFunctionOnSet(own, D)
    BY <1>6, <2>1, <2>3, LabelledAddUp
  <2>7. /\ Tally(byCapacity, DOMAIN byCapacity)
        /\ SumFunction(byCapacity) + SumFunctionOnSet(own, B) = SumFunctionOnSet(own, D)
    BY <1>6, <2>2, <2>3, LabelledAddUp
  <2> HIDE DEF byState, byCapacity, m
  <2> QED BY <2>4, <2>5, <2>6, <2>7
<1>8. SumFunction(BarOf(byState)) = SumFunction(byState) /\ SumFunction(BarOf(byCapacity)) = SumFunction(byCapacity)
  <2> HIDE DEF byState, byCapacity
  <2> QED BY <1>7, BarAddsUp
<1>9. /\ d.cycle = Scalar(w.cycle, pod) /\ d.machines = SumFunction(byState)
      /\ d.byState = byState /\ d.byCapacity = byCapacity
      /\ d.shortfalls = Scalar(w.shortfalls, pod) /\ d.sessions = Scalar(w.sessions, pod)
      /\ d.committed = At(w.occ, <<pod, "committed">>) /\ d.conflict = At(w.occ, <<pod, "conflict">>)
  BY DEF ShardDetail
<1>10. d.committed \in Nat /\ d.conflict \in Nat
  BY <1>1, <1>9, MetricTally
<1> HIDE DEF d, byState, byCapacity
<1>11. /\ p.cycle = CycleTone(d.cycle) /\ p.shortfalls = IF d.shortfalls > 0 THEN "red" ELSE "plain"
       /\ p.states = BarOf(d.byState) /\ p.capacities = BarOf(d.byCapacity)
  BY DEF DetailPage
<1>12. p.occ # "plain" => d.conflict > 0
  <2>1. p.occ = IF 10 * d.conflict > 3 * (d.committed + d.conflict) THEN "red"
                ELSE IF 20 * d.conflict > 3 * (d.committed + d.conflict) THEN "amber" ELSE "plain"
    BY DEF DetailPage
  <2> HIDE DEF p
  <2> DEFINE occ == p.occ
             kept == d.committed
             lost == d.conflict
  <2>2. kept \in Nat /\ lost \in Nat
    BY <1>10
  <2>3. occ # "plain" => 10 * lost > 3 * (kept + lost) \/ 20 * lost > 3 * (kept + lost)
    BY <2>1
  <2> HIDE DEF occ, kept, lost
  <2>4. occ # "plain" => lost > 0
    BY ONLY <2>2, <2>3, ShareOfSome
  <2> QED BY <2>4 DEF occ, lost
<1>13. r.cycle = CycleTone(list[pod].cycle) /\ r.shortfalls = IF list[pod].shortfalls > 0 THEN "red" ELSE "plain"
  BY DEF ShardRow
<1>14. /\ list[pod].cycle = At(Valid(w.cycle), pod) /\ list[pod].machines = SumFunctionOnSet(m, D)
       /\ list[pod].shortfalls = At(w.shortfalls, pod) /\ list[pod].sessions = At(w.sessions, pod)
  <2> DEFINE cycle == At(Valid(w.cycle), pod)
             machines == SumFunctionOnSet(m, D)
             shortfalls == At(w.shortfalls, pod)
             sessions == At(w.sessions, pod)
  <2>1. list[pod] = [cycle |-> cycle, machines |-> machines, shortfalls |-> shortfalls, sessions |-> sessions]
    BY <1>2
  <2> HIDE DEF cycle, machines, shortfalls, sessions, own, D, Pods, m, p, r
  <2>2. /\ list[pod].cycle = cycle /\ list[pod].machines = machines
        /\ list[pod].shortfalls = shortfalls /\ list[pod].sessions = sessions
    BY ONLY <2>1
  <2> QED BY <2>2 DEF cycle, machines, shortfalls, sessions
<1> HIDE DEF p, r, own, D
<1> QED BY <1>4, <1>6, <1>7, <1>8, <1>9, <1>11, <1>12, <1>13, <1>14 DEF d, p, r

-----------------------------------------------------------------------------
(* As many ones as elements add up to their number.                         *)
LEMMA SumOfOnes ==
  ASSUME NEW S, IsFiniteSet(S), NEW f, \A x \in S : f[x] = 1
  PROVE  Tally(f, S) /\ SumFunctionOnSet(f, S) = Cardinality(S)
<1> DEFINE h == [x \in S |-> <<x, 0>>]
<1>1. Tally(f, S)
  BY DEF Tally
<1>2. Ticks(f, S) = {<<x, 0>> : x \in S}
  BY DEF Ticks
<1>3. h \in Bijection(S, Ticks(f, S))
  BY <1>2 DEF Bijection, Injection, Surjection, IsInjective
<1> HIDE DEF h
<1>4. Cardinality(Ticks(f, S)) = Cardinality(S)
  BY <1>3, FS_Bijection DEF ExistsBijection
<1> QED BY <1>1, <1>4, SumIsTicks

(* The objects of a LIST counted by phase: every object counts once.        *)
LEMMA ObjectsByPhase ==
  ASSUME NEW list \in Seq(STRING), NEW default
  PROVE  LET count == CountByStatusPhase(list, default)
         IN  /\ Tally(count, DOMAIN count) /\ SumFunction(count) = Len(list)
             /\ At(count, default) = Cardinality({i \in DOMAIN list : list[i] \in {"", default}})
<1> DEFINE phase == [i \in DOMAIN list |-> IF list[i] = "" THEN default ELSE list[i]]
           ones  == [i \in DOMAIN list |-> 1]
           count == CountByStatusPhase(list, default)
           D     == DOMAIN list
<1>1. D = 1..Len(list) /\ Len(list) \in Nat
  OBVIOUS
<1>2. IsFiniteSet(D) /\ Cardinality(D) = Len(list)
  <2> HIDE DEF D
  <2>1. /\ IsFiniteSet(1..Len(list))
        /\ Cardinality(1..Len(list)) = IF 1 > Len(list) THEN 0 ELSE Len(list) - 1 + 1
    <3>1. 1 \in Int /\ Len(list) \in Int
      BY <1>1
    <3> QED BY <3>1, FS_Interval
  <2> QED BY <1>1, <2>1
<1>3. /\ DOMAIN count = {phase[i] : i \in D}
      /\ \A p \in DOMAIN count : count[p] = Cardinality({i \in D : phase[i] = p})
  <2>1. count = [p \in {phase[i] : i \in DOMAIN phase} |-> Cardinality({i \in DOMAIN phase : phase[i] = p})]
    BY DEF CountByStatusPhase, ToSet
  <2>2. DOMAIN phase = D
    OBVIOUS
  <2> HIDE DEF phase, count, D
  <2>3. count = [p \in {phase[i] : i \in D} |-> Cardinality({i \in D : phase[i] = p})]
    BY Zenon, <2>1, <2>2
  <2> QED BY <2>3
<1>4. \A i \in D : ones[i] = 1
  OBVIOUS
<1>5. \A i \in D : phase[i] = default <=> list[i] \in {"", default}
  OBVIOUS
<1> HIDE DEF phase, ones, count, D
<1>6. SumsBy(count, ones, D, phase)
  <2> SUFFICES ASSUME NEW p \in DOMAIN count
               PROVE  count[p] = SumFunctionOnSet(ones, GroupOf(D, phase, p))
    BY <1>3 DEF SumsBy
  <2> DEFINE P == {i \in D : phase[i] = p}
  <2>1. P \in SUBSET D /\ GroupOf(D, phase, p) = P /\ count[p] = Cardinality(P)
    BY <1>3 DEF GroupOf
  <2> HIDE DEF P
  <2>2. IsFiniteSet(P) /\ \A i \in P : ones[i] = 1
    BY <1>2, <1>4, <2>1, FS_Subset
  <2>3. SumFunctionOnSet(ones, P) = Cardinality(P)
    BY <2>2, SumOfOnes
  <2> QED BY <2>1, <2>3
<1>7. Tally(ones, D) /\ SumFunctionOnSet(ones, D) = Len(list)
  BY <1>2, <1>4, SumOfOnes
<1>8. Tally(count, DOMAIN count) /\ SumFunction(count) = Len(list)
  BY <1>6, <1>7, SumsAddUp
<1>9. At(count, default) = Cardinality({i \in D : list[i] \in {"", default}})
  <2> DEFINE P == {i \in D : list[i] \in {"", default}}
  <2>1. P = {i \in D : phase[i] = default}
    BY <1>5
  <2>2. CASE default \in DOMAIN count
    BY <1>3, <2>1, <2>2 DEF At
  <2>3. CASE default \notin DOMAIN count
    <3>1. P = {}
      BY <1>3, <2>1, <2>3
    <3>2. At(count, default) = 0
      BY <2>3 DEF At
    <3> QED BY <3>1, <3>2, FS_EmptySet
  <2> QED BY <2>2, <2>3
<1> QED BY <1>8, <1>9 DEF count, D

(* The row of a cluster and its page tell the same.                         *)
LEMMA ClusterPages ==
  ASSUME NEW in \in Clusters
  PROVE  ClusterPagesAgree(in.crs, in.uns, ClusterRow(in.crs, in.uns), ClusterDetail(in.crs, in.uns))
<1> DEFINE crs  == in.crs
           uns  == in.uns
           row  == ClusterRow(crs, uns)
           page == ClusterDetail(crs, uns)
           c    == CapacityRequests(crs)
           u    == UpcomingNodes(uns)
<1>1. crs.objects \in Seq(STRING) /\ uns.objects \in Seq(STRING)
  BY InventoryAssumption DEF IsList
<1>2. /\ Tally(c, DOMAIN c) /\ SumFunction(c) = Len(crs.objects)
      /\ At(c, "Pending") = Cardinality({i \in DOMAIN crs.objects : crs.objects[i] \in {"", "Pending"}})
  BY <1>1, ObjectsByPhase DEF CapacityRequests
<1>3. Tally(u, DOMAIN u) /\ SumFunction(u) = Len(uns.objects)
  BY <1>1, ObjectsByPhase DEF UpcomingNodes
<1>4. SumFunction(BarOf(c)) = SumFunction(c) /\ SumFunction(BarOf(u)) = SumFunction(u)
  <2> HIDE DEF c, u
  <2> QED BY <1>2, <1>3, BarAddsUp
<1>5. CASE ~crs.ok \/ ~uns.ok
  <2>1. row.status = "error" /\ page.status = "error"
    BY <1>5 DEF ClusterRow, ClusterDetail
  <2> HIDE DEF row, page
  <2> QED BY <2>1, <1>5 DEF ClusterPagesAgree, row, page
<1>6. CASE crs.ok /\ uns.ok
  <2> DEFINE sc == SumFunction(c)
             su == SumFunction(u)
             pending == At(c, "Pending")
             failed == At(u, "Failed")
             bc == BarOf(c)
             bu == BarOf(u)
  <2>1. /\ row = [status |-> "ok", requests |-> sc, pending |-> pending, nodes |-> su]
        /\ page = [status |-> "ok", requests |-> sc, nodes |-> su, pending |-> pending, failed |-> failed,
                   requestsBar |-> bc, nodesBar |-> bu]
    BY <1>6 DEF ClusterRow, ClusterDetail
  <2> HIDE DEF row, page, sc, su, pending, failed, bc, bu
  <2>2. /\ row.status = "ok" /\ row.requests = sc /\ row.pending = pending /\ row.nodes = su
        /\ page.status = "ok" /\ page.pending = pending /\ page.nodes = su
        /\ page.requestsBar = bc /\ page.nodesBar = bu
    BY <2>1
  <2>3. /\ sc = Len(crs.objects) /\ su = Len(uns.objects) /\ SumFunction(bc) = sc /\ SumFunction(bu) = su
        /\ pending = Cardinality({i \in DOMAIN crs.objects : crs.objects[i] \in {"", "Pending"}})
    BY <1>2, <1>3, <1>4 DEF sc, su, bc, bu, pending
  <2> HIDE DEF c, u
  <2> QED BY <1>6, <2>2, <2>3 DEF ClusterPagesAgree, row, page
<1> HIDE DEF row, page
<1>7. (crs.ok /\ uns.ok) \/ ~crs.ok \/ ~uns.ok
  OBVIOUS
<1> QED BY <1>5, <1>6, <1>7 DEF row, page

-----------------------------------------------------------------------------
(* The hints of one cluster are its objects, each once, the largest first.  *)
HintBefore(a, b) == a.count > b.count \/ (a.count = b.count /\ a.name < b.name)

(* The handler keeps every hint, in the order it promises.                  *)
LEMMA HintsInOrder ==
  ASSUME NEW objects \in Seq([name : Nat, count : Int]),
         \A i, j \in DOMAIN objects : objects[i].name = objects[j].name => i = j
  PROVE  LET s == ListAvailableCapacity(objects)
         IN  /\ s \in Seq(ToSet(objects)) /\ ToSet(s) = ToSet(objects) /\ Len(s) = Len(objects)
             /\ \A i, j \in DOMAIN s : i < j => HintBefore(s[i], s[j])
<1> DEFINE S == ToSet(objects)
           R == {p \in S \X S : HintBefore(p[1], p[2])}
           Before(x) == Cardinality({y \in S : HintBefore(y, x)})
           size == Cardinality(S)
           L == ListAvailableCapacity(objects)
           D == DOMAIN objects
           at == [i \in D |-> objects[i]]
<1>1. D = 1..Len(objects) /\ Len(objects) \in Nat
  OBVIOUS
<1>2. IsFiniteSet(D) /\ Cardinality(D) = Len(objects)
  <2> HIDE DEF D
  <2>1. /\ IsFiniteSet(1..Len(objects))
        /\ Cardinality(1..Len(objects)) = IF 1 > Len(objects) THEN 0 ELSE Len(objects) - 1 + 1
    <3>1. 1 \in Int /\ Len(objects) \in Int
      BY <1>1
    <3> QED BY <3>1, FS_Interval
  <2> QED BY <1>1, <2>1
<1>3. at \in Bijection(D, S)
  <2>1. at \in [D -> S] /\ \A x \in S : \E i \in D : at[i] = x
    BY DEF ToSet
  <2>2. \A i, j \in D : at[i] = at[j] => i = j
    OBVIOUS
  <2> HIDE DEF at, D, S
  <2> QED BY <2>1, <2>2 DEF Bijection, Injection, Surjection, IsInjective
<1>4. IsFiniteSet(S) /\ size = Len(objects)
  <2> HIDE DEF at, D, S
  <2>1. IsFiniteSet(S) /\ Cardinality(S) = Cardinality(D)
    <3>1. at \in Surjection(D, S) /\ ExistsBijection(D, S)
      BY <1>3 DEF Bijection, ExistsBijection
    <3>2. IsFiniteSet(S)
      BY <1>2, <3>1, FS_Surjection
    <3> QED BY <1>2, <3>1, <3>2, FS_Bijection
  <2> QED BY <1>2, <2>1
<1>5. \A x \in S : x.name \in Nat /\ x.count \in Int
  <2>1. \A i \in DOMAIN objects : objects[i] \in [name : Nat, count : Int]
    <3>1. \A T : \A q \in Seq(T) : \A i \in DOMAIN q : q[i] \in T
      OBVIOUS
    <3> QED BY Zenon, <3>1
  <2>2. \A x \in [name : Nat, count : Int] : x.name \in Nat /\ x.count \in Int
    OBVIOUS
  <2>3. \A x \in S : x \in [name : Nat, count : Int]
    BY <2>1 DEF ToSet
  <2> QED BY Zenon, <2>2, <2>3
<1>6. \A x, y \in S : x.name = y.name => x = y
  BY DEF ToSet
<1>7. /\ \A x \in S : <<x, x>> \notin R
      /\ \A x, y, z \in S : <<x, y>> \in R /\ <<y, z>> \in R => <<x, z>> \in R
      /\ \A x, y \in S : x # y => <<x, y>> \in R \/ <<y, x>> \in R
  <2>1. \A x, y : <<x, y>> \in R <=> x \in S /\ y \in S /\ HintBefore(x, y)
    OBVIOUS
  <2> HIDE DEF R, S
  <2>2. \A x \in S : ~HintBefore(x, x)
    BY <1>5 DEF HintBefore
  <2>3. \A x, y, z \in S : HintBefore(x, y) /\ HintBefore(y, z) => HintBefore(x, z)
    BY <1>5 DEF HintBefore
  <2>4. \A x, y \in S : x # y => HintBefore(x, y) \/ HintBefore(y, x)
    BY <1>5, <1>6 DEF HintBefore
  <2> QED BY <2>1, <2>2, <2>3, <2>4
<1>8. \A x \in S : RankIn(x, R, S) = Before(x)
  <2> HIDE DEF S
  <2> SUFFICES ASSUME NEW x \in S PROVE SetLessThan(x, R, S) = {y \in S : HintBefore(y, x)}
    BY DEF RankIn
  <2> QED BY DEF SetLessThan
<1>9. \A x, y : <<x, y>> \in R => HintBefore(x, y)
  OBVIOUS
<1>10. L = [k \in 1..size |-> CHOOSE x \in S : Before(x) = k - 1]
  BY DEF ListAvailableCapacity, Arranged, HintBefore
<1>11. Lined(S, R) = [k \in 1..size |-> CHOOSE x \in S : RankIn(x, R, S) = k - 1]
  BY DEF Lined
<1> HIDE DEF R, Before, L, S, D, at
<1>12. /\ \A x, y \in S : RankIn(x, R, S) = RankIn(y, R, S) => x = y
       /\ \A i \in 0..(size - 1) : \E x \in S : RankIn(x, R, S) = i
  BY <1>4, <1>7, Ranks
<1>13. /\ Lined(S, R) \in [1..size -> S]
       /\ \A x \in S : \E k \in 1..size : Lined(S, R)[k] = x
       /\ \A i, j \in 1..size : i < j => <<Lined(S, R)[i], Lined(S, R)[j]>> \in R
  <2>1. IsFiniteSet(S)
    BY <1>4
  <2>2. StrictlyOrders(R, S)
    BY <1>7 DEF StrictlyOrders
  <2>3. LinesUp(Lined(S, R), R, S)
    BY <2>1, <2>2, OrderLinesUp
  <2> QED BY <2>3 DEF LinesUp
<1> HIDE DEF size
<1>14. L = Lined(S, R)
  <2> SUFFICES ASSUME NEW k \in 1..size PROVE L[k] = Lined(S, R)[k]
    BY <1>10, <1>11
  <2>1. k - 1 \in 0..(size - 1)
    BY <1>1, <1>4
  <2>2. PICK x \in S : RankIn(x, R, S) = k - 1
    BY <1>12, <2>1
  <2>3. L[k] \in S /\ Before(L[k]) = k - 1
    BY <1>8, <1>10, <2>2
  <2>4. Lined(S, R)[k] \in S /\ RankIn(Lined(S, R)[k], R, S) = k - 1
    BY <1>11, <2>2
  <2> QED BY <1>8, <1>12, <2>3, <2>4
<1>15. L \in [1..size -> S] /\ DOMAIN L = 1..size /\ size \in Nat
  BY <1>1, <1>4, <1>13, <1>14
<1>16. L \in Seq(S) /\ Len(L) = size
  BY <1>15
<1>17. ToSet(L) = S
  <2>1. \A x \in S : \E k \in DOMAIN L : L[k] = x
    BY <1>13, <1>14, <1>15
  <2>2. \A k \in DOMAIN L : L[k] \in S
    BY <1>15
  <2> QED BY <2>1, <2>2 DEF ToSet
<1>18. \A i, j \in DOMAIN L : i < j => HintBefore(L[i], L[j])
  <2> SUFFICES ASSUME NEW i \in 1..size, NEW j \in 1..size, i < j PROVE HintBefore(L[i], L[j])
    BY <1>15
  <2>1. <<L[i], L[j]>> \in R
    BY <1>13, <1>14
  <2> QED BY <1>9, <2>1
<1> QED BY <1>4, <1>16, <1>17, <1>18 DEF L, S

(* The page has all the hints, unless a cluster failed.                     *)
LEMMA HintsShown ==
  ASSUME NEW lists \in HintLists
  PROVE  HintsAreShown(lists, CapacityPage(AvailableCapacity(lists)))
<1> DEFINE all  == AvailableCapacity(lists)
           page == CapacityPage(all)
           s(c) == ListAvailableCapacity(lists[c].objects)
           C    == DOMAIN lists
<1> SUFFICES ASSUME \A c \in C : lists[c].ok
             PROVE  /\ ~page.throws
                    /\ page.noHints => \A c \in C : lists[c].objects = <<>>
                    /\ \A c \in C : lists[c].objects # <<>> =>
                         LET t == page.cards[c]
                         IN  /\ ToSet(t) = ToSet(lists[c].objects) /\ Len(t) = Len(lists[c].objects)
                             /\ \A i, j \in DOMAIN t : i < j =>
                                  t[i].count > t[j].count \/ (t[i].count = t[j].count /\ t[i].name < t[j].name)
  BY DEF HintsAreShown
<1>1. ASSUME NEW c \in C
      PROVE  /\ lists[c].objects \in Seq([name : Nat, count : Int])
             /\ s(c) \in Seq(ToSet(lists[c].objects)) /\ ToSet(s(c)) = ToSet(lists[c].objects)
             /\ Len(s(c)) = Len(lists[c].objects)
             /\ \A i, j \in DOMAIN s(c) : i < j => HintBefore(s(c)[i], s(c)[j])
  <2>1. /\ lists[c].objects \in Seq([name : Nat, count : Int])
        /\ \A i, j \in DOMAIN lists[c].objects :
             lists[c].objects[i].name = lists[c].objects[j].name => i = j
    BY InventoryAssumption DEF IsList
  <2> QED BY <2>1, HintsInOrder
<1>2. \A c \in C : s(c) = <<>> <=> lists[c].objects = <<>>
  <2> SUFFICES ASSUME NEW c \in C PROVE s(c) = <<>> <=> lists[c].objects = <<>>
    OBVIOUS
  <2>1. /\ lists[c].objects \in Seq([name : Nat, count : Int]) /\ s(c) \in Seq(ToSet(lists[c].objects))
        /\ Len(s(c)) = Len(lists[c].objects)
    BY <1>1
  <2>2. \A T : \A q \in Seq(T) : q = <<>> <=> Len(q) = 0
    OBVIOUS
  <2> HIDE DEF s
  <2> QED BY Zenon, <2>1, <2>2
<1>3. all = [c \in C |-> [error |-> FALSE, items |-> s(c)]]
  BY DEF AvailableCapacity
<1> HIDE DEF s, all
<1>4. DOMAIN all = C /\ \A c \in C : all[c].error = FALSE /\ all[c].items = s(c)
  BY <1>3
<1>5. page = [throws |-> FALSE, noClusters |-> C = {},
              noHints |-> C # {} /\ \A c \in C : s(c) = <<>>,
              cards |-> [c \in {d \in C : s(d) # <<>>} |-> s(c)]]
  BY <1>4 DEF CapacityPage
<1> HIDE DEF page
<1>6. /\ page.throws = FALSE
      /\ page.noHints = (C # {} /\ \A c \in C : s(c) = <<>>)
      /\ page.cards = [c \in {d \in C : s(d) # <<>>} |-> s(c)]
  BY <1>5
<1>7. ASSUME NEW c \in C, lists[c].objects # <<>> PROVE page.cards[c] = s(c)
  BY <1>2, <1>6, <1>7
<1>8. page.noHints => \A c \in C : lists[c].objects = <<>>
  BY <1>2, <1>6
<1> HIDE DEF C
<1> QED BY <1>1, <1>6, <1>7, <1>8 DEF C, HintBefore

-----------------------------------------------------------------------------
(* The inputs and outputs of the pages of the inventory.                    *)
InventoryInput ==
  /\ kind = "shards" => input \in Scrapes /\ output = ShardsList(input)
  /\ kind = "cluster" => /\ input \in Clusters /\ output.row = ClusterRow(input.crs, input.uns)
                         /\ output.page = ClusterDetail(input.crs, input.uns)
  /\ kind = "hints" => input \in HintLists /\ output = CapacityPage(AvailableCapacity(input))

(* handlers_shards.go, handlers_clusters.go and kubeclient.go with their    *)
(* pages, for any metrics and any LISTs: the list and the page of a shard   *)
(* or a cluster tell the same, bars add up to their tiles, in both but for  *)
(* the machines whose samples lack the label, and every hint is shown, the  *)
(* largest first.                                                           *)
THEOREM InventoryAgreement == FiguresSpec => []ListAndPageAgree
<1>1. Init => InventoryInput
  BY DEF Init, InventoryInput
<1>2. InventoryInput /\ [Next]_figures => InventoryInput'
  <2> SUFFICES ASSUME InventoryInput, [Next]_figures PROVE InventoryInput'
    OBVIOUS
  <2>1. CASE UNCHANGED figures
    BY <2>1 DEF InventoryInput, figures
  <2>2. CASE Shard
    <3>1. kind' = "shards" /\ input' \in Scrapes /\ output' = ShardsList(input')
      BY <2>2 DEF Shard, Computes
    <3> QED BY <3>1 DEF InventoryInput
  <2>3. CASE Cluster
    <3>1. PICK in \in Clusters :
            /\ kind' = "cluster" /\ input' = in
            /\ output' = [row |-> ClusterRow(in.crs, in.uns), page |-> ClusterDetail(in.crs, in.uns)]
      BY <2>3 DEF Cluster, Computes
    <3>2. (output').row = ClusterRow(in.crs, in.uns) /\ (output').page = ClusterDetail(in.crs, in.uns)
      BY <3>1
    <3> QED BY <3>1, <3>2 DEF InventoryInput
  <2>4. CASE Hints
    <3>1. kind' = "hints" /\ input' \in HintLists /\ output' = CapacityPage(AvailableCapacity(input'))
      BY <2>4 DEF Hints, Computes
    <3> QED BY <3>1 DEF InventoryInput
  <2>5. CASE Next /\ ~Shard /\ ~Cluster /\ ~Hints
    <3>1. kind' # "shards" /\ kind' # "cluster" /\ kind' # "hints"
      BY <2>5 DEF Next, Walk, Compete, Verdict, Penalty, Sample, Overview, Finance, Report, Coordinator,
                  Computes
    <3> QED BY <3>1 DEF InventoryInput
  <2> QED BY <2>1, <2>2, <2>3, <2>4, <2>5
<1>3. InventoryInput => ListAndPageAgree
  BY ShardPages, ClusterPages, HintsShown DEF InventoryInput, ListAndPageAgree
<1> QED BY <1>1, <1>2, <1>3, PTL DEF FiguresSpec

-----------------------------------------------------------------------------
(* A smaller factor makes a product smaller by the other factor at least.  *)
LEMMA MulMono ==
  ASSUME NEW a \in Int, NEW b \in Int, NEW d \in Int, d > 0, a < b
  PROVE  a * d + d <= b * d
<1>1. PICK k \in Int : b = a + k /\ k >= 1
  <2>1. b = a + (b - a) /\ b - a >= 1 /\ b - a \in Int
    OBVIOUS
  <2> QED BY <2>1
<1> QED BY <1>1

(* Division by what was multiplied, with a remainder...                    *)
LEMMA DivIs ==
  ASSUME NEW q \in Int, NEW d \in Int, d > 0, NEW e \in Int, 0 <= e, e < d
  PROVE  (q * d + e) \div d = q
<1> DEFINE x == q * d + e
           p == x \div d
           m == x % d
<1>1. x \in Int /\ p \in Int /\ m \in Int
  OBVIOUS
<1>2. x = p * d + m /\ 0 <= m /\ m < d
  OBVIOUS
<1>3. q * d + e = p * d + m
  BY <1>2
<1> HIDE DEF x, p, m
<1>4. CASE p < q
  <2>1. p * d + d <= q * d
    BY <1>1, <1>4, MulMono
  <2>2. p * d \in Int /\ q * d \in Int
    BY <1>1
  <2> QED BY <1>1, <1>2, <1>3, <2>1, <2>2
<1>5. CASE q < p
  <2>1. q * d + d <= p * d
    BY <1>1, <1>5, MulMono
  <2>2. p * d \in Int /\ q * d \in Int
    BY <1>1
  <2> QED BY <1>1, <1>2, <1>3, <2>1, <2>2
<1> QED BY <1>1, <1>4, <1>5 DEF p, x

(* ...and with a common factor.                                            *)
LEMMA DivCancels ==
  ASSUME NEW c \in Int, NEW b \in Int, b > 0, NEW m \in Int, m > 0
  PROVE  (c * m) \div (b * m) = c \div b
<1> DEFINE q == c \div b
           e == c % b
<1>1. q \in Int /\ e \in Int /\ c = q * b + e /\ 0 <= e /\ e < b
  OBVIOUS
<1> HIDE DEF q, e
<1>2. c * m = q * (b * m) + e * m
  BY <1>1
<1>3. b * m \in Int /\ e * m \in Int /\ b * m > 0 /\ 0 <= e * m /\ e * m < b * m
  <2>1. e * m + m <= b * m
    BY <1>1, MulMono
  <2>2. e * m >= 0 /\ b * m > 0
    BY <1>1
  <2> QED BY <1>1, <2>1, <2>2
<1>4. (q * (b * m) + e * m) \div (b * m) = q
  <2> DEFINE d == b * m
             f == e * m
  <2>1. d \in Int /\ f \in Int /\ d > 0 /\ 0 <= f /\ f < d
    BY <1>3
  <2> HIDE DEF d, f
  <2>2. (q * d + f) \div d = q
    BY <1>1, <2>1, DivIs
  <2> QED BY <2>2 DEF d, f
<1> QED BY <1>2, <1>4 DEF q

-----------------------------------------------------------------------------
(* A range in whole milliseconds: it starts at a, is c long, and has steps  *)
(* of b.                                                                    *)
InMs(r, a, b, c) ==
  /\ a \in Int /\ b \in Nat \ {0} /\ c \in Nat
  /\ r.from = a * Ms /\ r.step = b * Ms /\ r.to = a * Ms + c * Ms

(* The range of a page is one, whenever it is asked for.                    *)
LEMMA RangeInMs ==
  ASSUME NEW now \in Nat, NEW duration \in Int, Whole(duration), NEW step \in Int, Whole(step)
  PROVE  \E a, b, c : InMs(RangeAsked(now, duration, step), a, b, c)
<1> DEFINE d == ParseDuration(duration, DefaultDuration, MaxDuration)
           s == ParseDuration(step, DefaultStep, MaxStep)
           c == d \div Ms
           b == s \div Ms
           n == now \div s
           r == RangeAsked(now, duration, step)
<1>1. Ms \in Nat \ {0}
  BY SampleAssumption
<1>2. d \in Nat \ {0} /\ Whole(d) /\ s \in Nat \ {0} /\ Whole(s)
  BY SampleAssumption DEF ParseDuration
<1>3. \A x \in Nat : Whole(x) => x \div Ms \in Nat /\ x = (x \div Ms) * Ms
  BY <1>1 DEF Whole
<1>4. c \in Nat /\ d = c * Ms /\ b \in Nat /\ s = b * Ms
  BY <1>2, <1>3
<1>5. r = [from |-> now - (now % s) - d, to |-> now - (now % s), step |-> s]
  BY DEF RangeAsked, RangeOf
<1>6. r.from = now - (now % s) - d /\ r.to = now - (now % s) /\ r.step = s
  BY <1>5
<1> HIDE DEF d, s, c, b, r
<1>7. n \in Nat /\ now - (now % s) = n * s
  BY <1>2
<1> HIDE DEF n
<1>8. b # 0
  BY <1>1, <1>2, <1>4
<1>9. n * s = (n * b) * Ms /\ n * b \in Int
  BY <1>1, <1>4, <1>7
<1>10. r.from = (n * b - c) * Ms /\ r.step = b * Ms /\ r.to = (n * b - c) * Ms + c * Ms
  <2>1. \A x, y \in Int : (x - y) * Ms = x * Ms - y * Ms
    BY <1>1
  <2>2. (n * b - c) * Ms = (n * b) * Ms - c * Ms
    BY <1>4, <1>9, <2>1
  <2>3. (n * b) * Ms \in Int /\ c * Ms \in Int
    BY <1>1, <1>4, <1>9
  <2> QED BY <1>4, <1>6, <1>7, <1>9, <2>2, <2>3
<1>11. InMs(r, n * b - c, b, c)
  BY <1>4, <1>8, <1>9, <1>10 DEF InMs
<1> QED BY <1>11 DEF r

(* Prometheus's times are those of the axis.                                *)
LEMMA TimesOfTheAxis ==
  ASSUME NEW r, NEW a, NEW b, NEW c, InMs(r, a, b, c)
  PROVE  /\ Steps(r) \in Nat \ {0}
         /\ \A i \in 1..Steps(r) : r.from + (i - 1) * r.step \in Int
         /\ \A t \in ToSet(SampleTimes(r)) :
              StepOf(r, t) \in 1..Steps(r) /\ r.from + (StepOf(r, t) - 1) * r.step = t
<1>1. /\ Ms \in Nat \ {0} /\ a \in Int /\ b \in Nat \ {0} /\ c \in Nat
      /\ r.from = a * Ms /\ r.step = b * Ms /\ r.to = a * Ms + c * Ms
  BY SampleAssumption DEF InMs
<1>2. \A k \in Int : Rounded(k * Ms) = k
  <2> SUFFICES ASSUME NEW k \in Int PROVE Rounded(k * Ms) = k
    OBVIOUS
  <2>1. Ms \div 2 \in Int /\ 0 <= Ms \div 2 /\ Ms \div 2 < Ms /\ Ms \in Int /\ Ms > 0
    BY <1>1
  <2>2. (k * Ms + Ms \div 2) \div Ms = k
    BY <2>1, DivIs
  <2> QED BY <2>2 DEF Rounded
<1>3. Rounded(r.from) = a /\ Rounded(r.step) = b /\ Rounded(r.to) = a + c
  <2>1. r.to = (a + c) * Ms /\ a + c \in Int /\ b \in Int
    BY <1>1
  <2> QED BY <1>1, <1>2, <2>1
<1> DEFINE n == c \div b
<1>4. n \in Nat
  BY <1>1
<1>5. SampleTimes(r) = [i \in 1..(n + 1) |-> (a + (i - 1) * b) * Ms]
  <2>1. (a + c) - a = c /\ b # 0
    BY <1>1
  <2> QED BY <1>3, <2>1 DEF SampleTimes
<1>6. \A x \in Nat : Quo(x * Ms, b * Ms) = x \div b
  <2> SUFFICES ASSUME NEW x \in Nat PROVE Quo(x * Ms, b * Ms) = x \div b
    OBVIOUS
  <2>1. (x * Ms) \div (b * Ms) = x \div b
    BY <1>1, DivCancels
  <2>2. x * Ms >= 0
    BY <1>1
  <2> QED BY <2>1, <2>2 DEF Quo
<1>7. Steps(r) = n + 1
  <2>1. r.to - r.from = c * Ms
    <3>1. a * Ms \in Int /\ c * Ms \in Int
      BY <1>1
    <3> QED BY <1>1, <3>1
  <2> QED BY <1>1, <1>6, <2>1 DEF Steps
<1> HIDE DEF n
<1>8. ASSUME NEW i \in 1..(n + 1)
      PROVE  LET t == (a + (i - 1) * b) * Ms
             IN  StepOf(r, t) = i /\ r.from + (i - 1) * r.step = t /\ t \in Int
  <2> DEFINE k == i - 1
             t == (a + k * b) * Ms
  <2>1. k \in Nat /\ k * b \in Nat /\ k + 1 = i
    BY <1>1, <1>4
  <2> HIDE DEF k
  <2>2. t = a * Ms + (k * b) * Ms /\ (k * b) * Ms \in Int /\ a * Ms \in Int /\ t \in Int
    BY <1>1, <2>1
  <2>3. t - r.from = (k * b) * Ms
    BY <1>1, <2>2
  <2>4. (k * b) \div b = k
    <3>1. (k * b + 0) \div b = k
      BY <1>1, <2>1, DivIs
    <3> QED BY <2>1, <3>1
  <2>5. StepOf(r, t) = k + 1
    <3> HIDE DEF t
    <3> QED BY <1>1, <1>6, <2>1, <2>3, <2>4 DEF StepOf
  <2>6. r.from + k * r.step = t
    <3>1. k * (b * Ms) = (k * b) * Ms
      BY <1>1, <2>1
    <3> QED BY <1>1, <2>2, <3>1
  <2> QED BY <2>1, <2>2, <2>5, <2>6 DEF k
<1>9. \A i \in 1..Steps(r) : r.from + (i - 1) * r.step \in Int
  BY <1>7, <1>8
<1>10. ASSUME NEW t \in ToSet(SampleTimes(r))
       PROVE  StepOf(r, t) \in 1..Steps(r) /\ r.from + (StepOf(r, t) - 1) * r.step = t
  <2>1. PICK i \in 1..(n + 1) : t = (a + (i - 1) * b) * Ms
    BY <1>5 DEF ToSet
  <2> QED BY <1>7, <1>8, <2>1
<1> QED BY <1>4, <1>7, <1>9, <1>10

(* Every sample is drawn at its own time.                                   *)
LEMMA SamplesInTime ==
  ASSUME NEW r, NEW a, NEW b, NEW c, InMs(r, a, b, c),
         NEW samples \in Seq([t : ToSet(SampleTimes(r)), value : Nat \cup {Bad}]),
         \A i, j \in DOMAIN samples : samples[i].t = samples[j].t => i = j
  PROVE  SamplesKeepTheirTime(r, samples)
<1> DEFINE row == RowOf(r, samples)
           Here(i) == {j \in DOMAIN samples : StepOf(r, samples[j].t) = i /\ samples[j].value # Bad}
<1>1. DOMAIN samples \subseteq Int
  OBVIOUS
<1>2. \A j \in DOMAIN samples : samples[j].t \in ToSet(SampleTimes(r))
  <2>1. \A T : \A q \in Seq(T) : \A i \in DOMAIN q : q[i] \in T
    OBVIOUS
  <2>2. \A j \in DOMAIN samples : samples[j] \in [t : ToSet(SampleTimes(r)), value : Nat \cup {Bad}]
    BY Zenon, <2>1
  <2>3. \A T, V : \A x \in [t : T, value : V] : x.t \in T
    OBVIOUS
  <2> QED BY Zenon, <2>2, <2>3
<1>3. \A j \in DOMAIN samples :
        LET i == StepOf(r, samples[j].t)
        IN  i \in 1..Steps(r) /\ r.from + (i - 1) * r.step = samples[j].t
  BY <1>2, TimesOfTheAxis
<1>4. \A i \in 1..Steps(r) : Timestamps(r)[i] = (r.from + (i - 1) * r.step) \div Sec
  BY DEF Timestamps
<1>5. \A i \in 1..Steps(r) : row[i] = IF Here(i) = {} THEN 0 ELSE samples[Max(Here(i))].value
  BY DEF RowOf
<1> HIDE DEF row
<1>6. ASSUME NEW j \in DOMAIN samples, samples[j].value # Bad
      PROVE  LET i == StepOf(r, samples[j].t)
             IN  /\ i \in 1..Steps(r) /\ row[i] = samples[j].value
                 /\ Timestamps(r)[i] = samples[j].t \div Sec
  <2> DEFINE i == StepOf(r, samples[j].t)
  <2>1. i \in 1..Steps(r) /\ r.from + (i - 1) * r.step = samples[j].t
    BY <1>3
  <2>2. Here(i) = {j}
    <3>1. j \in Here(i)
      BY <1>6
    <3>2. ASSUME NEW k \in Here(i) PROVE k = j
      <4>1. k \in DOMAIN samples /\ StepOf(r, samples[k].t) = i
        OBVIOUS
      <4>2. r.from + (i - 1) * r.step = samples[k].t
        BY <1>3, <4>1
      <4> QED BY <2>1, <4>1, <4>2
    <3> HIDE DEF Here
    <3> QED BY <3>1, <3>2
  <2>3. Max({j}) = j
    BY <1>1 DEF Max
  <2> HIDE DEF Here, i
  <2>4. row[i] = samples[j].value
    BY <1>5, <2>1, <2>2, <2>3
  <2>5. Timestamps(r)[i] = samples[j].t \div Sec
    BY <1>4, <2>1
  <2> QED BY <2>1, <2>4, <2>5 DEF i
<1>7. ASSUME NEW i \in 1..Steps(r), row[i] # 0
      PROVE  \E j \in DOMAIN samples : samples[j].t \div Sec = Timestamps(r)[i]
  <2>1. PICK j \in DOMAIN samples : StepOf(r, samples[j].t) = i
    BY <1>5, <1>7
  <2> QED BY <1>3, <1>4, <2>1
<1> QED BY <1>6, <1>7 DEF SamplesKeepTheirTime, row

(* Every series is as long as the axis, also where that is another query's. *)
LEMMA RowsFit ==
  ASSUME NEW r, NEW a, NEW b, NEW c, InMs(r, a, b, c), NEW matrix, NEW T, NEW names \in Seq(T), NEW pod
  PROVE  LET kinds  == QueryRangeByLabel(r, matrix, "kind")
             cycles == QueryRangeByLabel(r, matrix, "pod")
         IN  RowsFitTheAxis(FleetActions(kinds, names), ShardTrends(pod, cycles, kinds))
<1> DEFINE kinds   == QueryRangeByLabel(r, matrix, "kind")
           cycles  == QueryRangeByLabel(r, matrix, "pod")
           actions == FleetActions(kinds, names)
           trends  == ShardTrends(pod, cycles, kinds)
           n       == Steps(r)
           I       == {i \in DOMAIN names : names[i] \in DOMAIN kinds.series}
           shown   == Kept(names, I)
<1>1. n \in Nat \ {0}
  BY TimesOfTheAxis
<1>2. \A samples : Len(RowOf(r, samples)) = n
  BY <1>1 DEF RowOf
<1>3. Len(Timestamps(r)) = n
  BY <1>1 DEF Timestamps
<1>4. ASSUME NEW label
      PROVE  LET q == QueryRangeByLabel(r, matrix, label)
             IN  q.timestamps = Timestamps(r) /\ \A k \in DOMAIN q.series : Len(q.series[k]) = n
  BY <1>2 DEF QueryRangeByLabel
<1> HIDE DEF n, kinds, cycles
<1>5. /\ kinds.timestamps = Timestamps(r) /\ cycles.timestamps = Timestamps(r)
      /\ \A k \in DOMAIN kinds.series : Len(kinds.series[k]) = n
      /\ \A k \in DOMAIN cycles.series : Len(cycles.series[k]) = n
  BY <1>4 DEF kinds, cycles
<1>6. /\ actions.timestamps = kinds.timestamps
      /\ actions.values = [i \in DOMAIN shown |-> kinds.series[shown[i]]]
  BY DEF FleetActions, Filter, Kept, Positions, Arranged
<1>7. \A i \in DOMAIN shown : shown[i] \in DOMAIN kinds.series
  <2>1. I \in SUBSET DOMAIN names /\ \A i \in I : names[i] \in DOMAIN kinds.series
    OBVIOUS
  <2> HIDE DEF I
  <2>2. \A k \in DOMAIN shown : Positions(I)[k] \in I /\ shown[k] = names[Positions(I)[k]]
    BY <2>1, KeptElements
  <2> QED BY <2>1, <2>2
<1>8. /\ trends.timestamps = cycles.timestamps /\ trends.actionRates = kinds.series
      /\ trends.cycleP99 = IF pod \in DOMAIN cycles.series THEN cycles.series[pod] ELSE <<>>
  BY DEF ShardTrends
<1> HIDE DEF actions, trends, shown
<1>9. \A i \in DOMAIN actions.values : Len(actions.values[i]) = Len(actions.timestamps)
  BY <1>3, <1>5, <1>6, <1>7
<1>10. \A k \in DOMAIN trends.actionRates : Len(trends.actionRates[k]) = Len(trends.timestamps)
  BY <1>3, <1>5, <1>8
<1>11. trends.cycleP99 # <<>> => Len(trends.cycleP99) = Len(trends.timestamps)
  BY <1>3, <1>5, <1>8
<1> QED BY <1>9, <1>10, <1>11 DEF RowsFitTheAxis, actions, trends, kinds, cycles

-----------------------------------------------------------------------------
(* A vector whose samples are numbers of machines, or bad.                  *)
IsVector(vec) == vec \in Seq(ToSet(vec)) /\ \A s \in ToSet(vec) : s.value \in Nat \cup {Bad}

(* By a label it is a metric of numbers.                                    *)
LEMMA VectorByLabel ==
  ASSUME NEW vec, IsVector(vec), NEW label
  PROVE  Metric(QueryByLabel(vec, label), Nat)
<1> DEFINE T == ToSet(vec)
           I == {i \in DOMAIN vec : vec[i].value # Bad}
           qv == QueryVector(vec)
           J == {i \in DOMAIN qv : label \in DOMAIN qv[i].labels}
           kept == Kept(qv, J)
           Name(i) == kept[i].labels[label]
           Of1(k) == {i \in DOMAIN kept : Name(i) = k}
           K == {Name(i) : i \in DOMAIN kept}
           f == QueryByLabel(vec, label)
<1>1. vec \in Seq(T) /\ \A s \in T : s.value \in Nat \cup {Bad}
  BY DEF IsVector
<1>2. qv = Kept(vec, I)
  BY DEF QueryVector, Filter, Kept, Positions, Arranged
<1>3. I \in SUBSET DOMAIN vec /\ \A i \in I : vec[i].value # Bad
  OBVIOUS
<1>4. f = [k \in K |-> kept[Max(Of1(k))].value]
  BY DEF QueryByLabel, Filter, Kept, Positions, Arranged
<1>5. J \in SUBSET DOMAIN qv
  OBVIOUS
<1> HIDE DEF T, I, qv, J, kept
<1>6. qv \in Seq(T) /\ \A k \in DOMAIN qv : qv[k].value # Bad
  BY <1>1, <1>2, <1>3, KeptElements
<1>7. kept \in Seq(T) /\ \A k \in DOMAIN kept : kept[k].value # Bad
  BY <1>5, <1>6, KeptElements DEF kept
<1>8. \A k \in DOMAIN kept : kept[k].value \in Nat
  <2>1. \A k \in DOMAIN kept : kept[k] \in T
    BY <1>7
  <2> QED BY <1>1, <1>7, <2>1
<1>9. DOMAIN kept \subseteq Nat /\ IsFiniteSet(DOMAIN kept)
  <2>1. DOMAIN kept = 1..Len(kept) /\ Len(kept) \in Nat
    BY <1>7
  <2>2. 1 \in Int /\ Len(kept) \in Int
    BY <2>1
  <2>3. IsFiniteSet(1..Len(kept))
    BY <2>2, FS_Interval
  <2> QED BY <2>1, <2>3
<1>10. ASSUME NEW k \in K PROVE Max(Of1(k)) \in DOMAIN kept
  <2>1. Of1(k) # {} /\ Of1(k) \in SUBSET DOMAIN kept
    OBVIOUS
  <2> DEFINE O == Of1(k)
  <2> HIDE DEF O
  <2>2. O \in SUBSET Nat /\ IsFiniteSet(O) /\ O # {} /\ O \in SUBSET DOMAIN kept
    BY <1>9, <2>1, FS_Subset DEF O
  <2>3. Max(O) \in O
    BY <2>2, GreatestOf
  <2> QED BY <2>2, <2>3 DEF O
<1>11. IsFiniteSet(K)
  <2> DEFINE h == [i \in DOMAIN kept |-> Name(i)]
  <2>1. h \in Surjection(DOMAIN kept, K)
    BY DEF Surjection
  <2> HIDE DEF h, K
  <2> QED BY <1>9, <2>1, FS_Surjection
<1> HIDE DEF K, Of1, f
<1>12. DOMAIN f = K /\ f \in [K -> Nat]
  BY <1>4, <1>8, <1>10
<1> QED BY <1>11, <1>12 DEF Metric, f

(* n keys of D none of which has a smaller value than a key left out.       *)
Tops(f, D, n) ==
  {top \in SUBSET D : Cardinality(top) = n /\ \A k \in top, j \in D \ top : f[k] >= f[j]}

(* One more can be found as long as some are left out...                    *)
LEMMA OneMore ==
  ASSUME NEW f, NEW D, Tally(f, D), NEW n \in Nat, n < Cardinality(D), Tops(f, D, n) # {}
  PROVE  Tops(f, D, n + 1) # {}
<1>1. PICK top \in SUBSET D : Cardinality(top) = n /\ \A k \in top, j \in D \ top : f[k] >= f[j]
  BY DEF Tops
<1> DEFINE rest == D \ top
           V == {f[k] : k \in rest}
           h == [k \in rest |-> f[k]]
<1>2. IsFiniteSet(D) /\ (\A k \in D : f[k] \in Nat) /\ IsFiniteSet(top) /\ IsFiniteSet(rest)
  BY FS_Subset DEF Tally
<1>3. rest # {}
  <2>1. rest = {} => top = D
    OBVIOUS
  <2> QED BY <1>1, <2>1
<1>4. IsFiniteSet(V) /\ V \in SUBSET Nat /\ V # {}
  <2>1. h \in Surjection(rest, V)
    BY DEF Surjection
  <2>2. V \in SUBSET Nat /\ V # {}
    BY <1>2, <1>3
  <2> HIDE DEF h, V, rest
  <2> QED BY <1>2, <2>1, <2>2, FS_Surjection
<1>5. PICK m \in rest : \A k \in rest : f[m] >= f[k]
  <2> HIDE DEF V
  <2>1. Max(V) \in V /\ \A y \in V : Max(V) >= y
    BY <1>4, GreatestOf
  <2> QED BY <2>1 DEF V
<1>6. Cardinality(top \cup {m}) = n + 1
  <2>1. m \notin top
    BY <1>5
  <2> QED BY <1>1, <1>2, <2>1, FS_AddElement
<1>7. \A k \in top \cup {m}, j \in D \ (top \cup {m}) : f[k] >= f[j]
  BY <1>1, <1>5
<1> QED BY <1>6, <1>7 DEF Tops

(* ...so the tile has the largest states, four if there are as many.        *)
LEMMA TopStatesFound ==
  ASSUME NEW f, Metric(f, Nat)
  PROVE  LET there == {k \in DOMAIN f : f[k] > 0}
             n == IF Cardinality(there) < 4 THEN Cardinality(there) ELSE 4
         IN  TopStates(f) \in Tops(f, there, n)
<1> DEFINE D == {k \in DOMAIN f : f[k] > 0}
           size == Cardinality(D)
           n == IF size < 4 THEN size ELSE 4
<1>1. Tally(f, D) /\ size \in Nat
  <2>1. Tally(f, DOMAIN f) /\ D \in SUBSET DOMAIN f
    BY MetricTally
  <2> HIDE DEF D
  <2>2. Tally(f, D)
    BY <2>1, SumOfPart
  <2> QED BY <2>2, FS_CardinalityType DEF Tally
<1>2. TopStates(f) = CHOOSE top \in SUBSET D :
                       /\ Cardinality(top) = n
                       /\ \A k \in top, j \in D \ top : f[k] >= f[j]
  BY DEF TopStates
<1> HIDE DEF D
<1>3. Tops(f, D, 0) # {}
  <2>1. {} \in SUBSET D /\ Cardinality({}) = 0
    BY FS_EmptySet
  <2> QED BY <2>1 DEF Tops
<1>4. \A i \in Nat : i < size /\ Tops(f, D, i) # {} => Tops(f, D, i + 1) # {}
  BY <1>1, OneMore
<1> HIDE DEF size
<1>5. Tops(f, D, n) # {}
  <2>1. 0 < size => Tops(f, D, 1) # {}
    BY <1>3, <1>4
  <2>2. 1 < size => Tops(f, D, 2) # {}
    BY <1>1, <1>4, <2>1
  <2>3. 2 < size => Tops(f, D, 3) # {}
    BY <1>1, <1>4, <2>2
  <2>4. 3 < size => Tops(f, D, 4) # {}
    BY <1>1, <1>4, <2>3
  <2>5. size = 0 \/ size = 1 \/ size = 2 \/ size = 3 \/ size >= 4
    BY <1>1
  <2> QED BY <1>1, <1>3, <2>1, <2>2, <2>3, <2>4, <2>5
<1> HIDE DEF n
<1>6. TopStates(f) \in Tops(f, D, n)
  BY <1>2, <1>5 DEF Tops
<1> QED BY <1>6 DEF n, size, D

(* The states of the tile fit its number.                                   *)
LEMMA SummaryFits ==
  ASSUME NEW in \in Vectors
  PROVE  LET ov == FleetOverview(<<>>, <<>>, <<>>, in.cycle, in.states)
         IN  SummaryFitsTheTotal(ov, Tiles(ov))
<1> DEFINE ov == FleetOverview(<<>>, <<>>, <<>>, in.cycle, in.states)
           f == QueryByLabel(in.states, "state")
           D == {k \in DOMAIN f : f[k] > 0}
           n == IF Cardinality(D) < 4 THEN Cardinality(D) ELSE 4
           top == TopStates(f)
<1>1. Metric(f, Nat)
  BY VectorAssumption, VectorByLabel DEF IsVector
<1>2. ov.machinesByState = f /\ ov.machines = SumFunction(f)
  BY DEF FleetOverview
<1>3. Tiles(ov).summary = TopStates(ov.machinesByState) /\ Tiles(ov).machines = ov.machines
  BY DEF Tiles
<1> HIDE DEF ov, f
<1>4. top \in Tops(f, D, n)
  BY <1>1, TopStatesFound
<1>5. /\ Tally(f, DOMAIN f) /\ D \in SUBSET DOMAIN f /\ \A k \in DOMAIN f \ D : f[k] = 0
      /\ \A k \in DOMAIN f : f[k] \in Nat
  BY <1>1, MetricTally DEF Tally
<1> HIDE DEF D, top
<1>6. top \in SUBSET D /\ Cardinality(top) = n /\ \A k \in top, j \in D \ top : f[k] >= f[j]
  BY <1>4 DEF Tops
<1>7. SumFunctionOnSet(f, top) <= SumFunction(f)
  BY <1>5, <1>6, SumOfPart DEF SumFunction
<1>8. ASSUME Cardinality(D) <= 4 PROVE SumFunctionOnSet(f, top) = SumFunction(f)
  <2>1. IsFiniteSet(D) /\ Cardinality(D) \in Nat
    BY <1>5, FS_Subset, FS_CardinalityType DEF Tally
  <2>2. n = Cardinality(D)
    BY <1>8, <2>1
  <2>3. top = D
    BY <1>6, <2>1, <2>2, FS_Subset
  <2> QED BY <1>5, <2>3, SumWithoutZeros DEF SumFunction
<1>9. \A k \in top, j \in DOMAIN f \ top : f[k] >= f[j]
  BY <1>5, <1>6
<1>10. Tiles(ov).summary = top /\ Tiles(ov).machines = SumFunction(f)
  BY <1>2, <1>3 DEF top
<1>11. SummaryFitsTheTotal(ov, Tiles(ov))
  BY <1>2, <1>7, <1>8, <1>9, <1>10 DEF SummaryFitsTheTotal, D
<1> QED BY <1>11 DEF ov

-----------------------------------------------------------------------------
(* The inputs and outputs of the ranges and the overview.                   *)
SeriesInput ==
  /\ kind = "samples" =>
       \E in \in Series :
         LET r     == RangeAsked(in.now, in.duration, in.step)
             kinds == QueryRangeByLabel(r, in.matrix, "kind")
         IN  /\ input = in /\ output.range = r
             /\ output.actions = FleetActions(kinds, <<"Bootstrap", "Provision", "Reclaim">>)
             /\ output.trends = ShardTrends("p", QueryRangeByLabel(r, in.matrix, "pod"), kinds)
  /\ kind = "overview" =>
       \E in \in Vectors :
         /\ input = FleetOverview(<<>>, <<>>, <<>>, in.cycle, in.states)
         /\ output = Tiles(input)

(* promclient.go, handlers_fleet.go and FleetOverview.tsx, for a range of   *)
(* any length and any vector: no sample is moved, lost or shared, a series  *)
(* is as long as its axis, and the states below the number of machines add  *)
(* up to it, or are the largest.                                            *)
THEOREM SeriesFaithful == FiguresSpec => []SeriesAreFaithful
<1>1. Init => SeriesInput
  BY DEF Init, SeriesInput
<1>2. SeriesInput /\ [Next]_figures => SeriesInput'
  <2> SUFFICES ASSUME SeriesInput, [Next]_figures PROVE SeriesInput'
    OBVIOUS
  <2>1. CASE UNCHANGED figures
    BY <2>1 DEF SeriesInput, figures
  <2>2. CASE Sample
    <3>1. PICK in \in Series :
            LET r     == RangeAsked(in.now, in.duration, in.step)
                kinds == QueryRangeByLabel(r, in.matrix, "kind")
            IN  /\ kind' = "samples" /\ input' = in
                /\ output' = [range |-> r,
                              actions |-> FleetActions(kinds, <<"Bootstrap", "Provision", "Reclaim">>),
                              trends |-> ShardTrends("p", QueryRangeByLabel(r, in.matrix, "pod"), kinds)]
      BY <2>2 DEF Sample, Computes
    <3> DEFINE r == RangeAsked(in.now, in.duration, in.step)
               kinds == QueryRangeByLabel(r, in.matrix, "kind")
               actions == FleetActions(kinds, <<"Bootstrap", "Provision", "Reclaim">>)
               trends == ShardTrends("p", QueryRangeByLabel(r, in.matrix, "pod"), kinds)
    <3>2. output' = [range |-> r, actions |-> actions, trends |-> trends]
      BY <3>1
    <3> HIDE DEF r, actions, trends
    <3>3. (output').range = r /\ (output').actions = actions /\ (output').trends = trends
      BY <3>2
    <3> QED BY <3>1, <3>3 DEF SeriesInput, r, actions, trends
  <2>3. CASE Overview
    BY <2>3 DEF Overview, Computes, SeriesInput
  <2>4. CASE Next /\ ~Sample /\ ~Overview
    <3>1. kind' # "samples" /\ kind' # "overview"
      BY <2>4 DEF Next, Walk, Compete, Verdict, Penalty, Finance, Report, Coordinator, Shard, Cluster,
                  Hints, Computes
    <3> QED BY <3>1 DEF SeriesInput
  <2> QED BY <2>1, <2>2, <2>3, <2>4
<1>3. SeriesInput => SeriesAreFaithful
  <2>1. ASSUME SeriesInput, kind = "samples"
        PROVE  /\ SamplesKeepTheirTime(output.range, input.samples)
               /\ RowsFitTheAxis(output.actions, output.trends)
    <3> DEFINE names == <<"Bootstrap", "Provision", "Reclaim">>
    <3>1. PICK in \in Series :
            LET r     == RangeAsked(in.now, in.duration, in.step)
                kinds == QueryRangeByLabel(r, in.matrix, "kind")
            IN  /\ input = in /\ output.range = r
                /\ output.actions = FleetActions(kinds, names)
                /\ output.trends = ShardTrends("p", QueryRangeByLabel(r, in.matrix, "pod"), kinds)
      BY <2>1 DEF SeriesInput
    <3> DEFINE r == RangeAsked(in.now, in.duration, in.step)
    <3>2. \E a, b, c : InMs(r, a, b, c)
      BY SeriesAssumption, RangeInMs
    <3>3. /\ in.samples \in Seq([t : ToSet(SampleTimes(r)), value : Nat \cup {Bad}])
          /\ \A i, j \in DOMAIN in.samples : in.samples[i].t = in.samples[j].t => i = j
      BY SeriesAssumption
    <3>4. names \in Seq({"Bootstrap", "Provision", "Reclaim"})
      OBVIOUS
    <3> HIDE DEF r, names
    <3>5. SamplesKeepTheirTime(r, in.samples)
      BY <3>2, <3>3, SamplesInTime
    <3>6. LET kinds  == QueryRangeByLabel(r, in.matrix, "kind")
              cycles == QueryRangeByLabel(r, in.matrix, "pod")
          IN  RowsFitTheAxis(FleetActions(kinds, names), ShardTrends("p", cycles, kinds))
      BY <3>2, <3>4, RowsFit
    <3> QED BY <3>1, <3>5, <3>6 DEF r
  <2>2. ASSUME SeriesInput, kind = "overview" PROVE SummaryFitsTheTotal(input, output)
    BY <2>2, SummaryFits DEF SeriesInput
  <2> QED BY <2>1, <2>2 DEF SeriesAreFaithful
<1> QED BY <1>1, <1>2, <1>3, PTL DEF FiguresSpec

-----------------------------------------------------------------------------
(* What the page has of a message is what the shard said.                   *)
LEMMA ViewOfMessage ==
  ASSUME NEW nv, IsMessage(nv)
  PROVE  LET n == View(nv)
         IN  /\ n.aggregate = Fields(nv.aggregate) /\ n.minUnit = Fields(nv.minUnit)
             /\ n.deficit = Fields(nv.deficit) /\ n.satisfied = nv.satisfied /\ n.reason = nv.reason
             /\ n.claimed = nv.claimed /\ n.bootstrap = nv.bootstrap /\ n.provision = nv.provision
             /\ n.domain = nv.domain /\ n.candidates = nv.candidates
             /\ n.requirements = Requirements(nv.requirements) /\ n.spread = Spread(nv.spread)
             /\ IsNone(n.supply) = IsNone(nv.supply)
             /\ ~IsNone(nv.supply) =>
                  /\ n.supply.idle = nv.supply.idle /\ n.supply.configured = nv.supply.configured
                  /\ n.supply.speculative = nv.supply.speculative
<1> DEFINE p == FromProto(nv)
           n == View(nv)
<1>1. n = [p EXCEPT !.requirements = IF p.requirements = <<>> THEN <<>> ELSE p.requirements,
                    !.supply = IF IsNone(p.supply) THEN None ELSE p.supply,
                    !.preemption = IF IsNone(p.preemption) THEN None ELSE p.preemption]
  BY DEF View, ToAPINeedView
<1>2. /\ p.aggregate = Fields(nv.aggregate) /\ p.minUnit = Fields(nv.minUnit)
      /\ p.deficit = Fields(nv.deficit) /\ p.satisfied = nv.satisfied /\ p.reason = nv.reason
      /\ p.claimed = nv.claimed /\ p.bootstrap = nv.bootstrap /\ p.provision = nv.provision
      /\ p.domain = nv.domain /\ p.candidates = nv.candidates
      /\ p.requirements = Requirements(nv.requirements) /\ p.spread = Spread(nv.spread)
      /\ p.supply = IF IsNone(nv.supply) THEN None
                    ELSE [idle |-> nv.supply.idle, configured |-> nv.supply.configured,
                          speculative |-> nv.supply.speculative, capped |-> nv.supply.capped]
  BY DEF FromProto
<1>3. p = [x \in DOMAIN p |-> p[x]] /\ DOMAIN p =
        {"priority", "aggregate", "minUnit", "satisfied", "reason", "claimed", "bootstrap", "provision",
         "deficit", "supply", "preemption", "requirements", "spread", "domain", "candidates"}
  BY DEF FromProto
<1> HIDE DEF p, n
<1>4. /\ n.aggregate = p.aggregate /\ n.minUnit = p.minUnit /\ n.deficit = p.deficit
      /\ n.satisfied = p.satisfied /\ n.reason = p.reason /\ n.claimed = p.claimed
      /\ n.bootstrap = p.bootstrap /\ n.provision = p.provision /\ n.domain = p.domain
      /\ n.candidates = p.candidates /\ n.spread = p.spread
      /\ n.requirements = IF p.requirements = <<>> THEN <<>> ELSE p.requirements
      /\ n.supply = IF IsNone(p.supply) THEN None ELSE p.supply
  BY <1>1, <1>3
<1>5. n.requirements = p.requirements
  BY <1>4
<1>6. IsNone(n.supply) = IsNone(nv.supply)
  <2>1. IsNone(None)
    BY DEF IsNone, None
  <2>2. \A i, c, s, b : ~IsNone([idle |-> i, configured |-> c, speculative |-> s, capped |-> b])
    BY DEF IsNone
  <2>3. IsNone(n.supply) \in BOOLEAN /\ IsNone(nv.supply) \in BOOLEAN
    BY DEF IsNone
  <2>4. IsNone(nv.supply) => p.supply = None
    BY <1>2
  <2>5. ~IsNone(nv.supply) => ~IsNone(p.supply)
    BY <1>2, <2>2
  <2>6. n.supply = IF IsNone(p.supply) THEN None ELSE p.supply
    BY <1>4
  <2>7. CASE IsNone(nv.supply)
    BY <2>1, <2>3, <2>4, <2>6, <2>7
  <2>8. CASE ~IsNone(nv.supply)
    BY <2>3, <2>5, <2>6, <2>8
  <2> QED BY <2>7, <2>8
<1>7. ASSUME ~IsNone(nv.supply)
      PROVE  /\ n.supply.idle = nv.supply.idle /\ n.supply.configured = nv.supply.configured
             /\ n.supply.speculative = nv.supply.speculative
  <2>1. ~IsNone(p.supply)
    <3>1. IsNone(None)
      BY DEF IsNone, None
    <3> QED BY <1>4, <1>6, <1>7, <3>1
  <2>2. n.supply = [idle |-> nv.supply.idle, configured |-> nv.supply.configured,
                    speculative |-> nv.supply.speculative, capped |-> nv.supply.capped]
    BY <1>2, <1>4, <1>7, <2>1
  <2>3. \A i, c, s, b : LET r == [idle |-> i, configured |-> c, speculative |-> s, capped |-> b]
                        IN  r.idle = i /\ r.configured = c /\ r.speculative = s
    OBVIOUS
  <2> QED BY <2>2, <2>3
<1> QED BY <1>2, <1>4, <1>5, <1>6, <1>7 DEF n

-----------------------------------------------------------------------------
(* What the page computes with.                                             *)
IsView(n) ==
  /\ IsFiniteSet(DOMAIN n.aggregate) /\ n.aggregate \in [DOMAIN n.aggregate -> Nat]
  /\ n.minUnit \in [DOMAIN n.minUnit -> Nat] /\ n.deficit \in [DOMAIN n.deficit -> Nat]
  /\ n.claimed \in Nat /\ n.bootstrap \in Nat /\ n.provision \in Nat /\ n.satisfied \in BOOLEAN
  /\ ~IsNone(n.supply) => n.supply.idle \in Nat /\ n.supply.configured \in Nat /\ n.supply.speculative \in Nat

(* What the page has of a message is such a need.                           *)
LEMMA MessageIsView ==
  ASSUME NEW nv, IsMessage(nv)
  PROVE  IsView(View(nv))
<1> DEFINE n == View(nv)
<1>1. /\ n.aggregate = Fields(nv.aggregate) /\ n.minUnit = Fields(nv.minUnit)
      /\ n.deficit = Fields(nv.deficit) /\ n.satisfied = nv.satisfied
      /\ n.claimed = nv.claimed /\ n.bootstrap = nv.bootstrap /\ n.provision = nv.provision
      /\ IsNone(n.supply) = IsNone(nv.supply)
      /\ ~IsNone(nv.supply) =>
           /\ n.supply.idle = nv.supply.idle /\ n.supply.configured = nv.supply.configured
           /\ n.supply.speculative = nv.supply.speculative
  BY ViewOfMessage
<1> HIDE DEF n
<1>2. /\ Amounts(nv.aggregate) /\ Amounts(nv.minUnit) /\ Amounts(nv.deficit)
      /\ nv.claimed \in Nat /\ nv.bootstrap \in Nat /\ nv.provision \in Nat /\ nv.satisfied \in BOOLEAN
      /\ IsNone(nv.supply) \/ nv.supply \in [idle : Nat, configured : Nat, speculative : Nat, capped : BOOLEAN]
  BY DEF IsMessage
<1>3. ~IsNone(n.supply) => n.supply.idle \in Nat /\ n.supply.configured \in Nat /\ n.supply.speculative \in Nat
  BY <1>1, <1>2
<1>4. /\ IsFiniteSet(DOMAIN n.aggregate) /\ n.aggregate \in [DOMAIN n.aggregate -> Nat]
      /\ n.minUnit \in [DOMAIN n.minUnit -> Nat] /\ n.deficit \in [DOMAIN n.deficit -> Nat]
  BY <1>1, <1>2 DEF Amounts
<1> QED BY <1>1, <1>2, <1>3, <1>4 DEF IsView, n

(* Fractions: of two of them one is not less, and so on along a chain.      *)
LEMMA LessChain ==
  ASSUME NEW p, NEW q, NEW r, p[1] \in Nat, q[1] \in Nat, r[1] \in Nat,
         p[2] \in Nat \ {0}, q[2] \in Nat \ {0}, r[2] \in Nat \ {0}, ~Less(q, p), ~Less(r, q)
  PROVE  ~Less(r, p)
<1> DEFINE a == p[1]
           b == p[2]
           c == q[1]
           d == q[2]
           e == r[1]
           f == r[2]
<1>1. ~(c * b < a * d) /\ ~(e * d < c * f)
  BY DEF Less
<1>2. a \in Nat /\ c \in Nat /\ e \in Nat /\ b \in Nat \ {0} /\ d \in Nat \ {0} /\ f \in Nat \ {0}
  OBVIOUS
<1>3. Less(r, p) => e * b < a * f
  BY DEF Less
<1> HIDE DEF a, b, c, d, e, f
<1>4. a * d <= c * b /\ c * f <= e * d
  BY <1>1, <1>2
<1>5. \A x, y, z \in Nat : x <= y => x * z <= y * z
  OBVIOUS
<1>6. (a * d) * f <= (c * b) * f /\ (c * f) * b <= (e * d) * b
  BY <1>2, <1>4, <1>5
<1>7. (a * d) * f = (a * f) * d /\ (c * b) * f = (c * f) * b /\ (e * d) * b = (e * b) * d
  BY <1>2
<1>8. (a * f) * d <= (e * b) * d
  <2>1. (a * f) * d \in Int /\ (c * f) * b \in Int /\ (e * b) * d \in Int
    BY <1>2
  <2> QED BY <1>6, <1>7, <2>1
<1>9. ~(e * b < a * f)
  <2>1. a * f \in Int /\ e * b \in Int /\ d \in Int /\ d > 0
    BY <1>2
  <2>2. e * b < a * f => (e * b) * d + d <= (a * f) * d
    BY <2>1, MulMono
  <2>3. (a * f) * d \in Int /\ (e * b) * d \in Int
    BY <2>1
  <2> QED BY <1>8, <2>1, <2>2, <2>3
<1> QED BY <1>3, <1>9

(* There is a least one in a finite set.                                    *)
LEMMA LeastFraction ==
  ASSUME NEW F, IsFiniteSet(F), F # {}, \A p \in F : p[1] \in Nat /\ p[2] \in Nat \ {0}
  PROVE  \E p \in F : \A q \in F : ~Less(q, p)
<1> DEFINE Good == {s \in SUBSET F : s = {} \/ \E p \in s : \A q \in s : ~Less(q, p)}
<1>0. \A p \in F : ~Less(p, p)
  <2>1. \A x, y \in Nat : ~(x * y < x * y)
    OBVIOUS
  <2> QED BY <2>1 DEF Less
<1>1. ASSUME NEW s \in SUBSET F, \A p \in s : s \ {p} \in Good PROVE s \in Good
  <2>1. CASE s = {}
    BY <2>1
  <2>2. CASE s # {}
    <3>1. PICK p \in s : TRUE
      BY <2>2
    <3>2. s \ {p} = {} \/ \E r \in s \ {p} : \A q \in s \ {p} : ~Less(q, r)
      BY <1>1, <3>1
    <3>3. CASE s \ {p} = {}
      <4>1. \A q \in s : ~Less(q, p)
        BY <1>0, <3>3
      <4> QED BY <3>1, <4>1
    <3>4. CASE \E r \in s \ {p} : \A q \in s \ {p} : ~Less(q, r)
      <4>1. PICK r \in s \ {p} : \A q \in s \ {p} : ~Less(q, r)
        BY <3>4
      <4>2. CASE ~Less(p, r)
        <5>1. \A q \in s : ~Less(q, r)
          BY <4>1, <4>2
        <5> QED BY <4>1, <5>1
      <4>3. CASE Less(p, r)
        <5>1. ~Less(r, p)
          <6>1. \A x, y \in Nat : x < y => ~(y < x)
            OBVIOUS
          <6>2. p[1] * r[2] \in Nat /\ r[1] * p[2] \in Nat
            BY <3>1, <4>1
          <6> QED BY <4>3, <6>1, <6>2 DEF Less
        <5>2. ASSUME NEW q \in s \ {p} PROVE ~Less(q, p)
          BY <3>1, <4>1, <5>1, LessChain
        <5>3. \A q \in s : ~Less(q, p)
          BY <1>0, <3>1, <5>2
        <5> QED BY <3>1, <5>3
      <4> QED BY <4>2, <4>3
    <3> QED BY <3>2, <3>3, <3>4
  <2> QED BY <2>1, <2>2
<1> HIDE DEF Good
<1>2. SUBSET F \subseteq Good
  BY <1>1, SubsetInduction
<1> QED BY <1>2 DEF Good

(* The covered share of a resource.                                         *)
Share(n, k) == <<Atleast0(n.aggregate[k] - Get(n.deficit, k)), n.aggregate[k]>>
Wanted(n) == {x \in DOMAIN n.aggregate : n.aggregate[x] > 0}

(* The coverage is a share of the need, and none is less.                   *)
LEMMA CoverageIsLeast ==
  ASSUME NEW n, IsView(n)
  PROVE  /\ \A k \in Wanted(n) : /\ Share(n, k)[1] \in Nat /\ Share(n, k)[2] \in Nat \ {0}
                                 /\ Share(n, k)[1] <= Share(n, k)[2]
         /\ n.satisfied \/ Wanted(n) = {} => Coverage(n) = <<1, 1>>
         /\ ~n.satisfied /\ Wanted(n) # {} =>
              \E k \in Wanted(n) : /\ Coverage(n) = Share(n, k)
                                   /\ \A l \in Wanted(n) : ~Less(Share(n, l), Coverage(n))
<1> DEFINE W == Wanted(n)
           F == {Share(n, k) : k \in W}
           h == [k \in W |-> Share(n, k)]
<1>1. /\ IsFiniteSet(DOMAIN n.aggregate) /\ n.aggregate \in [DOMAIN n.aggregate -> Nat]
      /\ n.deficit \in [DOMAIN n.deficit -> Nat]
  BY DEF IsView
<1>2. IsFiniteSet(F)
  <2>1. W \in SUBSET DOMAIN n.aggregate
    BY DEF Wanted
  <2>2. IsFiniteSet(W)
    BY <1>1, <2>1, FS_Subset
  <2>3. h \in Surjection(W, F)
    BY DEF Surjection
  <2> HIDE DEF W, F, h
  <2> QED BY <2>2, <2>3, FS_Surjection
<1>3. ASSUME NEW k \in W
      PROVE  Share(n, k)[1] \in Nat /\ Share(n, k)[2] \in Nat \ {0} /\ Share(n, k)[1] <= Share(n, k)[2]
  <2>1. n.aggregate[k] \in Nat \ {0}
    BY <1>1 DEF Wanted
  <2>2. Get(n.deficit, k) \in Nat
    BY <1>1 DEF Get
  <2> DEFINE x == n.aggregate[k] - Get(n.deficit, k)
  <2>3. Atleast0(x) \in Nat /\ Atleast0(x) <= n.aggregate[k]
    BY <2>1, <2>2 DEF Atleast0
  <2> QED BY <2>1, <2>3 DEF Share
<1>4. Coverage(n) = IF n.satisfied \/ F = {} THEN <<1, 1>>
                    ELSE CHOOSE p \in F : \A q \in F : ~Less(q, p)
  BY DEF Coverage, Share, Wanted
<1>5. F = {} <=> W = {}
  OBVIOUS
<1>6. ASSUME W # {} PROVE \E p \in F : \A q \in F : ~Less(q, p)
  <2>1. \A p \in F : p[1] \in Nat /\ p[2] \in Nat \ {0}
    BY <1>3
  <2> HIDE DEF F, W
  <2> QED BY <1>2, <1>5, <1>6, <2>1, LeastFraction
<1>7. ASSUME ~n.satisfied, W # {}
      PROVE  \E k \in W : Coverage(n) = Share(n, k) /\ \A l \in W : ~Less(Share(n, l), Coverage(n))
  <2> DEFINE p == Coverage(n)
  <2>1. p \in F /\ \A q \in F : ~Less(q, p)
    <3> HIDE DEF F, W
    <3> QED BY <1>4, <1>5, <1>6, <1>7
  <2> HIDE DEF p
  <2>2. \A l \in W : Share(n, l) \in F
    OBVIOUS
  <2>3. PICK k \in W : p = Share(n, k)
    BY <2>1
  <2> HIDE DEF F
  <2> QED BY <2>1, <2>2, <2>3 DEF p
<1> HIDE DEF F, W
<1> QED BY <1>3, <1>4, <1>5, <1>7 DEF W

(* The share of a fraction of parts.                                        *)
LEMMA CoverageIsFraction ==
  ASSUME NEW n, IsView(n)
  PROVE  /\ Coverage(n)[1] \in Nat /\ Coverage(n)[2] \in Nat \ {0} /\ Coverage(n)[1] <= Coverage(n)[2]
<1>1. <<1, 1>>[1] = 1 /\ <<1, 1>>[2] = 1
  OBVIOUS
<1>2. n.satisfied \in BOOLEAN
  BY DEF IsView
<1> QED BY <1>1, <1>2, CoverageIsLeast

(* The bar of the table is the worst of those in the drawer.                *)
LEMMA WorstBar ==
  ASSUME NEW n, IsView(n), NEW cap
  PROVE  CoverageIsTheWorstBar(n, DecisionReport(n, cap))
<1> DEFINE d == DecisionReport(n, cap)
           cov == Coverage(n)
           D == DOMAIN n.aggregate
           W == Wanted(n)
<1>1. d.rows = [k \in D |-> ResourceRow(n, k)] /\ d.coverage = cov /\ d.bar = CoverageBar(n)
  BY DEF DecisionReport
<1>2. CoverageBar(n).colour = IF n.satisfied THEN "emerald" ELSE IF cov[1] > 0 THEN "amber" ELSE "red"
  BY DEF CoverageBar
<1>3. /\ n.aggregate \in [D -> Nat] /\ n.deficit \in [DOMAIN n.deficit -> Nat] /\ n.satisfied \in BOOLEAN
  BY DEF IsView
<1>4. cov[1] \in Nat /\ cov[2] \in Nat \ {0} /\ cov[1] <= cov[2]
  BY CoverageIsFraction
<1>5. /\ \A k \in W : /\ Share(n, k)[1] \in Nat /\ Share(n, k)[2] \in Nat \ {0}
                      /\ Share(n, k)[1] <= Share(n, k)[2]
      /\ n.satisfied \/ W = {} => cov = <<1, 1>>
      /\ ~n.satisfied /\ W # {} => \E k \in W : cov = Share(n, k) /\ \A l \in W : ~Less(Share(n, l), cov)
  BY CoverageIsLeast
<1>6. \A k \in D : /\ k \notin W => ResourceRow(n, k).frac = <<1, 1>>
                   /\ k \in W /\ ~n.satisfied => ResourceRow(n, k).frac = Share(n, k)
                   /\ k \in W /\ n.satisfied => ResourceRow(n, k).frac = <<n.aggregate[k], n.aggregate[k]>>
  <2> SUFFICES ASSUME NEW k \in D
               PROVE  /\ k \notin W => ResourceRow(n, k).frac = <<1, 1>>
                      /\ k \in W /\ ~n.satisfied => ResourceRow(n, k).frac = Share(n, k)
                      /\ k \in W /\ n.satisfied => ResourceRow(n, k).frac = <<n.aggregate[k], n.aggregate[k]>>
    OBVIOUS
  <2>1. k \in W <=> n.aggregate[k] > 0
    BY DEF Wanted
  <2>2. n.aggregate[k] \in Nat
    BY <1>3
  <2>3. ResourceRow(n, k).frac = IF n.aggregate[k] > 0
                                 THEN <<Atleast0(n.aggregate[k] - (IF n.satisfied THEN 0 ELSE Get(n.deficit, k))),
                                        n.aggregate[k]>>
                                 ELSE <<1, 1>>
    BY DEF ResourceRow
  <2>4. n.aggregate[k] > 0 => Atleast0(n.aggregate[k] - 0) = n.aggregate[k]
    BY <2>2 DEF Atleast0
  <2> HIDE DEF W
  <2> QED BY <2>1, <2>3, <2>4 DEF Share
<1> HIDE DEF d, cov, W, D
<1>7. ASSUME NEW k \in D PROVE ~Less(ResourceRow(n, k).frac, cov)
  <2> DEFINE f == ResourceRow(n, k).frac
  <2>1. CASE k \in W /\ ~n.satisfied
    BY <1>5, <1>6, <2>1
  <2>2. CASE k \notin W
    <3>1. f = <<1, 1>>
      BY <1>6, <2>2
    <3>2. f[1] = 1 /\ f[2] = 1
      BY <3>1
    <3> HIDE DEF f
    <3>3. ~(1 * cov[2] < cov[1] * 1)
      BY <1>4
    <3>4. ~Less(f, cov)
      BY <3>2, <3>3 DEF Less
    <3> QED BY <3>4 DEF f
  <2>3. CASE k \in W /\ n.satisfied
    <3>1. f = <<n.aggregate[k], n.aggregate[k]>> /\ cov = <<1, 1>>
      BY <1>5, <1>6, <2>3
    <3>2. n.aggregate[k] \in Nat
      BY <1>3
    <3>3. f[1] = f[2] /\ f[1] \in Nat /\ cov[1] = 1 /\ cov[2] = 1
      BY <3>1, <3>2
    <3> HIDE DEF f
    <3>4. ~(f[1] * 1 < 1 * f[2])
      BY <3>3
    <3>5. ~Less(f, cov)
      BY <3>3, <3>4 DEF Less
    <3> QED BY <3>5 DEF f
  <2> QED BY <2>1, <2>2, <2>3
<1>8. ASSUME cov # <<1, 1>> PROVE \E k \in D : ResourceRow(n, k).frac = cov
  <2>1. ~n.satisfied /\ W # {}
    BY <1>5, <1>8
  <2>2. PICK k \in W : cov = Share(n, k)
    BY <1>5, <2>1
  <2>3. k \in D
    BY DEF W, D, Wanted
  <2> QED BY <1>6, <2>1, <2>2, <2>3
<1>9. ASSUME d.bar.colour = "red" PROVE \E k \in D : ResourceRow(n, k).frac[1] = 0
  <2>1. ~n.satisfied /\ ~(cov[1] > 0)
    BY <1>1, <1>2, <1>9
  <2>2. cov[1] = 0
    BY <1>4, <2>1
  <2>3. cov # <<1, 1>>
    BY <2>2
  <2> QED BY <1>8, <2>2, <2>3
<1>10. DOMAIN d.rows = D /\ \A k \in D : d.rows[k] = ResourceRow(n, k)
  BY <1>1
<1> QED BY <1>1, <1>7, <1>8, <1>9, <1>10 DEF CoverageIsTheWorstBar, d

-----------------------------------------------------------------------------
(* Division rounded up, or one more where the quotient of the doubles is    *)
(* too large: as many parts of b hold a, one fewer hold no more than a, and *)
(* less than a if both are whole.                                           *)
LEMMA CeilDivIs ==
  ASSUME NEW a \in Nat, NEW b \in Nat \ {0}
  PROVE  /\ CeilDiv(a, b) \in Nat /\ CeilDiv(a, b) * b >= a /\ (CeilDiv(a, b) - 1) * b <= a
         /\ IsWhole(a) /\ IsWhole(b) => (CeilDiv(a, b) - 1) * b < a
         /\ (a = 0 <=> CeilDiv(a, b) = 0)
<1> DEFINE x == a + b - 1
           q == x \div b
           m == x % b
<1>1. x \in Nat /\ q \in Nat /\ m \in Nat /\ x = q * b + m /\ m < b
  OBVIOUS
<1>2. q * b \in Int
  BY <1>1
<1>3. /\ <<a, b>> \in RoundedUp => CeilDiv(a, b) = q + 1
      /\ <<a, b>> \notin RoundedUp => CeilDiv(a, b) = q
  BY <1>1 DEF CeilDiv
<1>4. x = a + b - 1
  OBVIOUS
<1>5. <<a, b>> \in RoundedUp => a # 0 /\ a % b = 0 /\ ~(IsWhole(a) /\ IsWhole(b))
  <2>1. <<a, b>>[1] = a /\ <<a, b>>[2] = b
    OBVIOUS
  <2> QED BY <2>1, RoundingAssumption
<1> HIDE DEF x, q, m
<1>6. q * b >= a
  BY <1>1, <1>2, <1>4
<1>7. (q - 1) * b = q * b - b /\ (q + 1) * b = q * b + b /\ (q + 1 - 1) * b = q * b
  BY <1>1
<1>8. (q - 1) * b < a
  BY <1>1, <1>2, <1>4, <1>7
<1>9. a = 0 <=> q = 0
  <2>1. q = 0 => q * b = 0
    OBVIOUS
  <2>2. ASSUME a = 0 PROVE q = 0
    <3>1. q >= 1 => b <= q * b
      <4>1. q >= 1 => 0 * b + b <= q * b
        BY <1>1, MulMono
      <4> QED BY <4>1
    <3> QED BY <1>1, <1>2, <1>4, <2>2, <3>1
  <2> QED BY <1>6, <2>1, <2>2
<1>10. CASE <<a, b>> \in RoundedUp
  <2> DEFINE k == a \div b
  <2>1. k \in Nat /\ a = k * b
    BY <1>5, <1>10
  <2> HIDE DEF k
  <2>2. ~(k < q)
    <3>1. k < q => k * b + b <= q * b
      BY <1>1, <2>1, MulMono
    <3>2. k * b \in Int
      BY <2>1
    <3> QED BY <1>1, <1>2, <1>4, <2>1, <3>1, <3>2
  <2>3. ~(q < k)
    <3>1. q < k => q * b + b <= k * b
      BY <1>1, <2>1, MulMono
    <3>2. k * b \in Int
      BY <2>1
    <3> QED BY <1>2, <1>6, <2>1, <3>1, <3>2
  <2>4. q * b = a
    BY <1>1, <2>1, <2>2, <2>3
  <2>5. q + 1 # 0
    BY <1>1
  <2> QED BY <1>1, <1>2, <1>3, <1>5, <1>7, <1>10, <2>4, <2>5
<1>11. CASE <<a, b>> \notin RoundedUp
  <2>1. (q - 1) * b \in Int
    BY <1>1
  <2> QED BY <1>1, <1>3, <1>6, <1>8, <1>9, <1>11, <2>1
<1> QED BY <1>10, <1>11

(* The chunks of the estimate hold every resource, and are at most one too  *)
(* many.                                                                    *)
LEMMA EnoughChunks ==
  ASSUME NEW n, IsView(n), NEW cap \in Nat
  PROVE  ChunksAreEnough(n, DecisionReport(n, cap))
<1> DEFINE d == DecisionReport(n, cap)
           e == ChunkEstimate(n)
           D == {k \in DOMAIN n.aggregate : Get(n.minUnit, k) > 0}
           g == [k \in D |-> Chunks(n, k)]
           V == {g[k] : k \in D}
           total == Max({0} \cup {Chunks(n, k) : k \in D})
           shown == IF total < cap THEN total ELSE cap
           cov == Coverage(n)
<1>1. d.estimate = e /\ d.meter = ChunkMeter(n, cap)
  BY DEF DecisionReport
<1>2. /\ IsFiniteSet(DOMAIN n.aggregate) /\ n.aggregate \in [DOMAIN n.aggregate -> Nat]
      /\ n.minUnit \in [DOMAIN n.minUnit -> Nat] /\ n.satisfied \in BOOLEAN
  BY DEF IsView
<1>3. ASSUME NEW k \in D
      PROVE  /\ n.aggregate[k] \in Nat /\ n.minUnit[k] \in Nat \ {0} /\ Get(n.minUnit, k) = n.minUnit[k]
             /\ Chunks(n, k) \in Nat /\ Chunks(n, k) * n.minUnit[k] >= n.aggregate[k]
             /\ (Chunks(n, k) - 1) * n.minUnit[k] <= n.aggregate[k]
             /\ IsWhole(n.aggregate[k]) /\ IsWhole(n.minUnit[k])
                  => (Chunks(n, k) - 1) * n.minUnit[k] < n.aggregate[k]
             /\ (n.aggregate[k] = 0 <=> Chunks(n, k) = 0)
  <2>1. k \in DOMAIN n.minUnit /\ Get(n.minUnit, k) = n.minUnit[k] /\ n.minUnit[k] > 0
    BY DEF Get
  <2>2. n.aggregate[k] \in Nat /\ n.minUnit[k] \in Nat \ {0}
    BY <1>2, <2>1
  <2>3. Chunks(n, k) = CeilDiv(n.aggregate[k], n.minUnit[k])
    BY <2>1 DEF Chunks
  <2> QED BY <2>1, <2>2, <2>3, CeilDivIs
<1>4. e = IF total = 0 THEN None ELSE [total |-> total, binding |-> CHOOSE k \in D : Chunks(n, k) = total]
  BY DEF ChunkEstimate
<1>5. /\ total \in Nat /\ (\A k \in D : Chunks(n, k) <= total)
      /\ total # 0 => \E k \in D : Chunks(n, k) = total
  <2>1. D \in SUBSET DOMAIN n.aggregate
    OBVIOUS
  <2>2. IsFiniteSet(D)
    <3> HIDE DEF D
    <3> QED BY <1>2, <2>1, FS_Subset
  <2> DEFINE U == {Chunks(n, k) : k \in D}
  <2>3. g \in Surjection(D, U)
    BY DEF Surjection
  <2>4. U \in SUBSET Nat /\ \A k \in D : Chunks(n, k) \in U
    BY <1>3
  <2>5. total = Max({0} \cup U)
    OBVIOUS
  <2>6. \A x \in U : \E k \in D : Chunks(n, k) = x
    OBVIOUS
  <2> HIDE DEF g, U, D, total
  <2>7. IsFiniteSet({0} \cup U)
    <3>1. IsFiniteSet(U) /\ IsFiniteSet({0})
      BY <2>2, <2>3, FS_Surjection, FS_Singleton
    <3> QED BY <3>1, FS_Union
  <2>8. {0} \cup U \in SUBSET Nat /\ {0} \cup U # {}
    BY <2>4
  <2>9. Max({0} \cup U) \in {0} \cup U /\ \A y \in {0} \cup U : Max({0} \cup U) >= y
    BY <2>7, <2>8, GreatestOf
  <2> QED BY <2>4, <2>5, <2>6, <2>8, <2>9
<1>6. CASE total = 0
  <2>1. IsNone(e)
    BY <1>4, <1>6 DEF IsNone, None
  <2>2. \A k \in D : n.aggregate[k] = 0
    <3> HIDE DEF D, total
    <3> QED BY <1>3, <1>5, <1>6
  <2> HIDE DEF e
  <2> QED BY <1>1, <2>1, <2>2 DEF ChunksAreEnough
<1>7. CASE total # 0
  <2> DEFINE k == CHOOSE x \in D : Chunks(n, x) = total
  <2>1. e = [total |-> total, binding |-> k]
    BY <1>4, <1>7
  <2>2. k \in D /\ Chunks(n, k) = total
    <3> HIDE DEF D, total
    <3> QED BY <1>5, <1>7
  <2> HIDE DEF e, k, D, total, cov
  <2>3. ~IsNone(e) /\ e.total = total /\ e.binding = k
    BY <2>1 DEF IsNone
  <2>4. ASSUME NEW l \in D PROVE total * n.minUnit[l] >= n.aggregate[l]
    <3>1. \A x, y, z \in Nat : x <= y => x * z <= y * z
      OBVIOUS
    <3>2. Chunks(n, l) * n.minUnit[l] <= total * n.minUnit[l]
      BY <1>3, <1>5, <3>1
    <3>3. Chunks(n, l) * n.minUnit[l] \in Int /\ total * n.minUnit[l] \in Int
      BY <1>3, <1>5
    <3> QED BY <1>3, <3>2, <3>3
  <2>5. /\ (total - 1) * n.minUnit[k] <= n.aggregate[k]
        /\ IsWhole(n.aggregate[k]) /\ IsWhole(n.minUnit[k])
             => (total - 1) * n.minUnit[k] < n.aggregate[k]
    BY <1>3, <2>2
  <2>6. /\ d.meter.shown = shown /\ d.meter.more = total - shown
        /\ d.meter.filled = IF n.satisfied THEN shown ELSE (2 * cov[1] * shown + cov[2]) \div (2 * cov[2])
    BY <1>1, <2>3 DEF ChunkMeter, e, cov
  <2>7. shown \in Nat /\ shown + (total - shown) = total
    BY <1>5
  <2> HIDE DEF shown, d
  <2>8. d.meter.filled <= shown
    <3>1. CASE n.satisfied
      BY <2>6, <2>7, <3>1
    <3>2. CASE ~n.satisfied
      <4> DEFINE a == cov[1]
                 b == cov[2]
                 x == 2 * a * shown + b
                 q == x \div (2 * b)
      <4>1. a \in Nat /\ b \in Nat \ {0} /\ a <= b
        BY CoverageIsFraction DEF cov
      <4> HIDE DEF a, b
      <4>2. x \in Nat /\ 2 * b \in Nat \ {0}
        BY <2>7, <4>1
      <4>3. q \in Nat /\ q * (2 * b) <= x
        <5> DEFINE y == 2 * b
        <5>1. y \in Nat \ {0}
          BY <4>2
        <5> HIDE DEF x, y
        <5>2. x \div y \in Nat /\ (x \div y) * y <= x
          BY <4>2, <5>1
        <5> QED BY <5>2 DEF y
      <4>4. a * shown <= b * shown
        <5>1. \A u, v, w \in Nat : u <= v => u * w <= v * w
          OBVIOUS
        <5> QED BY <2>7, <4>1, <5>1
      <4>5. x <= shown * (2 * b) + b
        <5>1. 2 * a * shown = 2 * (a * shown) /\ shown * (2 * b) = 2 * (b * shown)
          BY <2>7, <4>1
        <5>2. a * shown \in Int /\ b * shown \in Int
          BY <2>7, <4>1
        <5> QED BY <4>1, <4>4, <5>1, <5>2
      <4> HIDE DEF x, q
      <4>6. shown < q => shown * (2 * b) + 2 * b <= q * (2 * b)
        <5>1. 2 * b \in Int /\ 2 * b > 0 /\ shown \in Int /\ q \in Int
          BY <2>7, <4>1, <4>3
        <5> QED BY <5>1, MulMono
      <4>7. ~(shown < q)
        <5>1. shown * (2 * b) \in Int /\ q * (2 * b) \in Int
          BY <2>7, <4>1, <4>3
        <5> QED BY <4>1, <4>2, <4>3, <4>5, <4>6, <5>1
      <4> QED BY <2>6, <2>7, <3>2, <4>3, <4>7 DEF q, x, a, b
    <3> QED BY <1>2, <3>1, <3>2
  <2>9. d.estimate = e
    BY <1>1 DEF d
  <2>10. ChunksAreEnough(n, d)
    BY <2>2, <2>3, <2>4, <2>5, <2>6, <2>7, <2>8, <2>9 DEF ChunksAreEnough, D
  <2> QED BY <2>10 DEF d
<1> QED BY <1>6, <1>7 DEF d

(* No bar of the funnel leaves its track.                                   *)
LEMMA BarsFit ==
  ASSUME NEW n, IsView(n), NEW cap
  PROVE  FunnelFits(DecisionReport(n, cap))
<1> DEFINE ms        == n.supply
           claimable == IF IsNone(ms) THEN 0 ELSE ms.idle + ms.configured
           matching  == IF IsNone(ms) THEN 0 ELSE claimable + ms.speculative
           widest    == FunnelMax(matching, claimable, n.claimed)
           W(v)      == Max({6, (100 * v) \div widest})
           funnel    == DecisionReport(n, cap).funnel
<1>1. matching \in Nat /\ claimable \in Nat /\ n.claimed \in Nat
  BY DEF IsView
<1>2. funnel = <<[value |-> matching, width |-> W(matching)], [value |-> claimable, width |-> W(claimable)],
                 [value |-> n.claimed, width |-> W(n.claimed)]>>
  BY DEF DecisionReport, SupplyFunnel
<1> HIDE DEF matching, claimable, funnel
<1>3. widest \in Nat \ {0} /\ matching <= widest /\ claimable <= widest /\ n.claimed <= widest
  <2> DEFINE S == {matching, claimable, n.claimed, 1}
  <2>1. S \in SUBSET Nat /\ S # {} /\ matching \in S /\ claimable \in S /\ n.claimed \in S /\ 1 \in S
    BY <1>1
  <2>2. IsFiniteSet(S)
    <3>1. IsFiniteSet({matching}) /\ IsFiniteSet({claimable}) /\ IsFiniteSet({n.claimed}) /\ IsFiniteSet({1})
      BY FS_Singleton
    <3>2. S = {matching} \cup ({claimable} \cup ({n.claimed} \cup {1}))
      OBVIOUS
    <3>3. IsFiniteSet({matching} \cup ({claimable} \cup ({n.claimed} \cup {1})))
      BY <3>1, FS_Union
    <3> QED BY <3>2, <3>3
  <2>3. widest = Max(S)
    BY DEF FunnelMax
  <2> HIDE DEF S
  <2>4. Max(S) \in S /\ \A y \in S : Max(S) >= y
    BY <2>1, <2>2, GreatestOf
  <2>5. Max(S) \in Nat /\ Max(S) >= 1 /\ Max(S) >= matching /\ Max(S) >= claimable /\ Max(S) >= n.claimed
    BY <2>1, <2>4
  <2> QED BY <1>1, <2>3, <2>5
<1> HIDE DEF widest
<1>4. ASSUME NEW v \in Nat, v <= widest PROVE W(v) \in 6..100
  <2> DEFINE q == (100 * v) \div widest
  <2>1. q \in Nat /\ q * widest <= 100 * v
    <3> DEFINE x == 100 * v
    <3>1. x \in Nat
      OBVIOUS
    <3> HIDE DEF x
    <3> QED BY <1>3, <3>1 DEF x
  <2> HIDE DEF q
  <2>2. 100 < q => 100 * widest + widest <= q * widest
    BY <1>3, <2>1, MulMono
  <2>3. q <= 100
    <3>1. q * widest \in Int
      BY <1>3, <2>1
    <3> QED BY <1>3, <1>4, <2>1, <2>2, <3>1
  <2>4. {6, q} \in SUBSET Nat /\ {6, q} # {} /\ IsFiniteSet({6, q})
    <3>1. IsFiniteSet({6} \cup {q})
      BY FS_Singleton, FS_Union
    <3>2. {6, q} = {6} \cup {q}
      OBVIOUS
    <3>3. IsFiniteSet({6, q})
      BY ONLY <3>1, <3>2
    <3>4. {6, q} \in SUBSET Nat /\ {6, q} # {}
      BY ONLY <2>1
    <3> QED BY ONLY <3>3, <3>4
  <2>5. Max({6, q}) \in {6, q} /\ \A y \in {6, q} : Max({6, q}) >= y
    BY <2>4, GreatestOf
  <2>6. Max({6, q}) \in 6..100
    BY <2>1, <2>3, <2>5
  <2> QED BY <2>6 DEF q
<1>5. W(matching) \in 6..100 /\ W(claimable) \in 6..100 /\ W(n.claimed) \in 6..100
  BY <1>1, <1>3, <1>4
<1> DEFINE a == W(matching)
           b == W(claimable)
           c == W(n.claimed)
<1>6. a \in 6..100 /\ b \in 6..100 /\ c \in 6..100
  BY <1>5
<1>7. funnel = <<[value |-> matching, width |-> a], [value |-> claimable, width |-> b],
                 [value |-> n.claimed, width |-> c]>>
  BY <1>2
<1> HIDE DEF a, b, c, W
<1>8. \A i \in DOMAIN funnel : funnel[i].width \in 6..100
  BY <1>6, <1>7
<1> QED BY <1>8 DEF FunnelFits, funnel

(* The drawer says what the shard said.                                     *)
LEMMA VerdictTold ==
  ASSUME NEW nv, IsMessage(nv), NEW cap
  PROVE  DrawerTellsTheVerdict(nv, DecisionReport(View(nv), cap))
<1> DEFINE n == View(nv)
           d == DecisionReport(n, cap)
<1>1. /\ n.satisfied = nv.satisfied /\ n.reason = nv.reason
      /\ n.claimed = nv.claimed /\ n.bootstrap = nv.bootstrap /\ n.provision = nv.provision
      /\ n.domain = nv.domain /\ n.candidates = nv.candidates
      /\ n.requirements = Requirements(nv.requirements) /\ n.spread = Spread(nv.spread)
      /\ IsNone(n.supply) = IsNone(nv.supply)
      /\ ~IsNone(nv.supply) =>
           /\ n.supply.idle = nv.supply.idle /\ n.supply.configured = nv.supply.configured
           /\ n.supply.speculative = nv.supply.speculative
  BY ViewOfMessage
<1> HIDE DEF n
<1>2. /\ d.sections = Sections(n) /\ d.funnel = SupplyFunnel(n) /\ d.held = HeldPanel(n) /\ d.chips = Chips(n)
  BY DEF DecisionReport
<1> HIDE DEF d
<1>3. nv.satisfied \in BOOLEAN /\ nv.claimed \in Nat /\ nv.bootstrap \in Nat /\ nv.provision \in Nat
  BY DEF IsMessage
<1>4. /\ ("funnel" \in d.sections) = (~nv.satisfied /\ ~IsNone(nv.supply))
      /\ ("topology" \in d.sections) = (nv.domain # "" \/ nv.candidates # <<>>)
      /\ ("held" \in d.sections) = nv.satisfied
  <2>1. /\ "funnel" \in Sections(n) <=> ~n.satisfied /\ ~IsNone(n.supply)
        /\ "topology" \in Sections(n) <=> n.domain # "" \/ n.candidates # <<>>
        /\ "held" \in Sections(n) <=> n.satisfied
    BY DEF Sections
  <2>2. IsNone(n.supply) <=> IsNone(nv.supply)
    <3>1. IsNone(n.supply) \in BOOLEAN /\ IsNone(nv.supply) \in BOOLEAN
      BY DEF IsNone
    <3> QED BY <1>1, <3>1
  <2>3. ASSUME NEW S, NEW e, NEW p, e \in S <=> p
        PROVE  (e \in S) = p
    BY Zenon, <2>3
  <2>4. ("funnel" \in d.sections) = (~nv.satisfied /\ ~IsNone(nv.supply))
    <3>1. "funnel" \in d.sections <=> ~nv.satisfied /\ ~IsNone(nv.supply)
      BY <1>1, <1>2, <2>1, <2>2
    <3> QED BY Zenon, <2>3, <3>1
  <2>5. ("topology" \in d.sections) = (nv.domain # "" \/ nv.candidates # <<>>)
    <3>1. "topology" \in d.sections <=> nv.domain # "" \/ nv.candidates # <<>>
      BY <1>1, <1>2, <2>1
    <3> QED BY Zenon, <2>3, <3>1
  <2>6. ("held" \in d.sections) = nv.satisfied
    <3>1. "held" \in d.sections <=> nv.satisfied
      BY <1>1, <1>2, <2>1
    <3>2. ASSUME NEW S, NEW e, NEW p \in BOOLEAN, e \in S <=> p
          PROVE  (e \in S) = p
      <4>1. CASE p = TRUE
        BY <3>2, <4>1
      <4>2. CASE p = FALSE
        BY <3>2, <4>2
      <4> QED BY <4>1, <4>2
    <3> HIDE DEF d
    <3> QED BY <1>3, <3>1, <3>2
  <2> QED BY <2>4, <2>5, <2>6
<1>5. ASSUME ~IsNone(nv.supply)
      PROVE  d.funnel[1].value = nv.supply.idle + nv.supply.configured + nv.supply.speculative
  <2>1. ~IsNone(n.supply)
    BY <1>1, <1>5
  <2> DEFINE m == n.supply.idle + n.supply.configured + n.supply.speculative
             w(v) == Max({6, (100 * v) \div FunnelMax(m, n.supply.idle + n.supply.configured, n.claimed)})
             x == w(m)
             y == [value |-> n.supply.idle + n.supply.configured, width |-> w(n.supply.idle + n.supply.configured)]
             z == [value |-> n.claimed, width |-> w(n.claimed)]
  <2>2. SupplyFunnel(n) = <<[value |-> m, width |-> x], y, z>>
    BY <2>1 DEF SupplyFunnel
  <2> HIDE DEF m, x, y, z
  <2>3. d.funnel[1].value = m
    BY <1>2, <2>2
  <2> QED BY <1>1, <1>5, <2>3 DEF m
<1>6. d.held.held = d.held.new + d.held.carried \/ nv.claimed < nv.bootstrap + nv.provision
  <2>1. /\ d.held.held = n.claimed /\ d.held.new = Acquired(n)
        /\ d.held.carried = IF Acquired(n) = 0 THEN n.claimed ELSE Atleast0(n.claimed - Acquired(n))
    BY <1>2 DEF HeldPanel
  <2>2. Acquired(n) = nv.bootstrap + nv.provision
    BY <1>1 DEF Acquired
  <2> QED BY <1>1, <1>3, <2>1, <2>2 DEF Atleast0
<1>7. ASSUME NEW i \in DOMAIN nv.requirements
      PROVE  d.chips.requirements[i].coloc = (nv.requirements[i].operator = "OPERATOR_SAME")
  <2> DEFINE r == nv.requirements[i]
             op == r.operator
             t == n.requirements[i]
  <2>1. r \in [operator : DOMAIN TitleOperator, values : Nat]
    <3>1. nv.requirements \in Seq([operator : DOMAIN TitleOperator, values : Nat])
      BY DEF IsMessage
    <3>2. \A T : \A q \in Seq(T) : \A j \in DOMAIN q : q[j] \in T
      OBVIOUS
    <3> QED BY Zenon, <3>1, <3>2
  <2>2. t = [r EXCEPT !.operator = TitleOperator[@]] /\ i \in DOMAIN n.requirements
    BY <1>1 DEF Requirements
  <2> HIDE DEF r, t
  <2>3. op \in DOMAIN TitleOperator
    BY <2>1
  <2>4. t.operator = TitleOperator[op]
    <3>1. "operator" \in DOMAIN r
      BY <2>1
    <3> QED BY <2>2, <3>1
  <2>5. TitleOperator[op] = "Same" <=> op = "OPERATOR_SAME"
    <3> HIDE DEF op
    <3> QED BY <2>3 DEF TitleOperator
  <2>6. d.chips.requirements[i].coloc = (t.operator = "Same")
    <3>1. Chips(n).requirements = [j \in DOMAIN n.requirements |->
            LET q == n.requirements[j]
            IN  [coloc |-> q.operator = "Same", values |-> q.values,
                 glyph |-> IF q.operator \in DOMAIN Glyph THEN Glyph[q.operator] ELSE q.operator]]
      BY DEF Chips
    <3>2. Chips(n).requirements[i] =
            [coloc |-> t.operator = "Same", values |-> t.values,
             glyph |-> IF t.operator \in DOMAIN Glyph THEN Glyph[t.operator] ELSE t.operator]
      BY <2>2, <3>1 DEF t
    <3> QED BY <1>2, <3>2
  <2> QED BY <2>4, <2>5, <2>6 DEF r
<1>8. ASSUME NEW i \in DOMAIN nv.spread
      PROVE  d.chips.hard[i] = (nv.spread[i] = "DO_NOT_SCHEDULE")
  <2> DEFINE s == nv.spread[i]
  <2>1. s \in DOMAIN TitleWhenUnsatisfiable
    <3>1. nv.spread \in Seq(DOMAIN TitleWhenUnsatisfiable)
      BY DEF IsMessage
    <3>2. \A T : \A q \in Seq(T) : \A j \in DOMAIN q : q[j] \in T
      OBVIOUS
    <3> QED BY Zenon, <3>1, <3>2
  <2>2. n.spread[i] = TitleWhenUnsatisfiable[s] /\ i \in DOMAIN n.spread
    BY <1>1 DEF Spread
  <2>3. TitleWhenUnsatisfiable[s] = "DoNotSchedule" <=> s = "DO_NOT_SCHEDULE"
    <3> HIDE DEF s
    <3> QED BY <2>1 DEF TitleWhenUnsatisfiable
  <2>4. Chips(n).hard[i] = (n.spread[i] = "DoNotSchedule")
    BY <2>2 DEF Chips
  <2> QED BY <1>2, <2>2, <2>3, <2>4
<1>9. DrawerTellsTheVerdict(nv, d)
  BY <1>4, <1>5, <1>6, <1>7, <1>8 DEF DrawerTellsTheVerdict
<1> QED BY <1>9 DEF d, n

(***************************************************************************)
(* The scales of the penalties.  A power of two is at least twice the ones *)
(* before it, so Log2 undoes it.                                           *)
TwoTo(k) == 2^k

(* The powers themselves.                                                   *)
LEMMA Powers ==
  /\ TwoTo(0) = 1
  /\ TwoTo(1) = 2
  /\ TwoTo(2) = 4
  /\ TwoTo(3) = 8
  /\ TwoTo(4) = 16
  /\ TwoTo(5) = 32
  /\ TwoTo(6) = 64
  /\ TwoTo(7) = 128
  /\ TwoTo(8) = 256
  /\ TwoTo(9) = 512
  /\ TwoTo(10) = 1024
  /\ TwoTo(11) = 2048
  /\ TwoTo(12) = 4096
  /\ TwoTo(13) = 8192
  /\ TwoTo(14) = 16384
  /\ TwoTo(15) = 32768
  /\ TwoTo(16) = 65536
  /\ TwoTo(17) = 131072
  /\ TwoTo(18) = 262144
  /\ TwoTo(19) = 524288
  /\ TwoTo(20) = 1048576
  /\ TwoTo(21) = 2097152
  /\ TwoTo(22) = 4194304
  /\ TwoTo(23) = 8388608
  /\ TwoTo(24) = 16777216
  /\ TwoTo(25) = 33554432
  /\ TwoTo(26) = 67108864
  /\ TwoTo(27) = 134217728
  /\ TwoTo(28) = 268435456
  /\ TwoTo(29) = 536870912
  /\ TwoTo(30) = 1073741824
BY DEF TwoTo

(* Each is twice the one before.                                            *)
LEMMA PowerDoubles ==
  ASSUME NEW k \in 0..29
  PROVE  TwoTo(k) \in Nat /\ TwoTo(k) >= 1 /\ TwoTo(k + 1) = 2 * TwoTo(k)
BY Powers

(* So a later one is at least twice an earlier one.                         *)
LEMMA PowersGrow ==
  ASSUME NEW i \in 0..30, NEW j \in 0..30, i < j
  PROVE  /\ TwoTo(i) \in Nat /\ TwoTo(j) \in Nat /\ TwoTo(i) >= 1
         /\ 2 * TwoTo(i) <= TwoTo(j)
BY Powers

(* The logarithm of a power is its exponent.                                *)
LEMMA Log2Of ==
  ASSUME NEW k \in 0..30
  PROVE  Log2(TwoTo(k)) = k
<1> DEFINE l == Log2(TwoTo(k))
<1>1. \E x \in 0..30 : TwoTo(x) = TwoTo(k)
  OBVIOUS
<1>2. l \in 0..30 /\ TwoTo(l) = TwoTo(k)
  BY <1>1 DEF Log2, TwoTo
<1> HIDE DEF l
<1>3. ~(l < k)
  BY <1>2, PowersGrow
<1>4. ~(k < l)
  BY <1>2, PowersGrow
<1>5. l = k
  BY <1>2, <1>3, <1>4
<1> QED BY <1>5 DEF l

(* What each place of the enum is.                                          *)
LEMMA PlacesOfTheEnum ==
  /\ BucketAt(0) = [name |-> "UNSPECIFIED"] /\ BucketAt(1) = [name |-> "ZERO"]
  /\ BucketAt(2) = [name |-> "HALF_DOLLAR"] /\ BucketAt(27) = [name |-> "PINNED"]
  /\ \A k \in 0..23 : BucketAt(k + 3) = [name |-> "DOLLARS", n |-> TwoTo(k)]
<1>1. ASSUME NEW k \in 0..23
      PROVE  BucketAt(k + 3) = [name |-> "DOLLARS", n |-> TwoTo(k)]
  <2>1. k + 3 \in 3..26 /\ (k + 3) - 3 = k
    OBVIOUS
  <2> DEFINE i == k + 3
  <2>2. BucketAt(i) = [name |-> "DOLLARS", n |-> 2^(i - 3)]
    <3>1. i \in 3..26 /\ i # 0 /\ i # 1 /\ i # 2
      BY <2>1
    <3> HIDE DEF i
    <3> QED BY <3>1 DEF BucketAt
  <2> QED BY <2>1, <2>2 DEF TwoTo
<1> QED BY <1>1 DEF BucketAt

(* The thermometer fills to the bucket's place in the enum.                 *)
LEMMA OrdinalIsThePlace ==
  ASSUME NEW i \in 0..Ladder
  PROVE  PenaltyOrdinal(BucketAt(i)) = i
<1>1. CASE i \in {0, 1, 2, 27}
  BY <1>1, PlacesOfTheEnum DEF PenaltyOrdinal, Ladder
<1>2. CASE i \in 3..26
  <2> DEFINE k == i - 3
             p == TwoTo(k)
  <2>1. k \in 0..23 /\ k \in 0..30 /\ i = k + 3
    BY <1>2
  <2>2. BucketAt(i) = [name |-> "DOLLARS", n |-> p] /\ Log2(p) = k
    BY <2>1, PlacesOfTheEnum, Log2Of
  <2> HIDE DEF k, p
  <2>3. PenaltyOrdinal([name |-> "DOLLARS", n |-> p]) = Log2(p) + 3
    BY DEF PenaltyOrdinal
  <2> QED BY <2>1, <2>2, <2>3
<1> QED BY <1>1, <1>2 DEF Ladder

(* The ranks of the other page grow with it.                                *)
LEMMA RanksGrow ==
  ASSUME NEW i \in 0..Ladder, NEW j \in 0..Ladder, i < j
  PROVE  BucketRank(BucketAt(i)) < BucketRank(BucketAt(j))
<1> DEFINE PlaceOf(x) == BucketRank(BucketAt(x))
<1>1. PlaceOf(0) = -1 /\ PlaceOf(1) = 0 /\ PlaceOf(2) = 1
  BY PlacesOfTheEnum DEF BucketRank
<1>2. PlaceOf(27) = TwoTo(30)
  BY PlacesOfTheEnum DEF BucketRank, TwoTo
<1>3. ASSUME NEW k \in 0..23
      PROVE  PlaceOf(k + 3) = 2 * TwoTo(k) /\ TwoTo(k) \in Nat /\ TwoTo(k) >= 1 /\ 2 * TwoTo(k) < TwoTo(30)
  <2>1. PlaceOf(k + 3) = BucketRank([name |-> "DOLLARS", n |-> TwoTo(k)])
    BY PlacesOfTheEnum
  <2>2. BucketRank([name |-> "DOLLARS", n |-> TwoTo(k)]) = 2 * TwoTo(k)
    BY DEF BucketRank
  <2>3. /\ TwoTo(k) \in Nat /\ TwoTo(k) >= 1 /\ TwoTo(k + 1) = 2 * TwoTo(k)
        /\ 2 * TwoTo(k + 1) <= TwoTo(30) /\ TwoTo(k + 1) >= 1 /\ TwoTo(k + 1) \in Nat
        /\ TwoTo(30) \in Nat
    BY PowerDoubles, PowersGrow
  <2> HIDE DEF PlaceOf
  <2> QED BY <2>1, <2>2, <2>3
<1> HIDE DEF PlaceOf
<1> SUFFICES PlaceOf(i) < PlaceOf(j)
  BY DEF PlaceOf
<1>4. CASE j \in 0..2
  BY <1>1, <1>4 DEF Ladder
<1>5. CASE j \in 3..26
  <2> DEFINE l == j - 3
  <2>1. l \in 0..23 /\ j = l + 3
    BY <1>5
  <2>2. CASE i \in 0..2
    BY <1>1, <1>3, <2>1, <2>2
  <2>3. CASE i \in 3..26
    <3> DEFINE k == i - 3
    <3>1. k \in 0..23 /\ i = k + 3 /\ k < l
      BY <2>1, <2>3
    <3>2. 2 * TwoTo(k) <= TwoTo(l)
      BY <2>1, <3>1, PowersGrow
    <3> HIDE DEF k, l
    <3> QED BY <1>3, <2>1, <3>1, <3>2
  <2> QED BY <1>5, <2>2, <2>3 DEF Ladder
<1>6. CASE j = 27
  <2>1. TwoTo(30) > 1 /\ TwoTo(30) \in Nat
    BY Powers
  <2>2. CASE i \in 0..2
    BY <1>1, <1>2, <1>6, <2>1, <2>2
  <2>3. CASE i \in 3..26
    <3> DEFINE k == i - 3
    <3>1. k \in 0..23 /\ i = k + 3
      BY <2>3
    <3> HIDE DEF k
    <3> QED BY <1>2, <1>3, <1>6, <3>1
  <2> QED BY <1>6, <2>2, <2>3 DEF Ladder
<1> QED BY <1>4, <1>5, <1>6 DEF Ladder

(* The labels: no two places have the same.                                 *)
Label(i) == FormatPenalty(BucketAt(i))

(* The labels of the buckets of a dollar and more.                          *)
LEMMA LabelsOfDollars ==
  ASSUME NEW k \in 0..23
  PROVE  /\ k \in 0..9   => Label(k + 3) = <<"$", 10 * TwoTo(k)>>
         /\ k \in 10..19 => Label(k + 3) = <<"K", (TwoTo(k) + 50) \div 100>>
         /\ k \in 20..23 => Label(k + 3) = <<"M", (TwoTo(k) + 50000) \div 100000>>
<1> DEFINE p == TwoTo(k)
           b == [name |-> "DOLLARS", n |-> p]
<1>1. BucketAt(k + 3) = b
  BY PlacesOfTheEnum
<1>2. /\ p \in Nat
      /\ k \in 0..9   => p < 1000
      /\ k \in 10..19 => p >= 1000 /\ p < 1000000
      /\ k \in 20..23 => p >= 1000000
  BY Powers
<1> HIDE DEF p
<1>3. /\ p < 1000 => FormatPenalty(b) = <<"$", 10 * p>>
      /\ p >= 1000 /\ p < 1000000 => FormatPenalty(b) = <<"K", (p + 50) \div 100>>
      /\ p >= 1000000 => FormatPenalty(b) = <<"M", (p + 50000) \div 100000>>
  BY <1>2 DEF FormatPenalty
<1> HIDE DEF b
<1>4. /\ k \in 0..9   => Label(k + 3) = <<"$", 10 * p>>
      /\ k \in 10..19 => Label(k + 3) = <<"K", (p + 50) \div 100>>
      /\ k \in 20..23 => Label(k + 3) = <<"M", (p + 50000) \div 100000>>
  BY <1>1, <1>2, <1>3 DEF Label
<1> QED BY <1>4 DEF p

(* No two places share a label.                                             *)
LEMMA LabelsDiffer ==
  ASSUME NEW i \in 0..Ladder, NEW j \in 0..Ladder, i < j
  PROVE  Label(i) # Label(j)
<1>1. /\ Label(0) = <<"unset", 0>> /\ Label(1) = <<"$", 0>> /\ Label(2) = <<"$", 5>>
      /\ Label(27) = <<"pinned", 0>>
  BY PlacesOfTheEnum DEF Label, FormatPenalty
<1>2. ASSUME NEW k \in 0..23
      PROVE  /\ Label(k + 3)[1] \in {"$", "K", "M"} /\ Label(k + 3) # <<"$", 0>> /\ Label(k + 3) # <<"$", 5>>
             /\ Label(k + 3)[1] = "$" => k \in 0..9 /\ Label(k + 3)[2] = 10 * TwoTo(k)
             /\ Label(k + 3)[1] = "K" => k \in 10..19 /\ Label(k + 3)[2] = (TwoTo(k) + 50) \div 100
             /\ Label(k + 3)[1] = "M" => k \in 20..23 /\ Label(k + 3)[2] = (TwoTo(k) + 50000) \div 100000
  <2>1. TwoTo(k) \in Nat /\ TwoTo(k) >= 1
    BY PowerDoubles
  <2>2. k \in 0..9 \/ k \in 10..19 \/ k \in 20..23
    OBVIOUS
  <2> QED BY <2>1, <2>2, LabelsOfDollars
<1>3. ASSUME NEW k \in 0..23, NEW l \in 0..23, k < l, Label(k + 3) = Label(l + 3)
      PROVE  FALSE
  <2> DEFINE p == TwoTo(k)
             q == TwoTo(l)
  <2>1. p \in Nat /\ q \in Nat /\ p >= 1 /\ 2 * p <= q
    BY <1>3, PowersGrow
  <2>2. CASE Label(k + 3)[1] = "$"
    BY <1>2, <1>3, <2>1, <2>2
  <2>3. CASE Label(k + 3)[1] = "K"
    <3>1. p >= 1024
      BY <1>2, <2>3, Powers
    <3>2. (p + 50) \div 100 = (q + 50) \div 100
      BY <1>2, <1>3, <2>3
    <3> HIDE DEF p, q
    <3> QED BY <2>1, <3>1, <3>2
  <2>4. CASE Label(k + 3)[1] = "M"
    <3>1. p >= 1048576
      BY <1>2, <2>4, Powers
    <3>2. (p + 50000) \div 100000 = (q + 50000) \div 100000
      BY <1>2, <1>3, <2>4
    <3> HIDE DEF p, q
    <3> QED BY <2>1, <3>1, <3>2
  <2> QED BY <1>2, <2>2, <2>3, <2>4
<1>4. CASE j \in 0..2
  BY <1>1, <1>4 DEF Ladder
<1>5. CASE j \in 3..26
  <2> DEFINE l == j - 3
  <2>1. l \in 0..23 /\ j = l + 3
    BY <1>5
  <2>2. CASE i \in 0..2
    <3> HIDE DEF l
    <3>1. Label(j)[1] # "unset" /\ Label(j) # <<"$", 0>> /\ Label(j) # <<"$", 5>>
      BY <1>2, <2>1
    <3> QED BY <1>1, <2>2, <3>1
  <2>3. CASE i \in 3..26
    <3> DEFINE k == i - 3
    <3>1. k \in 0..23 /\ i = k + 3 /\ k < l
      BY <2>1, <2>3
    <3> HIDE DEF k, l
    <3> QED BY <1>3, <2>1, <3>1
  <2> QED BY <1>5, <2>2, <2>3 DEF Ladder
<1>6. CASE j = 27
  <2>1. CASE i \in 0..2
    BY <1>1, <1>6, <2>1
  <2>2. CASE i \in 3..26
    <3> DEFINE k == i - 3
    <3>1. k \in 0..23 /\ i = k + 3
      BY <2>2
    <3> HIDE DEF k
    <3>2. Label(i)[1] # "pinned"
      BY <1>2, <3>1
    <3> QED BY <1>1, <1>6, <3>2
  <2> QED BY <1>6, <2>1, <2>2 DEF Ladder
<1> QED BY <1>4, <1>5, <1>6 DEF Ladder

(* So the three scales agree.                                               *)
LEMMA PenaltyScales ==
  ASSUME NEW i \in 0..Ladder, NEW j \in 0..Ladder
  PROVE  PenaltyScalesAgree(i, j)
<1>1. ASSUME i < j
      PROVE  /\ PenaltyOrdinal(BucketAt(i)) = i /\ PenaltyOrdinal(BucketAt(j)) = j
             /\ BucketRank(BucketAt(i)) < BucketRank(BucketAt(j))
             /\ FormatPenalty(BucketAt(i)) # FormatPenalty(BucketAt(j))
  BY <1>1, OrdinalIsThePlace, RanksGrow, LabelsDiffer DEF Label
<1>2. i \in Int /\ j \in Int /\ j <= Ladder
  BY DEF Ladder
<1> QED BY <1>1, <1>2 DEF PenaltyScalesAgree

-----------------------------------------------------------------------------
(* What the state is once a verdict is computed, or two penalties compared. *)
VerdictInput ==
  /\ kind = "verdict" => input \in Messages /\ output = DecisionReport(View(input), Segments)
  /\ kind = "penalty" => \E i, j \in 0..Ladder : input = <<i, j>>

(* needsKit.tsx:31-110 and 299-498, for any message of a shard: the bar of  *)
(* the table is the worst of the drawer's, the estimate is enough chunks    *)
(* and at most one too many, for whole quantities the least number, though  *)
(* doubles are divided, no bar leaves its track, and the drawer says what   *)
(* the shard said; and for any two buckets the scales of the penalties      *)
(* agree.                                                                   *)
THEOREM VerdictFaithful == FiguresSpec => []VerdictIsFaithful
<1>1. Init => VerdictInput
  BY DEF Init, VerdictInput
<1>2. VerdictInput /\ [Next]_figures => VerdictInput'
  <2> SUFFICES ASSUME VerdictInput, [Next]_figures PROVE VerdictInput'
    OBVIOUS
  <2>1. CASE UNCHANGED figures
    BY <2>1 DEF VerdictInput, figures
  <2>2. CASE Verdict
    BY <2>2 DEF Verdict, Computes, VerdictInput
  <2>3. CASE Penalty
    BY <2>3 DEF Penalty, Computes, VerdictInput
  <2>4. CASE Next /\ ~Verdict /\ ~Penalty
    <3>1. kind' # "verdict" /\ kind' # "penalty"
      BY <2>4 DEF Next, Walk, Compete, Sample, Overview, Finance, Report, Coordinator, Shard, Cluster,
                  Hints, Computes
    <3> QED BY <3>1 DEF VerdictInput
  <2> QED BY <2>1, <2>2, <2>3, <2>4
<1>3. VerdictInput => VerdictIsFaithful
  <2>1. ASSUME VerdictInput, kind = "verdict"
        PROVE  /\ CoverageIsTheWorstBar(View(input), output)
               /\ ChunksAreEnough(View(input), output)
               /\ FunnelFits(output)
               /\ DrawerTellsTheVerdict(input, output)
    <3>1. input \in Messages /\ output = DecisionReport(View(input), Segments)
      BY <2>1 DEF VerdictInput
    <3>2. IsMessage(input) /\ Segments \in Nat
      BY <3>1, MessageAssumption
    <3>3. IsView(View(input))
      BY <3>2, MessageIsView
    <3> QED BY <3>1, <3>2, <3>3, WorstBar, EnoughChunks, BarsFit, VerdictTold
  <2>2. ASSUME VerdictInput, kind = "penalty" PROVE PenaltyScalesAgree(input[1], input[2])
    <3>1. PICK i, j \in 0..Ladder : input = <<i, j>>
      BY <2>2 DEF VerdictInput
    <3>2. input[1] = i /\ input[2] = j
      BY <3>1
    <3> QED BY <3>2, PenaltyScales
  <2> QED BY <2>1, <2>2 DEF VerdictIsFaithful
<1> QED BY <1>1, <1>2, <1>3, PTL DEF FiguresSpec

-----------------------------------------------------------------------------
(* Sorting by a number.  The positions of a sequence in the order of their  *)
(* keys, those with the same key as they were: what Sorted goes through.    *)
KeyBefore(key) ==
  {p \in (DOMAIN key) \X (DOMAIN key) : \/ key[p[1]] < key[p[2]]
                                        \/ ~(key[p[2]] < key[p[1]]) /\ p[1] < p[2]}
KeyOrder(key) ==
  [k \in DOMAIN key |->
     CHOOSE i \in DOMAIN key : Cardinality({j \in DOMAIN key : <<j, i>> \in KeyBefore(key)}) = k - 1]

Permutes(at, n) ==
  /\ at \in [1..n -> 1..n]
  /\ \A x \in 1..n : \E k \in 1..n : at[k] = x
  /\ \A k, l \in 1..n : at[k] = at[l] => k = l

(* The numbers up to n are n numbers.                                       *)
LEMMA UpTo ==
  ASSUME NEW n \in Nat
  PROVE  IsFiniteSet(1..n) /\ Cardinality(1..n) = n
<1>1. 1 \in Int /\ n \in Int
  OBVIOUS
<1>2. IsFiniteSet(1..n) /\ Cardinality(1..n) = IF 1 > n THEN 0 ELSE n - 1 + 1
  BY <1>1, FS_Interval
<1> QED BY <1>2

(* It is a permutation, and the keys ascend along it.                       *)
LEMMA KeysAscend ==
  ASSUME NEW n \in Nat, NEW key \in [1..n -> Int]
  PROVE  /\ Permutes(KeyOrder(key), n)
         /\ \A k, l \in 1..n : k < l =>
              /\ key[KeyOrder(key)[k]] <= key[KeyOrder(key)[l]]
              /\ key[KeyOrder(key)[k]] = key[KeyOrder(key)[l]] => KeyOrder(key)[k] < KeyOrder(key)[l]
<1> DEFINE D == 1..n
           R == KeyBefore(key)
           at == KeyOrder(key)
<1>1. DOMAIN key = D /\ \A i \in D : key[i] \in Int /\ i \in Int
  OBVIOUS
<1>2. \A x, y : <<x, y>> \in R <=>
        /\ x \in D /\ y \in D
        /\ key[x] < key[y] \/ (~(key[y] < key[x]) /\ x < y)
  <2> DEFINE E == DOMAIN key
  <2>1. R = {p \in E \X E : key[p[1]] < key[p[2]] \/ (~(key[p[2]] < key[p[1]]) /\ p[1] < p[2])}
    BY Zenon DEF KeyBefore
  <2>2. E = D
    OBVIOUS
  <2> HIDE DEF D, R, E
  <2>3. \A x, y : <<x, y>> \in R <=>
          /\ x \in E /\ y \in E
          /\ key[x] < key[y] \/ (~(key[y] < key[x]) /\ x < y)
    BY <2>1
  <2> QED BY <2>2, <2>3
<1>3. IsFiniteSet(D) /\ Cardinality(D) = n
  BY UpTo
<1>4. at = [k \in D |-> CHOOSE i \in D : Cardinality({j \in D : <<j, i>> \in R}) = k - 1]
  BY <1>1 DEF KeyOrder
<1>5. Lined(D, R) = [k \in 1..n |-> CHOOSE i \in D : Cardinality({j \in D : <<j, i>> \in R}) = k - 1]
  BY <1>3 DEF Lined, RankIn, SetLessThan
<1>6. at = Lined(D, R)
  BY <1>4, <1>5
<1> HIDE DEF R, at
<1>7. /\ \A x \in D : <<x, x>> \notin R
      /\ \A x, y, z \in D : <<x, y>> \in R /\ <<y, z>> \in R => <<x, z>> \in R
      /\ \A x, y \in D : x # y => <<x, y>> \in R \/ <<y, x>> \in R
  <2> HIDE DEF D
  <2>1. \A x \in D : <<x, x>> \notin R
    BY <1>1, <1>2
  <2>2. ASSUME NEW x \in D, NEW y \in D, NEW z \in D, <<x, y>> \in R, <<y, z>> \in R
        PROVE  <<x, z>> \in R
    <3>1. /\ key[x] \in Int /\ key[y] \in Int /\ key[z] \in Int /\ x \in Int /\ y \in Int /\ z \in Int
          /\ key[x] < key[y] \/ (~(key[y] < key[x]) /\ x < y)
          /\ key[y] < key[z] \/ (~(key[z] < key[y]) /\ y < z)
      BY <1>1, <1>2, <2>2
    <3>2. key[x] < key[z] \/ (~(key[z] < key[x]) /\ x < z)
      BY <3>1
    <3> QED BY <1>2, <3>2
  <2>3. ASSUME NEW x \in D, NEW y \in D, x # y
        PROVE  <<x, y>> \in R \/ <<y, x>> \in R
    BY <1>1, <1>2, <2>3
  <2> QED BY <2>1, <2>2, <2>3
<1>8. /\ at \in [1..n -> D]
      /\ \A x \in D : \E k \in 1..n : at[k] = x
      /\ \A k, l \in 1..n : k < l => <<at[k], at[l]>> \in R
  <2> HIDE DEF D
  <2>1. /\ Lined(D, R) \in [1..Cardinality(D) -> D]
        /\ \A x \in D : \E k \in 1..Cardinality(D) : Lined(D, R)[k] = x
        /\ \A k, l \in 1..Cardinality(D) : k < l => <<Lined(D, R)[k], Lined(D, R)[l]>> \in R
    <3>1. IsFiniteSet(D)
      BY <1>3
    <3> QED BY <1>7, <3>1, LinedUp
  <2> QED BY <1>3, <1>6, <2>1
<1>9. \A k, l \in 1..n : at[k] = at[l] => k = l
  <2> SUFFICES ASSUME NEW k \in 1..n, NEW l \in 1..n, at[k] = at[l], k # l PROVE FALSE
    OBVIOUS
  <2>1. CASE k < l
    BY <1>7, <1>8, <2>1
  <2>2. CASE l < k
    BY <1>7, <1>8, <2>2
  <2> QED BY <2>1, <2>2
<1>10. ASSUME NEW k \in 1..n, NEW l \in 1..n, k < l
       PROVE  key[at[k]] <= key[at[l]] /\ (key[at[k]] = key[at[l]] => at[k] < at[l])
  <2>1. <<at[k], at[l]>> \in R
    BY <1>8, <1>10
  <2>2. at[k] \in D /\ at[l] \in D
    BY <1>8
  <2> QED BY <1>1, <1>2, <2>1, <2>2
<1>11. Permutes(at, n)
  BY <1>8, <1>9 DEF Permutes
<1> QED BY <1>10, <1>11 DEF at

(* A rearranged sequence has every element as often as before.              *)
LEMMA RearrangedIsSame ==
  ASSUME NEW n \in Nat, NEW s, DOMAIN s = 1..n, Len(s) = n, NEW at, Permutes(at, n)
  PROVE  Same([k \in 1..n |-> s[at[k]]], s)
<1> DEFINE t == [k \in 1..n |-> s[at[k]]]
<1>1. Len(t) = n /\ DOMAIN t = 1..n
  OBVIOUS
<1>2. ASSUME NEW x
      PROVE  Cardinality({i \in 1..n : t[i] = x}) = Cardinality({i \in 1..n : s[i] = x})
  <2> DEFINE A == {i \in 1..n : t[i] = x}
             B == {i \in 1..n : s[i] = x}
             h == [i \in A |-> at[i]]
  <2>1. h \in [A -> B]
    BY DEF Permutes
  <2>2. \A i, j \in A : h[i] = h[j] => i = j
    BY DEF Permutes
  <2>3. \A y \in B : \E i \in A : h[i] = y
    BY DEF Permutes
  <2>4. IsFiniteSet(A)
    <3>1. A \in SUBSET (1..n)
      OBVIOUS
    <3> QED BY <3>1, UpTo, FS_Subset
  <2> HIDE DEF A, B, h
  <2>5. ExistsBijection(A, B)
    <3>1. h \in Bijection(A, B)
      BY <2>1, <2>2, <2>3 DEF Bijection, Injection, Surjection, IsInjective
    <3> QED BY <3>1 DEF ExistsBijection
  <2>6. Cardinality(B) = Cardinality(A)
    BY <2>4, <2>5, FS_Bijection
  <2> QED BY <2>6 DEF A, B
<1> HIDE DEF t
<1>3. Same(t, s)
  BY <1>1, <1>2 DEF Same
<1> QED BY <1>3 DEF t

(* t is s in the order of the keys.                                         *)
Arrangement(t, s, key) ==
  \E at : /\ Permutes(at, Len(s)) /\ t = [k \in 1..Len(s) |-> s[at[k]]]
          /\ \A k, l \in 1..Len(s) : k < l => key[at[k]] <= key[at[l]]

(* What Sorted makes of an order R by keys.                                 *)
SortedBy(s, key, R, t) ==
  /\ key \in [DOMAIN s -> Int] /\ R \subseteq (DOMAIN s) \X (DOMAIN s)
  /\ \A i, j \in DOMAIN s : <<i, j>> \in R <=>
       key[i] < key[j] \/ (~(key[j] < key[i]) /\ i < j)
  /\ t = [k \in DOMAIN s |->
            s[CHOOSE i \in DOMAIN s : Cardinality({j \in DOMAIN s : <<j, i>> \in R}) = k - 1]]

LEMMA SortedByKey ==
  ASSUME NEW T, NEW s \in Seq(T), NEW key, NEW R, NEW t, SortedBy(s, key, R, t)
  PROVE  Arrangement(t, s, key)
<1> USE DEF SortedBy
<1> DEFINE D == DOMAIN s
           n == Len(s)
           B == KeyBefore(key)
           at == KeyOrder(key)
<1>1. n \in Nat /\ D = 1..n /\ DOMAIN key = D
  OBVIOUS
<1>2. B = {p \in (DOMAIN key) \X (DOMAIN key) : \/ key[p[1]] < key[p[2]]
                                                \/ ~(key[p[2]] < key[p[1]]) /\ p[1] < p[2]}
  BY DEF KeyBefore
<1>3. at = [k \in DOMAIN key |->
              CHOOSE i \in DOMAIN key : Cardinality({j \in DOMAIN key : <<j, i>> \in B}) = k - 1]
  BY DEF KeyOrder
<1> HIDE DEF B, at
<1>4. R = B
  <2>1. \A p : p \in B <=> /\ p \in D \X D
                           /\ key[p[1]] < key[p[2]] \/ (~(key[p[2]] < key[p[1]]) /\ p[1] < p[2])
    BY <1>1, <1>2
  <2> HIDE DEF D
  <2>2. \A p \in D \X D : p \in R <=>
          key[p[1]] < key[p[2]] \/ (~(key[p[2]] < key[p[1]]) /\ p[1] < p[2])
    <3> SUFFICES ASSUME NEW x \in D, NEW y \in D
                 PROVE  <<x, y>> \in R <=> key[x] < key[y] \/ (~(key[y] < key[x]) /\ x < y)
      OBVIOUS
    <3> QED BY DEF D
  <2>3. R \subseteq D \X D
    BY DEF D
  <2> QED BY <2>1, <2>2, <2>3
<1>5. t = [k \in D |-> s[at[k]]]
  <2>1. at = [k \in D |-> CHOOSE i \in D : Cardinality({j \in D : <<j, i>> \in R}) = k - 1]
    BY <1>1, <1>3, <1>4
  <2>2. t = [k \in D |-> s[CHOOSE i \in D : Cardinality({j \in D : <<j, i>> \in R}) = k - 1]]
    OBVIOUS
  <2> QED BY <2>1, <2>2
<1>6. /\ Permutes(at, n)
      /\ \A k, l \in 1..n : k < l => key[at[k]] <= key[at[l]]
  <2>1. key \in [1..n -> Int]
    BY <1>1
  <2> QED BY <1>1, <2>1, KeysAscend DEF at
<1> QED BY <1>1, <1>5, <1>6 DEF Arrangement

(* What is in an arrangement.                                               *)
LEMMA Arranges ==
  ASSUME NEW T, NEW s \in Seq(T), NEW key \in [DOMAIN s -> Int], NEW t, Arrangement(t, s, key)
  PROVE  /\ t \in Seq(T) /\ Len(t) = Len(s) /\ DOMAIN t = DOMAIN s /\ Same(t, s)
         /\ \A i \in DOMAIN s : \E k \in DOMAIN t : t[k] = s[i]
         /\ \A k \in DOMAIN t : \E i \in DOMAIN s : t[k] = s[i]
<1> DEFINE n == Len(s)
<1>1. n \in Nat /\ DOMAIN s = 1..n
  OBVIOUS
<1>2. PICK at : Permutes(at, n) /\ t = [k \in 1..n |-> s[at[k]]]
  BY DEF Arrangement
<1>3. at \in [1..n -> 1..n] /\ \A x \in 1..n : \E k \in 1..n : at[k] = x
  BY <1>2 DEF Permutes
<1>4. \A k \in 1..n : t[k] = s[at[k]] /\ s[at[k]] \in T /\ at[k] \in 1..n
  BY <1>1, <1>2, <1>3
<1>5. t \in [1..n -> T] /\ DOMAIN t = 1..n
  BY <1>2, <1>4
<1>6. t \in Seq(T) /\ Len(t) = n
  BY <1>1, <1>5
<1>7. Same(t, s)
  BY <1>1, <1>2, RearrangedIsSame
<1>8. \A i \in DOMAIN s : \E k \in DOMAIN t : t[k] = s[i]
  BY <1>1, <1>3, <1>4, <1>5
<1>9. \A k \in DOMAIN t : \E i \in DOMAIN s : t[k] = s[i]
  BY <1>1, <1>4, <1>5
<1> QED BY <1>1, <1>5, <1>6, <1>7, <1>8, <1>9

(* The rank of a name tells it apart.                                       *)
LEMMA RankOfName ==
  ASSUME NEW x \in Named, NEW y \in Named
  PROVE  /\ Rank(x) \in Nat
         /\ Rank(x) = Rank(y) => x = y
         /\ ByName(x, y) <=> Rank(x) < Rank(y)
<1>1. ASSUME NEW z \in Named PROVE Rank(z) \in DOMAIN Names /\ Names[Rank(z)] = z
  <2>1. \E i \in DOMAIN Names : Names[i] = z
    BY DEF Named, ToSet
  <2> QED BY <2>1 DEF Rank
<1>2. DOMAIN Names \in SUBSET Nat
  <2>1. Names \in Seq(ToSet(Names))
    BY ViewAssumption
  <2>2. \A S : \A q \in Seq(S) : DOMAIN q \in SUBSET Nat
    OBVIOUS
  <2> QED BY Zenon, <2>1, <2>2
<1>3. Rank(x) \in Nat
  BY <1>1, <1>2
<1>4. Rank(x) = Rank(y) => x = y
  BY <1>1
<1> QED BY <1>3, <1>4 DEF ByName

-----------------------------------------------------------------------------
(* The coordinator's pages.  What a shortfall is sorted by is a number.     *)
Sortable(s) == s.priority \in Int /\ s.age \in Int /\ \E i \in 0..Ladder : s.bucket = BucketAt(i)

LEMMA SortKeyIsNumber ==
  ASSUME NEW s, Sortable(s), NEW field \in SortFields
  PROVE  SortKey(s, field) \in Int
<1>1. PICK i \in 0..Ladder : s.bucket = BucketAt(i)
  BY DEF Sortable
<1>2. BucketRank(BucketAt(i)) \in Int
  <2>1. CASE i \in {0, 1, 2, 27}
    <3>1. BucketRank([name |-> "PINNED"]) = TwoTo(30) /\ TwoTo(30) \in Int
      BY Powers DEF BucketRank, TwoTo
    <3> QED BY <2>1, <3>1, PlacesOfTheEnum DEF BucketRank
  <2>2. CASE i \in 3..26
    <3> DEFINE k == i - 3
               p == TwoTo(k)
    <3>1. k \in 0..23 /\ k \in 0..29 /\ i = k + 3
      BY <2>2
    <3>2. BucketAt(i) = [name |-> "DOLLARS", n |-> p] /\ p \in Nat
      BY <3>1, PlacesOfTheEnum, PowerDoubles
    <3> HIDE DEF k, p
    <3>3. BucketRank([name |-> "DOLLARS", n |-> p]) = 2 * p
      BY DEF BucketRank
    <3> QED BY <3>2, <3>3
  <2> QED BY <2>1, <2>2 DEF Ladder
<1> QED BY <1>1, <1>2 DEF SortKey, SortFields, Sortable

(* The shortfalls of a card, whatever they are sorted by.                   *)
LEMMA ShortfallsInOrder ==
  ASSUME NEW T, NEW rows \in Seq(T), \A i \in DOMAIN rows : Sortable(rows[i]), NEW field \in SortFields
  PROVE  /\ Same(SortShortfalls(rows, field), rows) /\ SortShortfalls(rows, field) \in Seq(T)
         /\ \A i, j \in DOMAIN SortShortfalls(rows, field) :
              i < j => SortKey(SortShortfalls(rows, field)[i], field)
                         >= SortKey(SortShortfalls(rows, field)[j], field)
         /\ \E at : /\ Permutes(at, Len(rows))
                    /\ SortShortfalls(rows, field) = [k \in 1..Len(rows) |-> rows[at[k]]]
<1> DEFINE D == DOMAIN rows
           Key(i) == SortKey(rows[i], field)
           key == [i \in D |-> -Key(i)]
           R == {p \in D \X D : \/ SortKey(rows[p[1]], field) > SortKey(rows[p[2]], field)
                                \/ ~(SortKey(rows[p[2]], field) > SortKey(rows[p[1]], field)) /\ p[1] < p[2]}
           t == SortShortfalls(rows, field)
<1>1. \A i \in D : Key(i) \in Int
  BY SortKeyIsNumber
<1>2. key \in [D -> Int] /\ \A i \in D : key[i] = -Key(i)
  BY <1>1
<1>3. t = [k \in D |-> rows[CHOOSE i \in D : Cardinality({j \in D : <<j, i>> \in R}) = k - 1]]
  BY DEF SortShortfalls, Descending, Sorted
<1>4. R \subseteq D \X D /\ \A i, j \in D : <<i, j>> \in R <=> Key(i) > Key(j) \/ (~(Key(j) > Key(i)) /\ i < j)
  <2> HIDE DEF D
  <2> QED OBVIOUS
<1> HIDE DEF R, key, Key, t
<1>5. \A i, j \in D : <<i, j>> \in R <=> key[i] < key[j] \/ (~(key[j] < key[i]) /\ i < j)
  <2> SUFFICES ASSUME NEW i \in D, NEW j \in D
               PROVE  (Key(i) > Key(j) <=> key[i] < key[j]) /\ (Key(j) > Key(i) <=> key[j] < key[i])
    BY <1>4
  <2> QED BY <1>1, <1>2
<1>6. Arrangement(t, rows, key)
  <2> HIDE DEF D
  <2>1. \A x, y, z : SortedBy(rows, x, y, z) => Arrangement(z, rows, x)
    BY SortedByKey
  <2>2. SortedBy(rows, key, R, t)
    BY <1>2, <1>3, <1>4, <1>5 DEF SortedBy, D
  <2> QED BY <2>1, <2>2
<1>7. PICK at : /\ Permutes(at, Len(rows)) /\ t = [k \in 1..Len(rows) |-> rows[at[k]]]
                /\ \A k, l \in 1..Len(rows) : k < l => key[at[k]] <= key[at[l]]
  BY <1>6 DEF Arrangement
<1>8. ASSUME NEW k \in DOMAIN t, NEW l \in DOMAIN t, k < l
      PROVE  SortKey(t[k], field) >= SortKey(t[l], field)
  <2>1. D = 1..Len(rows) /\ DOMAIN t = D
    BY <1>7
  <2>2. at[k] \in D /\ at[l] \in D /\ t[k] = rows[at[k]] /\ t[l] = rows[at[l]]
    BY <1>7, <2>1 DEF Permutes
  <2>3. key[at[k]] <= key[at[l]]
    BY <1>7, <1>8, <2>1
  <2>4. Key(at[k]) >= Key(at[l])
    <3>1. Key(at[k]) \in Int /\ Key(at[l]) \in Int /\ key[at[k]] = -Key(at[k]) /\ key[at[l]] = -Key(at[l])
      BY <1>1, <1>2, <2>2
    <3> QED BY <2>3, <3>1
  <2> QED BY <2>2, <2>4 DEF Key
<1>9. Same(t, rows) /\ t \in Seq(T)
  BY <1>2, <1>6, Arranges
<1> QED BY <1>7, <1>8, <1>9 DEF t

(* The reports, by the name of their shard.                                 *)
LEMMA ReportsInOrder ==
  ASSUME NEW T, NEW rows \in Seq(T), \A i \in DOMAIN rows : rows[i].shard \in Named
  PROVE  \E key \in [DOMAIN rows -> Int] : Arrangement(InOrder(rows), rows, key)
<1> DEFINE D == DOMAIN rows
           key == [i \in D |-> Rank(rows[i].shard)]
           R == {p \in D \X D : \/ ByName(rows[p[1]].shard, rows[p[2]].shard)
                                \/ ~ByName(rows[p[2]].shard, rows[p[1]].shard) /\ p[1] < p[2]}
           t == InOrder(rows)
<1>1. \A i, j \in D : /\ Rank(rows[i].shard) \in Nat
                      /\ ByName(rows[i].shard, rows[j].shard)
                           <=> Rank(rows[i].shard) < Rank(rows[j].shard)
  BY RankOfName
<1>2. key \in [D -> Int] /\ \A i \in D : key[i] = Rank(rows[i].shard)
  BY <1>1
<1>3. t = [k \in D |-> rows[CHOOSE i \in D : Cardinality({j \in D : <<j, i>> \in R}) = k - 1]]
  BY DEF InOrder, Sorted
<1>4. R \subseteq D \X D
      /\ \A i, j \in D : <<i, j>> \in R <=>
           ByName(rows[i].shard, rows[j].shard) \/ (~ByName(rows[j].shard, rows[i].shard) /\ i < j)
  <2> HIDE DEF D
  <2> QED OBVIOUS
<1> HIDE DEF R, key, t
<1>5. \A i, j \in D : <<i, j>> \in R <=> key[i] < key[j] \/ (~(key[j] < key[i]) /\ i < j)
  <2> SUFFICES ASSUME NEW i \in D, NEW j \in D
               PROVE  /\ ByName(rows[i].shard, rows[j].shard) <=> key[i] < key[j]
                      /\ ByName(rows[j].shard, rows[i].shard) <=> key[j] < key[i]
    BY <1>4
  <2> QED BY <1>1, <1>2
<1>6. Arrangement(t, rows, key)
  <2> HIDE DEF D
  <2>1. \A x, y, z : SortedBy(rows, x, y, z) => Arrangement(z, rows, x)
    BY SortedByKey
  <2>2. SortedBy(rows, key, R, t)
    BY <1>2, <1>3, <1>4, <1>5 DEF SortedBy, D
  <2> QED BY <2>1, <2>2
<1> QED BY <1>2, <1>6 DEF t

(* Names in their order: all of them, each once.                            *)
LEMMA NamesInOrder ==
  ASSUME NEW S \in SUBSET Named
  PROVE  /\ IsFiniteSet(S) /\ Cardinality(S) \in Nat
         /\ Arranged(S, ByName) \in Seq(S) /\ Len(Arranged(S, ByName)) = Cardinality(S)
         /\ \A x \in S : \E k \in DOMAIN Arranged(S, ByName) : Arranged(S, ByName)[k] = x
         /\ \A i, j \in DOMAIN Arranged(S, ByName) :
              i # j => Arranged(S, ByName)[i] # Arranged(S, ByName)[j]
<1> DEFINE R == {p \in S \X S : ByName(p[1], p[2])}
           Before(x) == Cardinality({y \in S : ByName(y, x)})
           size == Cardinality(S)
           L == Arranged(S, ByName)
<1>1. IsFiniteSet(Named)
  <2>1. DOMAIN Names = 1..Len(Names) /\ Len(Names) \in Nat
    <3>1. Names \in Seq(ToSet(Names))
      BY ViewAssumption
    <3>2. \A T : \A q \in Seq(T) : DOMAIN q = 1..Len(q) /\ Len(q) \in Nat
      OBVIOUS
    <3> QED BY Zenon, <3>1, <3>2
  <2>2. IsFiniteSet(DOMAIN Names)
    BY <2>1, UpTo
  <2> DEFINE h == [i \in DOMAIN Names |-> Names[i]]
  <2>3. h \in Surjection(DOMAIN Names, Named)
    BY DEF Surjection, Named, ToSet
  <2> HIDE DEF h
  <2> QED BY <2>2, <2>3, FS_Surjection
<1>2. IsFiniteSet(S)
  BY <1>1, FS_Subset
<1>3. size \in Nat
  BY <1>2, FS_CardinalityType
<1>4. /\ \A x \in S : <<x, x>> \notin R
      /\ \A x, y, z \in S : <<x, y>> \in R /\ <<y, z>> \in R => <<x, z>> \in R
      /\ \A x, y \in S : x # y => <<x, y>> \in R \/ <<y, x>> \in R
  <2>1. \A x, y : <<x, y>> \in R <=> x \in S /\ y \in S /\ ByName(x, y)
    OBVIOUS
  <2>2. \A x, y \in S : Rank(x) \in Nat /\ (Rank(x) = Rank(y) => x = y) /\ (ByName(x, y) <=> Rank(x) < Rank(y))
    BY RankOfName
  <2> HIDE DEF R
  <2>3. \A x, y \in S : <<x, y>> \in R <=> Rank(x) < Rank(y)
    BY <2>1, <2>2
  <2> QED BY <2>2, <2>3
<1>5. \A x \in S : RankIn(x, R, S) = Before(x)
  <2> SUFFICES ASSUME NEW x \in S PROVE SetLessThan(x, R, S) = {y \in S : ByName(y, x)}
    BY DEF RankIn
  <2> QED BY DEF SetLessThan
<1>6. L = [k \in 1..size |-> CHOOSE x \in S : Before(x) = k - 1]
  BY DEF Arranged
<1>7. Lined(S, R) = [k \in 1..size |-> CHOOSE x \in S : RankIn(x, R, S) = k - 1]
  BY DEF Lined
<1> HIDE DEF R, Before, L
<1>8. /\ \A x, y \in S : RankIn(x, R, S) = RankIn(y, R, S) => x = y
      /\ \A i \in 0..(size - 1) : \E x \in S : RankIn(x, R, S) = i
  BY <1>2, <1>4, Ranks
<1>9. /\ Lined(S, R) \in [1..size -> S]
      /\ \A x \in S : \E k \in 1..size : Lined(S, R)[k] = x
      /\ \A i, j \in 1..size : i < j => <<Lined(S, R)[i], Lined(S, R)[j]>> \in R
  BY <1>2, <1>4, LinedUp
<1> HIDE DEF size
<1>10. L = Lined(S, R)
  <2> SUFFICES ASSUME NEW k \in 1..size PROVE L[k] = Lined(S, R)[k]
    BY <1>6, <1>7
  <2>1. k - 1 \in 0..(size - 1)
    BY <1>3
  <2>2. PICK x \in S : RankIn(x, R, S) = k - 1
    BY <1>8, <2>1
  <2>3. L[k] \in S /\ Before(L[k]) = k - 1
    BY <1>5, <1>6, <2>2
  <2>4. Lined(S, R)[k] \in S /\ RankIn(Lined(S, R)[k], R, S) = k - 1
    BY <1>7, <2>2
  <2> QED BY <1>5, <1>8, <2>3, <2>4
<1>11. L \in [1..size -> S] /\ DOMAIN L = 1..size
  BY <1>9, <1>10
<1>12. L \in Seq(S) /\ Len(L) = size
  BY <1>3, <1>11
<1>13. \A x \in S : \E k \in DOMAIN L : L[k] = x
  BY <1>9, <1>10, <1>11
<1>14. ASSUME NEW i \in DOMAIN L, NEW j \in DOMAIN L, i # j PROVE L[i] # L[j]
  <2>1. i \in 1..size /\ j \in 1..size /\ L[i] \in S /\ L[j] \in S
    BY <1>11
  <2>2. CASE i < j
    BY <1>4, <1>9, <1>10, <2>1, <2>2
  <2>3. CASE j < i
    BY <1>4, <1>9, <1>10, <2>1, <2>3
  <2> QED BY <1>3, <1>14, <2>1, <2>2, <2>3
<1> QED BY <1>2, <1>3, <1>12, <1>13, <1>14 DEF size, L

(* The entries of a map, the largest first: all of its names, each once.    *)
LEMMA EntriesInOrder ==
  ASSUME NEW m, IsTally(m)
  PROVE  /\ Entries(m) \in Seq(DOMAIN m) /\ Len(Entries(m)) = Cardinality(DOMAIN m)
         /\ Cardinality(DOMAIN m) \in Nat
         /\ \A x \in DOMAIN m : \E k \in DOMAIN Entries(m) : Entries(m)[k] = x
         /\ \A i, j \in DOMAIN Entries(m) : i < j => m[Entries(m)[i]] >= m[Entries(m)[j]]
<1> DEFINE s == Arranged(DOMAIN m, ByName)
           D == DOMAIN s
           key == [i \in D |-> -m[s[i]]]
           R == {p \in D \X D : \/ m[s[p[1]]] > m[s[p[2]]]
                                \/ ~(m[s[p[2]]] > m[s[p[1]]]) /\ p[1] < p[2]}
           t == Entries(m)
<1>1. /\ DOMAIN m \in SUBSET Named /\ \A x \in DOMAIN m : m[x] \in Nat
  BY DEF IsTally
<1>2. /\ s \in Seq(DOMAIN m) /\ Len(s) = Cardinality(DOMAIN m) /\ Cardinality(DOMAIN m) \in Nat
      /\ \A x \in DOMAIN m : \E k \in DOMAIN s : s[k] = x
  BY <1>1, NamesInOrder
<1>3. t = [k \in D |-> s[CHOOSE i \in D : Cardinality({j \in D : <<j, i>> \in R}) = k - 1]]
  BY DEF Entries, Descending, Sorted
<1> HIDE DEF s, t
<1>4. \A i \in D : s[i] \in DOMAIN m /\ m[s[i]] \in Nat
  <2>1. \A T : \A q \in Seq(T) : \A i \in DOMAIN q : q[i] \in T
    OBVIOUS
  <2>2. \A i \in DOMAIN s : s[i] \in DOMAIN m
    BY Zenon, <1>2, <2>1
  <2> QED BY <1>1, <2>2
<1>5. key \in [D -> Int] /\ \A i \in D : key[i] = -m[s[i]]
  BY <1>4
<1>6. R \subseteq D \X D
      /\ \A i, j \in D : <<i, j>> \in R <=> m[s[i]] > m[s[j]] \/ (~(m[s[j]] > m[s[i]]) /\ i < j)
  <2> HIDE DEF D
  <2> QED OBVIOUS
<1> HIDE DEF R, key
<1>7. \A i, j \in D : <<i, j>> \in R <=> key[i] < key[j] \/ (~(key[j] < key[i]) /\ i < j)
  <2> SUFFICES ASSUME NEW i \in D, NEW j \in D
               PROVE  /\ m[s[i]] > m[s[j]] <=> key[i] < key[j]
                      /\ m[s[j]] > m[s[i]] <=> key[j] < key[i]
    BY <1>6
  <2> QED BY <1>4, <1>5
<1>8. Arrangement(t, s, key)
  <2> HIDE DEF D
  <2>1. \A x, y, z : SortedBy(s, x, y, z) => Arrangement(z, s, x)
    BY <1>2, SortedByKey
  <2>2. SortedBy(s, key, R, t)
    BY <1>3, <1>5, <1>6, <1>7 DEF SortedBy, D
  <2> QED BY <2>1, <2>2
<1>9. PICK at : /\ Permutes(at, Len(s)) /\ t = [k \in 1..Len(s) |-> s[at[k]]]
                /\ \A k, l \in 1..Len(s) : k < l => key[at[k]] <= key[at[l]]
  BY <1>8 DEF Arrangement
<1>10. /\ t \in Seq(DOMAIN m) /\ Len(t) = Len(s) /\ DOMAIN t = DOMAIN s
       /\ \A i \in DOMAIN s : \E k \in DOMAIN t : t[k] = s[i]
  <2>1. s \in Seq(DOMAIN m) /\ key \in [DOMAIN s -> Int]
    BY <1>2, <1>5
  <2> HIDE DEF D
  <2> QED BY <1>8, <2>1, Arranges
<1>11. \A x \in DOMAIN m : \E k \in DOMAIN t : t[k] = x
  BY <1>2, <1>10
<1>12. ASSUME NEW i \in DOMAIN t, NEW j \in DOMAIN t, i < j PROVE m[t[i]] >= m[t[j]]
  <2>1. D = 1..Len(s)
    BY <1>2
  <2>2. at[i] \in D /\ at[j] \in D /\ t[i] = s[at[i]] /\ t[j] = s[at[j]] /\ key[at[i]] <= key[at[j]]
    BY <1>9, <1>10, <1>12, <2>1 DEF Permutes
  <2>3. key[at[i]] = -m[t[i]] /\ key[at[j]] = -m[t[j]] /\ m[t[i]] \in Nat /\ m[t[j]] \in Nat
    BY <1>4, <1>5, <2>2
  <2> QED BY <2>2, <2>3
<1> QED BY <1>2, <1>10, <1>11, <1>12 DEF t

(* The lesser of two.                                                       *)
LEMMA MinOfTwo ==
  ASSUME NEW a \in Nat, NEW b \in Nat
  PROVE  Min({a, b}) = IF a <= b THEN a ELSE b
<1>1. \E x \in {a, b} : \A y \in {a, b} : x <= y
  OBVIOUS
<1>2. Min({a, b}) \in {a, b} /\ \A y \in {a, b} : Min({a, b}) <= y
  BY <1>1 DEF Min
<1> QED BY <1>2

(* A list of a card is the beginning of the entries.                        *)
Listed(m, n) == IF n <= Cardinality(DOMAIN m) THEN n ELSE Cardinality(DOMAIN m)

LEMMA BreakdownIs ==
  ASSUME NEW m, IsTally(m), NEW n \in Nat
  PROVE  /\ Listed(m, n) \in 0..Len(Entries(m))
         /\ Breakdown(m, n).listed = [k \in 1..Listed(m, n) |-> Entries(m)[k]]
         /\ Breakdown(m, n).listed \in Seq(DOMAIN m) /\ Len(Breakdown(m, n).listed) = Listed(m, n)
         /\ Breakdown(m, n).more = Cardinality(DOMAIN m) - Listed(m, n)
<1> DEFINE E == Entries(m)
           size == Cardinality(DOMAIN m)
           l == Listed(m, n)
<1>1. E \in Seq(DOMAIN m) /\ Len(E) = size /\ size \in Nat
  BY EntriesInOrder
<1>2. l = Min({n, size}) /\ l \in 0..size
  BY <1>1, MinOfTwo DEF Listed
<1>3. /\ Breakdown(m, n).listed = SubSeq(E, 1, Min({n, size}))
      /\ Breakdown(m, n).more = Atleast0(size - n)
  BY DEF Breakdown
<1>4. Atleast0(size - n) = size - l
  BY <1>1 DEF Atleast0, Listed
<1> HIDE DEF E, size, l
<1>5. /\ SubSeq(E, 1, l) = [k \in 1..l |-> E[k]]
      /\ SubSeq(E, 1, l) \in Seq(DOMAIN m) /\ Len(SubSeq(E, 1, l)) = l
  <2>1. l \in Nat /\ l <= Len(E) /\ DOMAIN E = 1..Len(E)
    BY <1>1, <1>2
  <2>2. SubSeq(E, 1, l) = [k \in 1..l |-> E[k]]
    BY <1>1, <2>1
  <2>3. \A k \in 1..l : E[k] \in DOMAIN m
    BY <1>1, <2>1
  <2> QED BY <2>1, <2>2, <2>3
<1> QED BY <1>1, <1>2, <1>3, <1>4, <1>5 DEF E, size, l

LEMMA BreakdownTells ==
  ASSUME NEW m, IsTally(m), NEW n \in Nat
  PROVE  Largest(Breakdown(m, n), m)
<1> DEFINE E == Entries(m)
           size == Cardinality(DOMAIN m)
           l == Listed(m, n)
           b == Breakdown(m, n)
<1>1. /\ E \in Seq(DOMAIN m) /\ Len(E) = size /\ size \in Nat
      /\ \A x \in DOMAIN m : \E k \in DOMAIN E : E[k] = x
      /\ \A i, j \in DOMAIN E : i < j => m[E[i]] >= m[E[j]]
  BY EntriesInOrder
<1>2. /\ l \in 0..Len(E) /\ b.listed = [k \in 1..l |-> E[k]] /\ Len(b.listed) = l /\ b.more = size - l
      /\ DOMAIN b.listed = 1..l
  BY BreakdownIs
<1> HIDE DEF E, size, l, b
<1>3. Len(b.listed) + b.more = size
  BY <1>1, <1>2
<1>4. ASSUME NEW i \in DOMAIN b.listed, NEW x \in DOMAIN m \ ToSet(b.listed)
      PROVE  m[b.listed[i]] >= m[x]
  <2>1. PICK k \in DOMAIN E : E[k] = x
    BY <1>1
  <2>2. k \notin 1..l
    <3>1. ASSUME k \in 1..l PROVE x \in ToSet(b.listed)
      BY <1>2, <2>1, <3>1 DEF ToSet
    <3> QED BY <1>4, <3>1
  <2>3. i \in DOMAIN E /\ i < k /\ b.listed[i] = E[i]
    BY <1>1, <1>2, <2>2
  <2> QED BY <1>1, <2>1, <2>3
<1>5. ASSUME NEW i \in 1..(Len(b.listed) - 1) PROVE m[b.listed[i]] >= m[b.listed[i + 1]]
  <2>1. i \in DOMAIN E /\ i + 1 \in DOMAIN E /\ i < i + 1 /\ b.listed[i] = E[i] /\ b.listed[i + 1] = E[i + 1]
    BY <1>1, <1>2
  <2> QED BY <1>1, <2>1
<1>6. Largest(b, m)
  BY <1>3, <1>4, <1>5 DEF Largest, size
<1> QED BY <1>6 DEF b

(* The shorter of two lists is the beginning of the longer one.             *)
LEMMA BreakdownsAgree ==
  ASSUME NEW m, IsTally(m), NEW n \in Nat, NEW o \in Nat, n <= o
  PROVE  SubSeq(Breakdown(m, o).listed, 1, Len(Breakdown(m, n).listed)) = Breakdown(m, n).listed
<1> DEFINE E == Entries(m)
           k == Listed(m, n)
           l == Listed(m, o)
           short == Breakdown(m, n).listed
           long == Breakdown(m, o).listed
<1>1. /\ k \in Nat /\ short = [i \in 1..k |-> E[i]] /\ Len(short) = k
      /\ l \in Nat /\ long = [i \in 1..l |-> E[i]] /\ Len(long) = l /\ long \in Seq(DOMAIN m)
  BY BreakdownIs
<1>2. k <= l
  <2>1. Cardinality(DOMAIN m) \in Nat
    BY EntriesInOrder
  <2> QED BY <2>1 DEF Listed
<1> HIDE DEF E, k, l, short, long
<1>3. SubSeq(long, 1, k) = [i \in 1..k |-> long[i]]
  BY <1>1, <1>2
<1>4. [i \in 1..k |-> long[i]] = short
  BY <1>1, <1>2
<1>5. SubSeq(long, 1, Len(short)) = short
  BY <1>1, <1>3, <1>4
<1> QED BY <1>5 DEF short, long

(* The conversion of a report: a map without entries becomes null, and all  *)
(* else stays.                                                              *)
LEMMA CountsOf ==
  ASSUME NEW m, IsTally(m)
  PROVE  /\ IsNone(Counts(m)) <=> DOMAIN m = {}
         /\ DOMAIN m # {} => Counts(m) = m
         /\ DOMAIN Counts(m) \ {"absent"} = DOMAIN m
<1>1. "absent" \notin Named
  BY ViewAssumption DEF Named
<1>2. DOMAIN m \subseteq Named
  BY DEF IsTally
<1>3. CASE DOMAIN m = {}
  <2>1. Counts(m) = None
    BY <1>3 DEF Counts
  <2>2. DOMAIN None = {"absent"}
    BY DEF None
  <2> QED BY <1>3, <2>1, <2>2 DEF IsNone
<1>4. CASE DOMAIN m # {}
  <2>1. Counts(m) = m /\ "absent" \notin DOMAIN m
    BY <1>1, <1>2, <1>4 DEF Counts
  <2> QED BY <1>4, <2>1 DEF IsNone
<1> QED BY <1>3, <1>4

(* The deficits that are null, and those that name nothing.                 *)
SameGaps(rows, old) ==
  \A i \in DOMAIN old : IsNone(rows[i].deficit) <=> DOMAIN old[i].deficit = {}

Conveys(v, r) ==
  /\ v.shard = r.shard /\ v.shard \in Named
  /\ IsNone(r.summary) => IsNone(v.summary)
  /\ ~IsNone(r.summary) => /\ ~IsNone(v.summary)
                           /\ v.summary.total = r.summary.total /\ v.summary.free = r.summary.free
                           /\ v.summary.types = Counts(r.summary.types)
                           /\ v.summary.zones = Counts(r.summary.zones)
  /\ v.shortfalls \in Seq(ToSet(v.shortfalls)) /\ Len(v.shortfalls) = Len(r.shortfalls)
  /\ \A i \in DOMAIN v.shortfalls : Sortable(v.shortfalls[i])
  /\ Told(v.shortfalls) = Told(r.shortfalls)
  /\ Len(Told(v.shortfalls)) = Len(r.shortfalls)
  /\ r.shortfalls = <<>> <=> v.shortfalls = <<>>
  /\ SameGaps(v.shortfalls, r.shortfalls) /\ DOMAIN v.shortfalls = DOMAIN r.shortfalls

(* One shortfall.                                                           *)
LEMMA ShortfallConverted ==
  ASSUME NEW s, IsShortfall(s), NEW c, c = ToAPIShortfall(s)
  PROVE  /\ Sortable(c)
         /\ [c EXCEPT !.deficit = DOMAIN @ \ {"absent"}] = [s EXCEPT !.deficit = DOMAIN @ \ {"absent"}]
         /\ IsNone(c.deficit) <=> DOMAIN s.deficit = {}
<1> DEFINE d == Counts(s.deficit)
           e == DOMAIN s.deficit \ {"absent"}
<1>1. /\ s \in [priority : Int, age : Int, bucket : {BucketAt(i) : i \in 0..Ladder}, deficit : {s.deficit}]
      /\ IsTally(s.deficit)
  BY DEF IsShortfall
<1>2. DOMAIN d \ {"absent"} = e
  <2>1. DOMAIN d \ {"absent"} = DOMAIN s.deficit
    BY <1>1, CountsOf
  <2>2. DOMAIN d \ {"absent"} = (DOMAIN d \ {"absent"}) \ {"absent"}
    OBVIOUS
  <2> QED BY <2>1, <2>2
<1>10. IsNone(d) <=> DOMAIN s.deficit = {}
  BY <1>1, CountsOf
<1>3. c = [s EXCEPT !.deficit = d]
  BY DEF ToAPIShortfall
<1>4. [s EXCEPT !.deficit = DOMAIN @ \ {"absent"}] = [s EXCEPT !.deficit = e]
  OBVIOUS
<1> HIDE DEF d, e
<1>5. /\ DOMAIN s = {"priority", "age", "bucket", "deficit"}
      /\ s.priority \in Int /\ s.age \in Int /\ \E i \in 0..Ladder : s.bucket = BucketAt(i)
  BY <1>1
<1>6. /\ DOMAIN c = DOMAIN s /\ c.priority = s.priority /\ c.age = s.age /\ c.bucket = s.bucket /\ c.deficit = d
  BY <1>3, <1>5
<1>7. Sortable(c)
  BY <1>5, <1>6 DEF Sortable
<1>8. [c EXCEPT !.deficit = DOMAIN @ \ {"absent"}] = [c EXCEPT !.deficit = e]
  BY <1>2, <1>6
<1>9. [c EXCEPT !.deficit = e] = [s EXCEPT !.deficit = e]
  BY <1>3, <1>5
<1> QED BY <1>4, <1>6, <1>7, <1>8, <1>9, <1>10

(* The summary.                                                             *)
LEMMA SummaryConverted ==
  ASSUME NEW m, IsSummary(m), ~IsNone(m), NEW c, c = ToAPISummary(m)
  PROVE  /\ ~IsNone(c) /\ c.total = m.total /\ c.free = m.free /\ c.total \in Nat /\ c.free \in Nat
         /\ c.types = Counts(m.types) /\ c.zones = Counts(m.zones)
<1> DEFINE t == Counts(m.types)
           z == Counts(m.zones)
<1>1. m \in [total : Nat, free : Nat, types : {m.types}, zones : {m.zones}]
  BY DEF IsSummary
<1>2. c = [m EXCEPT !.types = t, !.zones = z]
  BY DEF ToAPISummary
<1> HIDE DEF t, z
<1>3. DOMAIN m = {"total", "free", "types", "zones"} /\ m.total \in Nat /\ m.free \in Nat
  BY <1>1
<1>4. DOMAIN c = DOMAIN m /\ c.total = m.total /\ c.free = m.free /\ c.types = t /\ c.zones = z
  BY <1>2, <1>3
<1>5. ~IsNone(c)
  BY <1>3, <1>4 DEF IsNone
<1> QED BY <1>3, <1>4, <1>5 DEF t, z

(* A report arrives with all it says.                                       *)
LEMMA Converted ==
  ASSUME NEW r, IsReport(r)
  PROVE  Conveys(ToAPIShardReport(r), r)
<1> DEFINE v == ToAPIShardReport(r)
           sum == ToAPISummary(r.summary)
           rows == [i \in DOMAIN r.shortfalls |-> ToAPIShortfall(r.shortfalls[i])]
           old == r.shortfalls
           n == Len(old)
<1>1. /\ r \in [shard : Named, summary : {r.summary}, shortfalls : Seq(ToSet(old))]
      /\ IsNone(r.summary) \/ IsSummary(r.summary)
      /\ \A s \in ToSet(old) : IsShortfall(s)
  BY DEF IsReport
<1>2. v = [r EXCEPT !.summary = sum, !.shortfalls = rows]
  BY DEF ToAPIShardReport
<1>3. old \in Seq(ToSet(old)) /\ n \in Nat /\ DOMAIN old = 1..n
  <2>1. old \in Seq(ToSet(old))
    BY <1>1
  <2> QED BY <2>1
<1>4. \A i \in 1..n : IsShortfall(old[i])
  BY <1>1, <1>3 DEF ToSet
<1>5. rows = [i \in 1..n |-> ToAPIShortfall(old[i])]
  BY <1>3
<1>6. \A i \in 1..n : /\ Sortable(rows[i])
                      /\ [rows[i] EXCEPT !.deficit = DOMAIN @ \ {"absent"}]
                           = [old[i] EXCEPT !.deficit = DOMAIN @ \ {"absent"}]
                      /\ IsNone(rows[i].deficit) <=> DOMAIN old[i].deficit = {}
  <2> SUFFICES ASSUME NEW i \in 1..n
               PROVE  /\ Sortable(rows[i])
                      /\ [rows[i] EXCEPT !.deficit = DOMAIN @ \ {"absent"}]
                           = [old[i] EXCEPT !.deficit = DOMAIN @ \ {"absent"}]
                      /\ IsNone(rows[i].deficit) <=> DOMAIN old[i].deficit = {}
    OBVIOUS
  <2>1. rows[i] = ToAPIShortfall(old[i]) /\ IsShortfall(old[i])
    BY <1>4, <1>5
  <2> DEFINE c == rows[i]
             s == old[i]
  <2>2. IsShortfall(s) /\ c = ToAPIShortfall(s)
    BY <2>1
  <2> HIDE DEF c, s
  <2>3. /\ Sortable(c)
        /\ [c EXCEPT !.deficit = DOMAIN @ \ {"absent"}] = [s EXCEPT !.deficit = DOMAIN @ \ {"absent"}]
        /\ IsNone(c.deficit) <=> DOMAIN s.deficit = {}
    BY ONLY <2>2, ShortfallConverted
  <2> HIDE DEF rows, old
  <2> QED BY <2>3 DEF c, s
<1> HIDE DEF v, sum, rows
<1>7. v.shard = r.shard /\ v.shard \in Named /\ v.summary = sum /\ v.shortfalls = rows
  BY <1>1, <1>2
<1>8. DOMAIN rows = 1..n /\ Len(rows) = n /\ rows \in Seq(ToSet(rows))
  <2>1. DOMAIN rows = 1..n /\ Len(rows) = n
    BY <1>3, <1>5
  <2>2. rows = [i \in 1..n |-> rows[i]] /\ \A i \in 1..n : rows[i] \in ToSet(rows)
    BY <1>5, <2>1 DEF ToSet
  <2> HIDE DEF old, n
  <2>3. rows \in [1..n -> ToSet(rows)]
    BY <2>2
  <2> QED BY <1>3, <2>1, <2>3
<1>9. Told(rows) = Told(old) /\ Len(Told(rows)) = n
  <2>1. Told(rows) = [i \in 1..n |-> [rows[i] EXCEPT !.deficit = DOMAIN @ \ {"absent"}]]
    BY <1>8 DEF Told
  <2>2. Told(old) = [i \in 1..n |-> [old[i] EXCEPT !.deficit = DOMAIN @ \ {"absent"}]]
    BY <1>3 DEF Told
  <2>3. Told(rows) = Told(old)
    BY <1>6, <2>1, <2>2
  <2>4. Len(Told(rows)) = n
    BY <1>3, <2>1
  <2> QED BY <2>3, <2>4
<1>10. /\ IsNone(r.summary) => IsNone(sum)
       /\ ~IsNone(r.summary) => /\ ~IsNone(sum)
                                /\ sum.total = r.summary.total /\ sum.free = r.summary.free
                                /\ sum.types = Counts(r.summary.types)
                                /\ sum.zones = Counts(r.summary.zones)
  <2>1. CASE IsNone(r.summary)
    <3>1. sum = None /\ DOMAIN None = {"absent"}
      BY <2>1 DEF sum, ToAPISummary, None
    <3> QED BY <2>1, <3>1 DEF IsNone
  <2>2. CASE ~IsNone(r.summary)
    <3>1. sum = ToAPISummary(r.summary) /\ IsSummary(r.summary)
      BY <1>1, <2>2 DEF sum
    <3> QED BY <2>2, <3>1, SummaryConverted
  <2> QED BY <2>1, <2>2
<1>11. old = <<>> <=> rows = <<>>
  BY <1>3, <1>8
<1>12. SameGaps(rows, old) /\ DOMAIN rows = DOMAIN old
  BY <1>3, <1>6, <1>8 DEF SameGaps
<1>13. Conveys(v, r)
  BY <1>7, <1>8, <1>6, <1>9, <1>10, <1>11, <1>12 DEF Conveys
<1> QED BY <1>13 DEF v

(* A report that breaks no card has maps to list.                           *)
LEMMA MapsToList ==
  ASSUME NEW r, IsReport(r), NEW v, Conveys(v, r), NEW field \in {"types", "zones"},
         ~IsNone(v.summary) => ~IsNone(v.summary[field])
  PROVE  IsTally(Map(v, field)) /\ (~IsNone(r.summary) => Map(v, field) = r.summary[field])
<1>1. CASE IsNone(r.summary)
  <2>1. Map(v, field) = <<>>
    BY <1>1 DEF Map, Conveys
  <2>2. IsTally(<<>>)
    BY DEF IsTally
  <2> QED BY <1>1, <2>1, <2>2
<1>2. CASE ~IsNone(r.summary)
  <2>1. IsSummary(r.summary)
    BY <1>2 DEF IsReport
  <2>2. IsTally(r.summary[field])
    BY <2>1 DEF IsSummary
  <2>3. ~IsNone(v.summary) /\ v.summary[field] = Counts(r.summary[field])
    BY <1>2 DEF Conveys
  <2>4. Counts(r.summary[field]) = r.summary[field]
    BY <2>2, <2>3, CountsOf
  <2>5. Map(v, field) = r.summary[field]
    BY <2>3, <2>4 DEF Map
  <2> QED BY <2>2, <2>5
<1> QED BY <1>1, <1>2

(* The card of a report.                                                    *)
LEMMA CardIs ==
  ASSUME NEW v, NEW field, NEW card, card = ShardCard(v, field)
  PROVE  /\ card.shard = v.shard /\ card.total = Number(v, "total") /\ card.free = Number(v, "free")
         /\ card.types = Breakdown(Map(v, "types"), CardLists)
         /\ card.zones = Breakdown(Map(v, "zones"), CardLists)
         /\ card.shortfalls = SortShortfalls(v.shortfalls, field)
<1> DEFINE a == v.shard
           b == Number(v, "total")
           c == Number(v, "free")
           d == Breakdown(Map(v, "types"), CardLists)
           e == Breakdown(Map(v, "zones"), CardLists)
           f == SortShortfalls(v.shortfalls, field)
<1>1. card = [shard |-> a, total |-> b, free |-> c, types |-> d, zones |-> e, shortfalls |-> f]
  BY DEF ShardCard
<1> HIDE DEF a, b, c, d, e, f
<1>2. card.shard = a /\ card.total = b /\ card.free = c /\ card.types = d /\ card.zones = e /\ card.shortfalls = f
  BY <1>1
<1> QED BY <1>2 DEF a, b, c, d, e, f

CardTells(r, card, field) ==
  /\ card.shard = r.shard
  /\ Same(Told(card.shortfalls), Told(r.shortfalls))
  /\ ~IsNone(r.summary) => /\ Largest(card.types, r.summary.types)
                           /\ Largest(card.zones, r.summary.zones)
  /\ \A i, j \in DOMAIN card.shortfalls :
       i < j => SortKey(card.shortfalls[i], field) >= SortKey(card.shortfalls[j], field)

LEMMA CardTellsReport ==
  ASSUME NEW r, IsReport(r), NEW v, Conveys(v, r), ~CardThrows(v), NEW field \in SortFields
  PROVE  CardTells(r, ShardCard(v, field), field)
<1> DEFINE card == ShardCard(v, field)
           rows == v.shortfalls
           n == Len(rows)
           told == Told(rows)
           shown == SortShortfalls(rows, field)
<1>1. card.shard = r.shard
  BY CardIs DEF Conveys
<1>2. /\ rows \in Seq(ToSet(rows)) /\ \A i \in DOMAIN rows : Sortable(rows[i])
      /\ told = Told(r.shortfalls) /\ Len(told) = n
  BY DEF Conveys
<1>3. card.shortfalls = shown
  BY CardIs
<1>4. ~IsNone(r.summary) => Largest(card.types, r.summary.types) /\ Largest(card.zones, r.summary.zones)
  <2> SUFFICES ASSUME ~IsNone(r.summary)
               PROVE  Largest(card.types, r.summary.types) /\ Largest(card.zones, r.summary.zones)
    OBVIOUS
  <2>1. ~IsNone(v.summary) => ~IsNone(v.summary["types"]) /\ ~IsNone(v.summary["zones"])
    BY DEF CardThrows
  <2>2. /\ IsTally(Map(v, "types")) /\ Map(v, "types") = r.summary["types"]
        /\ IsTally(Map(v, "zones")) /\ Map(v, "zones") = r.summary["zones"]
    BY <2>1, MapsToList
  <2>3. CardLists \in Nat
    BY ViewAssumption
  <2>4. /\ card.types = Breakdown(Map(v, "types"), CardLists)
        /\ card.zones = Breakdown(Map(v, "zones"), CardLists)
    BY CardIs
  <2> HIDE DEF card
  <2>5. Largest(card.types, Map(v, "types")) /\ Largest(card.zones, Map(v, "zones"))
    BY <2>2, <2>3, <2>4, BreakdownTells
  <2> QED BY <2>2, <2>5
<1> HIDE DEF card
<1>5. /\ \A i, j \in DOMAIN shown : i < j => SortKey(shown[i], field) >= SortKey(shown[j], field)
      /\ \E at : Permutes(at, n) /\ shown = [k \in 1..n |-> rows[at[k]]]
  <2> HIDE DEF shown, rows, n
  <2> QED BY <1>2, ShortfallsInOrder DEF shown, n
<1>6. PICK at : Permutes(at, n) /\ shown = [k \in 1..n |-> rows[at[k]]]
  BY <1>5
<1>7. Same(Told(shown), told)
  <2>1. n \in Nat /\ DOMAIN rows = 1..n
    BY <1>2
  <2>2. told = [i \in 1..n |-> [rows[i] EXCEPT !.deficit = DOMAIN @ \ {"absent"}]]
    BY <2>1 DEF Told
  <2>3. \A k \in 1..n : at[k] \in 1..n
    BY <1>6 DEF Permutes
  <2>4. Told(shown) = [k \in 1..n |-> [rows[at[k]] EXCEPT !.deficit = DOMAIN @ \ {"absent"}]]
    BY <1>6 DEF Told
  <2> HIDE DEF shown, rows, told, n
  <2>5. Told(shown) = [k \in 1..n |-> told[at[k]]]
    BY <2>2, <2>3, <2>4
  <2>6. DOMAIN told = 1..n
    BY <2>2
  <2>7. Same([k \in 1..n |-> told[at[k]]], told)
    BY <1>2, <1>6, <2>1, <2>6, RearrangedIsSame
  <2> QED BY <2>5, <2>7
<1>8. CardTells(r, card, field)
  BY <1>1, <1>2, <1>3, <1>4, <1>5, <1>7 DEF CardTells
<1> QED BY <1>8 DEF card

(* The reports of a page: those that arrived, by shard.                     *)
AreReports(raw) == raw \in Seq(ToSet(raw)) /\ \A r \in ToSet(raw) : IsReport(r)

LEMMA ReportsOnPage ==
  ASSUME NEW raw, AreReports(raw)
  PROVE  /\ Len(ShardReports(raw)) = Len(raw) /\ DOMAIN ShardReports(raw) = DOMAIN raw
         /\ \A i \in DOMAIN raw : IsReport(raw[i]) /\ Conveys(ShardReports(raw)[i], raw[i])
         /\ Len(InOrder(ShardReports(raw))) = Len(raw) /\ DOMAIN InOrder(ShardReports(raw)) = DOMAIN raw
         /\ \A i \in DOMAIN raw : \E c \in DOMAIN raw : InOrder(ShardReports(raw))[c] = ShardReports(raw)[i]
         /\ \A c \in DOMAIN raw : \E i \in DOMAIN raw : InOrder(ShardReports(raw))[c] = ShardReports(raw)[i]
<1> DEFINE D == DOMAIN raw
           api == ShardReports(raw)
           s == InOrder(api)
<1>1. D = 1..Len(raw) /\ Len(raw) \in Nat /\ \A i \in D : IsReport(raw[i])
  <2>1. \A T : \A q \in Seq(T) : DOMAIN q = 1..Len(q) /\ Len(q) \in Nat
    OBVIOUS
  <2>2. D = 1..Len(raw) /\ Len(raw) \in Nat
    BY Zenon, <2>1 DEF AreReports
  <2>3. \A i \in D : raw[i] \in ToSet(raw)
    BY DEF ToSet
  <2> QED BY <2>2, <2>3 DEF AreReports
<1>2. api = [i \in D |-> ToAPIShardReport(raw[i])]
  BY DEF ShardReports
<1>3. \A i \in D : Conveys(api[i], raw[i])
  BY <1>1, <1>2, Converted
<1> HIDE DEF api
<1>4. DOMAIN api = D /\ Len(api) = Len(raw) /\ api \in Seq(ToSet(api))
  <2>1. DOMAIN api = D /\ Len(api) = Len(raw)
    BY <1>1, <1>2
  <2>2. api = [i \in D |-> api[i]] /\ \A i \in D : api[i] \in ToSet(api)
    BY <1>2, <2>1 DEF ToSet
  <2> HIDE DEF D
  <2>3. api \in [D -> ToSet(api)]
    BY <2>2
  <2> QED BY <1>1, <2>1, <2>3
<1>5. \A i \in DOMAIN api : api[i].shard \in Named
  BY <1>3, <1>4 DEF Conveys
<1>6. PICK key \in [DOMAIN api -> Int] : Arrangement(s, api, key)
  BY <1>4, <1>5, ReportsInOrder
<1> HIDE DEF s, D
<1>7. /\ Len(s) = Len(api) /\ DOMAIN s = DOMAIN api
      /\ \A i \in DOMAIN api : \E k \in DOMAIN s : s[k] = api[i]
      /\ \A k \in DOMAIN s : \E i \in DOMAIN api : s[k] = api[i]
  BY <1>4, <1>6, Arranges
<1> QED BY <1>1, <1>3, <1>4, <1>7 DEF api, s, D

(* What a report must lack to break a page.                                 *)
LEMMA BreaksPage ==
  ASSUME NEW r, IsReport(r), NEW v, Conveys(v, r)
  PROVE  /\ CardThrows(v) <=> CountsNo(r, "types") \/ CountsNo(r, "zones")
         /\ ItemThrows(v) <=> CountsNo(r, "types") \/ LacksNothing(r)
<1>1. ~IsNone(r.summary) => IsTally(r.summary.types) /\ IsTally(r.summary.zones)
  BY DEF IsReport, IsSummary
<1>2. /\ IsNone(v.summary) <=> IsNone(r.summary)
      /\ ~IsNone(r.summary) => /\ v.summary.types = Counts(r.summary.types)
                               /\ v.summary.zones = Counts(r.summary.zones)
  BY DEF Conveys
<1>3. ~IsNone(r.summary) => /\ IsNone(v.summary.types) <=> DOMAIN r.summary.types = {}
                            /\ IsNone(v.summary.zones) <=> DOMAIN r.summary.zones = {}
  BY <1>1, <1>2, CountsOf
<1>4. /\ CountsNo(r, "types") <=> ~IsNone(r.summary) /\ DOMAIN r.summary.types = {}
      /\ CountsNo(r, "zones") <=> ~IsNone(r.summary) /\ DOMAIN r.summary.zones = {}
  BY DEF CountsNo
<1>6. /\ ~IsNone(v.summary) /\ IsNone(v.summary.types) <=> CountsNo(r, "types")
      /\ ~IsNone(v.summary) /\ IsNone(v.summary.zones) <=> CountsNo(r, "zones")
  <2> DEFINE A == IsNone(v.summary)
             B == IsNone(r.summary)
             C == IsNone(v.summary.types)
             D == IsNone(v.summary.zones)
             E == DOMAIN r.summary.types = {}
             F == DOMAIN r.summary.zones = {}
             G == CountsNo(r, "types")
             H == CountsNo(r, "zones")
  <2>1. A <=> B
    BY <1>2
  <2>3. ~B => (C <=> E)
    BY <1>3
  <2>4. ~B => (D <=> F)
    BY <1>3
  <2>5. G <=> (~B /\ E)
    BY <1>4
  <2>6. H <=> (~B /\ F)
    BY <1>4
  <2> HIDE DEF A, B, C, D, E, F, G, H
  <2>2. ((~A /\ C) <=> G) /\ ((~A /\ D) <=> H)
    BY ONLY <2>1, <2>3, <2>4, <2>5, <2>6
  <2> QED BY <2>2 DEF A, C, D, G, H
<1>5. (\E i \in DOMAIN v.shortfalls : IsNone(v.shortfalls[i].deficit)) <=> LacksNothing(r)
  BY DEF Conveys, SameGaps, LacksNothing
<1> QED BY <1>5, <1>6 DEF CardThrows, ItemThrows

LEMMA BreaksPages ==
  ASSUME NEW raw, AreReports(raw)
  PROVE  /\ (\E i \in DOMAIN ShardReports(raw) : CardThrows(ShardReports(raw)[i]))
              <=> \E i \in DOMAIN raw : CountsNo(raw[i], "types") \/ CountsNo(raw[i], "zones")
         /\ (\E i \in DOMAIN ShardReports(raw) : ItemThrows(ShardReports(raw)[i]))
              <=> \E i \in DOMAIN raw : CountsNo(raw[i], "types") \/ LacksNothing(raw[i])
<1> DEFINE api == ShardReports(raw)
<1>1. DOMAIN api = DOMAIN raw /\ \A i \in DOMAIN raw : IsReport(raw[i]) /\ Conveys(api[i], raw[i])
  BY ReportsOnPage
<1> HIDE DEF api
<1> DEFINE Breaks(i) == CardThrows(api[i])
           Drops(i)  == ItemThrows(api[i])
           Lacks(i)  == CountsNo(raw[i], "types") \/ CountsNo(raw[i], "zones")
           Misses(i) == CountsNo(raw[i], "types") \/ LacksNothing(raw[i])
<1>2. \A i \in DOMAIN raw : (Breaks(i) <=> Lacks(i)) /\ (Drops(i) <=> Misses(i))
  <2> SUFFICES ASSUME NEW i \in DOMAIN raw
               PROVE  (Breaks(i) <=> Lacks(i)) /\ (Drops(i) <=> Misses(i))
    OBVIOUS
  <2>1. IsReport(raw[i]) /\ Conveys(api[i], raw[i])
    BY <1>1
  <2> QED BY ONLY <2>1, BreaksPage
<1> HIDE DEF Breaks, Drops, Lacks, Misses
<1>3. /\ (\E i \in DOMAIN api : Breaks(i)) <=> \E i \in DOMAIN raw : Lacks(i)
      /\ (\E i \in DOMAIN api : Drops(i)) <=> \E i \in DOMAIN raw : Misses(i)
  BY Zenon, <1>1, <1>2
<1> USE DEF Breaks, Drops, Lacks, Misses
<1> QED BY <1>3 DEF api

(* Whatever the shards reported, the cards tell it.                         *)
LEMMA CardsTell ==
  ASSUME NEW raw, AreReports(raw), NEW field \in SortFields
  PROVE  CardsTellTheReports(raw, field, ShardReportsPage(ShardReports(raw), field))
<1> DEFINE D == DOMAIN raw
           api == ShardReports(raw)
           s == InOrder(api)
           page == ShardReportsPage(api, field)
           Throws == \E i \in DOMAIN api : CardThrows(api[i])
<1>1. /\ Len(api) = Len(raw) /\ DOMAIN api = D /\ Len(s) = Len(raw) /\ DOMAIN s = D
      /\ \A i \in D : IsReport(raw[i]) /\ Conveys(api[i], raw[i])
      /\ \A i \in D : \E c \in D : s[c] = api[i]
      /\ \A c \in D : \E i \in D : s[c] = api[i]
  BY ReportsOnPage
<1>2. CASE Throws
  <2>1. page = [throws |-> TRUE]
    BY <1>2 DEF ShardReportsPage
  <2>2. page.throws = TRUE
    BY <2>1
  <2>3. \E i \in DOMAIN raw : CountsNo(raw[i], "types") \/ CountsNo(raw[i], "zones")
    BY <1>2, BreaksPages
  <2> HIDE DEF page
  <2>4. CardsTellTheReports(raw, field, page)
    BY <2>2, <2>3 DEF CardsTellTheReports
  <2> QED BY <2>4 DEF page
<1>3. CASE ~Throws
  <2> DEFINE E == api = <<>>
             R == /\ api # <<>>
                  /\ \A i \in DOMAIN api : IsNone(api[i].summary) /\ api[i].shortfalls = <<>>
             C == [i \in DOMAIN s |-> ShardCard(s[i], field)]
  <2>1. page = [throws |-> FALSE, empty |-> E, rebuilding |-> R, cards |-> C]
    BY <1>3 DEF ShardReportsPage
  <2>2. R => \A i \in DOMAIN api : IsNone(api[i].summary)
    OBVIOUS
  <2>3. C = [i \in D |-> ShardCard(s[i], field)]
    BY <1>1
  <2>4. \A i \in D : ~CardThrows(api[i])
    BY <1>1, <1>3
  <2> HIDE DEF E, R, C, page
  <2>5. page.throws = FALSE /\ page.rebuilding = R /\ page.cards = C
    BY <2>1
  <2> HIDE DEF api, s, D
  <2>6. DOMAIN C = D /\ Len(C) = Len(raw) /\ \A i \in D : C[i] = ShardCard(s[i], field)
    <3>1. DOMAIN C = D /\ \A i \in D : C[i] = ShardCard(s[i], field)
      BY <2>3
    <3>2. D = 1..Len(raw) /\ Len(raw) \in Nat
      <4>1. \A T : \A q \in Seq(T) : DOMAIN q = 1..Len(q) /\ Len(q) \in Nat
        OBVIOUS
      <4> QED BY Zenon, <4>1 DEF AreReports, D
    <3> QED BY <2>3, <3>1, <3>2
  <2>7. \A i \in D : CardTells(raw[i], ShardCard(api[i], field), field)
    BY <1>1, <2>4, CardTellsReport
  <2>8. ASSUME NEW i \in D
        PROVE  \E c \in D : CardTells(raw[i], C[c], field)
    <3>1. PICK c \in D : s[c] = api[i]
      BY <1>1
    <3>2. C[c] = ShardCard(api[i], field)
      BY <2>6, <3>1
    <3> QED BY <2>7, <3>2
  <2>9. ASSUME NEW c \in D
        PROVE  /\ \A i, j \in DOMAIN C[c].shortfalls :
                    i < j => SortKey(C[c].shortfalls[i], field) >= SortKey(C[c].shortfalls[j], field)
               /\ R => C[c].total = 0
    <3>1. PICK i \in D : s[c] = api[i]
      BY <1>1
    <3>2. C[c] = ShardCard(api[i], field) /\ CardTells(raw[i], C[c], field)
      BY <2>6, <2>7, <3>1
    <3>3. ASSUME R PROVE C[c].total = 0
      <4>1. IsNone(api[i].summary)
        BY <1>1, <2>2, <3>3
      <4>2. Number(api[i], "total") = 0
        BY <4>1 DEF Number
      <4> QED BY <3>2, <4>2, CardIs
    <3> QED BY <3>2, <3>3 DEF CardTells
  <2>10. CardsTellTheReports(raw, field, page)
    <3>1. ASSUME NEW i \in DOMAIN raw
          PROVE  \E c \in DOMAIN page.cards :
                   /\ page.cards[c].shard = raw[i].shard
                   /\ Same(Told(page.cards[c].shortfalls), Told(raw[i].shortfalls))
                   /\ ~IsNone(raw[i].summary) => /\ Largest(page.cards[c].types, raw[i].summary.types)
                                                 /\ Largest(page.cards[c].zones, raw[i].summary.zones)
      <4>1. PICK c \in D : CardTells(raw[i], C[c], field)
        BY <2>8 DEF D
      <4> QED BY <2>5, <2>6, <4>1 DEF CardTells
    <3>2. Len(page.cards) = Len(raw) /\ page.throws = FALSE
      BY <2>5, <2>6
    <3>9. ~ \E i \in DOMAIN raw : CountsNo(raw[i], "types") \/ CountsNo(raw[i], "zones")
      BY <1>3, BreaksPages DEF api
    <3>3. ASSUME NEW c \in DOMAIN page.cards
          PROVE  \A i, j \in DOMAIN page.cards[c].shortfalls :
                   i < j => SortKey(page.cards[c].shortfalls[i], field)
                              >= SortKey(page.cards[c].shortfalls[j], field)
      BY <2>5, <2>6, <2>9
    <3>4. page.rebuilding => \A c \in DOMAIN page.cards : page.cards[c].total = 0
      BY <2>5, <2>6, <2>9
    <3> QED BY <3>1, <3>2, <3>3, <3>4, <3>9 DEF CardsTellTheReports
  <2> QED BY <2>10 DEF page, api, s, D
<1> QED BY <1>2, <1>3

(* One item of the topology page, and all of them.                          *)
ItemTells(r, item) ==
  /\ item.shard = r.shard
  /\ Same(Told(item.shortfalls), Told(r.shortfalls))
  /\ ~IsNone(r.summary) => Largest(item.types, r.summary.types)

LEMMA ItemTellsReport ==
  ASSUME NEW r, IsReport(r), NEW v, Conveys(v, r), ~ItemThrows(v)
  PROVE  ItemTells(r, ReportItem(v))
<1> DEFINE item == ReportItem(v)
<1>1. /\ item.shard = v.shard /\ item.shortfalls = v.shortfalls
      /\ item.types = Breakdown(Map(v, "types"), TopologyLists)
  BY DEF ReportItem
<1>2. v.shard = r.shard /\ Told(v.shortfalls) = Told(r.shortfalls)
  BY DEF Conveys
<1>3. Same(Told(r.shortfalls), Told(r.shortfalls))
  BY DEF Same
<1> HIDE DEF item
<1>4. ~IsNone(r.summary) => Largest(item.types, r.summary.types)
  <2> SUFFICES ASSUME ~IsNone(r.summary) PROVE Largest(item.types, r.summary.types)
    OBVIOUS
  <2>1. ~IsNone(v.summary) => ~IsNone(v.summary["types"])
    BY DEF ItemThrows
  <2>2. IsTally(Map(v, "types")) /\ Map(v, "types") = r.summary["types"]
    BY <2>1, MapsToList
  <2>3. TopologyLists \in Nat
    BY ViewAssumption
  <2>4. Largest(item.types, Map(v, "types"))
    BY <1>1, <2>2, <2>3, BreakdownTells
  <2> QED BY <2>2, <2>4
<1> QED BY <1>1, <1>2, <1>3, <1>4 DEF ItemTells, item

LEMMA ItemsTell ==
  ASSUME NEW raw, AreReports(raw)
  PROVE  ItemsTellTheReports(raw, ReportsCard(ShardReports(raw)))
<1> DEFINE D == DOMAIN raw
           api == ShardReports(raw)
           s == InOrder(api)
           card == ReportsCard(api)
           Throws == \E i \in DOMAIN api : ItemThrows(api[i])
           C == [i \in DOMAIN s |-> ReportItem(s[i])]
<1>1. /\ DOMAIN api = D /\ DOMAIN s = D
      /\ \A i \in D : IsReport(raw[i]) /\ Conveys(api[i], raw[i])
      /\ \A i \in D : \E c \in D : s[c] = api[i]
  BY ReportsOnPage
<1>2. Throws <=> \E i \in DOMAIN raw : CountsNo(raw[i], "types") \/ LacksNothing(raw[i])
  BY BreaksPages
<1>3. card = IF Throws THEN [throws |-> TRUE] ELSE [throws |-> FALSE, items |-> C]
  BY DEF ReportsCard
<1>4. D = 1..Len(raw) /\ Len(raw) \in Nat
  <2>1. \A T : \A q \in Seq(T) : DOMAIN q = 1..Len(q) /\ Len(q) \in Nat
    OBVIOUS
  <2> QED BY Zenon, <2>1 DEF AreReports
<1>5. ~Throws => \A i \in D : ~ItemThrows(api[i])
  BY <1>1
<1> HIDE DEF card, api, s, D
<1>6. CASE Throws
  <2> HIDE DEF Throws, C
  <2>1. card.throws = TRUE
    BY <1>3, <1>6
  <2> QED BY <1>2, <1>6, <2>1 DEF ItemsTellTheReports, card, api
<1>7. CASE ~Throws
  <2>1. ASSUME NEW i \in D
        PROVE  \E c \in D : ItemTells(raw[i], C[c])
    <3>1. PICK c \in D : s[c] = api[i]
      BY <1>1
    <3>2. C[c] = ReportItem(api[i])
      BY <1>1, <3>1
    <3>3. IsReport(raw[i]) /\ Conveys(api[i], raw[i]) /\ ~ItemThrows(api[i])
      BY <1>1, <1>5, <1>7
    <3>4. ItemTells(raw[i], ReportItem(api[i]))
      BY <3>3, ItemTellsReport
    <3> QED BY <3>2, <3>4
  <2>2. DOMAIN C = D /\ Len(C) = Len(raw)
    BY <1>1, <1>4
  <2> HIDE DEF Throws, C
  <2>3. card.throws = FALSE /\ card.items = C
    BY <1>3, <1>7
  <2>4. ~ \E i \in DOMAIN raw : CountsNo(raw[i], "types") \/ LacksNothing(raw[i])
    BY <1>2, <1>7
  <2>5. \A i \in DOMAIN raw : \E c \in DOMAIN C : ItemTells(raw[i], C[c])
    BY <2>1, <2>2 DEF D
  <2>6. ItemsTellTheReports(raw, card)
    BY <2>2, <2>3, <2>4, <2>5 DEF ItemsTellTheReports, ItemTells
  <2> QED BY <2>6 DEF card, api
<1> QED BY <1>6, <1>7

(* The two pages say the same of a report.                                  *)
LEMMA BothPagesAgree ==
  ASSUME NEW raw, AreReports(raw), NEW field \in SortFields
  PROVE  PagesAgree(ShardReportsPage(ShardReports(raw), field), ReportsCard(ShardReports(raw)))
<1> DEFINE D == DOMAIN raw
           api == ShardReports(raw)
           s == InOrder(api)
           page == ShardReportsPage(api, field)
           card == ReportsCard(api)
<1>1. /\ DOMAIN api = D /\ DOMAIN s = D
      /\ \A i \in D : IsReport(raw[i]) /\ Conveys(api[i], raw[i])
      /\ \A c \in D : \E i \in D : s[c] = api[i]
  BY ReportsOnPage
<1>2. SUFFICES ASSUME ~page.throws, ~card.throws, NEW c \in DOMAIN card.items
               PROVE  /\ page.cards[c].shard = card.items[c].shard
                      /\ page.cards[c].total = card.items[c].total
                      /\ page.cards[c].free = card.items[c].free
                      /\ Same(page.cards[c].shortfalls, card.items[c].shortfalls)
                      /\ SubSeq(page.cards[c].types.listed, 1, Len(card.items[c].types.listed))
                           = card.items[c].types.listed
  BY DEF PagesAgree
<1>3. /\ ~ \E i \in DOMAIN api : CardThrows(api[i])
      /\ page.cards = [i \in DOMAIN s |-> ShardCard(s[i], field)]
  <2> DEFINE Throws == \E i \in DOMAIN api : CardThrows(api[i])
             E == api = <<>>
             R == /\ api # <<>>
                  /\ \A i \in DOMAIN api : IsNone(api[i].summary) /\ api[i].shortfalls = <<>>
             C == [i \in DOMAIN s |-> ShardCard(s[i], field)]
  <2>1. page = IF Throws THEN [throws |-> TRUE]
               ELSE [throws |-> FALSE, empty |-> E, rebuilding |-> R, cards |-> C]
    BY DEF ShardReportsPage
  <2>2. ~page.throws
    BY <1>2
  <2> HIDE DEF Throws, E, R, C, page
  <2>3. ~Throws /\ page.cards = C
    BY <2>1, <2>2
  <2> QED BY <2>3 DEF Throws, C
<1>4. card.items = [i \in DOMAIN s |-> ReportItem(s[i])]
  <2> DEFINE Throws == \E i \in DOMAIN api : ItemThrows(api[i])
             C == [i \in DOMAIN s |-> ReportItem(s[i])]
  <2>1. card = IF Throws THEN [throws |-> TRUE] ELSE [throws |-> FALSE, items |-> C]
    BY DEF ReportsCard
  <2>2. ~card.throws
    BY <1>2
  <2> HIDE DEF Throws, C, card
  <2>3. card.items = C
    BY <2>1, <2>2
  <2> QED BY <2>3 DEF C
<1> HIDE DEF page, card
<1>5. c \in D /\ c \in DOMAIN s
  BY <1>1, <1>2, <1>4
<1> HIDE DEF s, api
<1>6. PICK i \in D : s[c] = api[i]
  BY <1>1, <1>5
<1> DEFINE v == s[c]
<1>7. IsReport(raw[i]) /\ Conveys(v, raw[i]) /\ ~CardThrows(v)
  BY <1>1, <1>3, <1>6
<1>8. page.cards[c] = ShardCard(v, field) /\ card.items[c] = ReportItem(v)
  BY <1>3, <1>4, <1>5
<1> HIDE DEF v
<1>9. /\ card.items[c].shard = v.shard /\ card.items[c].total = Number(v, "total")
      /\ card.items[c].free = Number(v, "free")
      /\ card.items[c].types = Breakdown(Map(v, "types"), TopologyLists)
      /\ card.items[c].shortfalls = v.shortfalls
  BY <1>8 DEF ReportItem
<1>10. /\ page.cards[c].shard = v.shard /\ page.cards[c].total = Number(v, "total")
       /\ page.cards[c].free = Number(v, "free")
       /\ page.cards[c].types = Breakdown(Map(v, "types"), CardLists)
       /\ page.cards[c].shortfalls = SortShortfalls(v.shortfalls, field)
  BY <1>8, CardIs
<1>11. Same(SortShortfalls(v.shortfalls, field), v.shortfalls)
  <2>1. v.shortfalls \in Seq(ToSet(v.shortfalls)) /\ \A k \in DOMAIN v.shortfalls : Sortable(v.shortfalls[k])
    BY <1>7 DEF Conveys
  <2> QED BY <2>1, ShortfallsInOrder
<1>12. IsTally(Map(v, "types"))
  <2>1. ~IsNone(v.summary) => ~IsNone(v.summary["types"])
    BY <1>7 DEF CardThrows
  <2> QED BY <1>7, <2>1, MapsToList
<1>13. TopologyLists \in Nat /\ CardLists \in Nat /\ TopologyLists <= CardLists
  BY ViewAssumption
<1>14. SubSeq(Breakdown(Map(v, "types"), CardLists).listed, 1, Len(Breakdown(Map(v, "types"), TopologyLists).listed))
         = Breakdown(Map(v, "types"), TopologyLists).listed
  BY <1>12, <1>13, BreakdownsAgree
<1> QED BY <1>9, <1>10, <1>11, <1>14

(* The assignments of one key, by value: each of them once.                 *)
ByValue(q) == Sorted(q, LAMBDA a, b : ByName(a.value, b.value))
RowsOf(s, K) == ByValue(Filter(s, LAMBDA a : a.key = K))
Keyed(s, K) == {i \in DOMAIN s : s[i].key = K}
Assignment == [key : Named, value : Named, shard : Named]

RowsFrom(s, K, h) ==
  /\ h \in Bijection(DOMAIN RowsOf(s, K), Keyed(s, K))
  /\ \A k \in DOMAIN RowsOf(s, K) : RowsOf(s, K)[k] = s[h[k]]

LEMMA GroupRows ==
  ASSUME NEW s \in Seq(Assignment), NEW K
  PROVE  /\ \E h : RowsFrom(s, K, h)
         /\ \A i, j \in DOMAIN RowsOf(s, K) :
              i < j => ~ByName(RowsOf(s, K)[j].value, RowsOf(s, K)[i].value)
<1> DEFINE I == Keyed(s, K)
           kept == Kept(s, I)
           D == DOMAIN kept
           key == [i \in D |-> Rank(kept[i].value)]
           R == {p \in D \X D : \/ ByName(kept[p[1]].value, kept[p[2]].value)
                                \/ ~ByName(kept[p[2]].value, kept[p[1]].value) /\ p[1] < p[2]}
           rows == RowsOf(s, K)
<1>1. /\ kept \in Seq(Assignment)
      /\ \A k \in D : Positions(I)[k] \in I /\ kept[k] = s[Positions(I)[k]]
      /\ \A k, l \in D : k < l => Positions(I)[k] < Positions(I)[l]
  <2>1. I \in SUBSET DOMAIN s
    BY DEF Keyed
  <2> HIDE DEF I
  <2> QED BY <2>1, KeptElements
<1>2. \A i \in I : \E k \in D : Positions(I)[k] = i
  <2>1. I \in SUBSET Int /\ IsFiniteSet(I)
    <3>1. DOMAIN s = 1..Len(s) /\ Len(s) \in Nat
      OBVIOUS
    <3>2. IsFiniteSet(DOMAIN s)
      BY <3>1, UpTo
    <3>3. I \in SUBSET DOMAIN s
      BY DEF Keyed
    <3>4. IsFiniteSet(I)
      BY <3>2, <3>3, FS_Subset
    <3> QED BY <3>1, <3>3, <3>4
  <2> HIDE DEF I
  <2>2. /\ Positions(I) \in [1..Cardinality(I) -> I]
        /\ \A i \in I : \E k \in 1..Cardinality(I) : Positions(I)[k] = i
    BY <2>1, PositionsAscend
  <2>3. D = 1..Cardinality(I)
    BY <2>2 DEF Kept
  <2> QED BY <2>2, <2>3
<1>3. rows = [k \in D |-> kept[CHOOSE i \in D : Cardinality({j \in D : <<j, i>> \in R}) = k - 1]]
  <2>1. Filter(s, LAMBDA a : a.key = K) = kept
    BY Zenon DEF Filter, Kept, Positions, Arranged, Keyed
  <2>2. rows = ByValue(kept)
    BY Zenon, <2>1 DEF RowsOf
  <2>3. ByValue(kept) = [k \in D |-> kept[CHOOSE i \in D : Cardinality({j \in D : <<j, i>> \in R}) = k - 1]]
    BY DEF ByValue, Sorted
  <2> QED BY Zenon, <2>2, <2>3
<1> HIDE DEF I, kept, rows
<1>4. \A i \in D : kept[i].value \in Named
  <2>1. \A T : \A q \in Seq(T) : \A i \in DOMAIN q : q[i] \in T
    OBVIOUS
  <2>2. \A i \in D : kept[i] \in Assignment
    BY Zenon, <1>1, <2>1
  <2> QED BY <2>2 DEF Assignment
<1>5. key \in [D -> Int] /\ \A i \in D : key[i] = Rank(kept[i].value)
  BY <1>4, RankOfName
<1>6. R \subseteq D \X D
      /\ \A i, j \in D : <<i, j>> \in R <=>
           ByName(kept[i].value, kept[j].value) \/ (~ByName(kept[j].value, kept[i].value) /\ i < j)
  <2> HIDE DEF D
  <2> QED OBVIOUS
<1> HIDE DEF R, key
<1>7. \A i, j \in D : ByName(kept[i].value, kept[j].value) <=> key[i] < key[j]
  BY <1>4, <1>5, RankOfName
<1>8. \A i, j \in D : <<i, j>> \in R <=> key[i] < key[j] \/ (~(key[j] < key[i]) /\ i < j)
  <2> HIDE DEF D
  <2> QED BY <1>6, <1>7
<1>9. Arrangement(rows, kept, key)
  <2> HIDE DEF D
  <2>1. \A x, y, z : SortedBy(kept, x, y, z) => Arrangement(z, kept, x)
    BY <1>1, SortedByKey
  <2>2. SortedBy(kept, key, R, rows)
    BY <1>3, <1>5, <1>6, <1>8 DEF SortedBy, D
  <2> QED BY <2>1, <2>2
<1> DEFINE n == Len(kept)
<1>10. PICK at : /\ Permutes(at, n) /\ rows = [k \in 1..n |-> kept[at[k]]]
                 /\ \A k, l \in 1..n : k < l => key[at[k]] <= key[at[l]]
  BY <1>9 DEF Arrangement
<1>11. D = 1..n /\ n \in Nat
  BY <1>1
<1> HIDE DEF D, n
<1>12. /\ DOMAIN rows = D /\ \A k \in D : at[k] \in D /\ rows[k] = kept[at[k]]
       /\ \A x \in D : \E k \in D : at[k] = x
       /\ \A k, l \in D : at[k] = at[l] => k = l
  BY <1>10, <1>11 DEF Permutes
<1> DEFINE h == [k \in D |-> Positions(I)[at[k]]]
<1>13. h \in [D -> I] /\ \A k \in D : rows[k] = s[h[k]]
  BY <1>1, <1>12 DEF D
<1>14. \A k, l \in D : h[k] = h[l] => k = l
  <2> SUFFICES ASSUME NEW k \in D, NEW l \in D, h[k] = h[l] PROVE at[k] = at[l]
    BY <1>12
  <2>1. at[k] \in D /\ at[l] \in D /\ Positions(I)[at[k]] = Positions(I)[at[l]]
    BY <1>12
  <2>2. ~(at[k] < at[l]) /\ ~(at[l] < at[k])
    <3>1. \A x, y \in D : x < y => Positions(I)[x] < Positions(I)[y]
      BY <1>1 DEF D
    <3>2. Positions(I)[at[k]] \in Int
      <4>1. Positions(I)[at[k]] \in I
        BY <1>1, <2>1 DEF D
      <4>2. DOMAIN s \in SUBSET Int
        OBVIOUS
      <4> QED BY <4>1, <4>2 DEF I, Keyed
    <3> QED BY <2>1, <3>1, <3>2
  <2> QED BY <1>11, <2>1, <2>2
<1>15. \A i \in I : \E k \in D : h[k] = i
  <2> SUFFICES ASSUME NEW i \in I PROVE \E k \in D : h[k] = i
    OBVIOUS
  <2>1. PICK l \in D : Positions(I)[l] = i
    BY <1>2 DEF D
  <2>2. PICK k \in D : at[k] = l
    BY <1>12, <2>1
  <2> QED BY <2>1, <2>2
<1> HIDE DEF h
<1>16. h \in Bijection(DOMAIN rows, I)
  BY <1>12, <1>13, <1>14, <1>15 DEF Bijection, Injection, Surjection, IsInjective
<1>17. RowsFrom(s, K, h)
  BY <1>12, <1>13, <1>16 DEF RowsFrom, rows, I
<1>18. ASSUME NEW i \in DOMAIN rows, NEW j \in DOMAIN rows, i < j
       PROVE  ~ByName(rows[j].value, rows[i].value)
  <2>1. i \in D /\ j \in D /\ at[i] \in D /\ at[j] \in D /\ rows[i] = kept[at[i]] /\ rows[j] = kept[at[j]]
    BY <1>12, <1>18
  <2>2. key[at[i]] <= key[at[j]] /\ key[at[i]] \in Int /\ key[at[j]] \in Int
    BY <1>5, <1>10, <1>11, <1>18, <2>1
  <2>3. ByName(rows[j].value, rows[i].value) <=> key[at[j]] < key[at[i]]
    BY <1>7, <2>1
  <2> QED BY <2>2, <2>3
<1> QED BY <1>17, <1>18 DEF rows

(* The groups hold every assignment as often as it was made.                *)
HeldAsOften(a, s, groups, places) ==
  Cardinality({p \in places : groups[p[1]].rows[p[2]] = a}) = Cardinality({i \in DOMAIN s : s[i] = a})

LEMMA GroupsHoldAll ==
  ASSUME NEW s \in Seq(Assignment), NEW groups, groups = DomainsCard(s), NEW places,
         places = UNION {{g} \X DOMAIN groups[g].rows : g \in DOMAIN groups}, NEW a
  PROVE  HeldAsOften(a, s, groups, places)
<1> DEFINE S == {s[i].key : i \in DOMAIN s}
           keys == Arranged(S, ByName)
           A == {p \in places : groups[p[1]].rows[p[2]] = a}
           B == {i \in DOMAIN s : s[i] = a}
<1>1. \A T : \A q \in Seq(T) : \A i \in DOMAIN q : q[i] \in T
  OBVIOUS
<1>2. S \in SUBSET Named
  <2>1. \A i \in DOMAIN s : s[i] \in Assignment
    BY Zenon, <1>1
  <2> QED BY <2>1 DEF Assignment
<1>3. groups = [k \in DOMAIN keys |-> [key |-> keys[k], rows |-> RowsOf(s, keys[k])]]
  BY DEF DomainsCard, RowsOf, ByValue
<1> HIDE DEF S
<1>4. /\ \A x \in S : \E k \in DOMAIN keys : keys[k] = x
      /\ \A i, j \in DOMAIN keys : i # j => keys[i] # keys[j]
  BY <1>2, NamesInOrder
<1> HIDE DEF keys
<1>5. DOMAIN groups = DOMAIN keys /\ \A g \in DOMAIN keys : groups[g].rows = RowsOf(s, keys[g])
  <2>1. \A x, y : [key |-> x, rows |-> y].rows = y
    OBVIOUS
  <2>2. \A g \in DOMAIN keys : groups[g] = [key |-> keys[g], rows |-> RowsOf(s, keys[g])]
    BY <1>3
  <2> QED BY <1>3, <2>1, <2>2
<1>6. \A g \in DOMAIN keys : \E h : RowsFrom(s, keys[g], h)
  BY GroupRows
<1> DEFINE H == [g \in DOMAIN keys |-> CHOOSE h : RowsFrom(s, keys[g], h)]
<1>7. \A g \in DOMAIN keys : RowsFrom(s, keys[g], H[g])
  BY <1>6
<1> HIDE DEF H
<1>8. ASSUME NEW g \in DOMAIN keys
      PROVE  /\ H[g] \in [DOMAIN groups[g].rows -> Keyed(s, keys[g])]
             /\ \A k, l \in DOMAIN groups[g].rows : H[g][k] = H[g][l] => k = l
             /\ \A i \in Keyed(s, keys[g]) : \E k \in DOMAIN groups[g].rows : H[g][k] = i
             /\ \A k \in DOMAIN groups[g].rows : groups[g].rows[k] = s[H[g][k]]
  BY <1>5, <1>7 DEF RowsFrom, Bijection, Injection, Surjection, IsInjective
<1>9. \A p : p \in places <=> /\ p = <<p[1], p[2]>> /\ p[1] \in DOMAIN keys
                              /\ p[2] \in DOMAIN groups[p[1]].rows
  BY <1>5
<1> DEFINE m == [p \in A |-> H[p[1]][p[2]]]
<1>10. ASSUME NEW p \in A
       PROVE  /\ m[p] \in B /\ s[m[p]].key = keys[p[1]] /\ m[p] = H[p[1]][p[2]]
              /\ p = <<p[1], p[2]>> /\ p[1] \in DOMAIN keys /\ p[2] \in DOMAIN groups[p[1]].rows
  <2>1. /\ p = <<p[1], p[2]>> /\ p[1] \in DOMAIN keys /\ p[2] \in DOMAIN groups[p[1]].rows
        /\ groups[p[1]].rows[p[2]] = a
    BY <1>9
  <2>2. m[p] = H[p[1]][p[2]] /\ m[p] \in Keyed(s, keys[p[1]]) /\ s[m[p]] = a
    BY <1>8, <2>1
  <2> QED BY <2>1, <2>2 DEF Keyed
<1>11. ASSUME NEW p \in A, NEW q \in A, m[p] = m[q] PROVE p = q
  <2> DEFINE g == p[1]
             k == p[2]
             l == q[2]
  <2> HIDE DEF m, A
  <2>1. /\ g \in DOMAIN keys /\ p = <<g, k>> /\ k \in DOMAIN groups[g].rows /\ m[p] = H[g][k]
        /\ s[m[p]].key = keys[g]
    BY <1>10
  <2>2. /\ q[1] \in DOMAIN keys /\ q = <<q[1], l>> /\ l \in DOMAIN groups[q[1]].rows
        /\ m[q] = H[q[1]][l] /\ s[m[q]].key = keys[q[1]]
    BY <1>10
  <2>3. keys[g] = keys[q[1]]
    BY <1>11, <2>1, <2>2
  <2>4. g = q[1]
    BY <1>4, <2>1, <2>2, <2>3
  <2> HIDE DEF g, k, l
  <2>5. k = l
    BY <1>8, <1>11, <2>1, <2>2, <2>4
  <2> QED BY <2>1, <2>2, <2>4, <2>5
<1>12. ASSUME NEW i \in B PROVE \E p \in A : m[p] = i
  <2>1. i \in DOMAIN s /\ s[i] = a /\ s[i].key \in S
    BY DEF S
  <2>2. PICK g \in DOMAIN keys : keys[g] = s[i].key
    BY <1>4, <2>1
  <2>3. i \in Keyed(s, keys[g])
    BY <2>1, <2>2 DEF Keyed
  <2>4. PICK k \in DOMAIN groups[g].rows : H[g][k] = i
    BY <1>8, <2>3
  <2>5. groups[g].rows[k] = a
    BY <1>8, <2>1, <2>4
  <2>6. <<g, k>> \in places
    BY <1>9
  <2>7. <<g, k>> \in A
    BY <2>5, <2>6
  <2> QED BY <2>4, <2>7
<1>13. m \in [A -> B]
  BY <1>10
<1> HIDE DEF m, A, B
<1>14. m \in Bijection(A, B)
  BY <1>11, <1>12, <1>13 DEF Bijection, Injection, Surjection, IsInjective
<1>15. ExistsBijection(B, A)
  <2>1. ExistsBijection(A, B)
    BY <1>14 DEF ExistsBijection
  <2> QED BY <2>1, Fun_ExistsBijSymmetric
<1>16. IsFiniteSet(B)
  <2>1. DOMAIN s = 1..Len(s) /\ Len(s) \in Nat
    OBVIOUS
  <2>2. IsFiniteSet(DOMAIN s) /\ B \in SUBSET DOMAIN s
    BY <2>1, UpTo DEF B
  <2> QED BY <2>2, FS_Subset
<1>17. Cardinality(A) = Cardinality(B)
  BY <1>15, <1>16, FS_Bijection
<1> QED BY <1>17 DEF A, B, HeldAsOften

(* The pending instructions of the rows are part of all of them; all if     *)
(* every shard is registered.                                               *)
LEMMA PendingOfRows ==
  ASSUME NEW registry, IsRegistry(registry), NEW m, IsTally(m),
         NEW p, DOMAIN p = DOMAIN registry,
         \A i \in DOMAIN registry :
           p[i] = IF registry[i].shard \in DOMAIN m THEN m[registry[i].shard] ELSE 0
  PROVE  /\ SumFunction(p) <= SumFunction(m)
         /\ DOMAIN m \subseteq {r.shard : r \in ToSet(registry)} => SumFunction(p) = SumFunction(m)
<1> DEFINE D == DOMAIN registry
           M == DOMAIN m
           A == {i \in D : registry[i].shard \in M}
           B == {registry[i].shard : i \in A}
           k == [i \in A |-> registry[i].shard]
<1>1. Tally(m, M)
  <2>1. M \in SUBSET Named /\ \A x \in M : m[x] \in Nat
    BY DEF IsTally
  <2>2. IsFiniteSet(M)
    BY <2>1, NamesInOrder
  <2> QED BY <2>1, <2>2 DEF Tally
<1>2. B \in SUBSET M
  OBVIOUS
<1>3. IsFiniteSet(D)
  <2>1. D = 1..Len(registry) /\ Len(registry) \in Nat
    BY DEF IsRegistry
  <2> QED BY <2>1, UpTo
<1>4. \A i, j \in D : registry[i].shard = registry[j].shard => i = j
  BY DEF IsRegistry
<1>5. k \in Bijection(A, B)
  <2>1. k \in [A -> B] /\ \A y \in B : \E i \in A : k[i] = y
    OBVIOUS
  <2>2. \A i, j \in A : k[i] = k[j] => i = j
    BY <1>4
  <2> HIDE DEF k, A, B
  <2> QED BY <2>1, <2>2 DEF Bijection, Injection, Surjection, IsInjective
<1>6. \A i \in A : p[i] = m[k[i]]
  OBVIOUS
<1>7. \A i \in D \ A : p[i] = 0
  OBVIOUS
<1>8. \A i \in D : p[i] \in Nat
  <2>1. \A x \in M : m[x] \in Nat
    BY <1>1 DEF Tally
  <2> QED BY <2>1
<1>9. A \in SUBSET D
  OBVIOUS
<1>10. M \subseteq {r.shard : r \in ToSet(registry)} => B = M
  BY DEF ToSet
<1> HIDE DEF A, B, k, M, D
<1>11. Tally(m, B) /\ SumFunctionOnSet(m, B) <= SumFunctionOnSet(m, M)
  BY <1>1, <1>2, SumOfPart
<1>12. SumFunctionOnSet(p, A) = SumFunctionOnSet(m, B)
  BY <1>5, <1>6, <1>11, SumRenamed
<1>13. Tally(p, D)
  BY <1>3, <1>8 DEF Tally
<1>14. SumFunctionOnSet(p, A) = SumFunctionOnSet(p, D)
  BY <1>7, <1>9, <1>13, SumWithoutZeros
<1>15. SumFunction(p) = SumFunctionOnSet(p, D) /\ SumFunction(m) = SumFunctionOnSet(m, M)
  BY DEF SumFunction, D, M
<1>16. SumFunction(p) <= SumFunction(m)
  BY <1>11, <1>12, <1>14, <1>15
<1>17. B = M => SumFunction(p) = SumFunction(m)
  BY <1>12, <1>14, <1>15
<1> QED BY <1>10, <1>16, <1>17 DEF M

(* The colour of a heartbeat and its text, though the answer has it cut to  *)
(* whole seconds.                                                           *)
LEMMA SilenceIsRed ==
  ASSUME NEW beat \in Nat, NEW now \in Nat, NEW cut, cut = 2 * (beat \div 2)
  PROVE  /\ now - beat > Minute => HeartbeatTone(cut, now) = "red"
         /\ HeartbeatTone(cut, now) = "red" => /\ FormatRelative(cut, now)[1] # "s"
                                               /\ now - beat >= Minute - 1
<1> DEFINE age == now - cut
           In(unit) == (2 * age + unit) \div (2 * unit)
           a == In(2)
           b == In(Minute)
           c == In(60 * Minute)
           d == In(24 * (60 * Minute))
<1>1. cut \in Nat /\ cut <= beat /\ beat <= cut + 1
  OBVIOUS
<1>2. Minute = 120 /\ age \in Int
  BY <1>1 DEF Minute
<1>3. HeartbeatTone(cut, now) = IF age > Minute THEN "red" ELSE IF age > 60 THEN "amber" ELSE "muted"
  BY DEF HeartbeatTone
<1>4. FormatRelative(cut, now) =
        CASE cut <= 0 -> <<"never", 0>>
          [] cut > 0 /\ age < Minute -> <<"s", a>>
          [] cut > 0 /\ age >= Minute /\ age < 60 * Minute -> <<"m", b>>
          [] cut > 0 /\ age >= 60 * Minute /\ age < 24 * (60 * Minute) -> <<"h", c>>
          [] cut > 0 /\ age >= 24 * (60 * Minute) -> <<"d", d>>
  BY DEF FormatRelative, Hour
<1> HIDE DEF a, b, c, d, In
<1>5. now - beat > Minute => HeartbeatTone(cut, now) = "red"
  BY <1>1, <1>2, <1>3
<1>6. ASSUME HeartbeatTone(cut, now) = "red"
      PROVE  FormatRelative(cut, now)[1] # "s" /\ now - beat >= Minute - 1
  <2>1. age > Minute
    BY <1>2, <1>3, <1>6
  <2>2. now - beat >= Minute - 1
    BY <1>1, <1>2, <2>1
  <2> HIDE DEF age
  <2>3. CASE cut <= 0
    <3>1. FormatRelative(cut, now) = <<"never", 0>>
      BY <1>1, <1>4, <2>3
    <3> QED BY <2>2, <3>1
  <2>4. CASE cut > 0 /\ age < 60 * Minute
    <3>1. FormatRelative(cut, now) = <<"m", b>>
      BY <1>1, <1>2, <1>4, <2>1, <2>4
    <3> QED BY <2>2, <3>1
  <2>5. CASE cut > 0 /\ age >= 60 * Minute /\ age < 24 * (60 * Minute)
    <3>1. FormatRelative(cut, now) = <<"h", c>>
      BY <1>1, <1>2, <1>4, <2>1, <2>5
    <3> QED BY <2>2, <3>1
  <2>6. CASE cut > 0 /\ age >= 24 * (60 * Minute)
    <3>1. FormatRelative(cut, now) = <<"d", d>>
      BY <1>1, <1>2, <1>4, <2>1, <2>6
    <3> QED BY <2>2, <3>1
  <2> QED BY <1>1, <1>2, <2>3, <2>4, <2>5, <2>6
<1> QED BY <1>5, <1>6

(* The topology page tells the state of the coordinator.                    *)
IsState(in) ==
  /\ IsRegistry(in.registry) /\ (IsNone(in.prom) \/ IsTally(in.prom))
  /\ in.domains \in Seq(Assignment) /\ in.now \in Nat

LEMMA TopologyTold ==
  ASSUME NEW in, IsState(in), NEW t, t = Topology(in.registry, in.domains, in.prom)
  PROVE  TopologyTellsTheState(in, t, ShardsCard(t, in.now), DomainsCard(t.domains))
<1> DEFINE reg == in.registry
           D == DOMAIN reg
           m == IF IsNone(in.prom) THEN <<>> ELSE in.prom
           Pend(i) == IF reg[i].shard \in DOMAIN m THEN m[reg[i].shard] ELSE 0
           shards == [i \in D |-> [shard |-> reg[i].shard, beat |-> 2 * (reg[i].beat \div 2),
                                   pending |-> Pend(i)]]
           total == SumFunction(m)
           warned == IsNone(in.prom)
           rows == ShardsCard(t, in.now)
           groups == DomainsCard(t.domains)
           p == [i \in DOMAIN rows |-> rows[i].pending]
           places == UNION {{g} \X DOMAIN groups[g].rows : g \in DOMAIN groups}
<1>1. t = [pending |-> total, warned |-> warned, shards |-> shards, domains |-> in.domains]
  BY DEF Topology
<1>2. IsTally(m)
  <2>1. IsTally(<<>>)
    BY DEF IsTally
  <2> QED BY <2>1 DEF IsState
<1>3. shards = [i \in D |-> [shard |-> reg[i].shard, beat |-> 2 * (reg[i].beat \div 2), pending |-> Pend(i)]]
  OBVIOUS
<1> HIDE DEF total, shards, m
<1>4. t.pending = total /\ (t.warned <=> IsNone(in.prom)) /\ t.shards = shards /\ t.domains = in.domains
  <2> HIDE DEF warned
  <2>1. t.pending = total /\ t.warned = warned /\ t.shards = shards /\ t.domains = in.domains
    BY <1>1
  <2> QED BY <2>1 DEF warned
<1>5. /\ DOMAIN rows = D
      /\ \A i \in D : /\ rows[i].pending = Pend(i)
                      /\ rows[i].tone = HeartbeatTone(2 * (reg[i].beat \div 2), in.now)
                      /\ rows[i].text = FormatRelative(2 * (reg[i].beat \div 2), in.now)
  <2>1. rows = [i \in DOMAIN shards |->
                  [shard |-> shards[i].shard, pending |-> shards[i].pending,
                   tone |-> HeartbeatTone(shards[i].beat, in.now),
                   text |-> FormatRelative(shards[i].beat, in.now)]]
    BY <1>4 DEF ShardsCard
  <2>2. DOMAIN shards = D
    BY <1>3
  <2>3. ASSUME NEW i \in D
        PROVE  shards[i].pending = Pend(i) /\ shards[i].beat = 2 * (reg[i].beat \div 2)
    <3> DEFINE x == reg[i].shard
               y == 2 * (reg[i].beat \div 2)
               z == Pend(i)
    <3>1. shards[i] = [shard |-> x, beat |-> y, pending |-> z]
      BY <1>3
    <3> HIDE DEF x, y, z
    <3>2. shards[i].pending = z /\ shards[i].beat = y
      BY <3>1
    <3> QED BY <3>2 DEF y, z
  <2> HIDE DEF rows, Pend, D
  <2>4. DOMAIN rows = D
    BY <2>1, <2>2
  <2>5. ASSUME NEW i \in D
        PROVE  /\ rows[i].pending = shards[i].pending
               /\ rows[i].tone = HeartbeatTone(shards[i].beat, in.now)
               /\ rows[i].text = FormatRelative(shards[i].beat, in.now)
    BY <2>1, <2>2
  <2> QED BY <2>3, <2>4, <2>5
<1> HIDE DEF rows
<1>6. /\ DOMAIN p = DOMAIN reg
      /\ \A i \in DOMAIN reg : p[i] = IF reg[i].shard \in DOMAIN m THEN m[reg[i].shard] ELSE 0
  BY <1>5
<1> HIDE DEF p
<1>7. /\ SumFunction(p) <= total
      /\ DOMAIN m \subseteq {r.shard : r \in ToSet(reg)} => SumFunction(p) = total
  <2> HIDE DEF reg
  <2>1. IsRegistry(reg)
    BY DEF IsState, reg
  <2> QED BY <1>2, <1>6, <2>1, PendingOfRows DEF total
<1>8. ~IsNone(in.prom) => m = in.prom
  BY DEF m
<1>9. ASSUME NEW i \in DOMAIN rows
      PROVE  /\ in.now - reg[i].beat > Minute => rows[i].tone = "red"
             /\ rows[i].tone = "red" => /\ rows[i].text[1] # "s"
                                        /\ in.now - reg[i].beat >= Minute - 1
  <2>1. i \in D
    BY <1>5, <1>9
  <2>2. reg[i].beat \in Nat /\ in.now \in Nat
    <3>1. reg \in Seq([shard : Named, beat : Nat]) /\ in.now \in Nat
      BY DEF IsState, IsRegistry
    <3>2. \A T : \A q \in Seq(T) : \A j \in DOMAIN q : q[j] \in T
      OBVIOUS
    <3>3. reg[i] \in [shard : Named, beat : Nat]
      BY Zenon, <2>1, <3>1, <3>2
    <3> QED BY <3>1, <3>3
  <2> DEFINE beat == reg[i].beat
             now == in.now
             cut == 2 * (beat \div 2)
  <2>3. /\ now - beat > Minute => HeartbeatTone(cut, now) = "red"
        /\ HeartbeatTone(cut, now) = "red" => FormatRelative(cut, now)[1] # "s" /\ now - beat >= Minute - 1
    <3>1. beat \in Nat /\ now \in Nat
      BY <2>2
    <3> HIDE DEF beat, now
    <3> QED BY <3>1, SilenceIsRed
  <2>4. rows[i].tone = HeartbeatTone(cut, now) /\ rows[i].text = FormatRelative(cut, now)
    BY <1>5, <2>1
  <2> QED BY <2>3, <2>4
<1>10. in.domains \in Seq(Assignment) /\ groups = DomainsCard(in.domains)
  BY <1>4 DEF IsState
<1> HIDE DEF groups
<1>11. \A a : Cardinality({x \in places : groups[x[1]].rows[x[2]] = a})
                = Cardinality({i \in DOMAIN in.domains : in.domains[i] = a})
  <2> DEFINE s == in.domains
  <2>1. s \in Seq(Assignment) /\ groups = DomainsCard(s)
    BY <1>10
  <2>2. places = UNION {{g} \X DOMAIN groups[g].rows : g \in DOMAIN groups}
    OBVIOUS
  <2> HIDE DEF s, places
  <2>3. \A a : HeldAsOften(a, s, groups, places)
    BY <2>1, <2>2, GroupsHoldAll
  <2> QED BY <2>3 DEF s, HeldAsOften
<1>12. ASSUME NEW g \in DOMAIN groups, NEW i \in DOMAIN groups[g].rows, NEW j \in DOMAIN groups[g].rows, i < j
       PROVE  ~ByName(groups[g].rows[j].value, groups[g].rows[i].value)
  <2> DEFINE s == in.domains
             S == {s[x].key : x \in DOMAIN s}
             keys == Arranged(S, ByName)
  <2>1. groups = [k \in DOMAIN keys |-> [key |-> keys[k], rows |-> RowsOf(s, keys[k])]]
    BY <1>10 DEF DomainsCard, RowsOf, ByValue
  <2> HIDE DEF keys
  <2>2. groups[g].rows = RowsOf(s, keys[g])
    <3>1. \A x, y : [key |-> x, rows |-> y].rows = y
      OBVIOUS
    <3>2. groups[g] = [key |-> keys[g], rows |-> RowsOf(s, keys[g])]
      BY <2>1
    <3> QED BY <3>1, <3>2
  <2>3. s \in Seq(Assignment)
    BY <1>10
  <2> HIDE DEF s
  <2> QED BY <1>12, <2>2, <2>3, GroupRows
<1>13. TopologyTellsTheState(in, t, rows, groups)
  <2>1. SumFunction([i \in DOMAIN rows |-> rows[i].pending]) <= t.pending
    BY <1>4, <1>7 DEF p
  <2>2. IsNone(in.prom) => t.warned
    BY <1>4
  <2>3. ~IsNone(in.prom) /\ DOMAIN in.prom \subseteq {r.shard : r \in ToSet(in.registry)}
          => SumFunction([i \in DOMAIN rows |-> rows[i].pending]) = t.pending
    BY <1>4, <1>7, <1>8 DEF p
  <2>4. \A a : Cardinality({x \in UNION {{g} \X DOMAIN groups[g].rows : g \in DOMAIN groups} :
                              groups[x[1]].rows[x[2]] = a})
                 = Cardinality({i \in DOMAIN in.domains : in.domains[i] = a})
    BY <1>11
  <2> HIDE DEF places, p, D, Pend
  <2> QED BY <1>9, <1>12, <2>1, <2>2, <2>3, <2>4 DEF TopologyTellsTheState
<1> QED BY <1>13 DEF rows, groups

-----------------------------------------------------------------------------
(* What the state is once a page of the coordinator is computed.            *)
CoordInput ==
  /\ kind = "reports" =>
       /\ input \in Reporting
       /\ output.page = ShardReportsPage(ShardReports(input.reports), input.field)
       /\ output.card = ReportsCard(ShardReports(input.reports))
  /\ kind = "topology" =>
       /\ input \in Coordinators
       /\ output.answer = Topology(input.registry, input.domains, input.prom)
       /\ output.rows = ShardsCard(output.answer, input.now)
       /\ output.groups = DomainsCard(output.answer.domains)

(* ShardReports.tsx and Topology.tsx, whatever the coordinator has: exactly *)
(* the reports with an empty map break a page; otherwise every report is    *)
(* shown whole, in order, alike on both pages; the rows' pending            *)
(* instructions add up to the tile's, silence is red, and no assignment is  *)
(* lost.                                                                    *)
THEOREM CoordViewsFaithful == FiguresSpec => []CoordViewsAreFaithful
<1>1. Init => CoordInput
  BY DEF Init, CoordInput
<1>2. CoordInput /\ [Next]_figures => CoordInput'
  <2> SUFFICES ASSUME CoordInput, [Next]_figures PROVE CoordInput'
    OBVIOUS
  <2>1. CASE UNCHANGED figures
    BY <2>1 DEF CoordInput, figures
  <2>2. CASE Report
    <3>1. PICK in \in Reporting :
            Computes("reports", in, [page |-> ShardReportsPage(ShardReports(in.reports), in.field),
                                     card |-> ReportsCard(ShardReports(in.reports))])
      BY <2>2 DEF Report
    <3>2. \A x, y : [page |-> x, card |-> y].page = x /\ [page |-> x, card |-> y].card = y
      OBVIOUS
    <3>3. /\ kind' = "reports" /\ input' = in
          /\ output' = [page |-> ShardReportsPage(ShardReports(in.reports), in.field),
                        card |-> ReportsCard(ShardReports(in.reports))]
      BY <3>1 DEF Computes
    <3>4. /\ output'.page = ShardReportsPage(ShardReports(in.reports), in.field)
          /\ output'.card = ReportsCard(ShardReports(in.reports))
      BY Zenon, <3>2, <3>3
    <3> QED BY <3>3, <3>4 DEF CoordInput
  <2>3. CASE Coordinator
    <3>1. PICK in \in Coordinators :
            LET t == Topology(in.registry, in.domains, in.prom)
            IN  Computes("topology", in,
                         [answer |-> t, rows |-> ShardsCard(t, in.now), groups |-> DomainsCard(t.domains)])
      BY <2>3 DEF Coordinator
    <3> DEFINE t == Topology(in.registry, in.domains, in.prom)
    <3>2. \A x, y, z : LET r == [answer |-> x, rows |-> y, groups |-> z]
                       IN  r.answer = x /\ r.rows = y /\ r.groups = z
      OBVIOUS
    <3>3. /\ kind' = "topology" /\ input' = in
          /\ output' = [answer |-> t, rows |-> ShardsCard(t, in.now), groups |-> DomainsCard(t.domains)]
      BY <3>1 DEF Computes
    <3> HIDE DEF t
    <3>4. /\ output'.answer = t /\ output'.rows = ShardsCard(t, in.now)
          /\ output'.groups = DomainsCard(t.domains)
      BY Zenon, <3>2, <3>3
    <3> QED BY <3>3, <3>4 DEF CoordInput, t
  <2>4. CASE Next /\ ~Report /\ ~Coordinator
    <3>1. kind' # "reports" /\ kind' # "topology"
      BY <2>4 DEF Next, Walk, Compete, Verdict, Penalty, Sample, Overview, Finance, Shard, Cluster,
                  Hints, Computes
    <3> QED BY <3>1 DEF CoordInput
  <2> QED BY <2>1, <2>2, <2>3, <2>4
<1>3. CoordInput => CoordViewsAreFaithful
  <2>1. ASSUME CoordInput, kind = "reports"
        PROVE  /\ CardsTellTheReports(input.reports, input.field, output.page)
               /\ ItemsTellTheReports(input.reports, output.card)
               /\ PagesAgree(output.page, output.card)
    <3>1. /\ input \in Reporting
          /\ output.page = ShardReportsPage(ShardReports(input.reports), input.field)
          /\ output.card = ReportsCard(ShardReports(input.reports))
      BY <2>1 DEF CoordInput
    <3>2. AreReports(input.reports) /\ input.field \in SortFields
      BY <3>1, ReportingAssumption DEF AreReports
    <3> QED BY <3>1, <3>2, CardsTell, ItemsTell, BothPagesAgree
  <2>2. ASSUME CoordInput, kind = "topology"
        PROVE  TopologyTellsTheState(input, output.answer, output.rows, output.groups)
    <3>1. /\ input \in Coordinators
          /\ output.answer = Topology(input.registry, input.domains, input.prom)
          /\ output.rows = ShardsCard(output.answer, input.now)
          /\ output.groups = DomainsCard(output.answer.domains)
      BY <2>2 DEF CoordInput
    <3>2. IsState(input)
      BY <3>1, CoordinatorAssumption DEF IsState, Assignment
    <3> QED BY <3>1, <3>2, TopologyTold
  <2> QED BY <2>1, <2>2 DEF CoordViewsAreFaithful
<1> QED BY <1>1, <1>2, <1>3, PTL DEF FiguresSpec

-----------------------------------------------------------------------------
(* Sequences that list a set: each element once.  Ranked: nobody comes      *)
(* after one who does not precede.                                          *)
Lists(s, S) ==
  /\ s \in Seq(S)
  /\ \A x \in S : \E k \in DOMAIN s : s[k] = x
  /\ \A k, l \in DOMAIN s : s[k] = s[l] => k = l
Ranked(s) == \A k, l \in DOMAIN s : k < l => ~Precedes(s[l], s[k])
Needy(S) == \A n \in S : IsNeed(n)
ByPrecedence(s) == Sorted(s, Precedes)

(* A list of a set is as long as the set is large.                          *)
LEMMA ListedAreFinite ==
  ASSUME NEW S, NEW s, Lists(s, S)
  PROVE  /\ IsFiniteSet(S) /\ Cardinality(S) = Len(s)
         /\ Len(s) \in Nat /\ DOMAIN s = 1..Len(s) /\ \A k \in DOMAIN s : s[k] \in S
<1>1. s \in Seq(S)
  BY DEF Lists
<1>2. Len(s) \in Nat /\ DOMAIN s = 1..Len(s) /\ \A k \in DOMAIN s : s[k] \in S
  BY <1>1
<1> DEFINE n == Len(s)
           h == [k \in 1..n |-> s[k]]
<1>3. IsFiniteSet(1..n) /\ Cardinality(1..n) = n
  BY <1>2, UpTo
<1>4. h \in Bijection(1..n, S)
  <2>1. h \in [1..n -> S]
    BY <1>2
  <2>2. \A x \in S : \E k \in 1..n : h[k] = x
    BY <1>2 DEF Lists
  <2>3. \A k, l \in 1..n : h[k] = h[l] => k = l
    BY <1>2 DEF Lists
  <2> HIDE DEF h
  <2> QED BY <2>1, <2>2, <2>3 DEF Bijection, Injection, Surjection, IsInjective
<1> HIDE DEF h, n
<1>5. IsFiniteSet(S) /\ Cardinality(S) = Cardinality(1..n)
  <2>1. ExistsBijection(1..n, S)
    BY <1>4 DEF ExistsBijection
  <2> QED BY <1>3, <2>1, FS_Bijection
<1> QED BY <1>2, <1>3, <1>5 DEF n

(* What sorting by precedence does: it permutes, and nobody comes after one *)
(* who does not precede.                                                    *)
LEMMA PrecedenceSorts ==
  ASSUME NEW S, Needy(S), NEW s \in Seq(S)
  PROVE  \E at : /\ Permutes(at, Len(s))
                 /\ ByPrecedence(s) = [k \in 1..Len(s) |-> s[at[k]]]
                 /\ \A k, l \in 1..Len(s) : k < l => ~Precedes(s[at[l]], s[at[k]])
<1> DEFINE n == Len(s)
           D == DOMAIN s
           R == {p \in D \X D : \/ Precedes(s[p[1]], s[p[2]])
                                \/ ~Precedes(s[p[2]], s[p[1]]) /\ p[1] < p[2]}
           at == Lined(D, R)
<1>1. n \in Nat /\ D = 1..n /\ \A i \in D : s[i] \in S
  OBVIOUS
<1>2. \A i \in D : i \in Int /\ s[i].priority \in Int /\ s[i].arrival \in Int
  BY <1>1 DEF Needy, IsNeed
<1>3. IsFiniteSet(D) /\ Cardinality(D) = n
  BY <1>1, UpTo
<1>4. \A x, y : <<x, y>> \in R <=> /\ x \in D /\ y \in D
                                   /\ Precedes(s[x], s[y]) \/ (~Precedes(s[y], s[x]) /\ x < y)
  <2> HIDE DEF D
  <2> QED OBVIOUS
<1>5. ByPrecedence(s) = [k \in D |-> s[CHOOSE i \in D : Cardinality({j \in D : <<j, i>> \in R}) = k - 1]]
  BY DEF ByPrecedence, Sorted
<1>6. at = [k \in D |-> CHOOSE i \in D : Cardinality({j \in D : <<j, i>> \in R}) = k - 1]
  <2>1. at = [k \in 1..Cardinality(D) |-> CHOOSE i \in D : Cardinality({j \in D : <<j, i>> \in R}) = k - 1]
    BY Zenon DEF Lined, RankIn, SetLessThan
  <2> HIDE DEF at
  <2> QED BY <1>3, <2>1
<1> HIDE DEF R, at
<1>7. /\ \A x \in D : <<x, x>> \notin R
      /\ \A x, y, z \in D : <<x, y>> \in R /\ <<y, z>> \in R => <<x, z>> \in R
      /\ \A x, y \in D : x # y => <<x, y>> \in R \/ <<y, x>> \in R
  <2> HIDE DEF D
  <2>1. \A x \in D : <<x, x>> \notin R
    BY <1>2, <1>4 DEF Precedes
  <2>2. ASSUME NEW x \in D, NEW y \in D, NEW z \in D, <<x, y>> \in R, <<y, z>> \in R
        PROVE  <<x, z>> \in R
    <3>1. /\ Precedes(s[x], s[y]) \/ (~Precedes(s[y], s[x]) /\ x < y)
          /\ Precedes(s[y], s[z]) \/ (~Precedes(s[z], s[y]) /\ y < z)
      BY <1>4, <2>2
    <3>2. /\ x \in Int /\ y \in Int /\ z \in Int
          /\ s[x].priority \in Int /\ s[y].priority \in Int /\ s[z].priority \in Int
          /\ s[x].arrival \in Int /\ s[y].arrival \in Int /\ s[z].arrival \in Int
      BY <1>2
    <3> DEFINE a == s[x]
               b == s[y]
               c == s[z]
    <3>4. /\ a.priority \in Int /\ b.priority \in Int /\ c.priority \in Int
          /\ a.arrival \in Int /\ b.arrival \in Int /\ c.arrival \in Int
          /\ Precedes(a, b) \/ (~Precedes(b, a) /\ x < y)
          /\ Precedes(b, c) \/ (~Precedes(c, b) /\ y < z)
      BY <3>1, <3>2
    <3> HIDE DEF a, b, c
    <3>5. Precedes(a, b) => ~Precedes(b, a)
      BY <3>4 DEF Precedes
    <3>6. ~Precedes(b, a) /\ ~Precedes(c, b)
      BY <3>4 DEF Precedes
    <3>7. ~Precedes(c, a)
      BY <3>4, <3>6 DEF Precedes
    <3>10. Precedes(a, c) \/ (~Precedes(c, a) /\ x < z)
      <4>1. CASE Precedes(a, b) \/ Precedes(b, c)
        BY <3>4, <3>6, <4>1 DEF Precedes
      <4>2. CASE x < y /\ y < z
        BY <3>2, <3>7, <4>2
      <4> QED BY <3>4, <4>1, <4>2
    <3>3. Precedes(s[x], s[z]) \/ (~Precedes(s[z], s[x]) /\ x < z)
      BY <3>10 DEF a, c
    <3> QED BY <1>4, <3>3
  <2>3. ASSUME NEW x \in D, NEW y \in D, x # y PROVE <<x, y>> \in R \/ <<y, x>> \in R
    BY <1>2, <1>4, <2>3 DEF Precedes
  <2> QED BY <2>1, <2>2, <2>3
<1>8. /\ at \in [D -> D]
      /\ \A x \in D : \E k \in D : at[k] = x
      /\ \A k, l \in D : k < l => <<at[k], at[l]>> \in R
  <2> HIDE DEF D
  <2>1. /\ Lined(D, R) \in [1..Cardinality(D) -> D]
        /\ \A x \in D : \E k \in 1..Cardinality(D) : Lined(D, R)[k] = x
        /\ \A k, l \in 1..Cardinality(D) : k < l => <<Lined(D, R)[k], Lined(D, R)[l]>> \in R
    BY <1>3, <1>7, LinedUp
  <2>2. 1..Cardinality(D) = D
    BY <1>1, <1>3
  <2> QED BY <2>1, <2>2 DEF at
<1>9. \A k, l \in D : at[k] = at[l] => k = l
  <2> SUFFICES ASSUME NEW k \in D, NEW l \in D, at[k] = at[l], k # l PROVE FALSE
    OBVIOUS
  <2>1. CASE k < l
    BY <1>7, <1>8, <2>1
  <2>2. CASE l < k
    BY <1>7, <1>8, <2>2
  <2> QED BY <1>2, <2>1, <2>2
<1>10. Permutes(at, n)
  <2> HIDE DEF D
  <2> QED BY <1>1, <1>8, <1>9 DEF Permutes
<1>11. ByPrecedence(s) = [k \in D |-> s[at[k]]]
  BY <1>5, <1>6
<1>12. ASSUME NEW k \in D, NEW l \in D, k < l PROVE ~Precedes(s[at[l]], s[at[k]])
  <2> DEFINE x == at[k]
             y == at[l]
  <2>1. x \in D /\ y \in D /\ <<x, y>> \in R
    BY <1>8, <1>12
  <2> HIDE DEF x, y, D
  <2>2. Precedes(s[x], s[y]) \/ (~Precedes(s[y], s[x]) /\ x < y)
    BY <1>4, <2>1
  <2>3. /\ s[x].priority \in Int /\ s[y].priority \in Int
        /\ s[x].arrival \in Int /\ s[y].arrival \in Int
    BY <1>2, <2>1
  <2>4. ~Precedes(s[y], s[x])
    BY <2>2, <2>3 DEF Precedes
  <2> QED BY <2>4 DEF x, y
<1> QED BY <1>10, <1>11, <1>12

(* Sorted, a list is a ranked list of the same.                             *)
LEMMA ListSorted ==
  ASSUME NEW S, Needy(S), NEW s, Lists(s, S)
  PROVE  Lists(ByPrecedence(s), S) /\ Ranked(ByPrecedence(s))
<1> DEFINE t == ByPrecedence(s)
           n == Len(s)
<1>1. s \in Seq(S) /\ n \in Nat /\ DOMAIN s = 1..n /\ \A k \in 1..n : s[k] \in S
  BY ListedAreFinite DEF Lists
<1>2. PICK at : /\ Permutes(at, n) /\ t = [k \in 1..n |-> s[at[k]]]
                /\ \A k, l \in 1..n : k < l => ~Precedes(s[at[l]], s[at[k]])
  BY <1>1, PrecedenceSorts
<1> HIDE DEF t, n
<1>3. /\ at \in [1..n -> 1..n] /\ \A x \in 1..n : \E k \in 1..n : at[k] = x
      /\ \A k, l \in 1..n : at[k] = at[l] => k = l
  BY <1>2 DEF Permutes
<1>4. t \in [1..n -> S] /\ DOMAIN t = 1..n /\ \A k \in 1..n : t[k] = s[at[k]] /\ at[k] \in 1..n
  BY <1>1, <1>2, <1>3
<1>5. t \in Seq(S)
  BY <1>1, <1>4
<1>6. \A x \in S : \E k \in DOMAIN t : t[k] = x
  <2> SUFFICES ASSUME NEW x \in S PROVE \E k \in 1..n : t[k] = x
    BY <1>4
  <2>1. PICK i \in 1..n : s[i] = x
    BY <1>1 DEF Lists
  <2>2. PICK k \in 1..n : at[k] = i
    BY <1>3
  <2> QED BY <1>4, <2>1, <2>2
<1>7. \A k, l \in DOMAIN t : t[k] = t[l] => k = l
  <2> SUFFICES ASSUME NEW k \in 1..n, NEW l \in 1..n, t[k] = t[l] PROVE k = l
    BY <1>4
  <2>1. \A i, j \in 1..n : s[i] = s[j] => i = j
    BY <1>1 DEF Lists
  <2>2. at[k] \in 1..n /\ at[l] \in 1..n /\ s[at[k]] = s[at[l]]
    BY <1>4
  <2>3. at[k] = at[l]
    BY <2>1, <2>2
  <2> QED BY <1>3, <2>3
<1>8. Ranked(t)
  BY <1>2, <1>4 DEF Ranked
<1> QED BY <1>5, <1>6, <1>7, <1>8 DEF t, Lists

(* Filtered, a list is a list of what passes, as ranked as before.          *)
LEMMA ListKept ==
  ASSUME NEW S, NEW s, Lists(s, S), NEW P \in SUBSET S,
         NEW I \in SUBSET DOMAIN s, \A i \in DOMAIN s : i \in I <=> s[i] \in P
  PROVE  Lists(Kept(s, I), P) /\ (Ranked(s) => Ranked(Kept(s, I)))
<1> DEFINE t == Kept(s, I)
           at == Positions(I)
<1>1. s \in Seq(S)
  BY DEF Lists
<1>2. /\ t \in Seq(S) /\ Len(t) = Cardinality(I)
      /\ \A i \in I : \E k \in DOMAIN t : t[k] = s[i]
      /\ \A k \in DOMAIN t : at[k] \in I /\ t[k] = s[at[k]]
      /\ \A k, l \in DOMAIN t : k < l => at[k] < at[l]
  BY <1>1, KeptElements
<1>3. DOMAIN s \in SUBSET Int
  BY <1>1
<1> HIDE DEF t, at
<1>4. DOMAIN t = 1..Len(t) /\ Len(t) \in Nat
  BY <1>2
<1>5. \A k \in DOMAIN t : t[k] \in P
  BY <1>2
<1>6. t \in Seq(P)
  <2>1. t = [k \in 1..Len(t) |-> t[k]]
    BY <1>2
  <2>2. \A k \in 1..Len(t) : t[k] \in P
    BY <1>4, <1>5
  <2> QED BY <1>4, <2>1, <2>2
<1>7. \A x \in P : \E k \in DOMAIN t : t[k] = x
  <2> SUFFICES ASSUME NEW x \in P PROVE \E k \in DOMAIN t : t[k] = x
    OBVIOUS
  <2>1. PICK i \in DOMAIN s : s[i] = x
    BY DEF Lists
  <2> QED BY <1>2, <2>1
<1>8. ASSUME NEW k \in DOMAIN t, NEW l \in DOMAIN t, t[k] = t[l] PROVE k = l
  <2>1. at[k] = at[l]
    <3>1. at[k] \in DOMAIN s /\ at[l] \in DOMAIN s /\ s[at[k]] = s[at[l]]
      BY <1>2, <1>8
    <3> QED BY <3>1 DEF Lists
  <2>2. at[k] \in Int /\ k \in Int /\ l \in Int
    BY <1>2, <1>3, <1>4
  <2>3. CASE k < l
    BY <1>2, <2>1, <2>2, <2>3
  <2>4. CASE l < k
    BY <1>2, <2>1, <2>2, <2>4
  <2> QED BY <2>2, <2>3, <2>4
<1>9. Ranked(s) => Ranked(t)
  BY <1>2 DEF Ranked
<1> QED BY <1>6, <1>7, <1>8, <1>9 DEF t, Lists

-----------------------------------------------------------------------------
(* One list after another lists both sets.                                  *)
LEMMA ListsJoined ==
  ASSUME NEW S, NEW T, NEW s, NEW t, Lists(s, S), Lists(t, T), S \cap T = {}
  PROVE  Lists(s \o t, S \cup T)
<1> DEFINE U == S \cup T
           r == s \o t
           m == Len(s)
           n == Len(t)
<1>1. /\ s \in Seq(U) /\ t \in Seq(U)
      /\ m \in Nat /\ n \in Nat /\ DOMAIN s = 1..m /\ DOMAIN t = 1..n
      /\ \A k \in 1..m : s[k] \in S
      /\ \A k \in 1..n : t[k] \in T
  <2>1. s \in Seq(S) /\ t \in Seq(T)
    BY DEF Lists
  <2> QED BY <2>1
<1>2. /\ r \in Seq(U) /\ DOMAIN r = 1..(m + n)
      /\ \A k \in 1..m : r[k] = s[k]
      /\ \A k \in 1..n : r[m + k] = t[k]
  BY <1>1
<1> HIDE DEF r, m, n
<1>3. ASSUME NEW x \in U PROVE \E k \in DOMAIN r : r[k] = x
  <2>1. CASE x \in S
    <3>1. PICK k \in 1..m : s[k] = x
      BY <1>1, <2>1 DEF Lists
    <3>2. k \in 1..(m + n)
      BY <1>1
    <3> QED BY <1>2, <3>1, <3>2
  <2>2. CASE x \in T
    <3>1. PICK k \in 1..n : t[k] = x
      BY <1>1, <2>2 DEF Lists
    <3>2. m + k \in 1..(m + n)
      BY <1>1
    <3> QED BY <1>2, <3>1, <3>2
  <2> QED BY <2>1, <2>2
<1>4. ASSUME NEW k \in DOMAIN r
      PROVE  \/ k \in 1..m /\ r[k] = s[k] /\ r[k] \in S
             \/ k - m \in 1..n /\ r[k] = t[k - m] /\ r[k] \in T
  <2>1. k \in 1..m \/ (k - m \in 1..n /\ k = m + (k - m))
    BY <1>1, <1>2
  <2>2. CASE k \in 1..m
    BY <1>1, <1>2, <2>2
  <2>3. CASE k - m \in 1..n /\ k = m + (k - m)
    <3> DEFINE l == k - m
    <3>1. l \in 1..n /\ r[m + l] = t[l] /\ r[k] = r[m + l]
      BY <1>2, <2>3
    <3> QED BY <1>1, <3>1
  <2> QED BY <2>1, <2>2, <2>3
<1>5. ASSUME NEW k \in DOMAIN r, NEW l \in DOMAIN r, r[k] = r[l] PROVE k = l
  <2>1. CASE k \in 1..m /\ r[k] = s[k] /\ r[k] \in S
    <3>1. l \in 1..m /\ r[l] = s[l]
      BY <1>4, <1>5, <2>1
    <3> QED BY <1>1, <1>5, <2>1, <3>1 DEF Lists
  <2>2. CASE k - m \in 1..n /\ r[k] = t[k - m] /\ r[k] \in T
    <3>1. l - m \in 1..n /\ r[l] = t[l - m]
      BY <1>4, <1>5, <2>2
    <3>2. k - m = l - m
      BY <1>1, <1>5, <2>2, <3>1 DEF Lists
    <3>3. k \in Int /\ l \in Int
      BY <1>1, <1>2
    <3> QED BY <1>1, <3>2, <3>3
  <2> QED BY <1>4, <2>1, <2>2
<1> QED BY <1>2, <1>3, <1>5 DEF Lists, r

(* The members of a group, and the first of each cohort.                    *)
LEMMA MembersListed ==
  ASSUME NEW G, NEW q, Lists(q, G), Ranked(q), NEW fp
  PROVE  Lists(Members(q, fp), {n \in G : n.fingerprint = fp}) /\ Ranked(Members(q, fp))
<1> DEFINE I == {i \in DOMAIN q : q[i].fingerprint = fp}
           P == {n \in G : n.fingerprint = fp}
<1>1. Members(q, fp) = Kept(q, I)
  BY Zenon DEF Members, Filter, Kept, Positions, Arranged
<1>2. \A i \in DOMAIN q : q[i] \in G
  BY ListedAreFinite
<1>3. I \in SUBSET DOMAIN q /\ P \in SUBSET G /\ \A i \in DOMAIN q : i \in I <=> q[i] \in P
  BY <1>2
<1> HIDE DEF I
<1>4. Lists(Kept(q, I), P) /\ Ranked(Kept(q, I))
  <2> HIDE DEF P
  <2> QED BY <1>3, ListKept
<1> QED BY <1>1, <1>4

IsHead(q, n) == n.fingerprint \in Cohorts(q) /\ n = Members(q, n.fingerprint)[1]

LEMMA HeadsListed ==
  ASSUME NEW G, Needy(G), NEW q, Lists(q, G), Ranked(q)
  PROVE  /\ Lists(Heads(q), {n \in G : IsHead(q, n)})
         /\ \A i \in DOMAIN Heads(q) : Heads(q)[i].fingerprint \in Cohorts(q)
         /\ \A i, j \in DOMAIN Heads(q) :
              Heads(q)[i].fingerprint = Heads(q)[j].fingerprint => i = j
         /\ \A fp \in Cohorts(q) : \E i \in DOMAIN Heads(q) : Heads(q)[i].fingerprint = fp
         /\ Ranked(Heads(q))
         /\ \A i \in DOMAIN Heads(q) : Heads(q)[i] = Members(q, Heads(q)[i].fingerprint)[1]
<1> DEFINE C == Cohorts(q)
           I == {i \in DOMAIN q : /\ q[i].fingerprint \in C
                                  /\ q[i] = Members(q, q[i].fingerprint)[1]}
           P == {n \in G : IsHead(q, n)}
           h == Heads(q)
<1>1. h = ByPrecedence(Kept(q, I))
  BY Zenon DEF Heads, ByPrecedence, Filter, Kept, Positions, Arranged
<1>2. \A i \in DOMAIN q : q[i] \in G
  BY ListedAreFinite
<1>3. I \in SUBSET DOMAIN q /\ P \in SUBSET G /\ \A i \in DOMAIN q : i \in I <=> q[i] \in P
  BY <1>2 DEF IsHead
<1>4. Needy(P)
  BY DEF Needy
<1>5. \A n \in P : n.fingerprint \in C /\ n = Members(q, n.fingerprint)[1]
  BY DEF IsHead
<1>6. ASSUME NEW fp \in C PROVE Members(q, fp)[1] \in P /\ Members(q, fp)[1].fingerprint = fp
  <2> DEFINE g == Members(q, fp)
             M == {n \in G : n.fingerprint = fp}
  <2>1. Lists(g, M)
    BY MembersListed
  <2>2. Len(g) >= 2
    BY DEF Cohorts
  <2> HIDE DEF M, g, C, P
  <2>3. Len(g) \in Nat /\ DOMAIN g = 1..Len(g) /\ \A k \in DOMAIN g : g[k] \in M
    BY <2>1, ListedAreFinite
  <2>4. g[1] \in M
    BY <2>2, <2>3
  <2>5. g[1] \in G /\ g[1].fingerprint = fp
    BY <2>4 DEF M
  <2>6. IsHead(q, g[1])
    BY <2>5 DEF IsHead, g, C
  <2> QED BY <2>5, <2>6 DEF g, P
<1> HIDE DEF I, P, C, h
<1>7. Lists(h, P) /\ Ranked(h)
  <2>1. Lists(Kept(q, I), P)
    BY <1>3, ListKept
  <2> QED BY <1>1, <1>4, <2>1, ListSorted
<1>8. \A k \in DOMAIN h : h[k] \in P
  BY <1>7, ListedAreFinite
<1>9. \A i, j \in DOMAIN h : h[i].fingerprint = h[j].fingerprint => i = j
  <2> SUFFICES ASSUME NEW i \in DOMAIN h, NEW j \in DOMAIN h, h[i].fingerprint = h[j].fingerprint
               PROVE  h[i] = h[j]
    BY <1>7 DEF Lists
  <2> QED BY <1>5, <1>8
<1>10. \A fp \in C : \E i \in DOMAIN h : h[i].fingerprint = fp
  <2> SUFFICES ASSUME NEW fp \in C PROVE \E i \in DOMAIN h : h[i].fingerprint = fp
    OBVIOUS
  <2>1. PICK i \in DOMAIN h : h[i] = Members(q, fp)[1]
    BY <1>6, <1>7 DEF Lists
  <2> QED BY <1>6, <2>1
<1>11. \A i \in DOMAIN h : h[i].fingerprint \in C
  BY <1>5, <1>8
<1>12. \A i \in DOMAIN h : h[i] = Members(q, h[i].fingerprint)[1]
  BY <1>5, <1>8
<1> QED BY <1>7, <1>9, <1>10, <1>11, <1>12 DEF h, P, C

-----------------------------------------------------------------------------
(* A set of natural numbers that is not empty has a least one.              *)
LEMMA LeastOf ==
  ASSUME NEW S \in SUBSET Nat, S # {}
  PROVE  \E x \in S : \A y \in S : x <= y
<1>1. IsWellFoundedOn(OpToRel(<, Nat), Nat)
  BY NatLessThanWellFounded
<1>2. PICK x \in S : \A y \in S : <<y, x>> \notin OpToRel(<, Nat)
  BY <1>1, WFMin
<1>3. ASSUME NEW y \in S PROVE x <= y
  <2>1. x \in Nat /\ y \in Nat
    OBVIOUS
  <2>2. ~(y < x)
    BY <1>2, <2>1 DEF OpToRel
  <2> QED BY <2>1, <2>2
<1> QED BY <1>3

-----------------------------------------------------------------------------
(* Where a cohort's cut is, and where its items have a member.              *)
RowAt(g, i) == IF Cut(g) = 0 \/ i <= Cut(g) THEN i + 1 ELSE i + 2
Extra(g) == IF Cut(g) = 0 THEN 1 ELSE 2

LEMMA CutIs ==
  ASSUME NEW S, NEW g \in Seq(S)
  PROVE  /\ Cut(g) \in Nat
         /\ Cut(g) # 0 => /\ Cut(g) \in 1..(Len(g) - 1)
                          /\ g[Cut(g)].claimed > 0
                          /\ ~g[Cut(g) + 1].satisfied /\ g[Cut(g) + 1].claimed = 0
<1> DEFINE n == Len(g)
           at == {i \in 1..(n - 1) : g[i].claimed > 0 /\ ~g[i + 1].satisfied /\ g[i + 1].claimed = 0}
<1>1. n \in Nat
  OBVIOUS
<1>2. Cut(g) = IF at = {} THEN 0 ELSE Min(at)
  BY DEF Cut
<1>3. CASE at = {}
  BY <1>2, <1>3
<1>4. CASE at # {}
  <2>1. \E x \in at : \A y \in at : x <= y
    <3>1. at \in SUBSET Nat
      BY <1>1
    <3> HIDE DEF at
    <3> QED BY <1>4, <3>1, LeastOf
  <2>2. Cut(g) \in at
    <3> HIDE DEF at
    <3> QED BY <1>2, <1>4, <2>1 DEF Min
  <2> QED BY <1>1, <2>2
<1> QED BY <1>3, <1>4

(* The items of a cohort: its header, its members in order, and the line    *)
(* after the cut.                                                           *)
LEMMA ItemsOfCohort ==
  ASSUME NEW S, NEW g \in Seq(S), NEW fp
  PROVE  /\ DOMAIN CohortItems(fp, g) = 1..(Len(g) + Extra(g))
         /\ CohortItems(fp, g)[1] = Header(fp, g)
         /\ \A i \in 1..Len(g) : /\ RowAt(g, i) \in 2..(Len(g) + Extra(g))
                                 /\ CohortItems(fp, g)[RowAt(g, i)] = Row(g[i])
         /\ Cut(g) # 0 => CohortItems(fp, g)[Cut(g) + 2] = CutLine(g)
         /\ \A p \in 2..(Len(g) + Extra(g)) :
              (Cut(g) # 0 /\ p = Cut(g) + 2) \/ \E i \in 1..Len(g) : p = RowAt(g, i)
<1> DEFINE n == Len(g)
           c == Cut(g)
           rows(lo, hi) == [k \in 1..(hi - lo + 1) |-> Row(g[lo + k - 1])]
           items == CohortItems(fp, g)
           T == {Header(fp, g), CutLine(g)} \cup {Row(x) : x \in S}
<1>1. n \in Nat /\ DOMAIN g = 1..n /\ \A k \in 1..n : g[k] \in S
  OBVIOUS
<1>2. c \in Nat /\ (c # 0 => c \in 1..(n - 1))
  BY CutIs
<1>3. ASSUME NEW lo \in Nat \ {0}, NEW hi \in Nat, hi <= n, lo <= hi + 1
      PROVE  /\ rows(lo, hi) \in Seq(T) /\ Len(rows(lo, hi)) = hi - lo + 1
             /\ \A k \in 1..(hi - lo + 1) : rows(lo, hi)[k] = Row(g[lo + k - 1])
  <2>1. \A k \in 1..(hi - lo + 1) : Row(g[lo + k - 1]) \in T
    <3> SUFFICES ASSUME NEW k \in 1..(hi - lo + 1) PROVE Row(g[lo + k - 1]) \in T
      OBVIOUS
    <3>1. lo + k - 1 \in 1..n
      BY <1>1, <1>3
    <3>2. g[lo + k - 1] \in S
      BY <1>1, <3>1
    <3> QED BY <3>2
  <2>2. hi - lo + 1 \in Nat
    BY <1>3
  <2> DEFINE m == hi - lo + 1
             r == rows(lo, hi)
  <2>3. r = [k \in 1..m |-> Row(g[lo + k - 1])] /\ m \in Nat /\ \A k \in 1..m : Row(g[lo + k - 1]) \in T
    BY <2>1, <2>2
  <2> HIDE DEF T, m, r
  <2>4. r \in Seq(T) /\ Len(r) = m
    BY <2>3
  <2>5. \A k \in 1..m : r[k] = Row(g[lo + k - 1])
    BY <2>3
  <2> QED BY <2>4, <2>5 DEF m, r
<1>4. <<Header(fp, g)>> \in Seq(T) /\ <<CutLine(g)>> \in Seq(T)
  OBVIOUS
<1>5. CASE c = 0
  <2> DEFINE r == rows(1, n)
  <2>1. r \in Seq(T) /\ Len(r) = n /\ \A k \in 1..n : r[k] = Row(g[k])
    BY <1>1, <1>3
  <2>2. items = <<Header(fp, g)>> \o r
    BY <1>5 DEF CohortItems
  <2> HIDE DEF r, T, items
  <2>3. /\ DOMAIN items = 1..(n + 1)
        /\ items[1] = Header(fp, g)
        /\ \A k \in 1..n : items[k + 1] = Row(g[k])
    BY <1>1, <1>4, <2>1, <2>2
  <2> HIDE DEF n
  <2>4. \A k \in 1..n : RowAt(g, k) = k + 1
    BY <1>5 DEF RowAt
  <2>5. Extra(g) = 1
    BY <1>5 DEF Extra
  <2>6. \A k \in 1..n : RowAt(g, k) \in 2..(n + 1)
    BY <1>1, <2>4
  <2>7. ASSUME NEW p \in 2..(n + 1) PROVE \E i \in 1..n : p = RowAt(g, i)
    <3>1. p - 1 \in 1..n /\ p = (p - 1) + 1
      BY <1>1
    <3> QED BY <2>4, <3>1
  <2> QED BY <1>5, <2>3, <2>4, <2>5, <2>6, <2>7 DEF n, items
<1>6. CASE c # 0
  <2> DEFINE a == rows(1, c)
             b == rows(c + 1, n)
  <2>1. /\ a \in Seq(T) /\ Len(a) = c /\ \A k \in 1..c : a[k] = Row(g[k])
        /\ b \in Seq(T) /\ Len(b) = n - c /\ \A k \in 1..(n - c) : b[k] = Row(g[c + k])
    <3>1. c \in Nat /\ n \in Nat /\ c <= n /\ 1 <= c + 1 /\ 1 \in Nat \ {0} /\ c - 1 + 1 = c
      BY <1>1, <1>2, <1>6
    <3>2. c + 1 \in Nat \ {0} /\ n <= n /\ c + 1 <= n + 1 /\ n - (c + 1) + 1 = n - c
      BY <1>1, <1>2, <1>6
    <3>3. (\A k \in 1..c : 1 + k - 1 = k) /\ \A k \in 1..(n - c) : c + 1 + k - 1 = c + k
      BY <1>2
    <3> HIDE DEF c, n, T, rows
    <3>4. /\ rows(1, c) \in Seq(T) /\ Len(rows(1, c)) = c - 1 + 1
          /\ \A k \in 1..(c - 1 + 1) : rows(1, c)[k] = Row(g[1 + k - 1])
      BY <1>3, <3>1
    <3>5. /\ rows(c + 1, n) \in Seq(T) /\ Len(rows(c + 1, n)) = n - (c + 1) + 1
          /\ \A k \in 1..(n - (c + 1) + 1) : rows(c + 1, n)[k] = Row(g[c + 1 + k - 1])
      BY <1>3, <3>1, <3>2
    <3>6. a \in Seq(T) /\ Len(a) = c /\ \A k \in 1..c : a[k] = Row(g[k])
      <4>1. a \in Seq(T) /\ Len(a) = c
        BY <3>1, <3>4
      <4>2. ASSUME NEW k \in 1..c PROVE a[k] = Row(g[k])
        <5>1. k \in 1..(c - 1 + 1) /\ 1 + k - 1 = k
          BY <3>1, <3>3
        <5>2. rows(1, c)[k] = Row(g[1 + k - 1])
          BY <3>4, <5>1
        <5> QED BY <5>1, <5>2
      <4> QED BY <4>1, <4>2
    <3>7. b \in Seq(T) /\ Len(b) = n - c /\ \A k \in 1..(n - c) : b[k] = Row(g[c + k])
      <4>1. b \in Seq(T) /\ Len(b) = n - c
        BY <3>2, <3>5
      <4>2. ASSUME NEW k \in 1..(n - c) PROVE b[k] = Row(g[c + k])
        <5>1. k \in 1..(n - (c + 1) + 1) /\ c + 1 + k - 1 = c + k
          BY <3>2, <3>3
        <5>2. rows(c + 1, n)[k] = Row(g[c + 1 + k - 1])
          BY <3>5, <5>1
        <5> QED BY <5>1, <5>2
      <4> QED BY <4>1, <4>2
    <3> QED BY <3>6, <3>7
  <2>2. items = <<Header(fp, g)>> \o (a \o <<CutLine(g)>> \o b)
    BY <1>6 DEF CohortItems
  <2> HIDE DEF a, b, T, items, c, n
  <2>3. /\ DOMAIN items = 1..(n + 2)
        /\ items[1] = Header(fp, g)
        /\ \A k \in 1..c : items[k + 1] = a[k]
        /\ items[c + 2] = CutLine(g)
        /\ \A k \in 1..(n - c) : items[c + 2 + k] = b[k]
    <3> DEFINE u == a \o <<CutLine(g)>>
               v == u \o b
    <3>1. /\ u \in Seq(T) /\ Len(u) = c + 1
          /\ \A k \in 1..c : u[k] = a[k]
          /\ u[c + 1] = CutLine(g)
      BY <1>2, <1>4, <2>1
    <3> HIDE DEF u
    <3>2. /\ v \in Seq(T) /\ Len(v) = n + 1
          /\ \A k \in 1..(c + 1) : v[k] = u[k]
          /\ \A k \in 1..(n - c) : v[c + 1 + k] = b[k]
      <4> DEFINE d == c + 1
                 e == n - c
      <4>1. d \in Nat /\ e \in Nat /\ d + e = n + 1
        BY <1>1, <1>2, <1>6
      <4>2. u \in Seq(T) /\ Len(u) = d /\ b \in Seq(T) /\ Len(b) = e
        BY <2>1, <3>1
      <4> HIDE DEF d, e
      <4>3. /\ v \in Seq(T) /\ Len(v) = d + e
            /\ \A k \in 1..d : v[k] = u[k]
            /\ \A k \in 1..e : v[d + k] = b[k]
        BY <4>1, <4>2
      <4> HIDE DEF v
      <4> QED BY <4>1, <4>3 DEF d, e
    <3>3. items = <<Header(fp, g)>> \o v
      BY <2>2 DEF u
    <3> HIDE DEF v
    <3>4. /\ DOMAIN items = 1..(n + 2)
          /\ items[1] = Header(fp, g)
          /\ \A k \in 1..(n + 1) : items[k + 1] = v[k]
      BY <1>1, <1>4, <3>2, <3>3
    <3>5. \A k \in 1..c : k \in 1..(c + 1) /\ k \in 1..(n + 1)
      BY <1>1, <1>2, <1>6
    <3>6. c + 1 \in 1..(n + 1) /\ c + 1 \in 1..(c + 1) /\ c + 1 + 1 = c + 2
      BY <1>1, <1>2, <1>6
    <3>7. \A k \in 1..(n - c) : c + 1 + k \in 1..(n + 1) /\ c + 1 + k + 1 = c + 2 + k
      BY <1>1, <1>2, <1>6
    <3>8. \A k \in 1..c : items[k + 1] = a[k]
      BY <3>1, <3>2, <3>4, <3>5
    <3>9. items[c + 2] = CutLine(g)
      BY <3>1, <3>2, <3>4, <3>6
    <3>10. \A k \in 1..(n - c) : items[c + 2 + k] = b[k]
      BY <3>2, <3>4, <3>7
    <3> QED BY <3>4, <3>8, <3>9, <3>10
  <2>4. \A k \in 1..n : RowAt(g, k) = IF k <= c THEN k + 1 ELSE k + 2
    BY <1>6 DEF RowAt, c
  <2>5. Extra(g) = 2
    BY <1>6 DEF Extra, c
  <2>6. ASSUME NEW i \in 1..n
        PROVE  RowAt(g, i) \in 2..(n + 2) /\ items[RowAt(g, i)] = Row(g[i])
    <3>1. CASE i <= c
      <4>1. i \in 1..c /\ RowAt(g, i) = i + 1 /\ i + 1 \in 2..(n + 2)
        BY <1>1, <1>2, <2>4, <3>1
      <4> QED BY <2>1, <2>3, <4>1
    <3>2. CASE i > c
      <4> DEFINE k == i - c
      <4>1. /\ k \in 1..(n - c) /\ RowAt(g, i) = c + 2 + k /\ c + k = i
            /\ c + 2 + k \in 2..(n + 2)
        BY <1>1, <1>2, <2>4, <3>2
      <4> HIDE DEF k
      <4> QED BY <2>1, <2>3, <4>1
    <3> QED BY <1>1, <1>2, <3>1, <3>2
  <2>7. ASSUME NEW p \in 2..(n + 2), p # c + 2 PROVE \E i \in 1..n : p = RowAt(g, i)
    <3>1. CASE p < c + 2
      <4>1. p - 1 \in 1..n /\ RowAt(g, p - 1) = p
        BY <1>1, <1>2, <1>6, <2>4, <3>1
      <4> QED BY <4>1
    <3>2. CASE p > c + 2
      <4>1. p - 2 \in 1..n /\ RowAt(g, p - 2) = p
        BY <1>1, <1>2, <1>6, <2>4, <3>2
      <4> QED BY <4>1
    <3> QED BY <1>1, <1>2, <2>7, <3>1, <3>2
  <2> QED BY <1>6, <2>3, <2>5, <2>6, <2>7 DEF n, items, c
<1> QED BY <1>5, <1>6

-----------------------------------------------------------------------------
(* The blocks of a walk: m cohorts, each of all the needs of a fingerprint, *)
(* and the flat list of the others, all of them ranked; the cohorts come by *)
(* their first members.                                                     *)
Sharing(S, fp) == {n \in S : n.fingerprint = fp}
Outside(S, f, m) == {n \in S : \A b \in 1..m : n.fingerprint # f[b]}
ByFirsts(g, m) == \A b, c \in 1..m : b < c => ~Precedes(g[c][1], g[b][1])
Blocks(ss, m, f, g, flat, S) ==
  /\ m \in Nat /\ DOMAIN ss = 1..(m + 1)
  /\ \A b \in 1..m : /\ ss[b] = CohortItems(f[b], g[b])
                     /\ Len(g[b]) >= 2 /\ Ranked(g[b])
                     /\ Lists(g[b], Sharing(S, f[b]))
  /\ \A b, c \in 1..m : f[b] = f[c] => b = c
  /\ ss[m + 1] = [i \in DOMAIN flat |-> Row(flat[i])]
  /\ Lists(flat, Outside(S, f, m)) /\ Ranked(flat)
  /\ ByFirsts(g, m)

LEMMA NeedsListed ==
  ASSUME NEW needs, AreNeeds(needs)
  PROVE  Lists(needs, ToSet(needs)) /\ Needy(ToSet(needs))
<1>1. needs \in Seq(ToSet(needs)) /\ Needy(ToSet(needs))
  BY DEF AreNeeds, Needy
<1>2. \A x \in ToSet(needs) : \E k \in DOMAIN needs : needs[k] = x
  BY DEF ToSet
<1>3. \A k, l \in DOMAIN needs : needs[k] = needs[l] => k = l
  <2>1. \A i, j \in DOMAIN needs : needs[i].id = needs[j].id => i = j
    BY DEF AreNeeds
  <2> QED BY <2>1
<1> QED BY <1>1, <1>2, <1>3 DEF Lists

(* The groups: needs with a fingerprint, if one cluster is shown.           *)
LEMMA GroupsListed ==
  ASSUME NEW S, NEW s, Lists(s, S), Ranked(s), NEW several \in BOOLEAN
  PROVE  LET q == Grouped(s, several)
             G == {n \in S : n.fingerprint # "" /\ ~several}
         IN  /\ Lists(q, G) /\ Ranked(q)
             /\ \A fp \in Cohorts(q) : fp # "" /\ ~several
<1> DEFINE q == Grouped(s, several)
           G == {n \in S : n.fingerprint # "" /\ ~several}
           I == {i \in DOMAIN s : s[i].fingerprint # "" /\ ~several}
<1>1. q = Kept(s, I)
  BY Zenon DEF Grouped, Filter, Kept, Positions, Arranged
<1>2. \A i \in DOMAIN s : s[i] \in S
  BY ListedAreFinite
<1>3. I \in SUBSET DOMAIN s /\ G \in SUBSET S /\ \A i \in DOMAIN s : i \in I <=> s[i] \in G
  BY <1>2
<1>4. \A n \in G : n.fingerprint # "" /\ ~several
  OBVIOUS
<1> HIDE DEF I, G, q
<1>5. Lists(q, G) /\ Ranked(q)
  BY <1>1, <1>3, ListKept
<1>6. ASSUME NEW fp \in Cohorts(q) PROVE fp # "" /\ ~several
  <2>1. PICK i \in DOMAIN q : fp = q[i].fingerprint
    BY DEF Cohorts
  <2>2. q[i] \in G
    BY <1>5, ListedAreFinite
  <2> QED BY <1>4, <2>1, <2>2
<1> QED BY <1>5, <1>6 DEF q, G

(* The flat list: the needs outside the cohorts.                            *)
LEMMA FlatListed ==
  ASSUME NEW S, Needy(S), NEW s, Lists(s, S), Ranked(s), NEW several \in BOOLEAN
  PROVE  LET q == Grouped(s, several)
         IN  /\ Lists(Flat(s, q, several), {n \in S : n.fingerprint \notin Cohorts(q)})
             /\ Ranked(Flat(s, q, several))
<1> DEFINE q == Grouped(s, several)
           G == {n \in S : n.fingerprint # "" /\ ~several}
           C == Cohorts(q)
           A == {n \in S : n.fingerprint = "" \/ several}
           B == {n \in G : n.fingerprint \notin C}
           F == {n \in S : n.fingerprint \notin C}
           I == {i \in DOMAIN s : s[i].fingerprint = "" \/ several}
           J == {i \in DOMAIN q : q[i].fingerprint \notin C}
<1>1. Flat(s, q, several) = ByPrecedence(Kept(s, I) \o Kept(q, J))
  BY Zenon DEF Flat, ByPrecedence, Filter, Kept, Positions, Arranged
<1>2. Lists(q, G) /\ \A fp \in C : fp # "" /\ ~several
  BY GroupsListed
<1>3. \A i \in DOMAIN s : s[i] \in S
  BY ListedAreFinite
<1>4. \A i \in DOMAIN q : q[i] \in G
  <2> HIDE DEF q, G
  <2> QED BY <1>2, ListedAreFinite
<1>5. I \in SUBSET DOMAIN s /\ A \in SUBSET S /\ \A i \in DOMAIN s : i \in I <=> s[i] \in A
  BY <1>3
<1>6. J \in SUBSET DOMAIN q /\ B \in SUBSET G /\ \A i \in DOMAIN q : i \in J <=> q[i] \in B
  <2> HIDE DEF G, C, q
  <2> QED BY <1>4
<1>7. A \cap B = {}
  OBVIOUS
<1>8. F = A \cup B
  <2> HIDE DEF C, q
  <2> QED BY <1>2
<1>9. Needy(F)
  <2> HIDE DEF C
  <2> QED BY DEF Needy
<1> HIDE DEF A, B, C, F, G, I, J, q
<1>10. Lists(Kept(s, I), A) /\ Lists(Kept(q, J), B)
  BY <1>2, <1>5, <1>6, ListKept
<1>11. Lists(Kept(s, I) \o Kept(q, J), F)
  BY <1>7, <1>8, <1>10, ListsJoined
<1>12. Lists(Flat(s, q, several), F) /\ Ranked(Flat(s, q, several))
  BY <1>1, <1>9, <1>11, ListSorted
<1> QED BY <1>12 DEF F, C, q

LEMMA WalkBlocks ==
  ASSUME NEW needs, AreNeeds(needs), NEW several \in BOOLEAN
  PROVE  \E ss, m, f, g, flat :
           Blocks(ss, m, f, g, flat, ToSet(needs)) /\ BuildWalk(needs, several) = Flattened(ss)
<1> DEFINE S == ToSet(needs)
           s == ByPrecedence(needs)
           q == Grouped(s, several)
           G == {n \in S : n.fingerprint # "" /\ ~several}
           C == Cohorts(q)
           heads == Heads(q)
           flat == Flat(s, q, several)
           m == Len(heads)
           f == [b \in DOMAIN heads |-> heads[b].fingerprint]
           g == [b \in DOMAIN heads |-> Members(q, heads[b].fingerprint)]
           items == [b \in DOMAIN heads |->
                       CohortItems(heads[b].fingerprint, Members(q, heads[b].fingerprint))]
           rows == [i \in DOMAIN flat |-> Row(flat[i])]
           ss == Append(items, rows)
<1>1. BuildWalk(needs, several) = Flattened(ss)
  BY DEF BuildWalk, ByPrecedence
<1>2. Lists(needs, S) /\ Needy(S)
  BY NeedsListed
<1> HIDE DEF S, s
<1>3. Lists(s, S) /\ Ranked(s)
  BY <1>2, ListSorted DEF s
<1>4. Lists(q, G) /\ Ranked(q) /\ \A fp \in C : fp # "" /\ ~several
  BY <1>3, GroupsListed
<1>5. \A fp : fp # "" /\ ~several => {n \in G : n.fingerprint = fp} = {n \in S : n.fingerprint = fp}
  OBVIOUS
<1>6. Needy(G)
  BY <1>2 DEF Needy
<1>7. Lists(flat, {n \in S : n.fingerprint \notin C}) /\ Ranked(flat)
  BY <1>2, <1>3, FlatListed
<1> HIDE DEF q, G, flat, C, heads
<1>8. /\ Lists(heads, {n \in G : IsHead(q, n)})
      /\ \A i \in DOMAIN heads : heads[i].fingerprint \in C
      /\ \A i, j \in DOMAIN heads : heads[i].fingerprint = heads[j].fingerprint => i = j
      /\ \A fp \in C : \E i \in DOMAIN heads : heads[i].fingerprint = fp
      /\ Ranked(heads)
      /\ \A i \in DOMAIN heads : heads[i] = Members(q, heads[i].fingerprint)[1]
  BY <1>4, <1>6, HeadsListed DEF heads, C
<1>9. m \in Nat /\ DOMAIN heads = 1..m
  BY <1>8, ListedAreFinite
<1> HIDE DEF rows
<1>10. /\ DOMAIN ss = 1..(m + 1) /\ ss[m + 1] = rows
       /\ \A b \in 1..m : ss[b] = CohortItems(heads[b].fingerprint, Members(q, heads[b].fingerprint))
  <2> DEFINE T == {items[b] : b \in 1..m} \cup {rows}
  <2> HIDE DEF m
  <2>1. items \in [1..m -> T] /\ rows \in T
    BY <1>9
  <2>2. \A b \in 1..m : items[b] = CohortItems(heads[b].fingerprint, Members(q, heads[b].fingerprint))
    BY <1>9
  <2> HIDE DEF items, T
  <2>3. items \in Seq(T) /\ Len(items) = m
    BY <1>9, <2>1
  <2>4. /\ Append(items, rows) \in Seq(T) /\ Len(Append(items, rows)) = m + 1
        /\ \A b \in 1..m : Append(items, rows)[b] = items[b]
        /\ Append(items, rows)[m + 1] = rows
    BY <2>1, <2>3, AppendProperties
  <2> QED BY <1>9, <2>2, <2>4
<1> HIDE DEF ss, m
<1>11. \A b \in 1..m : f[b] = heads[b].fingerprint /\ g[b] = Members(q, f[b])
  BY <1>9
<1> HIDE DEF f, g
<1>12. ASSUME NEW b \in 1..m
       PROVE  /\ ss[b] = CohortItems(f[b], g[b])
              /\ Len(g[b]) >= 2 /\ Ranked(g[b])
              /\ Lists(g[b], {n \in S : n.fingerprint = f[b]})
  <2>1. f[b] \in C
    BY <1>8, <1>9, <1>11
  <2>2. Len(Members(q, f[b])) >= 2
    BY <2>1 DEF C, Cohorts
  <2>3. Lists(Members(q, f[b]), {n \in G : n.fingerprint = f[b]}) /\ Ranked(Members(q, f[b]))
    BY <1>4, MembersListed
  <2>4. {n \in G : n.fingerprint = f[b]} = {n \in S : n.fingerprint = f[b]}
    BY <1>4, <1>5, <2>1
  <2> QED BY <1>10, <1>11, <2>2, <2>3, <2>4
<1>13. \A b, c \in 1..m : f[b] = f[c] => b = c
  BY <1>8, <1>9, <1>11
<1>14. {n \in S : n.fingerprint \notin C} = {n \in S : \A b \in 1..m : n.fingerprint # f[b]}
  <2>1. \A fp : fp \in C <=> \E b \in 1..m : fp = f[b]
    BY <1>8, <1>9, <1>11
  <2> QED BY <2>1
<1>15. Blocks(ss, m, f, g, flat, S)
  <2>1. \A b \in 1..m : Lists(g[b], Sharing(S, f[b]))
    BY <1>12 DEF Sharing
  <2>2. Lists(flat, Outside(S, f, m))
    BY <1>7, <1>14 DEF Outside
  <2>3. ByFirsts(g, m)
    <3>1. \A b \in 1..m : g[b][1] = heads[b]
      BY <1>8, <1>9, <1>11
    <3> QED BY <1>8, <1>9, <3>1 DEF ByFirsts, Ranked
  <2> QED BY <1>7, <1>9, <1>10, <1>12, <1>13, <2>1, <2>2, <2>3 DEF Blocks, rows
<1> QED BY <1>1, <1>15 DEF S

-----------------------------------------------------------------------------
(* The places of sequences laid one after the other: at[k] is the place of  *)
(* the k-th element.                                                        *)
Places(ss) == UNION {{b} \X DOMAIN ss[b] : b \in DOMAIN ss}
Lex(p, q) == p[1] < q[1] \/ (p[1] = q[1] /\ p[2] < q[2])

AreSequences(ss, n) == /\ n \in Nat /\ DOMAIN ss = 1..n
                       /\ \A b \in 1..n : \E l \in Nat : DOMAIN ss[b] = 1..l

LaidOut(at, size, ss, t) ==
  /\ size \in Nat /\ at \in [1..size -> Places(ss)]
  /\ \A p \in Places(ss) : \E k \in 1..size : at[k] = p
  /\ \A k, l \in 1..size : k < l => Lex(at[k], at[l])
  /\ t = [k \in 1..size |-> ss[at[k][1]][at[k][2]]]

LEMMA PlacesAre ==
  ASSUME NEW ss, NEW n, AreSequences(ss, n)
  PROVE  /\ IsFiniteSet(Places(ss))
         /\ \A p : p \in Places(ss) <=> \E b \in 1..n : \E i \in DOMAIN ss[b] : p = <<b, i>>
         /\ \A p \in Places(ss) : /\ p = <<p[1], p[2]>> /\ p[1] \in Int /\ p[2] \in Int
                                  /\ p[1] \in 1..n /\ p[2] \in DOMAIN ss[p[1]]
<1> DEFINE D == DOMAIN ss
           one == [b \in D |-> {b} \X DOMAIN ss[b]]
           all == {one[b] : b \in D}
<1>1. n \in Nat /\ D = 1..n /\ \A b \in 1..n : \E l \in Nat : DOMAIN ss[b] = 1..l
  BY DEF AreSequences
<1>2. IsFiniteSet(D)
  BY <1>1, UpTo
<1>3. Places(ss) = UNION all
  BY DEF Places
<1>4. IsFiniteSet(all)
  <2>1. one \in Surjection(D, all)
    BY DEF Surjection
  <2> HIDE DEF one, all, D
  <2> QED BY <1>2, <2>1, FS_Surjection
<1>5. ASSUME NEW T \in all PROVE IsFiniteSet(T)
  <2>1. PICK b \in D : T = {b} \X DOMAIN ss[b]
    OBVIOUS
  <2>2. PICK l \in Nat : DOMAIN ss[b] = 1..l
    BY <1>1, <2>1
  <2>3. IsFiniteSet({b}) /\ IsFiniteSet(1..l)
    BY <2>2, FS_Singleton, UpTo
  <2> QED BY <2>1, <2>2, <2>3, FS_Product
<1>6. IsFiniteSet(Places(ss))
  <2> HIDE DEF all
  <2> QED BY <1>3, <1>4, <1>5, FS_UNION
<1>7. \A p : p \in Places(ss) <=> \E b \in 1..n : \E i \in DOMAIN ss[b] : p = <<b, i>>
  BY <1>1 DEF Places
<1>8. ASSUME NEW p \in Places(ss)
      PROVE  /\ p = <<p[1], p[2]>> /\ p[1] \in Int /\ p[2] \in Int
             /\ p[1] \in 1..n /\ p[2] \in DOMAIN ss[p[1]]
  <2>4. PICK b \in 1..n : \E i \in DOMAIN ss[b] : p = <<b, i>>
    BY <1>7
  <2>1. PICK i \in DOMAIN ss[b] : p = <<b, i>>
    BY <2>4
  <2>2. p[1] = b /\ p[2] = i
    BY <2>1
  <2>3. i \in Int /\ b \in Int
    BY <1>1
  <2> QED BY <2>1, <2>2, <2>3
<1> QED BY <1>6, <1>7, <1>8

LEMMA FlattenedIsLaidOut ==
  ASSUME NEW ss, NEW n, AreSequences(ss, n)
  PROVE  \E at, size : LaidOut(at, size, ss, Flattened(ss))
<1> DEFINE S == Places(ss)
           R == {p \in S \X S : Lex(p[1], p[2])}
           Before(x) == Cardinality({y \in S : Lex(y, x)})
           size == Cardinality(S)
           L == Arranged(S, Lex)
<1>1. IsFiniteSet(S) /\ \A p \in S : p = <<p[1], p[2]>> /\ p[1] \in Int /\ p[2] \in Int
  BY PlacesAre
<1>2. L = [k \in 1..size |-> CHOOSE x \in S : Before(x) = k - 1]
  BY DEF Arranged
<1>3. Flattened(ss) = [k \in DOMAIN L |-> ss[L[k][1]][L[k][2]]]
  BY Zenon DEF Flattened, Places, Lex, Arranged
<1>4. \A x, y : <<x, y>> \in R <=> x \in S /\ y \in S /\ Lex(x, y)
  OBVIOUS
<1> HIDE DEF S, R, L
<1>5. /\ \A x \in S : <<x, x>> \notin R
      /\ \A x, y, z \in S : <<x, y>> \in R /\ <<y, z>> \in R => <<x, z>> \in R
      /\ \A x, y \in S : x # y => <<x, y>> \in R \/ <<y, x>> \in R
  <2>1. \A x \in S : ~Lex(x, x)
    BY <1>1 DEF Lex
  <2>2. \A x, y, z \in S : Lex(x, y) /\ Lex(y, z) => Lex(x, z)
    BY <1>1 DEF Lex
  <2>3. ASSUME NEW x \in S, NEW y \in S, x # y PROVE Lex(x, y) \/ Lex(y, x)
    <3>1. /\ x[1] \in Int /\ x[2] \in Int /\ y[1] \in Int /\ y[2] \in Int
          /\ x = <<x[1], x[2]>> /\ y = <<y[1], y[2]>>
      BY <1>1
    <3>2. x[1] # y[1] \/ x[2] # y[2]
      BY <2>3, <3>1
    <3> QED BY <3>1, <3>2 DEF Lex
  <2> QED BY <1>4, <2>1, <2>2, <2>3
<1>6. \A x \in S : RankIn(x, R, S) = Before(x)
  <2> SUFFICES ASSUME NEW x \in S PROVE SetLessThan(x, R, S) = {y \in S : Lex(y, x)}
    BY DEF RankIn
  <2> QED BY <1>4 DEF SetLessThan
<1>7. Lined(S, R) = [k \in 1..size |-> CHOOSE x \in S : RankIn(x, R, S) = k - 1]
  BY DEF Lined
<1> HIDE DEF Before
<1>8. /\ \A x, y \in S : RankIn(x, R, S) = RankIn(y, R, S) => x = y
      /\ \A i \in 0..(size - 1) : \E x \in S : RankIn(x, R, S) = i
  BY <1>1, <1>5, Ranks
<1>15. IsFiniteSet(S)
  BY <1>1
<1>9. /\ size \in Nat
      /\ Lined(S, R) \in [1..size -> S]
      /\ \A x \in S : \E k \in 1..size : Lined(S, R)[k] = x
      /\ \A i, j \in 1..size : i < j => <<Lined(S, R)[i], Lined(S, R)[j]>> \in R
  BY <1>5, <1>15, LinedUp
<1> HIDE DEF size
<1>10. L = Lined(S, R)
  <2> SUFFICES ASSUME NEW k \in 1..size PROVE L[k] = Lined(S, R)[k]
    BY <1>2, <1>7
  <2>1. k - 1 \in 0..(size - 1)
    BY <1>9
  <2>2. PICK x \in S : RankIn(x, R, S) = k - 1
    BY <1>8, <2>1
  <2>3. L[k] \in S /\ Before(L[k]) = k - 1
    BY <1>2, <1>6, <2>2
  <2>4. Lined(S, R)[k] \in S /\ RankIn(Lined(S, R)[k], R, S) = k - 1
    BY <1>7, <2>2
  <2> QED BY <1>6, <1>8, <2>3, <2>4
<1>11. DOMAIN L = 1..size
  BY <1>2
<1>12. Flattened(ss) = [k \in 1..size |-> ss[L[k][1]][L[k][2]]]
  BY <1>3, <1>11
<1>13. \A i, j \in 1..size : i < j => Lex(L[i], L[j])
  BY <1>4, <1>9, <1>10
<1>14. LaidOut(L, size, ss, Flattened(ss))
  BY <1>9, <1>10, <1>12, <1>13 DEF LaidOut, S
<1> QED BY <1>14

(* No place comes twice, an earlier position has an earlier place.          *)
LEMMA PlacesOnce ==
  ASSUME NEW ss, NEW n, AreSequences(ss, n), NEW at, NEW size, NEW t, LaidOut(at, size, ss, t)
  PROVE  /\ \A k, l \in 1..size : at[k] = at[l] => k = l
         /\ \A k, l \in 1..size : Lex(at[k], at[l]) => k < l
<1>1. /\ size \in Nat /\ \A k \in 1..size : at[k] \in Places(ss)
      /\ \A k, l \in 1..size : k < l => Lex(at[k], at[l])
  BY DEF LaidOut
<1>2. \A k \in 1..size : k \in Int /\ at[k][1] \in Int /\ at[k][2] \in Int
  BY <1>1, PlacesAre
<1>3. ASSUME NEW k \in 1..size, NEW l \in 1..size, Lex(at[k], at[l]) PROVE ~Lex(at[l], at[k]) /\ at[k] # at[l]
  BY <1>2, <1>3 DEF Lex
<1>4. ASSUME NEW k \in 1..size, NEW l \in 1..size PROVE k < l \/ k = l \/ l < k
  BY <1>2
<1> QED BY <1>1, <1>3, <1>4

(* What is one place further in a sequence is one position further.         *)
LEMMA OneFurther ==
  ASSUME NEW ss, NEW n, AreSequences(ss, n), NEW at, NEW size, NEW t, LaidOut(at, size, ss, t),
         NEW b \in 1..n, NEW i \in DOMAIN ss[b], i + 1 \in DOMAIN ss[b],
         NEW k \in 1..size, at[k] = <<b, i>>
  PROVE  k + 1 \in 1..size /\ at[k + 1] = <<b, i + 1>>
<1>1. /\ size \in Nat /\ \A l \in 1..size : at[l] \in Places(ss)
      /\ \A p \in Places(ss) : \E l \in 1..size : at[l] = p
      /\ \A l, j \in 1..size : l < j => Lex(at[l], at[j])
  BY DEF LaidOut
<1>2. i \in Int /\ b \in Int
  <2>1. PICK l \in Nat : DOMAIN ss[b] = 1..l
    BY DEF AreSequences
  <2>2. n \in Nat
    BY DEF AreSequences
  <2> QED BY <2>1, <2>2
<1>3. <<b, i + 1>> \in Places(ss)
  BY PlacesAre
<1>4. PICK l \in 1..size : at[l] = <<b, i + 1>>
  BY <1>1, <1>3
<1>5. k < l
  <2>1. Lex(at[k], at[l])
    BY <1>2, <1>4 DEF Lex
  <2> QED BY <2>1, PlacesOnce
<1>6. k + 1 \in 1..size /\ k + 1 <= l /\ k < k + 1
  BY <1>1, <1>5
<1>7. ASSUME k + 1 < l PROVE FALSE
  <2> DEFINE x == at[k + 1]
  <2>1. Lex(at[k], x) /\ Lex(x, at[l]) /\ x \in Places(ss)
    BY <1>1, <1>6, <1>7
  <2>2. x[1] \in Int /\ x[2] \in Int
    BY <2>1, PlacesAre
  <2> HIDE DEF x
  <2>3. Lex(<<b, i>>, x) /\ Lex(x, <<b, i + 1>>)
    BY <1>4, <2>1
  <2> QED BY <1>2, <2>2, <2>3 DEF Lex
<1>8. k + 1 = l
  BY <1>1, <1>6, <1>7
<1> QED BY <1>4, <1>6, <1>8

(* A sequence that is not empty is a stretch of the whole.                  *)
IsStretch(at, size, b, h, l) == \A i \in 1..l : h + i - 1 \in 1..size /\ at[h + i - 1] = <<b, i>>

LEMMA StretchOf ==
  ASSUME NEW ss, NEW n, AreSequences(ss, n), NEW at, NEW size, NEW t, LaidOut(at, size, ss, t),
         NEW b \in 1..n, NEW l \in Nat, DOMAIN ss[b] = 1..l,
         NEW h \in 1..size, at[h] = <<b, 1>>
  PROVE  IsStretch(at, size, b, h, l)
<1> DEFINE Bad1(i) == ~(h + i - 1 \in 1..size /\ at[h + i - 1] = <<b, i>>)
           B == {i \in 1..l : Bad1(i)}
<1> SUFFICES ASSUME B # {} PROVE FALSE
  BY DEF IsStretch
<1>1. B \in SUBSET Nat
  OBVIOUS
<1>2. \E i \in B : \A j \in B : i <= j
  <2> HIDE DEF B
  <2> QED BY <1>1, LeastOf
<1>3. PICK i \in B : \A j \in B : i <= j
  BY <1>2
<1>4. i \in 1..l /\ Bad1(i)
  OBVIOUS
<1>5. h \in Int /\ size \in Nat
  BY DEF LaidOut
<1>6. i # 1
  <2>1. h + 1 - 1 = h
    BY <1>5
  <2> QED BY <1>4, <2>1
<1> DEFINE j == i - 1
<1>7. j \in 1..l /\ j + 1 = i /\ j < i
  BY <1>4, <1>6
<1>8. ~Bad1(j)
  <2>1. j \notin B
    <3>1. j \in Int /\ i \in Int /\ ~(i <= j)
      BY <1>4, <1>7
    <3> HIDE DEF B, j
    <3> QED BY <1>3, <3>1
  <2> QED BY <1>7, <2>1
<1> DEFINE k == h + j - 1
<1>9. k \in 1..size /\ at[k] = <<b, j>>
  BY <1>8
<1>10. k + 1 \in 1..size /\ at[k + 1] = <<b, j + 1>>
  <2>1. j \in DOMAIN ss[b] /\ j + 1 \in DOMAIN ss[b]
    BY <1>4, <1>7
  <2> HIDE DEF k, j, B
  <2> QED BY <1>9, <2>1, OneFurther
<1>11. k + 1 = h + i - 1
  BY <1>4, <1>5
<1> QED BY <1>4, <1>7, <1>10, <1>11

-----------------------------------------------------------------------------
(* What is at the places of a walk.                                         *)
LEMMA RowsGrow ==
  ASSUME NEW S, NEW g \in Seq(S), NEW i \in Nat, NEW j \in Nat
  PROVE  /\ RowAt(g, i) \in Nat
         /\ RowAt(g, i) < RowAt(g, j) <=> i < j
         /\ RowAt(g, i) = RowAt(g, j) <=> i = j
<1>1. Cut(g) \in Nat
  BY CutIs
<1> QED BY <1>1 DEF RowAt

LEMMA Kinds ==
  ASSUME NEW fp, NEW g, NEW n
  PROVE  /\ Header(fp, g).kind = "header" /\ CutLine(g).kind = "cutline"
         /\ Row(n).kind = "row" /\ Row(n).need = n
         /\ Header(fp, g).count = Len(g) /\ CutLine(g).below = Len(g) - Cut(g)
  BY DEF Header, CutLine, Row

LEMMA CohortListed ==
  ASSUME NEW ss, NEW m, NEW f, NEW g, NEW flat, NEW S, Blocks(ss, m, f, g, flat, S), NEW b \in 1..m
  PROVE  /\ g[b] \in Seq(Sharing(S, f[b]))
         /\ Len(g[b]) \in Nat /\ Len(g[b]) >= 2 /\ DOMAIN g[b] = 1..Len(g[b])
         /\ ss[b] = CohortItems(f[b], g[b])
         /\ DOMAIN ss[b] = 1..(Len(g[b]) + Extra(g[b])) /\ Len(g[b]) + Extra(g[b]) \in Nat
<1>1. /\ ss[b] = CohortItems(f[b], g[b]) /\ Len(g[b]) >= 2
      /\ Lists(g[b], Sharing(S, f[b]))
  BY DEF Blocks
<1> DEFINE T == Sharing(S, f[b])
           q == g[b]
<1>2. q \in Seq(T) /\ Len(q) \in Nat /\ DOMAIN q = 1..Len(q)
  <2> HIDE DEF T
  <2> QED BY <1>1, ListedAreFinite DEF Lists, T
<1>3. DOMAIN CohortItems(f[b], q) = 1..(Len(q) + Extra(q))
  BY <1>2, ItemsOfCohort
<1>5. Extra(q) \in Nat
  BY DEF Extra
<1>4. Len(q) + Extra(q) \in Nat
  <2> HIDE DEF q
  <2> QED BY <1>2, <1>5
<1> QED BY <1>1, <1>2, <1>3, <1>4

LEMMA BlocksAreSequences ==
  ASSUME NEW ss, NEW m, NEW f, NEW g, NEW flat, NEW S, Blocks(ss, m, f, g, flat, S)
  PROVE  /\ AreSequences(ss, m + 1) /\ m \in Nat /\ DOMAIN ss[m + 1] = DOMAIN flat
         /\ DOMAIN flat = 1..Len(flat) /\ Len(flat) \in Nat
<1>1. /\ m \in Nat /\ DOMAIN ss = 1..(m + 1) /\ ss[m + 1] = [i \in DOMAIN flat |-> Row(flat[i])]
      /\ Lists(flat, Outside(S, f, m))
  BY DEF Blocks
<1>2. Len(flat) \in Nat /\ DOMAIN flat = 1..Len(flat)
  <2> DEFINE F == Outside(S, f, m)
  <2>1. Lists(flat, F)
    BY <1>1
  <2> HIDE DEF F
  <2> QED BY <2>1, ListedAreFinite
<1>3. DOMAIN ss[m + 1] = DOMAIN flat
  BY <1>1
<1>4. ASSUME NEW b \in 1..(m + 1) PROVE \E l \in Nat : DOMAIN ss[b] = 1..l
  <2>1. CASE b \in 1..m
    <3>1. DOMAIN ss[b] = 1..(Len(g[b]) + Extra(g[b])) /\ Len(g[b]) + Extra(g[b]) \in Nat
      BY <2>1, CohortListed
    <3> QED BY <3>1
  <2>2. CASE b = m + 1
    BY <1>2, <1>3, <2>2
  <2> QED BY <1>1, <2>1, <2>2
<1>5. AreSequences(ss, m + 1)
  BY <1>1, <1>4 DEF AreSequences
<1> QED BY <1>1, <1>2, <1>3, <1>5

LEMMA ItemAt ==
  ASSUME NEW ss, NEW m, NEW f, NEW g, NEW flat, NEW S, Blocks(ss, m, f, g, flat, S),
         NEW b \in 1..(m + 1), NEW p \in DOMAIN ss[b]
  PROVE  \/ b \in 1..m /\ p = 1 /\ ss[b][p] = Header(f[b], g[b])
         \/ b \in 1..m /\ Cut(g[b]) # 0 /\ p = Cut(g[b]) + 2 /\ ss[b][p] = CutLine(g[b])
         \/ b \in 1..m /\ \E i \in 1..Len(g[b]) : p = RowAt(g[b], i) /\ ss[b][p] = Row(g[b][i])
         \/ b = m + 1 /\ ss[b][p] = Row(flat[p])
<1>1. m \in Nat /\ DOMAIN ss[m + 1] = DOMAIN flat
  BY BlocksAreSequences
<1>2. CASE b = m + 1
  <2>1. ss[m + 1] = [i \in DOMAIN flat |-> Row(flat[i])]
    BY DEF Blocks
  <2> QED BY <1>1, <1>2, <2>1
<1>3. CASE b \in 1..m
  <2> DEFINE q == g[b]
             T == Sharing(S, f[b])
             items == CohortItems(f[b], q)
  <2>1. /\ q \in Seq(T) /\ Len(q) \in Nat
        /\ ss[b] = items /\ DOMAIN items = 1..(Len(q) + Extra(q)) /\ Len(q) + Extra(q) \in Nat
    <3>1. /\ g[b] \in Seq(Sharing(S, f[b])) /\ Len(g[b]) \in Nat
          /\ ss[b] = CohortItems(f[b], g[b])
          /\ DOMAIN ss[b] = 1..(Len(g[b]) + Extra(g[b])) /\ Len(g[b]) + Extra(g[b]) \in Nat
      BY <1>3, CohortListed
    <3> QED BY <3>1
  <2> HIDE DEF T, q
  <2>2. /\ items[1] = Header(f[b], q)
        /\ \A i \in 1..Len(q) : items[RowAt(q, i)] = Row(q[i])
        /\ Cut(q) # 0 => items[Cut(q) + 2] = CutLine(q)
        /\ \A x \in 2..(Len(q) + Extra(q)) :
             (Cut(q) # 0 /\ x = Cut(q) + 2) \/ \E i \in 1..Len(q) : x = RowAt(q, i)
    BY <2>1, ItemsOfCohort
  <2> HIDE DEF items
  <2>3. p = 1 \/ p \in 2..(Len(q) + Extra(q))
    BY <2>1
  <2>4. \/ p = 1 /\ ss[b][p] = Header(f[b], q)
        \/ Cut(q) # 0 /\ p = Cut(q) + 2 /\ ss[b][p] = CutLine(q)
        \/ \E i \in 1..Len(q) : p = RowAt(q, i) /\ ss[b][p] = Row(q[i])
    BY <2>1, <2>2, <2>3
  <2> QED BY <1>3, <2>4 DEF q
<1> QED BY <1>1, <1>2, <1>3

(* A walk of the needs S: its blocks, laid out.                             *)
IsWalk(t, S, ss, m, f, g, flat, at, size) ==
  Blocks(ss, m, f, g, flat, S) /\ LaidOut(at, size, ss, t)

(* Whose row is at a position.                                              *)
InCohort(t, g, at, m, k, b, i) ==
  /\ b \in 1..m /\ i \in 1..Len(g[b]) /\ at[k] = <<b, RowAt(g[b], i)>> /\ t[k].need = g[b][i]
InFlat(t, flat, at, m, k, i) ==
  /\ i \in DOMAIN flat /\ at[k] = <<m + 1, i>> /\ t[k].need = flat[i]

LEMMA PositionsOfWalk ==
  ASSUME NEW t, NEW S, NEW ss, NEW m, NEW f, NEW g, NEW flat, NEW at, NEW size,
         IsWalk(t, S, ss, m, f, g, flat, at, size), NEW k \in 1..size
  PROVE  /\ t[k].kind = "row" => \/ \E b \in 1..m : \E i \in 1..Len(g[b]) : InCohort(t, g, at, m, k, b, i)
                                 \/ \E i \in DOMAIN flat : InFlat(t, flat, at, m, k, i)
         /\ t[k].kind = "header" => \E b \in 1..m : at[k] = <<b, 1>> /\ t[k] = Header(f[b], g[b])
         /\ t[k].kind = "cutline" => \E b \in 1..m : /\ Cut(g[b]) # 0 /\ at[k] = <<b, Cut(g[b]) + 2>>
                                                     /\ t[k] = CutLine(g[b])
<1>1. Blocks(ss, m, f, g, flat, S) /\ LaidOut(at, size, ss, t)
  BY DEF IsWalk
<1>2. AreSequences(ss, m + 1) /\ DOMAIN ss[m + 1] = DOMAIN flat
  BY <1>1, BlocksAreSequences
<1> DEFINE b == at[k][1]
           p == at[k][2]
<1>3. /\ at[k] = <<b, p>> /\ b \in 1..(m + 1) /\ p \in DOMAIN ss[b] /\ t[k] = ss[b][p]
  <2>1. at[k] \in Places(ss) /\ t[k] = ss[b][p]
    BY <1>1 DEF LaidOut
  <2> QED BY <1>2, <2>1, PlacesAre
<1> HIDE DEF b, p
<1>4. \/ b \in 1..m /\ p = 1 /\ ss[b][p] = Header(f[b], g[b])
      \/ b \in 1..m /\ Cut(g[b]) # 0 /\ p = Cut(g[b]) + 2 /\ ss[b][p] = CutLine(g[b])
      \/ b \in 1..m /\ \E i \in 1..Len(g[b]) : p = RowAt(g[b], i) /\ ss[b][p] = Row(g[b][i])
      \/ b = m + 1 /\ ss[b][p] = Row(flat[p])
  BY <1>1, <1>3, ItemAt
<1>5. CASE b \in 1..m /\ p = 1 /\ ss[b][p] = Header(f[b], g[b])
  <2>1. t[k].kind = "header"
    BY <1>3, <1>5, Kinds
  <2> QED BY <1>3, <1>5, <2>1
<1>6. CASE b \in 1..m /\ Cut(g[b]) # 0 /\ p = Cut(g[b]) + 2 /\ ss[b][p] = CutLine(g[b])
  <2>1. t[k].kind = "cutline"
    <3>1. t[k] = CutLine(g[b])
      BY <1>3, <1>6
    <3> QED BY <3>1 DEF CutLine
  <2> QED BY <1>3, <1>6, <2>1
<1>7. CASE b \in 1..m /\ \E i \in 1..Len(g[b]) : p = RowAt(g[b], i) /\ ss[b][p] = Row(g[b][i])
  <2>1. PICK i \in 1..Len(g[b]) : p = RowAt(g[b], i) /\ ss[b][p] = Row(g[b][i])
    BY <1>7
  <2>2. t[k].kind = "row" /\ t[k].need = g[b][i]
    BY <1>3, <2>1, Kinds
  <2>3. InCohort(t, g, at, m, k, b, i)
    BY <1>3, <1>7, <2>1, <2>2 DEF InCohort
  <2> QED BY <1>7, <2>2, <2>3
<1>8. CASE b = m + 1 /\ ss[b][p] = Row(flat[p])
  <2>1. t[k].kind = "row" /\ t[k].need = flat[p]
    BY <1>3, <1>8, Kinds
  <2>2. p \in DOMAIN flat /\ at[k] = <<m + 1, p>>
    BY <1>2, <1>3, <1>8
  <2>3. InFlat(t, flat, at, m, k, p)
    BY <2>1, <2>2 DEF InFlat
  <2> QED BY <2>1, <2>2, <2>3
<1> QED BY <1>4, <1>5, <1>6, <1>7, <1>8

-----------------------------------------------------------------------------
(* Every need has one row.                                                  *)
LEMMA MembersOfBlocks ==
  ASSUME NEW ss, NEW m, NEW f, NEW g, NEW flat, NEW S, Blocks(ss, m, f, g, flat, S)
  PROVE  /\ \A b \in 1..m : \A i \in 1..Len(g[b]) : g[b][i] \in S /\ g[b][i].fingerprint = f[b]
         /\ \A b \in 1..m : \A i, j \in 1..Len(g[b]) : g[b][i] = g[b][j] => i = j
         /\ \A i \in DOMAIN flat : flat[i] \in S /\ \A b \in 1..m : flat[i].fingerprint # f[b]
         /\ \A i, j \in DOMAIN flat : flat[i] = flat[j] => i = j
         /\ \A n \in S : \/ \E b \in 1..m : \E i \in 1..Len(g[b]) : g[b][i] = n
                         \/ \E i \in DOMAIN flat : flat[i] = n
<1>1. ASSUME NEW b \in 1..m
      PROVE  /\ Lists(g[b], Sharing(S, f[b])) /\ DOMAIN g[b] = 1..Len(g[b])
             /\ \A i \in 1..Len(g[b]) : g[b][i] \in Sharing(S, f[b])
  <2>1. Lists(g[b], Sharing(S, f[b]))
    BY DEF Blocks
  <2> QED BY <2>1, ListedAreFinite
<1>2. /\ Lists(flat, Outside(S, f, m)) /\ DOMAIN flat = 1..Len(flat)
      /\ \A i \in DOMAIN flat : flat[i] \in Outside(S, f, m)
  <2>1. Lists(flat, Outside(S, f, m))
    BY DEF Blocks
  <2> QED BY <2>1, ListedAreFinite
<1>3. \A b \in 1..m : \A i \in 1..Len(g[b]) : g[b][i] \in S /\ g[b][i].fingerprint = f[b]
  BY <1>1 DEF Sharing
<1>4. \A b \in 1..m : \A i, j \in 1..Len(g[b]) : g[b][i] = g[b][j] => i = j
  BY <1>1 DEF Lists
<1>5. \A i \in DOMAIN flat : flat[i] \in S /\ \A b \in 1..m : flat[i].fingerprint # f[b]
  BY <1>2 DEF Outside
<1>6. \A i, j \in DOMAIN flat : flat[i] = flat[j] => i = j
  BY <1>2 DEF Lists
<1>7. ASSUME NEW n \in S
      PROVE  \/ \E b \in 1..m : \E i \in 1..Len(g[b]) : g[b][i] = n
             \/ \E i \in DOMAIN flat : flat[i] = n
  <2>1. CASE \E b \in 1..m : n.fingerprint = f[b]
    <3>1. PICK b \in 1..m : n.fingerprint = f[b]
      BY <2>1
    <3>2. n \in Sharing(S, f[b])
      BY <3>1 DEF Sharing
    <3>3. PICK i \in DOMAIN g[b] : g[b][i] = n
      BY <1>1, <3>2 DEF Lists
    <3> QED BY <1>1, <3>3
  <2>2. CASE \A b \in 1..m : n.fingerprint # f[b]
    <3>1. n \in Outside(S, f, m)
      BY <2>2 DEF Outside
    <3> QED BY <1>2, <3>1 DEF Lists
  <2> QED BY <2>1, <2>2
<1> QED BY <1>3, <1>4, <1>5, <1>6, <1>7

LEMMA RowOfNeed ==
  ASSUME NEW t, NEW S, NEW ss, NEW m, NEW f, NEW g, NEW flat, NEW at, NEW size,
         IsWalk(t, S, ss, m, f, g, flat, at, size), NEW n \in S
  PROVE  \E k \in 1..size : t[k].kind = "row" /\ t[k].need = n
<1>1. Blocks(ss, m, f, g, flat, S) /\ LaidOut(at, size, ss, t)
  BY DEF IsWalk
<1>2. AreSequences(ss, m + 1) /\ m \in Nat /\ DOMAIN ss[m + 1] = DOMAIN flat
  BY <1>1, BlocksAreSequences
<1>3. ASSUME NEW b \in 1..(m + 1), NEW p \in DOMAIN ss[b], ss[b][p] = Row(n)
      PROVE  \E k \in 1..size : t[k].kind = "row" /\ t[k].need = n
  <2>1. <<b, p>> \in Places(ss)
    BY <1>2, PlacesAre
  <2>2. PICK k \in 1..size : at[k] = <<b, p>>
    BY <1>1, <2>1 DEF LaidOut
  <2>3. t[k] = ss[at[k][1]][at[k][2]]
    BY <1>1 DEF LaidOut
  <2>4. t[k] = Row(n)
    BY <1>3, <2>2, <2>3
  <2> QED BY <2>4, Kinds
<1>4. ASSUME NEW b \in 1..m, NEW i \in 1..Len(g[b]), g[b][i] = n
      PROVE  \E k \in 1..size : t[k].kind = "row" /\ t[k].need = n
  <2> DEFINE q == g[b]
             T == Sharing(S, f[b])
  <2>1. q \in Seq(T) /\ ss[b] = CohortItems(f[b], q) /\ Len(q) \in Nat
    BY <1>1, CohortListed
  <2> HIDE DEF q, T
  <2>2. /\ DOMAIN CohortItems(f[b], q) = 1..(Len(q) + Extra(q))
        /\ \A x \in 1..Len(q) : /\ RowAt(q, x) \in 2..(Len(q) + Extra(q))
                                /\ CohortItems(f[b], q)[RowAt(q, x)] = Row(q[x])
    BY <2>1, ItemsOfCohort
  <2>3. i \in 1..Len(q) /\ q[i] = n
    BY <1>4 DEF q
  <2>4. RowAt(q, i) \in DOMAIN ss[b] /\ ss[b][RowAt(q, i)] = Row(n)
    <3>1. \A l, x : x \in 2..l => x \in 1..l
      OBVIOUS
    <3> QED BY <2>1, <2>2, <2>3, <3>1
  <2>5. b \in 1..(m + 1)
    BY <1>2
  <2> QED BY <1>3, <2>4, <2>5
<1>5. ASSUME NEW i \in DOMAIN flat, flat[i] = n
      PROVE  \E k \in 1..size : t[k].kind = "row" /\ t[k].need = n
  <2>1. ss[m + 1] = [j \in DOMAIN flat |-> Row(flat[j])]
    BY <1>1 DEF Blocks
  <2>2. m + 1 \in 1..(m + 1) /\ i \in DOMAIN ss[m + 1] /\ ss[m + 1][i] = Row(n)
    BY <1>2, <1>5, <2>1
  <2> QED BY <1>3, <2>2
<1> QED BY <1>1, <1>4, <1>5, MembersOfBlocks

LEMMA RowsOnce ==
  ASSUME NEW t, NEW S, NEW ss, NEW m, NEW f, NEW g, NEW flat, NEW at, NEW size,
         IsWalk(t, S, ss, m, f, g, flat, at, size)
  PROVE  /\ \A k \in 1..size : t[k].kind = "row" => t[k].need \in S
         /\ \A k, l \in 1..size : t[k].kind = "row" /\ t[l].kind = "row" /\ t[k].need = t[l].need => k = l
<1>1. Blocks(ss, m, f, g, flat, S) /\ LaidOut(at, size, ss, t)
  BY DEF IsWalk
<1>2. /\ \A b \in 1..m : \A i \in 1..Len(g[b]) : g[b][i] \in S /\ g[b][i].fingerprint = f[b]
      /\ \A b \in 1..m : \A i, j \in 1..Len(g[b]) : g[b][i] = g[b][j] => i = j
      /\ \A i \in DOMAIN flat : flat[i] \in S /\ \A b \in 1..m : flat[i].fingerprint # f[b]
      /\ \A i, j \in DOMAIN flat : flat[i] = flat[j] => i = j
  BY <1>1, MembersOfBlocks
<1>3. \A b, c \in 1..m : f[b] = f[c] => b = c
  BY <1>1 DEF Blocks
<1>4. AreSequences(ss, m + 1)
  BY <1>1, BlocksAreSequences
<1>5. ASSUME NEW k \in 1..size, t[k].kind = "row"
      PROVE  \/ \E b \in 1..m : \E i \in 1..Len(g[b]) : InCohort(t, g, at, m, k, b, i)
             \/ \E i \in DOMAIN flat : InFlat(t, flat, at, m, k, i)
  BY <1>5, PositionsOfWalk
<1>6. ASSUME NEW k \in 1..size, t[k].kind = "row" PROVE t[k].need \in S
  BY <1>2, <1>5, <1>6 DEF InCohort, InFlat
<1>7. ASSUME NEW k \in 1..size, NEW l \in 1..size, t[k].kind = "row", t[l].kind = "row", t[k].need = t[l].need
      PROVE  k = l
  <2>1. at[k] = at[l]
    <3>1. CASE \E b \in 1..m : \E i \in 1..Len(g[b]) : InCohort(t, g, at, m, k, b, i)
      <4>1. PICK b \in 1..m : \E i \in 1..Len(g[b]) : InCohort(t, g, at, m, k, b, i)
        BY <3>1
      <4>2. PICK i \in 1..Len(g[b]) : InCohort(t, g, at, m, k, b, i)
        BY <4>1
      <4>3. t[k].need.fingerprint = f[b]
        BY <1>2, <4>2 DEF InCohort
      <4>4. PICK c \in 1..m : \E j \in 1..Len(g[c]) : InCohort(t, g, at, m, l, c, j)
        BY <1>2, <1>5, <1>7, <4>3 DEF InFlat
      <4>5. PICK j \in 1..Len(g[c]) : InCohort(t, g, at, m, l, c, j)
        BY <4>4
      <4>6. b = c
        BY <1>2, <1>3, <1>7, <4>3, <4>5 DEF InCohort
      <4>7. i = j
        BY <1>2, <1>7, <4>2, <4>5, <4>6 DEF InCohort
      <4> QED BY <4>2, <4>5, <4>6, <4>7 DEF InCohort
    <3>2. CASE \E i \in DOMAIN flat : InFlat(t, flat, at, m, k, i)
      <4>1. PICK i \in DOMAIN flat : InFlat(t, flat, at, m, k, i)
        BY <3>2
      <4>2. \A b \in 1..m : t[k].need.fingerprint # f[b]
        BY <1>2, <4>1 DEF InFlat
      <4>3. PICK j \in DOMAIN flat : InFlat(t, flat, at, m, l, j)
        BY <1>2, <1>5, <1>7, <4>2 DEF InCohort
      <4>4. i = j
        BY <1>2, <1>7, <4>1, <4>3 DEF InFlat
      <4> QED BY <4>1, <4>3, <4>4 DEF InFlat
    <3> QED BY <1>5, <1>7, <3>1, <3>2
  <2> QED BY <1>1, <1>4, <2>1, PlacesOnce
<1> QED BY <1>6, <1>7

LEMMA NoNeedIsLost ==
  ASSUME NEW needs, AreNeeds(needs), NEW t, NEW ss, NEW m, NEW f, NEW g, NEW flat, NEW at, NEW size,
         IsWalk(t, ToSet(needs), ss, m, f, g, flat, at, size)
  PROVE  EveryNeedHasItsRow(needs, t)
<1> DEFINE S == ToSet(needs)
           D == 1..size
           rows == {j \in D : t[j].kind = "row"}
           h == [j \in rows |-> t[j].need]
<1>1. DOMAIN t = D /\ size \in Nat
  BY DEF IsWalk, LaidOut
<1>2. /\ \A k \in D : t[k].kind = "row" => t[k].need \in S
      /\ \A k, l \in D : t[k].kind = "row" /\ t[l].kind = "row" /\ t[k].need = t[l].need => k = l
  BY RowsOnce
<1>3. \A n \in S : \E k \in D : t[k].kind = "row" /\ t[k].need = n
  BY RowOfNeed
<1>4. IsFiniteSet(rows)
  <2>1. rows \in SUBSET D /\ IsFiniteSet(D)
    BY <1>1, UpTo
  <2> HIDE DEF rows, D
  <2> QED BY <2>1, FS_Subset
<1>5. h \in Bijection(rows, S)
  <2> HIDE DEF D, S
  <2>1. h \in [rows -> S]
    BY <1>2
  <2>2. \A k, l \in rows : h[k] = h[l] => k = l
    BY <1>2
  <2>3. \A n \in S : \E k \in rows : h[k] = n
    BY <1>3
  <2> HIDE DEF h, rows
  <2> QED BY <2>1, <2>2, <2>3 DEF Bijection, Injection, Surjection, IsInjective
<1>6. Lists(needs, S)
  BY NeedsListed
<1>7. \A i \in DOMAIN needs : needs[i] \in S
  BY DEF ToSet
<1>8. \A i \in DOMAIN needs : \E j \in rows : t[j].need = needs[i]
  <2> HIDE DEF D, S
  <2> QED BY <1>3, <1>7
<1> HIDE DEF h, S
<1>9. Cardinality(rows) = Len(needs)
  <2> HIDE DEF rows
  <2>1. ExistsBijection(rows, S)
    BY <1>5 DEF ExistsBijection
  <2>2. Cardinality(S) = Cardinality(rows)
    BY <1>4, <2>1, FS_Bijection
  <2> QED BY <1>6, <2>2, ListedAreFinite
<1>10. {j \in DOMAIN t : t[j].kind = "row"} = rows
  BY <1>1
<1> HIDE DEF rows
<1> QED BY <1>8, <1>9, <1>10 DEF EveryNeedHasItsRow

-----------------------------------------------------------------------------
(* A block in the table: its header, its first member under the header, and *)
(* no member further down than the header's count and the cut-line tell.    *)
IsBlockAt(t, f, g, at, size, b, h) ==
  /\ at[h] = <<b, 1>> /\ t[h].kind = "header"
  /\ t[h].fingerprint = f[b] /\ t[h].count = Len(g[b])
  /\ h + 1 \in 1..size /\ at[h + 1] = <<b, 2>> /\ t[h + 1].need = g[b][1]
  /\ \A k \in 1..size : \A i \in 1..Len(g[b]) :
       at[k] = <<b, RowAt(g[b], i)>> => k \in h..(h + Len(g[b]) + 1)

LEMMA BlockInTable ==
  ASSUME NEW t, NEW S, NEW ss, NEW m, NEW f, NEW g, NEW flat, NEW at, NEW size,
         IsWalk(t, S, ss, m, f, g, flat, at, size), NEW b \in 1..m
  PROVE  \E h \in 1..size : IsBlockAt(t, f, g, at, size, b, h)
<1> DEFINE q == g[b]
           n == Len(q)
           e == n + Extra(q)
           T == Sharing(S, f[b])
<1>1. Blocks(ss, m, f, g, flat, S) /\ LaidOut(at, size, ss, t)
  BY DEF IsWalk
<1>2. AreSequences(ss, m + 1) /\ m \in Nat
  BY <1>1, BlocksAreSequences
<1>3. /\ q \in Seq(T) /\ n \in Nat /\ n >= 2 /\ ss[b] = CohortItems(f[b], q)
      /\ DOMAIN ss[b] = 1..e /\ e \in Nat
  BY <1>1, CohortListed
<1>4. e = n + 1 \/ e = n + 2
  BY DEF Extra
<1>5. b \in 1..(m + 1) /\ b \in Int /\ size \in Nat
  BY <1>1, <1>2 DEF LaidOut
<1>6. Cut(q) \in Nat
  BY <1>3, CutIs
<1>7. /\ ss[b][1] = Header(f[b], q)
      /\ \A i \in 1..n : RowAt(q, i) \in 2..e /\ ss[b][RowAt(q, i)] = Row(q[i])
  BY <1>3, ItemsOfCohort
<1>8. RowAt(q, 1) = 2
  BY <1>6 DEF RowAt
<1> HIDE DEF n, e, q, T
<1>9. 1 \in 1..n /\ 1 \in 1..e /\ 2 \in 1..e
  BY <1>3, <1>4
<1>10. PICK h \in 1..size : at[h] = <<b, 1>>
  <2>1. <<b, 1>> \in Places(ss)
    BY <1>2, <1>3, <1>5, <1>9, PlacesAre
  <2> QED BY <1>1, <2>1 DEF LaidOut
<1>11. \A i \in 1..e : h + i - 1 \in 1..size /\ at[h + i - 1] = <<b, i>>
  <2> DEFINE last == m + 1
  <2>1. AreSequences(ss, last) /\ b \in 1..last /\ LaidOut(at, size, ss, t)
    BY <1>1, <1>2, <1>5
  <2> HIDE DEF last
  <2>2. IsStretch(at, size, b, h, e)
    BY <1>3, <1>10, <2>1, StretchOf
  <2> QED BY <2>2 DEF IsStretch
<1>12. h \in Int
  BY <1>5
<1>13. t[h] = Header(f[b], q)
  <2>1. t[h] = ss[at[h][1]][at[h][2]]
    BY <1>1 DEF LaidOut
  <2> QED BY <1>7, <1>10, <2>1
<1>14. t[h].kind = "header" /\ t[h].fingerprint = f[b] /\ t[h].count = n
  BY <1>13 DEF Header, n
<1>15. h + 1 \in 1..size /\ at[h + 1] = <<b, 2>>
  <2>1. h + 2 - 1 = h + 1
    BY <1>12
  <2>2. h + 2 - 1 \in 1..size /\ at[h + 2 - 1] = <<b, 2>>
    BY <1>9, <1>11
  <2> QED BY <2>1, <2>2
<1>16. t[h + 1].need = q[1]
  <2> DEFINE k == h + 1
  <2>1. k \in 1..size /\ at[k] = <<b, 2>>
    BY <1>15
  <2> HIDE DEF k
  <2>2. t[k] = ss[at[k][1]][at[k][2]]
    BY <1>1, <2>1 DEF LaidOut
  <2>3. t[k] = ss[b][2]
    BY <2>1, <2>2
  <2>4. t[k] = Row(q[1])
    BY <1>7, <1>8, <1>9, <2>3
  <2>5. t[k].need = q[1]
    BY <2>4, Kinds
  <2> QED BY <2>5 DEF k
<1>17. ASSUME NEW k \in 1..size, NEW i \in 1..n, at[k] = <<b, RowAt(q, i)>>
       PROVE  k \in h..(h + n + 1)
  <2> DEFINE p == RowAt(q, i)
             l == h + p - 1
  <2>1. p \in 1..e /\ p \in Int
    <3>1. p \in 2..e
      BY <1>7
    <3> HIDE DEF p
    <3> QED BY <3>1
  <2>2. l \in 1..size /\ at[l] = <<b, p>>
    <3> HIDE DEF p
    <3> QED BY <1>11, <2>1
  <2>3. k = l
    <3>1. at[k] = at[l]
      BY <1>17, <2>2
    <3> HIDE DEF l, p
    <3> QED BY <1>1, <1>2, <2>2, <3>1, PlacesOnce
  <2> HIDE DEF p
  <2> QED BY <1>3, <1>4, <1>12, <2>1, <2>3
<1>18. IsBlockAt(t, f, g, at, size, b, h)
  BY <1>10, <1>14, <1>15, <1>16, <1>17 DEF IsBlockAt, n, q
<1> QED BY <1>18

(* The rows of a cohort, and those of the flat list, are ranked.            *)
LEMMA RowsInLine ==
  ASSUME NEW t, NEW S, NEW ss, NEW m, NEW f, NEW g, NEW flat, NEW at, NEW size,
         IsWalk(t, S, ss, m, f, g, flat, at, size),
         NEW k \in 1..size, NEW l \in 1..size, k < l
  PROVE  /\ \A b, i, j : InCohort(t, g, at, m, k, b, i) /\ InCohort(t, g, at, m, l, b, j)
                         => ~Precedes(t[l].need, t[k].need)
         /\ \A i, j : InFlat(t, flat, at, m, k, i) /\ InFlat(t, flat, at, m, l, j)
                      => ~Precedes(t[l].need, t[k].need)
<1>1. Blocks(ss, m, f, g, flat, S) /\ LaidOut(at, size, ss, t)
  BY DEF IsWalk
<1>2. DOMAIN flat = 1..Len(flat) /\ Len(flat) \in Nat /\ m \in Nat
  BY <1>1, BlocksAreSequences
<1>3. Lex(at[k], at[l])
  BY <1>1 DEF LaidOut
<1>4. ASSUME NEW b, NEW i, NEW j, InCohort(t, g, at, m, k, b, i), InCohort(t, g, at, m, l, b, j)
      PROVE  ~Precedes(t[l].need, t[k].need)
  <2> DEFINE q == g[b]
             x == RowAt(q, i)
             y == RowAt(q, j)
  <2>1. b \in 1..m
    BY <1>4 DEF InCohort
  <2>2. /\ q \in Seq(Sharing(S, f[b])) /\ Len(q) \in Nat /\ DOMAIN q = 1..Len(q) /\ Ranked(q)
    <3>1. q \in Seq(Sharing(S, f[b])) /\ Len(q) \in Nat /\ DOMAIN q = 1..Len(q)
      BY <1>1, <2>1, CohortListed
    <3>2. Ranked(q)
      BY <1>1, <2>1 DEF Blocks
    <3> QED BY <3>1, <3>2
  <2>3. /\ i \in 1..Len(q) /\ j \in 1..Len(q)
        /\ at[k] = <<b, x>> /\ at[l] = <<b, y>> /\ t[k].need = q[i] /\ t[l].need = q[j]
    BY <1>4 DEF InCohort
  <2> HIDE DEF q, x, y
  <2>4. i \in Nat /\ j \in Nat
    BY <2>2, <2>3
  <2>5. x < y <=> i < j
    BY <2>2, <2>4, RowsGrow DEF x, y
  <2>6. b \in Int
    BY <1>2, <2>1
  <2>7. x < y
    BY <1>3, <2>3, <2>6 DEF Lex
  <2> QED BY <2>2, <2>3, <2>5, <2>7 DEF Ranked
<1>5. ASSUME NEW i, NEW j, InFlat(t, flat, at, m, k, i), InFlat(t, flat, at, m, l, j)
      PROVE  ~Precedes(t[l].need, t[k].need)
  <2>1. /\ i \in DOMAIN flat /\ j \in DOMAIN flat
        /\ at[k] = <<m + 1, i>> /\ at[l] = <<m + 1, j>> /\ t[k].need = flat[i] /\ t[l].need = flat[j]
    BY <1>5 DEF InFlat
  <2>2. i < j
    BY <1>2, <1>3, <2>1 DEF Lex
  <2>3. Ranked(flat)
    BY <1>1 DEF Blocks
  <2> QED BY <2>1, <2>2, <2>3 DEF Ranked
<1> QED BY <1>4, <1>5

(* A cohort's rows stand in line under its header, the cohorts come by their*)
(* first members, and all the other rows are one tail in line, whatever     *)
(* their profiles.                                                          *)
LEMMA StretchesInOrder ==
  ASSUME NEW t, NEW S, NEW ss, NEW m, NEW f, NEW g, NEW flat, NEW at, NEW size,
         IsWalk(t, S, ss, m, f, g, flat, at, size)
  PROVE  StretchesAreOrdered(t)
<1> DEFINE D == 1..size
           Block(b, h) == IsBlockAt(t, f, g, at, size, b, h)
           Member(k, b, i) == InCohort(t, g, at, m, k, b, i)
           InTail(k, i) == InFlat(t, flat, at, m, k, i)
<1>1. Blocks(ss, m, f, g, flat, S) /\ LaidOut(at, size, ss, t)
  BY DEF IsWalk
<1>2. /\ \A b \in 1..m : \A i \in 1..Len(g[b]) : g[b][i].fingerprint = f[b]
      /\ \A i \in DOMAIN flat : \A b \in 1..m : flat[i].fingerprint # f[b]
  BY <1>1, MembersOfBlocks
<1>3. (\A b, c \in 1..m : f[b] = f[c] => b = c) /\ ByFirsts(g, m)
  BY <1>1 DEF Blocks
<1>4. AreSequences(ss, m + 1) /\ m \in Nat
  BY <1>1, BlocksAreSequences
<1>5. /\ size \in Nat /\ DOMAIN t = D
      /\ \A k, l \in D : k < l => Lex(at[k], at[l])
  BY <1>1 DEF LaidOut
<1>6. /\ \A k, l \in D : at[k] = at[l] => k = l
      /\ \A k, l \in D : Lex(at[k], at[l]) => k < l
  BY <1>1, <1>4, PlacesOnce
<1>7. \A b \in 1..m : \E h \in D : Block(b, h)
  BY BlockInTable
<1>8. ASSUME NEW h \in D, t[h].kind = "header" PROVE \E b \in 1..m : Block(b, h)
  <2>1. PICK b \in 1..m : at[h] = <<b, 1>>
    BY <1>8, PositionsOfWalk
  <2>2. PICK k \in D : Block(b, k)
    BY <1>7
  <2>3. at[k] = <<b, 1>>
    BY <2>2 DEF IsBlockAt
  <2>4. h = k
    BY <1>6, <2>1, <2>3
  <2> QED BY <2>2, <2>4
<1>9. ASSUME NEW k \in D, t[k].kind = "row"
      PROVE  (\E b \in 1..m : \E i \in 1..Len(g[b]) : Member(k, b, i)) \/ \E i \in DOMAIN flat : InTail(k, i)
  BY <1>9, PositionsOfWalk
<1>10. ASSUME NEW k \in D, t[k].kind = "row", NEW b \in 1..m, t[k].need.fingerprint = f[b]
       PROVE  \E i \in 1..Len(g[b]) : Member(k, b, i)
  <2>1. PICK c \in 1..m : \E i \in 1..Len(g[c]) : Member(k, c, i)
    BY <1>2, <1>9, <1>10 DEF InFlat
  <2>2. f[c] = f[b]
    BY <1>2, <1>10, <2>1 DEF InCohort
  <2> QED BY <1>3, <2>1, <2>2
<1>11. ASSUME NEW k \in TailRows(t) PROVE k \in D /\ t[k].kind = "row" /\ \E i \in DOMAIN flat : InTail(k, i)
  <2>1. k \in D /\ t[k].kind = "row" /\ \A h \in D : t[h].kind = "header" => t[k].need.fingerprint # t[h].fingerprint
    BY <1>5 DEF TailRows, Headers
  <2>2. ASSUME NEW b \in 1..m, NEW i \in 1..Len(g[b]), Member(k, b, i) PROVE FALSE
    <3>1. PICK h \in D : Block(b, h)
      BY <1>7
    <3>2. t[h].kind = "header" /\ t[h].fingerprint = f[b]
      BY <3>1 DEF IsBlockAt
    <3>3. t[k].need.fingerprint = f[b]
      BY <1>2, <2>2 DEF InCohort
    <3> QED BY <2>1, <3>2, <3>3
  <2> QED BY <1>9, <2>1, <2>2
<1>12. ASSUME NEW h \in Headers(t)
       PROVE  \E b \in 1..m : /\ Block(b, h)
                              /\ \A k \in CohortRows(t, h) : k \in D /\ \E i \in 1..Len(g[b]) : Member(k, b, i)
  <2>1. h \in D /\ t[h].kind = "header"
    BY <1>5 DEF Headers
  <2>2. PICK b \in 1..m : Block(b, h)
    BY <1>8, <2>1
  <2>3. t[h].fingerprint = f[b]
    BY <2>2 DEF IsBlockAt
  <2>4. ASSUME NEW k \in CohortRows(t, h)
        PROVE  k \in D /\ \E i \in 1..Len(g[b]) : Member(k, b, i)
    <3>1. k \in D /\ t[k].kind = "row" /\ t[k].need.fingerprint = f[b]
      BY <1>5, <2>3 DEF CohortRows
    <3> QED BY <1>10, <3>1
  <2> QED BY <2>2, <2>4
<1>13. ASSUME NEW h \in Headers(t)
       PROVE  CohortRows(t, h) \subseteq h..(h + t[h].count + 1) /\ InLine(t, CohortRows(t, h))
  <2>1. PICK b \in 1..m : /\ Block(b, h)
                          /\ \A k \in CohortRows(t, h) : k \in D /\ \E i \in 1..Len(g[b]) : Member(k, b, i)
    BY <1>12
  <2>2. ASSUME NEW k \in CohortRows(t, h) PROVE k \in h..(h + t[h].count + 1)
    <3>1. k \in D /\ \E i \in 1..Len(g[b]) : at[k] = <<b, RowAt(g[b], i)>>
      BY <2>1 DEF InCohort
    <3> QED BY <2>1, <3>1 DEF IsBlockAt
  <2>3. ASSUME NEW k \in CohortRows(t, h), NEW l \in CohortRows(t, h), k < l
        PROVE  ~Precedes(t[l].need, t[k].need)
    <3>1. k \in D /\ l \in D /\ (\E i : Member(k, b, i)) /\ \E j : Member(l, b, j)
      BY <2>1
    <3> QED BY <2>3, <3>1, RowsInLine
  <2> QED BY <2>2, <2>3 DEF InLine
<1>14. InLine(t, TailRows(t))
  <2> SUFFICES ASSUME NEW k \in TailRows(t), NEW l \in TailRows(t), k < l
               PROVE  ~Precedes(t[l].need, t[k].need)
    BY DEF InLine
  <2>1. k \in D /\ l \in D /\ (\E i : InTail(k, i)) /\ \E j : InTail(l, j)
    BY <1>11
  <2> QED BY <2>1, RowsInLine
<1>15. ASSUME NEW h \in Headers(t), NEW k \in TailRows(t) PROVE h < k
  <2>1. PICK b \in 1..m : Block(b, h)
    BY <1>12
  <2>2. PICK i \in DOMAIN flat : InTail(k, i)
    BY <1>11
  <2>3. at[h] = <<b, 1>> /\ at[k] = <<m + 1, i>>
    BY <2>1, <2>2 DEF IsBlockAt, InFlat
  <2>4. b < m + 1
    BY <1>4
  <2>5. Lex(at[h], at[k])
    BY <2>3, <2>4 DEF Lex
  <2>6. h \in D /\ k \in D
    BY <1>5, <1>11 DEF Headers
  <2> QED BY <1>6, <2>5, <2>6
<1>16. InLine(t, {h + 1 : h \in Headers(t)})
  <2> SUFFICES ASSUME NEW h \in Headers(t), NEW k \in Headers(t), h + 1 < k + 1
               PROVE  ~Precedes(t[k + 1].need, t[h + 1].need)
    BY DEF InLine
  <2>1. PICK b \in 1..m : Block(b, h)
    BY <1>12
  <2>2. PICK c \in 1..m : Block(c, k)
    BY <1>12
  <2>3. h \in D /\ k \in D
    BY <1>5 DEF Headers
  <2>4. h < k
    BY <1>5, <2>3
  <2>5. at[h] = <<b, 1>> /\ at[k] = <<c, 1>> /\ t[h + 1].need = g[b][1] /\ t[k + 1].need = g[c][1]
    BY <2>1, <2>2 DEF IsBlockAt
  <2>6. Lex(at[h], at[k])
    BY <1>5, <2>3, <2>4
  <2>7. b < c
    BY <1>4, <2>5, <2>6 DEF Lex
  <2> QED BY <1>3, <2>5, <2>7 DEF ByFirsts
<1> QED BY <1>13, <1>14, <1>15, <1>16 DEF StretchesAreOrdered

(* Who is above a cohort's cut and who is below, if it was served in order. *)
LEMMA CutDivides ==
  ASSUME NEW T, NEW q \in Seq(T), \A n \in T : n.claimed \in Nat, Cut(q) # 0,
         \A i, j \in 1..Len(q) : i < j /\ q[i].claimed = 0 => q[j].claimed = 0
  PROVE  \A i \in 1..Len(q) : i > Cut(q) <=> q[i].claimed = 0
<1> DEFINE c == Cut(q)
           n == Len(q)
<1>1. /\ c \in 1..(n - 1) /\ q[c].claimed > 0 /\ q[c + 1].claimed = 0
  BY CutIs
<1>2. n \in Nat /\ \A i \in 1..n : q[i].claimed \in Nat
  BY DEF n
<1> HIDE DEF c, n
<1>3. c \in 1..n /\ c + 1 \in 1..n
  BY <1>1, <1>2
<1>4. ASSUME NEW i \in 1..n, i > c PROVE q[i].claimed = 0
  <2>1. CASE i = c + 1
    BY <1>1, <2>1
  <2>2. CASE c + 1 < i
    BY <1>1, <1>3, <2>2 DEF n
  <2>3. i = c + 1 \/ c + 1 < i
    BY <1>3, <1>4
  <2> QED BY <2>1, <2>2, <2>3
<1>5. ASSUME NEW i \in 1..n, ~(i > c) PROVE q[i].claimed # 0
  <2>1. CASE i = c
    BY <1>1, <1>2, <1>3, <2>1
  <2>2. CASE i < c
    <3>1. q[c].claimed # 0
      BY <1>1, <1>2, <1>3
    <3> QED BY <1>3, <2>2, <3>1 DEF n
  <2>3. i = c \/ i < c
    BY <1>3, <1>5
  <2> QED BY <2>1, <2>2, <2>3
<1> QED BY <1>4, <1>5 DEF c, n

(* The line of a cohort in the table: the header above it is its own, and   *)
(* the rows up to the count of the header are the cohort's members.         *)
IsCohortAt(t, size, fp, q, c, h) ==
  /\ h = Max({i \in 1..c : t[i].kind = "header"}) /\ t[h] = Header(fp, q)
  /\ c = h + Cut(q) + 1 /\ h + Len(q) + 1 \in 1..size
  /\ \A i \in 1..Len(q) : /\ h + RowAt(q, i) - 1 \in h..(h + Len(q) + 1)
                          /\ t[h + RowAt(q, i) - 1] = Row(q[i])
  /\ \A k \in h..(h + Len(q) + 1) :
       t[k].kind = "row" => \E i \in 1..Len(q) : k = h + RowAt(q, i) - 1

LEMMA CohortInTable ==
  ASSUME NEW t, NEW S, NEW ss, NEW m, NEW f, NEW g, NEW flat, NEW at, NEW size,
         IsWalk(t, S, ss, m, f, g, flat, at, size),
         NEW b \in 1..m, Cut(g[b]) # 0, NEW c \in 1..size, at[c] = <<b, Cut(g[b]) + 2>>
  PROVE  \E h \in 1..size : IsCohortAt(t, size, f[b], g[b], c, h)
<1> DEFINE q == g[b]
           n == Len(q)
           cut == Cut(q)
           T == Sharing(S, f[b])
<1>1. Blocks(ss, m, f, g, flat, S) /\ LaidOut(at, size, ss, t)
  BY DEF IsWalk
<1>2. AreSequences(ss, m + 1) /\ m \in Nat
  BY <1>1, BlocksAreSequences
<1>3. /\ q \in Seq(T) /\ n \in Nat /\ ss[b] = CohortItems(f[b], q)
      /\ DOMAIN ss[b] = 1..(n + Extra(q))
  BY <1>1, CohortListed
<1>4. Extra(q) = 2
  BY DEF Extra
<1>5. cut \in 1..(n - 1)
  BY <1>3, CutIs
<1>6. b \in 1..(m + 1) /\ b \in Int /\ size \in Nat
  BY <1>1, <1>2 DEF LaidOut
<1>7. DOMAIN ss[b] = 1..(n + 2) /\ n + 2 \in Nat /\ 1 \in DOMAIN ss[b]
  BY <1>3, <1>4
<1> HIDE DEF n, cut, q, T
<1>8. PICK h \in 1..size : at[h] = <<b, 1>>
  <2>1. <<b, 1>> \in Places(ss)
    BY <1>2, <1>6, <1>7, PlacesAre
  <2> QED BY <1>1, <2>1 DEF LaidOut
<1>9. \A i \in 1..(n + 2) : h + i - 1 \in 1..size /\ at[h + i - 1] = <<b, i>>
  <2> DEFINE last == m + 1
  <2>1. AreSequences(ss, last) /\ b \in 1..last /\ LaidOut(at, size, ss, t)
    BY <1>1, <1>2, <1>6
  <2> HIDE DEF last
  <2>2. IsStretch(at, size, b, h, n + 2)
    BY <1>7, <1>8, <2>1, StretchOf
  <2> QED BY <2>2 DEF IsStretch
<1>10. \A i \in 1..(n + 2) : t[h + i - 1] = ss[b][i]
  <2> SUFFICES ASSUME NEW i \in 1..(n + 2) PROVE t[h + i - 1] = ss[b][i]
    OBVIOUS
  <2> DEFINE k == h + i - 1
  <2>1. k \in 1..size /\ at[k] = <<b, i>>
    BY <1>9
  <2> HIDE DEF k
  <2>2. t[k] = ss[at[k][1]][at[k][2]]
    BY <1>1, <2>1 DEF LaidOut
  <2>3. t[k] = ss[b][i]
    BY <2>1, <2>2
  <2> QED BY <2>3 DEF k
<1>11. h \in Int /\ c \in Int /\ n \in Int /\ cut \in Int
  BY <1>3, <1>5, <1>6
<1>12. c = h + cut + 1
  <2> DEFINE k == h + (cut + 2) - 1
  <2>1. cut + 2 \in 1..(n + 2)
    BY <1>5, <1>11
  <2>2. k \in 1..size /\ at[k] = <<b, cut + 2>>
    BY <1>9, <2>1
  <2>3. at[c] = <<b, cut + 2>>
    BY DEF cut, q
  <2>4. k = c
    <3> HIDE DEF k
    <3> QED BY <1>1, <1>2, <2>2, <2>3, PlacesOnce
  <2> QED BY <1>11, <2>4
<1>13. /\ ss[b][1] = Header(f[b], q)
       /\ \A i \in 1..n : /\ RowAt(q, i) \in 2..(n + 2)
                          /\ ss[b][RowAt(q, i)] = Row(q[i])
       /\ ss[b][cut + 2] = CutLine(q)
       /\ \A p \in 2..(n + 2) : p = cut + 2 \/ \E i \in 1..n : p = RowAt(q, i)
  <2>1. cut # 0
    BY DEF cut, q
  <2> QED BY <1>3, <1>4, <2>1, ItemsOfCohort DEF n, cut
<1>14. t[h] = Header(f[b], q)
  <2>1. 1 \in 1..(n + 2) /\ h + 1 - 1 = h
    BY <1>7, <1>11
  <2>2. t[h + 1 - 1] = ss[b][1]
    BY <1>10, <2>1
  <2> QED BY <1>13, <2>1, <2>2
<1>15. h = Max({i \in 1..c : t[i].kind = "header"})
  <2> DEFINE H == {i \in 1..c : t[i].kind = "header"}
  <2>1. h \in H
    BY <1>5, <1>11, <1>12, <1>14, Kinds
  <2>2. ASSUME NEW i \in H PROVE i <= h
    <3>1. i \in 1..size /\ i \in 1..c /\ t[i].kind = "header" /\ i \in Int
      BY <1>6
    <3>2. PICK d \in 1..m : at[i] = <<d, 1>>
      BY <3>1, PositionsOfWalk
    <3>3. d \in Int
      BY <1>2
    <3>4. ~Lex(at[c], at[i])
      <4>1. ~(c < i)
        BY <3>1
      <4> QED BY <1>1, <1>2, <3>1, <4>1, PlacesOnce
    <3>5. at[c] = <<b, cut + 2>>
      BY DEF cut, q
    <3>6. ~Lex(at[h], at[i])
      <4>1. ~(b < d)
        BY <1>6, <3>2, <3>3, <3>4, <3>5 DEF Lex
      <4> QED BY <1>6, <1>8, <3>2, <3>3, <4>1 DEF Lex
    <3>7. ~(h < i)
      BY <1>1, <3>1, <3>6 DEF LaidOut
    <3> QED BY <1>11, <3>1, <3>7
  <2>3. H \in SUBSET Int
    BY <1>6
  <2>4. \A y \in H : h >= y
    BY <1>11, <2>2, <2>3
  <2> HIDE DEF H
  <2>5. Max(H) \in H /\ \A y \in H : Max(H) >= y
    BY <2>1, <2>4 DEF Max
  <2>6. Max(H) >= h /\ h >= Max(H) /\ Max(H) \in Int
    BY <2>1, <2>3, <2>4, <2>5
  <2>7. h = Max(H)
    <3> DEFINE x == Max(H)
    <3> HIDE DEF x
    <3>1. x >= h /\ h >= x /\ x \in Int
      BY <2>6 DEF x
    <3>2. h = x
      BY <1>11, <3>1
    <3> QED BY <3>2 DEF x
  <2> QED BY <2>7 DEF H
<1>16. h + n + 1 \in 1..size
  <2>1. n + 2 \in 1..(n + 2) /\ h + (n + 2) - 1 = h + n + 1
    BY <1>7, <1>11
  <2>2. h + (n + 2) - 1 \in 1..size
    BY <1>9, <2>1
  <2> QED BY <2>1, <2>2
<1>17. ASSUME NEW i \in 1..n
       PROVE  h + RowAt(q, i) - 1 \in h..(h + n + 1) /\ t[h + RowAt(q, i) - 1] = Row(q[i])
  <2> DEFINE p == RowAt(q, i)
  <2>1. p \in 2..(n + 2) /\ ss[b][p] = Row(q[i])
    BY <1>13
  <2> HIDE DEF p
  <2>2. p \in 1..(n + 2) /\ h + p - 1 \in h..(h + n + 1)
    BY <1>11, <2>1
  <2> QED BY <1>10, <2>1, <2>2 DEF p
<1>18. ASSUME NEW k \in h..(h + n + 1), t[k].kind = "row"
       PROVE  \E i \in 1..n : k = h + RowAt(q, i) - 1
  <2> DEFINE p == k - h + 1
  <2>1. p \in 1..(n + 2) /\ h + p - 1 = k
    BY <1>11
  <2>2. t[k] = ss[b][p]
    <3> HIDE DEF p
    <3>1. t[h + p - 1] = ss[b][p]
      BY <1>10, <2>1
    <3> QED BY <2>1, <3>1
  <2> HIDE DEF p
  <2>3. p # 1
    BY <1>13, <1>18, <2>2, Kinds
  <2>4. p # cut + 2
    BY <1>13, <1>18, <2>2, Kinds
  <2>5. p \in 2..(n + 2)
    BY <1>11, <2>1, <2>3
  <2>6. PICK i \in 1..n : p = RowAt(q, i)
    BY <1>13, <2>4, <2>5
  <2> QED BY <2>1, <2>6
<1>19. IsCohortAt(t, size, f[b], q, c, h)
  BY <1>12, <1>14, <1>15, <1>16, <1>17, <1>18 DEF IsCohortAt, n, cut
<1> QED BY <1>19 DEF q

-----------------------------------------------------------------------------
(* The cut-line stands under the last who claimed, and counts who is below. *)
LEMMA CutLineStands ==
  ASSUME NEW t, NEW S, Needy(S), NEW ss, NEW m, NEW f, NEW g, NEW flat, NEW at, NEW size,
         IsWalk(t, S, ss, m, f, g, flat, at, size)
  PROVE  CutLineIsTheCut(t)
<1>1. DOMAIN t = 1..size /\ size \in Nat /\ Blocks(ss, m, f, g, flat, S)
  BY DEF IsWalk, LaidOut
<1> DEFINE Top(c) == Max({i \in 1..c : t[i].kind = "header"})
           Beside(c) == {i \in Top(c)..(Top(c) + t[Top(c)].count + 1) : t[i].kind = "row"}
<1> SUFFICES ASSUME NEW c \in 1..size, t[c].kind = "cutline"
             PROVE  /\ t[c].below = Cardinality({i \in Beside(c) : i > c})
                    /\ ServedInLine(t, Beside(c)) =>
                         \A i \in Beside(c) : i > c <=> t[i].need.claimed = 0
  BY <1>1 DEF CutLineIsTheCut
<1>2. PICK b \in 1..m : /\ Cut(g[b]) # 0 /\ at[c] = <<b, Cut(g[b]) + 2>>
                        /\ t[c] = CutLine(g[b])
  BY PositionsOfWalk
<1>3. PICK h \in 1..size : IsCohortAt(t, size, f[b], g[b], c, h)
  BY <1>2, CohortInTable
<1> DEFINE q == g[b]
           n == Len(q)
           cut == Cut(q)
           T == Sharing(S, f[b])
<1>15. /\ h = Max({i \in 1..c : t[i].kind = "header"}) /\ t[h] = Header(f[b], q)
       /\ c = h + cut + 1 /\ h + n + 1 \in 1..size
       /\ \A i \in 1..n : /\ h + RowAt(q, i) - 1 \in h..(h + n + 1)
                         /\ t[h + RowAt(q, i) - 1] = Row(q[i])
       /\ \A k \in h..(h + n + 1) :
            t[k].kind = "row" => \E i \in 1..n : k = h + RowAt(q, i) - 1
  BY <1>3 DEF IsCohortAt
<1>4. q \in Seq(T) /\ n \in Nat
  BY <1>1, CohortListed
<1>5. /\ cut \in 1..(n - 1)
      /\ \A i \in 1..n : q[i].claimed \in Nat
  <2>1. \A x \in T : x.claimed \in Nat
    BY DEF Sharing, Needy, IsNeed
  <2>2. \A i \in 1..n : q[i] \in T
    <3> HIDE DEF T
    <3> QED BY <1>4
  <2> HIDE DEF T, q
  <2>3. cut \in 1..(n - 1)
    BY <1>2, <1>4, CutIs DEF q
  <2> QED BY <2>1, <2>2, <2>3
<1>6. Beside(c) = {i \in h..(h + n + 1) : t[i].kind = "row"} /\ t[c].below = n - cut
  <2>1. t[h].count = n
    <3>1. t[h] = Header(f[b], q)
      BY <1>15
    <3> QED BY <3>1 DEF Header
  <2>2. t[c].below = n - cut
    BY <1>2, Kinds
  <2> HIDE DEF n, cut, q
  <2> QED BY <1>15, <2>1, <2>2
<1> DEFINE rows == {i \in h..(h + n + 1) : t[i].kind = "row"}
           spot == [i \in 1..n |-> h + RowAt(q, i) - 1]
<1>7. \A i \in 1..n : spot[i] = (IF i <= cut THEN h + i ELSE h + i + 1)
  <2> SUFFICES ASSUME NEW i \in 1..n
               PROVE  h + RowAt(q, i) - 1 = (IF i <= cut THEN h + i ELSE h + i + 1)
    OBVIOUS
  <2>1. RowAt(q, i) = IF i <= cut THEN i + 1 ELSE i + 2
    BY <1>5 DEF RowAt
  <2> HIDE DEF n, cut, q
  <2>2. h \in Int /\ i \in Int
    BY <1>1, <1>4
  <2> QED BY <2>1, <2>2
<1>8. \A i \in 1..n : spot[i] \in rows /\ t[spot[i]].need = q[i]
  <2> SUFFICES ASSUME NEW i \in 1..n PROVE spot[i] \in rows /\ t[spot[i]].need = q[i]
    OBVIOUS
  <2>1. spot[i] \in h..(h + n + 1) /\ t[spot[i]] = Row(q[i])
    BY <1>15
  <2> HIDE DEF spot, n, q
  <2> QED BY <2>1, Kinds
<1>9. \A k \in rows : \E i \in 1..n : k = spot[i]
  BY <1>15
<1>10. h \in Int /\ c \in Int /\ n \in Int /\ cut \in Int /\ cut < n /\ cut > 0 /\ c = h + cut + 1
  <2> HIDE DEF n, cut
  <2> QED BY <1>1, <1>15, <1>4, <1>5
<1> HIDE DEF spot, rows, T
<1>11. \A i \in 1..n : spot[i] > c <=> i > cut
  <2> HIDE DEF n, cut, q
  <2> QED BY <1>7, <1>10
<1>12. \A i, j \in 1..n : i < j => spot[i] < spot[j]
  <2> HIDE DEF n, cut, q
  <2> QED BY <1>7, <1>10
<1>13. Cardinality({i \in rows : i > c}) = n - cut
  <2> HIDE DEF n, cut, q
  <2>1. ASSUME NEW k \in (c + 1)..(h + n + 1) PROVE k \in rows /\ k > c
    <3> DEFINE i == k - h - 1
    <3>1. i \in 1..n /\ ~(i <= cut) /\ h + i + 1 = k
      BY <1>10
    <3> HIDE DEF i
    <3>2. spot[i] = k
      BY <1>7, <3>1
    <3> QED BY <1>8, <1>10, <3>1, <3>2
  <2>2. ASSUME NEW k \in rows, k > c PROVE k \in (c + 1)..(h + n + 1)
    <3>1. k \in h..(h + n + 1)
      BY DEF rows
    <3> QED BY <1>10, <2>2, <3>1
  <2> DEFINE lo == c + 1
             hi == h + n + 1
  <2>3. {i \in rows : i > c} = lo..hi
    BY <2>1, <2>2
  <2>4. lo \in Int /\ hi \in Int /\ ~(lo > hi) /\ hi - lo + 1 = n - cut
    BY <1>10
  <2> HIDE DEF lo, hi
  <2>5. Cardinality(lo..hi) = IF lo > hi THEN 0 ELSE hi - lo + 1
    BY <2>4, FS_Interval
  <2> QED BY <2>3, <2>4, <2>5
<1>14. ASSUME ServedInLine(t, rows), NEW k \in rows PROVE k > c <=> t[k].need.claimed = 0
  <2>1. ASSUME NEW i \in 1..n, NEW j \in 1..n, i < j, q[i].claimed = 0 PROVE q[j].claimed = 0
    <3>1. spot[i] < spot[j] /\ t[spot[i]].need.claimed = 0
      BY <1>8, <1>12, <2>1
    <3>2. t[spot[j]].need.claimed = 0
      BY <1>8, <1>14, <3>1 DEF ServedInLine
    <3> QED BY <1>8, <3>2
  <2>2. \A i \in 1..n : i > cut <=> q[i].claimed = 0
    <3>1. \A x \in T : x.claimed \in Nat
      BY DEF T, Sharing, Needy, IsNeed
    <3>2. cut # 0
      BY <1>2
    <3> HIDE DEF q
    <3> QED BY <1>4, <2>1, <3>1, <3>2, CutDivides DEF n, cut
  <2>3. PICK i \in 1..n : k = spot[i]
    BY <1>9
  <2> QED BY <1>8, <1>11, <2>2, <2>3
<1> QED BY <1>6, <1>13, <1>14 DEF rows

-----------------------------------------------------------------------------
(* The competitors are the first of those ahead of the need, in order.      *)
LEMMA CompetitorsListed ==
  ASSUME NEW n, IsNeed(n), NEW all, AreNeeds(all),
         \A i \in DOMAIN all : all[i].id = n.id => all[i] = n
  PROVE  CompetitorsAreAhead(n, all, CompetitorsFor(n, all))
<1> DEFINE S == ToSet(all)
           A == {o \in S : /\ o.id # n.id /\ o.claimed > 0
                           /\ Precedes(o, n) /\ ShapesOverlap(o, n)}
           I == {i \in DOMAIN all : /\ all[i].id # n.id /\ all[i].claimed > 0
                                    /\ Precedes(all[i], n) /\ ShapesOverlap(all[i], n)}
           line == ByPrecedence(Kept(all, I))
           top == IF Len(line) < Shown THEN Len(line) ELSE Shown
           comp == SubSeq(line, 1, top)
<1>1. CompetitorsFor(n, all) = comp
  <2>1. Ahead(n, all) = Kept(all, I)
    BY Zenon DEF Ahead, Filter, Kept, Positions, Arranged
  <2>2. CompetitorsFor(n, all) = First(ByPrecedence(Ahead(n, all)))
    BY DEF CompetitorsFor, ByPrecedence
  <2>3. First(line) = comp
    BY DEF First
  <2> HIDE DEF comp
  <2> QED BY <2>1, <2>2, <2>3
<1>2. Lists(all, S) /\ Needy(S)
  BY NeedsListed
<1>3. \A i \in DOMAIN all : all[i] \in S
  BY DEF ToSet
<1>4. I \in SUBSET DOMAIN all /\ A \in SUBSET S /\ \A i \in DOMAIN all : i \in I <=> all[i] \in A
  BY <1>3
<1>5. \A o \in A : Precedes(o, n) /\ IsNeed(o)
  BY <1>2 DEF Needy
<1>6. ASSUME NEW i \in DOMAIN all, all[i].claimed > 0, Precedes(all[i], n), ShapesOverlap(all[i], n)
      PROVE  all[i] \in A
  <2>1. ~Precedes(n, n)
    BY DEF IsNeed, Precedes
  <2>2. all[i].id # n.id
    BY <1>6, <2>1
  <2> QED BY <1>3, <1>6, <2>2
<1>7. Needy(A)
  BY <1>5 DEF Needy
<1> HIDE DEF S, A, I
<1>8. Lists(line, A) /\ Ranked(line)
  <2>1. Lists(Kept(all, I), A)
    BY <1>2, <1>4, ListKept
  <2> QED BY <1>7, <2>1, ListSorted
<1> HIDE DEF line
<1>9. /\ line \in Seq(A) /\ Len(line) \in Nat /\ DOMAIN line = 1..Len(line)
      /\ \A k \in DOMAIN line : line[k] \in A
  BY <1>8, ListedAreFinite DEF Lists
<1>10. top \in Nat /\ top <= Len(line) /\ (top < Len(line) => top = Shown)
  <2>1. Len(line) \in Nat /\ Shown \in Nat
    BY <1>9, WalkAssumption
  <2>2. CASE Len(line) < Shown
    BY <2>1, <2>2
  <2>3. CASE ~(Len(line) < Shown)
    BY <2>1, <2>3
  <2> QED BY <2>2, <2>3
<1> HIDE DEF top
<1>11. /\ DOMAIN comp = 1..top /\ Len(comp) = top
       /\ \A k \in 1..top : comp[k] = line[k] /\ k \in DOMAIN line
  <2>1. /\ comp \in Seq(A) /\ Len(comp) = top
        /\ \A k \in 1..top : comp[k] = line[k]
    BY <1>9, <1>10
  <2> QED BY <1>9, <1>10, <2>1
<1> HIDE DEF comp
<1>12. ASSUME NEW k \in DOMAIN comp PROVE ~SameNeed(comp[k], n)
  <2> DEFINE o == comp[k]
  <2>1. Precedes(o, n) /\ IsNeed(o)
    BY <1>5, <1>9, <1>11
  <2> HIDE DEF o
  <2>2. ~SameNeed(o, n)
    BY <2>1 DEF Precedes, IsNeed, SameNeed
  <2> QED BY <2>2 DEF o
<1>13. ASSUME NEW k \in 1..(Len(comp) - 1) PROVE ~Precedes(comp[k + 1], comp[k])
  <2>1. k \in 1..top /\ k + 1 \in 1..top /\ k < k + 1
    BY <1>10, <1>11
  <2> QED BY <1>8, <1>11, <2>1 DEF Ranked
<1>14. ASSUME NEW i \in DOMAIN all, all[i].claimed > 0, Precedes(all[i], n), ShapesOverlap(all[i], n)
       PROVE  \/ \E j \in DOMAIN comp : comp[j] = all[i]
              \/ Len(comp) = Shown /\ \A j \in DOMAIN comp : ~Precedes(all[i], comp[j])
  <2>1. PICK k \in DOMAIN line : line[k] = all[i]
    BY <1>6, <1>8, <1>14 DEF Lists
  <2>2. CASE k \in 1..top
    BY <1>11, <2>1, <2>2
  <2>3. CASE k \notin 1..top
    <3>1. k \in Int /\ k > top /\ top = Shown
      BY <1>9, <1>10, <2>3
    <3>2. ASSUME NEW j \in DOMAIN comp PROVE ~Precedes(all[i], comp[j])
      <4>1. j \in DOMAIN line /\ comp[j] = line[j] /\ j < k
        BY <1>10, <1>11, <3>1
      <4> QED BY <1>8, <2>1, <4>1 DEF Ranked
    <3> QED BY <1>11, <3>1, <3>2
  <2> QED BY <2>2, <2>3
<1> QED BY <1>1, <1>12, <1>13, <1>14 DEF CompetitorsAreAhead

-----------------------------------------------------------------------------
(* What the state is once a walk is built, or a line of competitors.        *)
WalkInput ==
  /\ kind = "walk" => \E in \in Walks : input = in.needs /\ output = BuildWalk(in.needs, in.several)
  /\ kind = "competition" => input \in Competitions /\ output = CompetitorsFor(input.need, input.all)

(* Needs.tsx:233-291 and needsKit.tsx:112-134, for any answer of a shard:   *)
(* no need is lost or doubled between the answer and the table; a cohort's  *)
(* rows stand in line under its header, the cohorts by their first members  *)
(* and all other rows in one tail in line, whatever their profiles; a       *)
(* cut-line divides who claimed from who did not and counts the latter; and *)
(* the drawer lists the first of those ahead of its need, never the need    *)
(* itself.                                                                  *)
THEOREM WalkFaithful == FiguresSpec => []WalkIsFaithful
<1>1. Init => WalkInput
  BY DEF Init, WalkInput
<1>2. WalkInput /\ [Next]_figures => WalkInput'
  <2> SUFFICES ASSUME WalkInput, [Next]_figures PROVE WalkInput'
    OBVIOUS
  <2>1. CASE UNCHANGED figures
    BY <2>1 DEF WalkInput, figures
  <2>2. CASE Walk
    BY <2>2 DEF Walk, Computes, WalkInput
  <2>3. CASE Compete
    BY <2>3 DEF Compete, Computes, WalkInput
  <2>4. CASE Next /\ ~Walk /\ ~Compete
    <3>1. kind' # "walk" /\ kind' # "competition"
      BY <2>4 DEF Next, Verdict, Penalty, Sample, Overview, Finance, Report, Coordinator, Shard, Cluster,
                  Hints, Computes
    <3> QED BY <3>1 DEF WalkInput
  <2> QED BY <2>1, <2>2, <2>3, <2>4
<1>3. WalkInput => WalkIsFaithful
  <2>1. ASSUME WalkInput, kind = "walk"
        PROVE  /\ EveryNeedHasItsRow(input, output)
               /\ StretchesAreOrdered(output)
               /\ CutLineIsTheCut(output)
    <3>1. PICK in \in Walks : input = in.needs /\ output = BuildWalk(in.needs, in.several)
      BY <2>1 DEF WalkInput
    <3> DEFINE S == ToSet(input)
    <3>2. AreNeeds(input) /\ in.several \in BOOLEAN /\ Needy(S)
      BY <3>1, WalksAssumption, NeedsListed
    <3>3. PICK ss, m, f, g, flat : Blocks(ss, m, f, g, flat, S) /\ output = Flattened(ss)
      BY <3>1, <3>2, WalkBlocks
    <3> HIDE DEF S
    <3>4. PICK at, size : LaidOut(at, size, ss, output)
      BY <3>3, BlocksAreSequences, FlattenedIsLaidOut
    <3>5. IsWalk(output, S, ss, m, f, g, flat, at, size)
      BY <3>3, <3>4 DEF IsWalk
    <3> QED BY <3>2, <3>5, NoNeedIsLost, StretchesInOrder, CutLineStands DEF S
  <2>2. ASSUME WalkInput, kind = "competition" PROVE CompetitorsAreAhead(input.need, input.all, output)
    <3>1. input \in Competitions /\ output = CompetitorsFor(input.need, input.all)
      BY <2>2 DEF WalkInput
    <3>2. /\ AreNeeds(input.all) /\ IsNeed(input.need)
          /\ \A i \in DOMAIN input.all : input.all[i].id = input.need.id => input.all[i] = input.need
      BY <3>1, WalksAssumption
    <3> QED BY <3>1, <3>2, CompetitorsListed
  <2> QED BY <2>1, <2>2 DEF WalkIsFaithful
<1> QED BY <1>1, <1>2, <1>3, PTL DEF FiguresSpec
=============================================================================
