------------------------- MODULE NeedsExplorerProofs -------------------------
(***************************************************************************)
(* What the Needs page keeps, for any shards, any answers and any number   *)
(* of clicks.                                                              *)
(***************************************************************************)
EXTENDS NeedsExplorer, FiniteSetTheorems, SequenceTheorems,
        WellFoundedInduction, TLAPS

-----------------------------------------------------------------------------
(* The rank of an element is the number of elements before it.              *)
Rank(x, R, S) == Cardinality(SetLessThan(x, R, S))

(* In a finite set of n elements with a strict total order, each of 0..n-1  *)
(* is the rank of exactly one element.                                      *)
LEMMA Ranks ==
  ASSUME NEW S, IsFiniteSet(S), NEW R,
         \A x \in S : <<x, x>> \notin R,
         \A x, y, z \in S : <<x, y>> \in R /\ <<y, z>> \in R => <<x, z>> \in R,
         \A x, y \in S : x # y => <<x, y>> \in R \/ <<y, x>> \in R
  PROVE  /\ \A x \in S : Rank(x, R, S) \in 0..(Cardinality(S) - 1)
         /\ \A x, y \in S : Rank(x, R, S) = Rank(y, R, S) => x = y
         /\ \A i \in 0..(Cardinality(S) - 1) : \E x \in S : Rank(x, R, S) = i
<1> DEFINE Below(x) == SetLessThan(x, R, S)
           size == Cardinality(S)
           rank == [x \in S |-> Cardinality(Below(x))]
<1>1. size \in Nat
  BY FS_CardinalityType
<1>2. ASSUME NEW x \in S
      PROVE  /\ IsFiniteSet(Below(x)) /\ rank[x] \in Nat /\ rank[x] < size
             /\ rank[x] = Cardinality(Below(x))
  <2>1. Below(x) \in SUBSET S /\ x \notin Below(x)
    BY DEF SetLessThan
  <2> DEFINE below == Below(x)
  <2> HIDE DEF below
  <2>2. /\ IsFiniteSet(below) /\ Cardinality(below) \in Nat
        /\ Cardinality(below) <= size /\ (Cardinality(S) = Cardinality(below) => S = below)
    BY <2>1, FS_Subset, FS_CardinalityType DEF below
  <2> HIDE DEF size
  <2>3. Cardinality(below) < size
    BY <1>1, <2>1, <2>2 DEF below, size
  <2> QED BY <2>2, <2>3 DEF below
<1>3. ASSUME NEW x \in S, NEW y \in S, <<x, y>> \in R
      PROVE  rank[x] # rank[y]
  <2>1. Below(x) \in SUBSET Below(y) /\ x \in Below(y) /\ x \notin Below(x)
    BY <1>3 DEF SetLessThan
  <2>2. IsFiniteSet(Below(y)) /\ rank[x] = Cardinality(Below(x)) /\ rank[y] = Cardinality(Below(y))
    BY <1>2
  <2> HIDE DEF Below, rank
  <2> QED BY <2>1, <2>2, FS_Subset
<1>4. rank \in Injection(S, 0..(size - 1))
  <2>1. \A x \in S : rank[x] \in 0..(size - 1)
    <3>1. \A x \in S : rank[x] \in Nat /\ rank[x] < size
      BY <1>2
    <3> HIDE DEF rank, size
    <3> QED BY <1>1, <3>1
  <2>2. rank \in [S -> 0..(size - 1)]
    BY <2>1
  <2> HIDE DEF rank
  <2> QED BY <1>3, <2>2 DEF Injection, IsInjective
<1>5. IsFiniteSet(0..(size - 1)) /\ Cardinality(0..(size - 1)) = size
  <2> HIDE DEF size
  <2>1. /\ IsFiniteSet(0..(size - 1))
        /\ Cardinality(0..(size - 1)) = IF 0 > size - 1 THEN 0 ELSE size - 1 - 0 + 1
    <3>1. 0 \in Int /\ size - 1 \in Int
      BY <1>1
    <3> QED BY <3>1, FS_Interval
  <2> QED BY <1>1, <2>1
<1>6. rank \in Surjection(S, 0..(size - 1))
  <2> HIDE DEF rank
  <2> QED BY <1>4, <1>5, FS_Injection
<1>7. \A x \in S : Rank(x, R, S) = rank[x]
  BY DEF Rank
<1> HIDE DEF rank
<1> QED BY <1>4, <1>6, <1>7 DEF Injection, Surjection, IsInjective

(* The positions of a set, in ascending order: what Filter goes through.    *)
Positions(I) == Arranged(I, LAMBDA i, j : i < j)
Kept(s, I) == [k \in DOMAIN Positions(I) |-> s[Positions(I)[k]]]

(* They are as many as the set has elements, each once and none left out.   *)
LEMMA PositionsAreAll ==
  ASSUME NEW I \in SUBSET Int, IsFiniteSet(I)
  PROVE  /\ Positions(I) \in [1..Cardinality(I) -> I]
         /\ Cardinality(I) \in Nat
         /\ \A i \in I : \E k \in 1..Cardinality(I) : Positions(I)[k] = i
         /\ \A k, l \in 1..Cardinality(I) : Positions(I)[k] = Positions(I)[l] => k = l
<1> DEFINE R == {p \in I \X I : p[1] < p[2]}
           Before(x) == Cardinality({y \in I : y < x})
           size == Cardinality(I)
<1>1. size \in Nat
  BY FS_CardinalityType
<1>2. \A x \in I : Rank(x, R, I) = Before(x)
  <2> SUFFICES ASSUME NEW x \in I PROVE SetLessThan(x, R, I) = {y \in I : y < x}
    BY DEF Rank
  <2> QED BY DEF SetLessThan
<1>3. /\ \A x \in I : <<x, x>> \notin R
      /\ \A x, y, z \in I : <<x, y>> \in R /\ <<y, z>> \in R => <<x, z>> \in R
      /\ \A x, y \in I : x # y => <<x, y>> \in R \/ <<y, x>> \in R
  OBVIOUS
<1>4. /\ \A x \in I : Before(x) \in 0..(size - 1)
      /\ \A x, y \in I : Before(x) = Before(y) => x = y
      /\ \A i \in 0..(size - 1) : \E x \in I : Before(x) = i
  <2> HIDE DEF R, Before
  <2>1. /\ \A x \in I : Rank(x, R, I) \in 0..(size - 1)
        /\ \A x, y \in I : Rank(x, R, I) = Rank(y, R, I) => x = y
        /\ \A i \in 0..(size - 1) : \E x \in I : Rank(x, R, I) = i
    BY <1>3, Ranks
  <2> HIDE DEF size
  <2> QED BY <1>2, <2>1
<1>5. Positions(I) = [k \in 1..size |-> CHOOSE x \in I : Before(x) = k - 1]
  BY DEF Positions, Arranged
<1> HIDE DEF Before, size
<1>6. ASSUME NEW k \in 1..size PROVE Positions(I)[k] \in I /\ Before(Positions(I)[k]) = k - 1
  <2>1. k - 1 \in 0..(size - 1)
    BY <1>1
  <2>2. \E x \in I : Before(x) = k - 1
    BY <1>4, <2>1
  <2>3. Positions(I)[k] = CHOOSE x \in I : Before(x) = k - 1
    BY <1>5
  <2> QED BY <2>2, <2>3
<1>7. ASSUME NEW i \in I PROVE \E k \in 1..size : Positions(I)[k] = i
  <2>1. Before(i) + 1 \in 1..size
    BY <1>1, <1>4
  <2>2. Before(Positions(I)[Before(i) + 1]) = Before(i)
    BY <1>1, <1>4, <1>6, <2>1
  <2> QED BY <1>4, <1>6, <2>1, <2>2
<1>8. Positions(I) \in [1..size -> I]
  BY <1>5, <1>6
<1>9. ASSUME NEW k \in 1..size, NEW l \in 1..size, Positions(I)[k] = Positions(I)[l] PROVE k = l
  <2>1. k - 1 = l - 1
    BY <1>6, <1>9
  <2> QED BY <1>1, <2>1
<1> QED BY <1>1, <1>7, <1>8, <1>9 DEF size

(* What is kept of a sequence: elements of it only, as many as there are    *)
(* positions.                                                               *)
LEMMA KeptElements ==
  ASSUME NEW T, NEW s \in Seq(T), NEW I \in SUBSET DOMAIN s
  PROVE  /\ Kept(s, I) \in Seq(T) /\ Len(Kept(s, I)) = Cardinality(I)
         /\ \A k \in DOMAIN Kept(s, I) : \E i \in I : Kept(s, I)[k] = s[i]
<1>1. Len(s) \in Nat /\ DOMAIN s = 1..Len(s)
  OBVIOUS
<1>2. IsFiniteSet(1..Len(s))
  BY <1>1, FS_Interval
<1>3. I \in SUBSET Int /\ IsFiniteSet(I)
  <2>1. IsFiniteSet(I)
    BY <1>1, <1>2, FS_Subset
  <2> QED BY <1>1, <2>1
<1>4. /\ Positions(I) \in [1..Cardinality(I) -> I] /\ Cardinality(I) \in Nat
  BY <1>3, PositionsAreAll
<1>5. Kept(s, I) = [k \in 1..Cardinality(I) |-> s[Positions(I)[k]]]
  BY <1>4 DEF Kept
<1>6. \A k \in 1..Cardinality(I) : Positions(I)[k] \in I /\ s[Positions(I)[k]] \in T
  BY <1>4
<1>7. Kept(s, I) \in Seq(T)
  BY <1>4, <1>5, <1>6
<1>8. Len(Kept(s, I)) = Cardinality(I) /\ DOMAIN Kept(s, I) = 1..Cardinality(I)
  BY <1>4, <1>5, <1>7
<1> QED BY <1>5, <1>6, <1>7, <1>8

-----------------------------------------------------------------------------
(* The filters of the page, as sets of positions.                           *)
OfCluster(rs, cl) == {i \in DOMAIN rs : rs[i].clusterId = cl}
OfReason(rs, r)   == {i \in DOMAIN rs : Unmet(rs[i]) /\ rs[i].unmetReason = r}
Satisfieds(rs)    == {i \in DOMAIN rs : rs[i].satisfied}
Unmets(rs)        == {i \in DOMAIN rs : Unmet(rs[i])}

(* Each filter keeps the needs at its positions.                            *)
LEMMA FiltersKeep ==
  ASSUME NEW rs
  PROVE  /\ \A cl : Within(rs, cl) = IF cl \in {"", ALL} THEN rs ELSE Kept(rs, OfCluster(rs, cl))
         /\ \A r : ByReason(rs, r) = IF r = "" THEN rs ELSE Kept(rs, OfReason(rs, r))
         /\ ByStatus(rs, "all") = rs
         /\ ByStatus(rs, "satisfied") = Kept(rs, Satisfieds(rs))
         /\ ByStatus(rs, "unmet") = Kept(rs, Unmets(rs))
<1>1. \A cl : Within(rs, cl) = IF cl \in {"", ALL} THEN rs ELSE Kept(rs, OfCluster(rs, cl))
  BY Zenon DEF Within, Filter, Kept, Positions, Arranged, OfCluster
<1>2. \A r : ByReason(rs, r) = IF r = "" THEN rs ELSE Kept(rs, OfReason(rs, r))
  BY Zenon DEF ByReason, Filter, Kept, Positions, Arranged, OfReason
<1>3. ByStatus(rs, "all") = rs
  BY DEF ByStatus
<1>4. ByStatus(rs, "satisfied") = Kept(rs, Satisfieds(rs))
  BY DEF ByStatus, Filter, Kept, Positions, Arranged, Satisfieds
<1>5. ByStatus(rs, "unmet") = Kept(rs, Unmets(rs))
  BY Zenon DEF ByStatus, Filter, Kept, Positions, Arranged, Unmets
<1> QED BY <1>1, <1>2, <1>3, <1>4, <1>5

(* They pass on needs of the sequence they are given and no other.          *)
LEMMA FiltersType ==
  ASSUME NEW T, NEW rs \in Seq(T)
  PROVE  /\ \A cl : Within(rs, cl) \in Seq(T)
         /\ \A r : ByReason(rs, r) \in Seq(T)
         /\ \A st \in {"all", "satisfied", "unmet"} : ByStatus(rs, st) \in Seq(T)
<1>1. \A I \in SUBSET DOMAIN rs : Kept(rs, I) \in Seq(T)
  BY KeptElements
<1>2. \A x : /\ OfCluster(rs, x) \in SUBSET DOMAIN rs /\ OfReason(rs, x) \in SUBSET DOMAIN rs
              /\ Satisfieds(rs) \in SUBSET DOMAIN rs /\ Unmets(rs) \in SUBSET DOMAIN rs
  BY DEF OfCluster, OfReason, Satisfieds, Unmets
<1>3. \A x : /\ Kept(rs, OfCluster(rs, x)) \in Seq(T) /\ Kept(rs, OfReason(rs, x)) \in Seq(T)
              /\ Kept(rs, Satisfieds(rs)) \in Seq(T) /\ Kept(rs, Unmets(rs)) \in Seq(T)
  BY <1>1, <1>2
<1>4. ASSUME NEW cl PROVE Within(rs, cl) \in Seq(T)
  <2>1. Within(rs, cl) = IF cl \in {"", ALL} THEN rs ELSE Kept(rs, OfCluster(rs, cl))
    BY FiltersKeep
  <2> QED BY <1>3, <2>1
<1>5. ASSUME NEW r PROVE ByReason(rs, r) \in Seq(T)
  <2>1. ByReason(rs, r) = IF r = "" THEN rs ELSE Kept(rs, OfReason(rs, r))
    BY FiltersKeep
  <2> QED BY <1>3, <2>1
<1>6. ASSUME NEW st \in {"all", "satisfied", "unmet"} PROVE ByStatus(rs, st) \in Seq(T)
  BY <1>3, FiltersKeep
<1> QED BY <1>4, <1>5, <1>6

-----------------------------------------------------------------------------
(* The clusters of an answer come ordered: the first has no fewer unmet     *)
(* needs than any other.                                                    *)
ClusterIds(all) == {all[i].clusterId : i \in DOMAIN all}
SomeNeed == UNION {NeedOf(s) : s \in Shards}

(* An answer is finite, so what the page counts in it are numbers.          *)
LEMMA CountsAreNumbers ==
  ASSUME NEW all \in Seq(SomeNeed)
  PROVE  /\ DOMAIN all = 1..Len(all) /\ IsFiniteSet(DOMAIN all)
         /\ IsFiniteSet(ClusterIds(all)) /\ ClusterIds(all) \subseteq ToSet(Ids)
         /\ \A id : UnmetOf(all, id) \in Nat
<1>1. DOMAIN all = 1..Len(all) /\ Len(all) \in Nat
  OBVIOUS
<1>2. IsFiniteSet(DOMAIN all)
  <2>1. 1 \in Int /\ Len(all) \in Int
    BY <1>1
  <2>2. IsFiniteSet(1..Len(all))
    BY <2>1, FS_Interval
  <2> QED BY <1>1, <2>2
<1>3. IsFiniteSet(ClusterIds(all))
  <2> DEFINE f == [i \in DOMAIN all |-> all[i].clusterId]
  <2>1. f \in Surjection(DOMAIN all, ClusterIds(all))
    BY DEF Surjection, ClusterIds
  <2> HIDE DEF f
  <2> QED BY <1>2, <2>1, FS_Surjection
<1>4. ClusterIds(all) \subseteq ToSet(Ids)
  <2>1. \A i \in DOMAIN all : all[i] \in SomeNeed
    OBVIOUS
  <2>2. ASSUME NEW s \in Shards, NEW n \in NeedOf(s) PROVE n.clusterId \in ToSet(Ids)
    BY DEF NeedOf
  <2>3. \A n \in SomeNeed : n.clusterId \in ToSet(Ids)
    BY <2>2 DEF SomeNeed
  <2> QED BY <2>1, <2>3 DEF ClusterIds
<1>5. ASSUME NEW id PROVE UnmetOf(all, id) \in Nat
  <2> DEFINE U == {i \in DOMAIN all : all[i].clusterId = id /\ Unmet(all[i])}
  <2>1. UnmetOf(all, id) = Cardinality(U)
    BY DEF UnmetOf, Count
  <2>2. U \in SUBSET DOMAIN all
    OBVIOUS
  <2> HIDE DEF U
  <2> QED BY <1>2, <2>1, <2>2, FS_Subset, FS_CardinalityType
<1> QED BY <1>1, <1>2, <1>3, <1>4, <1>5

(* The selector lists clusters of the answer, and none only when it has no  *)
(* needs.                                                                   *)
LEMMA ClustersInOrder ==
  ASSUME NEW all \in Seq(SomeNeed)
  PROVE  /\ ToSet(ClustersOf(all)) \subseteq ClusterIds(all)
         /\ ClustersOf(all) = <<>> <=> ClusterIds(all) = {}
         /\ ClustersOf(all) # <<>> =>
              /\ ClustersOf(all)[1] \in ClusterIds(all)
              /\ \A id : UnmetOf(all, id) <= UnmetOf(all, ClustersOf(all)[1])
<1> DEFINE C == ClusterIds(all)
           Ahead(a, b) == \/ UnmetOf(all, a) > UnmetOf(all, b)
                          \/ UnmetOf(all, a) = UnmetOf(all, b) /\ RankOf(a) < RankOf(b)
           R == {p \in C \X C : Ahead(p[1], p[2])}
           size == Cardinality(C)
           Place(x) == Cardinality({y \in C : Ahead(y, x)})
<1>1. IsFiniteSet(C) /\ size \in Nat /\ \A id : UnmetOf(all, id) \in Nat
  BY CountsAreNumbers, FS_CardinalityType
<1>2. \A id \in C : RankOf(id) \in Nat /\ Ids[RankOf(id)] = id
  <2>1. Ids \in Seq(STRING)
    BY ExplorerAssumption
  <2>2. \A id \in C : \E i \in DOMAIN Ids : Ids[i] = id
    BY CountsAreNumbers DEF ToSet
  <2>3. DOMAIN Ids \subseteq Nat
    BY <2>1
  <2> QED BY <2>2, <2>3 DEF RankOf
<1>3. /\ \A x \in C : <<x, x>> \notin R
      /\ \A x, y, z \in C : <<x, y>> \in R /\ <<y, z>> \in R => <<x, z>> \in R
      /\ \A x, y \in C : x # y => <<x, y>> \in R \/ <<y, x>> \in R
  <2> SUFFICES /\ \A x \in C : ~Ahead(x, x)
               /\ \A x, y, z \in C : Ahead(x, y) /\ Ahead(y, z) => Ahead(x, z)
               /\ \A x, y \in C : x # y => Ahead(x, y) \/ Ahead(y, x)
    <3> HIDE DEF Ahead, C
    <3> QED OBVIOUS
  <2>1. \A x, y \in C : RankOf(x) = RankOf(y) => x = y
    BY <1>2
  <2>2. \A x \in C : RankOf(x) \in Nat /\ UnmetOf(all, x) \in Nat
    BY <1>1, <1>2
  <2> HIDE DEF C
  <2>3. \A x \in C : ~Ahead(x, x)
    BY <2>2
  <2>4. ASSUME NEW x \in C, NEW y \in C, NEW z \in C, Ahead(x, y), Ahead(y, z)
        PROVE  Ahead(x, z)
    BY <2>2, <2>4
  <2>5. ASSUME NEW x \in C, NEW y \in C, x # y PROVE Ahead(x, y) \/ Ahead(y, x)
    <3>1. RankOf(x) # RankOf(y)
      BY <2>1, <2>5
    <3> QED BY <2>2, <3>1
  <2> QED BY <2>3, <2>4, <2>5
<1>4. \A x \in C : Rank(x, R, C) = Place(x)
  <2> SUFFICES ASSUME NEW x \in C PROVE SetLessThan(x, R, C) = {y \in C : Ahead(y, x)}
    BY DEF Rank
  <2> HIDE DEF Ahead, C
  <2> QED BY DEF SetLessThan
<1>5. /\ \A x \in C : Place(x) \in 0..(size - 1)
      /\ \A i \in 0..(size - 1) : \E x \in C : Place(x) = i
  <2> HIDE DEF R, Place, C
  <2>1. /\ \A x \in C : Rank(x, R, C) \in 0..(size - 1)
        /\ \A i \in 0..(size - 1) : \E x \in C : Rank(x, R, C) = i
    BY <1>1, <1>3, Ranks
  <2> HIDE DEF size
  <2> QED BY <1>4, <2>1
<1>6. ClustersOf(all) = [k \in 1..size |-> CHOOSE x \in C : Place(x) = k - 1]
  BY Zenon DEF ClustersOf, Arranged, ClusterIds
<1>7. size = 0 <=> C = {}
  <2> HIDE DEF C
  <2> QED BY <1>1, FS_EmptySet
<1> HIDE DEF C, size, Place, Ahead
<1>8. ASSUME NEW k \in 1..size
      PROVE  ClustersOf(all)[k] \in C /\ Place(ClustersOf(all)[k]) = k - 1
  <2>1. k - 1 \in 0..(size - 1)
    BY <1>1
  <2>2. \E x \in C : Place(x) = k - 1
    BY <1>5, <2>1
  <2>3. ClustersOf(all)[k] = CHOOSE x \in C : Place(x) = k - 1
    BY <1>6
  <2> QED BY <2>2, <2>3
<1>9. ToSet(ClustersOf(all)) \subseteq C
  BY <1>6, <1>8 DEF ToSet
<1>10. ClustersOf(all) = <<>> <=> C = {}
  <2>1. DOMAIN ClustersOf(all) = 1..size
    BY <1>6
  <2>2. CASE size = 0
    <3>1. DOMAIN ClustersOf(all) = {} /\ ClustersOf(all) = [k \in {} |-> CHOOSE x \in C : Place(x) = k - 1]
      BY <1>6, <2>2
    <3> QED BY <1>7, <2>2, <3>1
  <2>3. CASE size # 0
    <3>1. 1 \in DOMAIN ClustersOf(all)
      BY <1>1, <2>1, <2>3
    <3> QED BY <1>7, <2>3, <3>1
  <2> QED BY <2>2, <2>3
<1>11. ASSUME ClustersOf(all) # <<>>
       PROVE  /\ ClustersOf(all)[1] \in C
              /\ \A id : UnmetOf(all, id) <= UnmetOf(all, ClustersOf(all)[1])
  <2> DEFINE first == ClustersOf(all)[1]
  <2>1. first \in C /\ Place(first) = 0
    <3>1. 1 \in 1..size
      BY <1>1, <1>7, <1>10, <1>11
    <3> QED BY <1>8, <3>1
  <2>2. \A y \in C : ~Ahead(y, first)
    <3> DEFINE before == {y \in C : Ahead(y, first)}
    <3>1. Cardinality(before) = 0 /\ before \in SUBSET C
      BY <2>1 DEF Place
    <3> HIDE DEF before
    <3>2. before = {}
      BY <1>1, <3>1, FS_Subset, FS_EmptySet
    <3> QED BY <3>2 DEF before
  <2>3. ASSUME NEW id \in C PROVE UnmetOf(all, id) <= UnmetOf(all, first)
    BY <1>1, <2>2 DEF Ahead
  <2>4. ASSUME NEW id, id \notin C PROVE UnmetOf(all, id) = 0
    <3>1. {i \in DOMAIN all : all[i].clusterId = id /\ Unmet(all[i])} = {}
      BY <2>4 DEF ClusterIds, C
    <3> QED BY <3>1, FS_EmptySet DEF UnmetOf, Count
  <2>5. UnmetOf(all, first) \in Nat
    BY <1>1
  <2>6. ASSUME NEW id PROVE UnmetOf(all, id) <= UnmetOf(all, first)
    <3>1. CASE id \in C BY <2>3, <3>1
    <3>2. CASE id \notin C BY <2>4, <2>5, <3>2
    <3> QED BY <3>1, <3>2
  <2> QED BY <2>1, <2>6
<1> QED BY <1>9, <1>10, <1>11 DEF C

-----------------------------------------------------------------------------
(* What the page's variables are: the entry of a shard holds nothing, or an *)
(* answer to a request for that shard.                                      *)
Url == [shard : Shards \cup {""}, cluster : {"", ALL} \cup ToSet(Ids),
        status : {"", "satisfied", "unmet"} \cup {l.status : l \in Links}]
OwnAnswers(c) ==
  /\ c \in [Shards -> {NoData} \cup UNION {Answers[s] : s \in Shards}]
  /\ \A s \in Shards : c[s] \in {NoData} \cup Answers[s]
Page ==
  /\ wired \in BOOLEAN /\ url \in Url /\ reason \in Reasons \cup {""}
  /\ topo \in Topologies \cup {<<>>} /\ failed \in [Shards -> BOOLEAN]
  /\ flying \subseteq Shards /\ clicks \in 0..MaxClicks

(* The invariant: the state the page holds, and where its answers are from. *)
PageInv == Page /\ OwnAnswers(cache)

(* There is one cache entry per shard.                                      *)
LEMMA KeysAreShards == Keys = Shards /\ \A s : Key(s) = s
BY DEF Keys, Key

(* What is shown for a shard are needs of that shard.                       *)
LEMMA DataIsOfTheShard ==
  ASSUME NEW c, OwnAnswers(c), NEW s \in Shards \cup {""}
  PROVE  DataOf(s, c).needs \in Seq(NeedOf(s)) /\ DataOf(s, c).needs \in Seq(SomeNeed)
<1>1. CASE s = ""
  <2>1. DataOf(s, c).needs = <<>>
    BY <1>1 DEF DataOf, NoData
  <2> QED BY <2>1, EmptySeq
<1>2. CASE s # ""
  <2>1. DataOf(s, c) = c[s] /\ s \in Shards
    BY <1>2, KeysAreShards DEF DataOf
  <2>2. CASE c[s] = NoData
    <3>1. NoData.needs = <<>>
      BY DEF NoData
    <3>2. DataOf(s, c).needs = <<>>
      BY <2>1, <2>2, <3>1
    <3> QED BY <3>2, EmptySeq
  <2>3. CASE c[s] # NoData
    <3>1. c[s] \in AnswerOf(s)
      BY <2>1, <2>3, ExplorerAssumption DEF OwnAnswers
    <3>2. c[s].needs \in Seq(NeedOf(s))
      BY <3>1 DEF AnswerOf
    <3>3. NeedOf(s) \subseteq SomeNeed
      BY <2>1 DEF SomeNeed
    <3>4. c[s].needs \in Seq(SomeNeed)
      BY <3>2, <3>3, SeqMonotonic
    <3> QED BY <2>1, <3>2, <3>4
  <2> QED BY <2>2, <2>3
<1> QED BY <1>1, <1>2

(* The effects fill in what is absent and nothing else: a URL u with the    *)
(* answers c becomes v, its cluster one with the most unmet needs.          *)
FilledIn(u, v, c) ==
  /\ v.status = u.status
  /\ u.shard # "" => v.shard = u.shard
  /\ u.cluster # "" => v.cluster = u.cluster
  /\ u.cluster = "" /\ v.cluster # "" =>
       \A id : UnmetOf(DataOf(v.shard, c).needs, id)
                 <= UnmetOf(DataOf(v.shard, c).needs, v.cluster)

(* So do the effects, from a URL the page may have.                         *)
LEMMA EffectsFillIn ==
  ASSUME NEW c, OwnAnswers(c), NEW u \in Url, NEW t \in Seq(Shards)
  PROVE  Effects(u, t, c) \in Url /\ FilledIn(u, Effects(u, t, c), c)
<1> DEFINE w  == IF u.shard = "" /\ t # <<>> THEN [u EXCEPT !.shard = t[1]] ELSE u
           cl == ClustersOf(DataOf(w.shard, c).needs)
           v  == Effects(u, t, c)
<1>1. /\ w \in Url /\ w.status = u.status /\ w.cluster = u.cluster
      /\ u.shard # "" => w.shard = u.shard
  <2>1. t # <<>> => t[1] \in Shards
    OBVIOUS
  <2> QED BY <2>1 DEF Url
<1>2. w.shard \in Shards \cup {""}
  BY <1>1 DEF Url
<1>3. v = IF w.cluster = "" /\ cl # <<>> THEN [w EXCEPT !.cluster = cl[1]] ELSE w
  BY DEF Effects
<1>4. DataOf(w.shard, c).needs \in Seq(SomeNeed)
  BY <1>2, DataIsOfTheShard
<1>5. cl # <<>> => /\ cl[1] \in ToSet(Ids)
                   /\ \A id : UnmetOf(DataOf(w.shard, c).needs, id)
                                <= UnmetOf(DataOf(w.shard, c).needs, cl[1])
  <2> HIDE DEF w
  <2> QED BY <1>4, ClustersInOrder, CountsAreNumbers
<1> HIDE DEF w, cl, v
<1>6. v \in Url /\ FilledIn(u, v, c)
  <2>1. CASE w.cluster = "" /\ cl # <<>>
    <3>1. v = [w EXCEPT !.cluster = cl[1]]
      BY <1>3, <2>1
    <3>2. v \in Url /\ v.status = w.status /\ v.shard = w.shard /\ v.cluster = cl[1]
      BY <1>1, <1>5, <2>1, <3>1 DEF Url
    <3> QED BY <1>1, <1>5, <2>1, <3>2 DEF FilledIn
  <2>2. CASE ~(w.cluster = "" /\ cl # <<>>)
    BY <1>1, <1>3, <2>2 DEF FilledIn
  <2> QED BY <2>1, <2>2
<1> QED BY <1>6 DEF v

-----------------------------------------------------------------------------
(* A change of the URL, with the effects and the fetch it entails.          *)
LEMMA SettleKeeps ==
  ASSUME PageInv, NEW u \in Url, NEW t \in Seq(Shards), Settle(u, t),
         u.shard \in Shards \/ u.shard = url.shard
  PROVE  url' \in Url /\ failed' \in [Shards -> BOOLEAN] /\ flying' \subseteq Shards
<1>1. url' = Effects(u, t, cache)
  BY DEF Settle
<1>2. url' \in Url /\ url'.shard \in Shards \cup {""}
  <2>1. url' \in Url
    BY <1>1, EffectsFillIn DEF PageInv
  <2> QED BY <2>1 DEF Url
<1>3. u.shard \in Shards \cup {""} /\ url.shard \in Shards \cup {""}
  BY DEF PageInv, Page, Url
<1>4. failed' \in [Shards -> BOOLEAN]
  BY <1>2, KeysAreShards DEF Settle, PageInv, Page
<1>5. flying' \subseteq Shards
  <2>1. u.shard # "" => url'.shard = u.shard
    BY <1>1, EffectsFillIn DEF PageInv, FilledIn
  <2>2. url'.shard # url.shard => url'.shard \in Shards
    BY <1>2, <1>3, <2>1
  <2> QED BY <2>2 DEF Settle, PageInv, Page
<1> QED BY <1>2, <1>4, <1>5

(* What the topology last listed are shards.                                *)
LEMMA TopologyType == PageInv => topo \in Seq(Shards)
BY ExplorerAssumption, EmptySeq DEF PageInv, Page

(* Every reachable state has its types, and each cache entry an answer of   *)
(* its own shard.                                                           *)
LEMMA PageInvariant == ExplorerSpec => []PageInv
<1>1. ExplorerInit => PageInv
  <2> SUFFICES ASSUME ExplorerInit PROVE PageInv
    OBVIOUS
  <2>1. url \in Url
    BY ExplorerAssumption DEF ExplorerInit, Url
  <2>2. OwnAnswers(cache) /\ failed \in [Shards -> BOOLEAN]
    BY KeysAreShards DEF ExplorerInit, OwnAnswers
  <2>3. clicks \in 0..MaxClicks
    <3>1. MaxClicks \in Nat
      BY ExplorerAssumption
    <3>2. clicks = MaxClicks
      BY DEF ExplorerInit
    <3> QED BY <3>1, <3>2
  <2> QED BY <2>1, <2>2, <2>3 DEF ExplorerInit, PageInv, Page
<1>2. PageInv /\ [ExplorerNext]_vars => PageInv'
  <2> SUFFICES ASSUME PageInv, [ExplorerNext]_vars PROVE PageInv'
    OBVIOUS
  <2>0. topo \in Seq(Shards) /\ OwnAnswers(cache) /\ Page
    BY TopologyType DEF PageInv
  <2>c. ASSUME Click PROVE clicks' \in 0..MaxClicks
    <3>1. MaxClicks \in Nat
      BY ExplorerAssumption
    <3>2. clicks \in 0..MaxClicks /\ clicks > 0 /\ clicks' = clicks - 1
      BY <2>0, <2>c DEF Click, Page
    <3> QED BY <3>1, <3>2
  <2>1. CASE ConfigArrives
    <3>1. url.shard \in Shards \cup {""}
      BY <2>0 DEF Page, Url
    <3> QED BY <2>0, <2>1, <3>1 DEF ConfigArrives, PageInv, Page, answers, OwnAnswers
  <2>2. CASE TopologyArrives
    <3>1. topo' \in Seq(Shards) /\ topo' \in Topologies
      BY <2>2, ExplorerAssumption DEF TopologyArrives
    <3>2. url' \in Url /\ failed' \in [Shards -> BOOLEAN] /\ flying' \subseteq Shards
      BY <2>0, <2>2, <3>1, SettleKeeps DEF TopologyArrives, Page
    <3> QED BY <2>0, <2>2, <3>1, <3>2 DEF TopologyArrives, PageInv, Page, OwnAnswers
  <2>3. CASE Poll
    <3>1. url.shard \in Shards
      BY <2>0, <2>3 DEF Poll, Page, Url
    <3>2. failed' \in [Shards -> BOOLEAN] /\ flying' \subseteq Shards
      BY <2>0, <2>3, <3>1, KeysAreShards DEF Poll, Page
    <3> QED BY <2>0, <2>3, <3>2 DEF Poll, PageInv, Page, OwnAnswers
  <2>4. CASE OpenNeed \/ CloseNeed \/ UNCHANGED vars
    <3>1. UNCHANGED <<wired, url, reason, topo, cache, failed, flying>>
      BY <2>4 DEF OpenNeed, CloseNeed, vars, answers
    <3>2. clicks' \in 0..MaxClicks
      BY <2>0, <2>4, <2>c DEF OpenNeed, CloseNeed, vars, Page
    <3> QED BY <2>0, <3>1, <3>2 DEF PageInv, Page, OwnAnswers
  <2>5. ASSUME NEW s \in Shards, Arrive(s) PROVE PageInv'
    <3>1. PICK a \in Answers[s] : cache' = [cache EXCEPT ![s] = a]
      BY <2>5, KeysAreShards DEF Arrive
    <3>2. OwnAnswers(cache')
      BY <2>0, <3>1 DEF OwnAnswers
    <3>3. url' \in Url
      BY <2>0, <2>5, <3>2, EffectsFillIn DEF Arrive, Page
    <3>4. failed' \in [Shards -> BOOLEAN] /\ flying' \subseteq Shards
      BY <2>0, <2>5, KeysAreShards DEF Arrive, Page
    <3> QED BY <2>0, <2>5, <3>2, <3>3, <3>4 DEF Arrive, PageInv, Page, OwnAnswers
  <2>6. ASSUME NEW s \in Shards, Fail(s) PROVE PageInv'
    BY <2>0, <2>6, KeysAreShards DEF Fail, PageInv, Page, OwnAnswers
  <2>7. ASSUME NEW s \in Shards, Forget(s) PROVE PageInv'
    <3>1. OwnAnswers(cache') /\ failed' \in [Shards -> BOOLEAN]
      BY <2>0, <2>7, KeysAreShards DEF Forget, OwnAnswers, Page
    <3> QED BY <2>0, <2>7, <3>1 DEF Forget, PageInv, Page, OwnAnswers
  <2>8. ASSUME NEW s \in Shards, SelectShard(s) PROVE PageInv'
    <3> DEFINE u == [url EXCEPT !.shard = s]
    <3>1. u \in Url /\ u.shard \in Shards
      BY <2>0 DEF Page, Url
    <3>2. Settle(u, topo)
      BY <2>8 DEF SelectShard
    <3>3. url' \in Url /\ failed' \in [Shards -> BOOLEAN] /\ flying' \subseteq Shards
      <4> HIDE DEF u
      <4> QED BY <2>0, <3>1, <3>2, SettleKeeps
    <3> QED BY <2>0, <2>c, <2>8, <3>3 DEF SelectShard, PageInv, Page, OwnAnswers
  <2>9. ASSUME NEW c \in {ALL} \cup ToSet(Ids), SelectCluster(c) PROVE PageInv'
    <3> DEFINE u == [url EXCEPT !.cluster = c]
    <3>1. u \in Url /\ u.shard = url.shard
      BY <2>0 DEF Page, Url
    <3>2. Settle(u, topo)
      BY <2>9 DEF SelectCluster
    <3>3. url' \in Url /\ failed' \in [Shards -> BOOLEAN] /\ flying' \subseteq Shards
      <4> HIDE DEF u
      <4> QED BY <2>0, <3>1, <3>2, SettleKeeps
    <3> QED BY <2>0, <2>c, <2>9, <3>3 DEF SelectCluster, PageInv, Page, OwnAnswers
  <2>10. ASSUME NEW st \in {"all", "satisfied", "unmet"}, SelectStatus(st) PROVE PageInv'
    <3>1. Written(st, "all") \in {"", "satisfied", "unmet"}
      BY DEF Written
    <3>2. url' \in Url
      BY <2>0, <2>10, <3>1 DEF SelectStatus, Page, Url
    <3> QED BY <2>0, <2>c, <2>10, <3>2 DEF SelectStatus, PageInv, Page, OwnAnswers, answers
  <2>11. ASSUME NEW r \in Reasons, PickReason(r) PROVE PageInv'
    BY <2>0, <2>c, <2>11 DEF PickReason, PageInv, Page, OwnAnswers, answers
  <2> QED BY <2>1, <2>2, <2>3, <2>4, <2>5, <2>6, <2>7, <2>8, <2>9, <2>10, <2>11 DEF ExplorerNext
<1> QED BY <1>1, <1>2, PTL DEF ExplorerSpec

-----------------------------------------------------------------------------
(* What holds of every need of the answer holds of the rows shown.          *)
LEMMA RowsAreOfTheShard ==
  ASSUME PageInv, NEW T, All \in Seq(T)
  PROVE  Scoped \in Seq(T) /\ Rows \in Seq(T)
<1>1. Scoped \in Seq(T)
  BY FiltersType DEF Scoped
<1>2. Status \in {"all", "satisfied", "unmet"}
  BY DEF Status
<1>3. ByStatus(Scoped, Status) \in Seq(T)
  BY <1>1, <1>2, FiltersType
<1> QED BY <1>1, <1>3, FiltersType DEF Rows

(* The page shows one of its screens.                                       *)
LEMMA ScreenType ==
  ASSUME PageInv
  PROVE  Screen \in {"unwired", "blank", "error", "loading", "empty", "nothing matches", "table"}
<1>1. wired \in BOOLEAN /\ failed \in [Shards -> BOOLEAN] /\ url.shard \in Shards \cup {""}
  BY DEF PageInv, Page, Url
<1>2. url.shard # "" => failed[Key(url.shard)] \in BOOLEAN
  BY <1>1, KeysAreShards
<1> QED BY <1>1, <1>2 DEF Screen

(* The page's state has its types, whatever is answered, linked or clicked. *)
THEOREM ExplorerTypeCorrect == ExplorerSpec => []TypeOK
<1>1. PageInv => TypeOK
  <2> SUFFICES ASSUME PageInv PROVE TypeOK
    OBVIOUS
  <2>1. /\ url.shard \in Shards \cup {""}
        /\ url.cluster \in {"", ALL} \cup ToSet(Ids)
        /\ url.status \in {"", "satisfied", "unmet"} \cup {l.status : l \in Links}
    BY DEF PageInv, Page, Url
  <2>2. \A k \in Keys : cache[k] \in {NoData} \cup UNION {Answers[s] : s \in Shards}
    BY KeysAreShards DEF PageInv, OwnAnswers
  <2>3. failed \in [Keys -> BOOLEAN]
    BY KeysAreShards DEF PageInv, Page
  <2> QED BY <2>1, <2>2, <2>3, ScreenType DEF TypeOK, PageInv, Page
<1> QED BY <1>1, PageInvariant, PTL

(* The table never shows another shard's needs: an answer that comes late   *)
(* lands in the entry of the shard it was asked for (the query key of       *)
(* Needs.tsx), and every filter passes on what it was given.                *)
THEOREM TableIsOfTheShardNamed == ExplorerSpec => []ShowsTheShardNamed
<1>1. PageInv => ShowsTheShardNamed
  <2> SUFFICES ASSUME PageInv, Screen = "table", NEW i \in DOMAIN Rows
               PROVE  Rows[i].shard = url.shard
    BY DEF ShowsTheShardNamed
  <2>1. url.shard \in Shards \cup {""}
    BY DEF PageInv, Page, Url
  <2>2. All \in Seq(NeedOf(url.shard))
    BY <2>1, DataIsOfTheShard DEF PageInv, All
  <2>3. Rows \in Seq(NeedOf(url.shard))
    BY <2>2, RowsAreOfTheShard
  <2>4. Rows[i] \in NeedOf(url.shard)
    BY <2>3
  <2> QED BY <2>4 DEF NeedOf
<1> QED BY <1>1, PageInvariant, PTL

(* No poll and no answer takes back what the user or a link chose; the      *)
(* cluster an effect fills in is one with the most unmet needs.             *)
THEOREM ChoiceStays == ExplorerSpec => ChoiceIsKept
<1> DEFINE Kept1 ==
      /\ url.shard # "" => url'.shard = url.shard
      /\ url.cluster # "" => url'.cluster = url.cluster
      /\ url'.status = url.status
      /\ url.cluster = "" /\ url'.cluster # "" =>
           \A id \in ToSet(Ids) : UnmetOf(All', id) <= UnmetOf(All', url'.cluster)
<1>1. PageInv /\ PageInv' /\ [ExplorerNext]_vars => [clicks' = clicks => Kept1]_vars
  <2> SUFFICES ASSUME PageInv, PageInv', ExplorerNext, clicks' = clicks PROVE Kept1
    BY DEF vars
  <2>0. /\ url \in Url /\ topo \in Seq(Shards) /\ OwnAnswers(cache) /\ OwnAnswers(cache')
        /\ clicks \in 0..MaxClicks
    BY TopologyType DEF PageInv, Page
  <2>1. ASSUME url' = url PROVE Kept1
    BY <2>1
  <2>2. ASSUME NEW t \in Seq(Shards), url' = Effects(url, t, cache') PROVE Kept1
    <3>1. FilledIn(url, url', cache')
      BY <2>0, <2>2, EffectsFillIn
    <3>2. All' = DataOf(url'.shard, cache').needs
      BY DEF All, DataOf, Key
    <3> QED BY <3>1, <3>2 DEF FilledIn
  <2>3. ~Click
    BY <2>0 DEF Click
  <2>4. CASE TopologyArrives
    <3>1. topo' \in Seq(Shards) /\ url' = Effects(url, topo', cache) /\ cache' = cache
      BY <2>4, ExplorerAssumption DEF TopologyArrives, Settle
    <3> QED BY <2>2, <3>1
  <2>5. ASSUME NEW s \in Shards, Arrive(s) PROVE Kept1
    BY <2>0, <2>2, <2>5 DEF Arrive
  <2>6. CASE ConfigArrives \/ Poll \/ CloseNeed
    BY <2>1, <2>6 DEF ConfigArrives, Poll, CloseNeed
  <2>7. ASSUME NEW s \in Shards, Fail(s) \/ Forget(s) PROVE Kept1
    BY <2>1, <2>7 DEF Fail, Forget
  <2> QED BY <2>3, <2>4, <2>5, <2>6, <2>7
          DEF ExplorerNext, OpenNeed, SelectShard, SelectCluster, SelectStatus, PickReason
<1> QED BY <1>1, PageInvariant, PTL DEF ExplorerSpec, ChoiceIsKept

-----------------------------------------------------------------------------
(* A set of positions of a list is a finite set of integers.                *)
LEMMA PositionsOfSeq ==
  ASSUME NEW s \in Seq(SomeNeed), NEW I \in SUBSET DOMAIN s
  PROVE  I \in SUBSET Int /\ IsFiniteSet(I)
<1>1. Len(s) \in Nat /\ DOMAIN s = 1..Len(s)
  OBVIOUS
<1>2. IsFiniteSet(1..Len(s))
  BY <1>1, FS_Interval
<1>3. IsFiniteSet(I)
  BY <1>1, <1>2, FS_Subset
<1> QED BY <1>1, <1>3

(* What passes a second filter of what is kept: as many as pass it at the   *)
(* positions that were kept.                                                *)
Passing(s, I, J, K) ==
  /\ J \in SUBSET I /\ K \in SUBSET DOMAIN Kept(s, I)
  /\ \A k \in DOMAIN Kept(s, I) : k \in K <=> Positions(I)[k] \in J

LEMMA KeptTwice ==
  ASSUME NEW s \in Seq(SomeNeed), NEW I \in SUBSET DOMAIN s, NEW J, NEW K, Passing(s, I, J, K)
  PROVE  Cardinality(K) = Cardinality(J)
<1>1. I \in SUBSET Int /\ IsFiniteSet(I)
  BY PositionsOfSeq
<1>2. /\ Positions(I) \in [1..Cardinality(I) -> I] /\ Cardinality(I) \in Nat
      /\ \A i \in I : \E k \in 1..Cardinality(I) : Positions(I)[k] = i
      /\ \A k, l \in 1..Cardinality(I) : Positions(I)[k] = Positions(I)[l] => k = l
  BY <1>1, PositionsAreAll
<1>3. DOMAIN Kept(s, I) = 1..Cardinality(I)
  BY <1>2 DEF Kept
<1>p. /\ J \in SUBSET I /\ K \in SUBSET DOMAIN Kept(s, I)
      /\ \A k \in DOMAIN Kept(s, I) : k \in K <=> Positions(I)[k] \in J
  BY DEF Passing
<1> DEFINE f == [k \in K |-> Positions(I)[k]]
<1>4. f \in Bijection(K, J)
  <2>1. f \in [K -> J] /\ \A k, l \in K : f[k] = f[l] => k = l
    BY <1>p, <1>2, <1>3
  <2>2. \A j \in J : \E k \in K : f[k] = j
    BY <1>p, <1>2, <1>3
  <2> HIDE DEF f
  <2> QED BY <2>1, <2>2 DEF Bijection, Injection, Surjection, IsInjective
<1>5. IsFiniteSet(K)
  <2>1. IsFiniteSet(1..Cardinality(I))
    BY <1>2, FS_Interval
  <2> QED BY <1>p, <1>3, <2>1, FS_Subset
<1> HIDE DEF f
<1>6. ExistsBijection(K, J)
  BY <1>4 DEF ExistsBijection
<1> QED BY <1>5, <1>6, FS_Bijection

(* The badges: one per reason of an unmet need in scope, with the number of *)
(* needs it stands for.                                                     *)
LEMMA BadgesAreReasons ==
  ASSUME Scoped \in Seq(SomeNeed)
  PROVE  \A b \in Badges : b.reason # "" /\ b.count = Cardinality(OfReason(Scoped, b.reason))
<1> DEFINE rs == Scoped
           Badge(r) == [reason |-> r, count |-> Cardinality(OfReason(rs, r))]
           reasons  == {rs[i].unmetReason : i \in Unmets(rs)}
<1>1. Badges = {Badge(r) : r \in reasons}
  BY Zenon DEF Badges, BadgesOf, Count, OfReason, Unmets
<1>2. \A r \in reasons : r # ""
  <2>1. \A i \in DOMAIN rs : rs[i] \in SomeNeed
    OBVIOUS
  <2>2. ASSUME NEW s \in Shards, NEW n \in NeedOf(s) PROVE n.unmetReason # ""
    BY DEF NeedOf
  <2>3. \A n \in SomeNeed : n.unmetReason # ""
    BY <2>2 DEF SomeNeed
  <2> QED BY <2>1, <2>3 DEF Unmets
<1>3. \A b \in Badges : b.reason \in reasons /\ b = Badge(b.reason)
  BY <1>1
<1> SUFFICES ASSUME NEW b \in Badges
             PROVE  b.reason # "" /\ b.count = Cardinality(OfReason(rs, b.reason))
  OBVIOUS
<1>4. b.reason \in reasons /\ b = Badge(b.reason)
  BY <1>3
<1>5. b.count = Cardinality(OfReason(rs, b.reason))
  <2>1. \A r : Badge(r).count = Cardinality(OfReason(rs, r))
    OBVIOUS
  <2> HIDE DEF Badge, reasons
  <2>2. b.count = Badge(b.reason).count
    BY <1>4
  <2> QED BY <2>1, <2>2
<1> HIDE DEF reasons
<1> QED BY <1>2, <1>4, <1>5

(* The rows under a reason are the unmet needs of it, and none if only      *)
(* satisfied needs are asked for.                                           *)
LEMMA RowsOfReason ==
  ASSUME NEW s \in Seq(SomeNeed), NEW st \in {"all", "satisfied", "unmet"}, NEW r, r # ""
  PROVE  Len(ByReason(ByStatus(s, st), r))
           = IF st = "satisfied" THEN 0 ELSE Cardinality(OfReason(s, r))
<1> DEFINE t == ByStatus(s, st)
<1>1. t \in Seq(SomeNeed)
  BY FiltersType
<1> HIDE DEF t
<1>2. Len(ByReason(t, r)) = Cardinality(OfReason(t, r))
  <2>1. ByReason(t, r) = Kept(t, OfReason(t, r))
    BY FiltersKeep
  <2>2. OfReason(t, r) \in SUBSET DOMAIN t
    BY DEF OfReason
  <2> QED BY <1>1, <2>1, <2>2, KeptElements
<1>3. CASE st = "all"
  <2>1. t = s
    BY <1>3, FiltersKeep DEF t
  <2> QED BY <1>2, <1>3, <2>1 DEF t
<1>4. CASE st = "satisfied"
  <2>1. t = Kept(s, Satisfieds(s)) /\ Satisfieds(s) \in SUBSET DOMAIN s
    BY <1>4, FiltersKeep DEF t, Satisfieds
  <2>2. \A k \in DOMAIN t : \E i \in Satisfieds(s) : t[k] = s[i]
    <3> DEFINE I == Satisfieds(s)
    <3> HIDE DEF I
    <3>1. I \in SUBSET DOMAIN s /\ t = Kept(s, I)
      BY <2>1 DEF I
    <3>2. \A k \in DOMAIN Kept(s, I) : \E i \in I : Kept(s, I)[k] = s[i]
      <4>1. IsFiniteSet(I) /\ I \in SUBSET Int
        BY <3>1, PositionsOfSeq
      <4>2. Positions(I) \in [1..Cardinality(I) -> I]
        BY <4>1, PositionsAreAll
      <4> QED BY <4>2 DEF Kept
    <3> QED BY <3>1, <3>2 DEF I
  <2>3. OfReason(t, r) = {}
    BY <2>2 DEF OfReason, Unmet, Satisfieds
  <2> QED BY <1>2, <1>4, <2>3, FS_EmptySet DEF t
<1>5. CASE st = "unmet"
  <2> DEFINE I == Unmets(s)
             J == OfReason(s, r)
             K == OfReason(t, r)
  <2>1. t = Kept(s, I) /\ I \in SUBSET DOMAIN s /\ J \in SUBSET I
    BY <1>5, FiltersKeep DEF t, Unmets, OfReason
  <2>2. K \in SUBSET DOMAIN Kept(s, I)
    BY <2>1 DEF OfReason
  <2>3. \A k \in DOMAIN Kept(s, I) : k \in K <=> Positions(I)[k] \in J
    <3> SUFFICES ASSUME NEW k \in DOMAIN Kept(s, I) PROVE k \in K <=> Positions(I)[k] \in J
      OBVIOUS
    <3>1. t[k] = s[Positions(I)[k]] /\ k \in DOMAIN t
      BY <2>1 DEF Kept
    <3>2. Positions(I)[k] \in DOMAIN s
      <4>1. IsFiniteSet(I) /\ I \in SUBSET Int
        BY <2>1, PositionsOfSeq
      <4>2. Positions(I) \in [1..Cardinality(I) -> I]
        BY <4>1, PositionsAreAll
      <4>3. k \in 1..Cardinality(I)
        BY <4>2 DEF Kept
      <4> QED BY <2>1, <4>2, <4>3
    <3> QED BY <3>1, <3>2 DEF OfReason
  <2> HIDE DEF I, J, K
  <2>4. Cardinality(K) = Cardinality(J)
    <3>1. Passing(s, I, J, K)
      BY <2>1, <2>2, <2>3, Zenon DEF Passing
    <3>2. s \in Seq(SomeNeed) /\ I \in SUBSET DOMAIN s
      BY <2>1
    <3> QED BY ONLY <3>1, <3>2, KeptTwice
  <2> QED BY <1>2, <1>5, <2>4 DEF J, K, t
<1> QED BY <1>3, <1>4, <1>5

(* A badge that is picked shows what it counts and can be clicked again,    *)
(* until another answer, shard or cluster takes it away: the bar counts the *)
(* needs in scope, not those that the user's filters leave (Needs.tsx).     *)
THEOREM BadgesLeadToTheirRows == ExplorerSpec => BadgesLeadBack
<1> DEFINE Picked ==
      reason' \notin {reason, ""} =>
        \A b \in Badges : b.reason = reason' =>
          Len(Rows') = IF Status = "satisfied" THEN 0 ELSE b.count
           Stays ==
      Clearable /\ UNCHANGED <<url.shard, url.cluster, cache>> => Clearable'
<1>1. PageInv /\ [ExplorerNext]_vars => [Picked /\ Stays]_vars
  <2> SUFFICES ASSUME PageInv, ExplorerNext PROVE Picked /\ Stays
    BY DEF vars
  <2>1. \/ reason' = reason
        \/ \E r \in Reasons : PickReason(r)
    BY DEF ExplorerNext, ConfigArrives, TopologyArrives, Poll, OpenNeed, CloseNeed, Arrive,
           Fail, Forget, SelectShard, SelectCluster, SelectStatus
  <2>2. UNCHANGED <<url.shard, url.cluster, cache>> => Badges' = Badges
    <3> HAVE UNCHANGED <<url.shard, url.cluster, cache>>
    <3>1. All' = All
      BY DEF All, DataOf, Key
    <3>2. Scoped' = Scoped
      BY <3>1 DEF Scoped
    <3> QED BY <3>2 DEF Badges
  <2>3. CASE reason' = reason
    BY <2>2, <2>3 DEF Clearable
  <2>4. ASSUME NEW r \in Reasons, PickReason(r) PROVE Picked /\ Stays
    <3>1. /\ UNCHANGED <<url, cache>> /\ r \in {b.reason : b \in Badges}
          /\ reason' = IF reason = r THEN "" ELSE r
      BY <2>4 DEF PickReason, answers
    <3>2. Stays
      BY <2>2, <3>1 DEF Clearable
    <3>3. Picked
      <4> SUFFICES ASSUME reason' # "", NEW b \in Badges, b.reason = reason'
                   PROVE  Len(Rows') = IF Status = "satisfied" THEN 0 ELSE b.count
        OBVIOUS
      <4>1. Scoped \in Seq(SomeNeed)
        <5>1. url.shard \in Shards \cup {""} /\ OwnAnswers(cache)
          BY DEF PageInv, Page, Url
        <5>2. All \in Seq(SomeNeed)
          BY <5>1, DataIsOfTheShard DEF All
        <5> QED BY <5>2, RowsAreOfTheShard
      <4>2. Rows' = ByReason(ByStatus(Scoped, Status), reason')
        BY <3>1 DEF Rows, Scoped, Status, All, DataOf, Key
      <4>3. Status \in {"all", "satisfied", "unmet"}
        BY DEF Status
      <4>4. b.count = Cardinality(OfReason(Scoped, b.reason))
        BY <4>1, BadgesAreReasons
      <4>5. Len(ByReason(ByStatus(Scoped, Status), reason'))
              = IF Status = "satisfied" THEN 0 ELSE Cardinality(OfReason(Scoped, reason'))
        BY <4>1, <4>3, RowsOfReason
      <4> QED BY <4>2, <4>4, <4>5
    <3> QED BY <3>2, <3>3
  <2> QED BY <2>1, <2>3, <2>4
<1> QED BY <1>1, PageInvariant, PTL DEF ExplorerSpec, BadgesLeadBack
=============================================================================
