--------------------------- MODULE FinOpsFigures ---------------------------
(***************************************************************************)
(* The FinOps page: seven queries of handlers_finops.go, the snapshot made *)
(* of them, and what ui/src/pages/FinOps.tsx tells of it.                  *)
(*                                                                         *)
(* Machines are natural numbers.  A penalty bucket is its label: its name, *)
(* the half dollars it parses to (NoNumber if it is none) and its rank in *)
(* the order of bytes.  A missing label is "" respectively NoBucket.       *)
(***************************************************************************)
EXTENDS Integers, Sequences, FiniteSets, FiniteSetsExt, Functions, SequencesExt, Arrays

CONSTANTS
  OtherTypes, \* the capacity types the product does not know, in the order of bytes
  Buckets,    \* the labels a penalty bucket may have
  Fleets      \* what a scrape may find

NoNumber == -1
Bucket(name, half, rank) == [name |-> name, half |-> half, rank |-> rank]
Pinned   == Bucket("pinned", NoNumber, 90)
NoBucket == Bucket("", NoNumber, 0)

(* The types the product knows in their order, then others by name.        *)
CapacityTypeOrder == <<"BareMetal", "Reserved", "OnDemand", "Spot">> \o OtherTypes
CapacityTypes == ToSet(CapacityTypeOrder)

(* Machines by labels, some of which may be missing.                       *)
Counter(f, S) == IsFiniteSet(DOMAIN f) /\ DOMAIN f \subseteq S /\ f \in [DOMAIN f -> Nat]
IsFleet(f) ==
  /\ Counter(f.configured, (CapacityTypes \cup {""}) \X (Buckets \cup {NoBucket}))
  /\ Counter(f.idle, CapacityTypes \cup {""})
  /\ Counter(f.demand, Buckets \cup {NoBucket})

(* A label is one string, two labels are two numbers, and what is no       *)
(* number begins with a letter, which comes after the digits.              *)
ASSUME FinOpsAssumption ==
  /\ OtherTypes \in Seq(STRING \ {""})
  /\ \A i, j \in DOMAIN CapacityTypeOrder : CapacityTypeOrder[i] = CapacityTypeOrder[j] => i = j
  /\ Pinned \in Buckets
  /\ \A a \in Buckets : /\ a.rank \in Nat \ {0} /\ a.half \in Nat \cup {NoNumber}
                        /\ a = Bucket(a.name, a.half, a.rank)
  /\ \A a, b \in Buckets :
       /\ a.rank = b.rank => a = b
       /\ a.half = b.half /\ a.half # NoNumber => a = b
       /\ a.half # NoNumber /\ b.half = NoNumber => a.rank < b.rank
  /\ \A f \in Fleets : IsFleet(f)

-----------------------------------------------------------------------------
(* Prometheus.  A scrape is the fleet at one moment: the configured        *)
(* machines by capacity type and bucket, the idle ones by capacity type,   *)
(* the demand by bucket.  A new scrape is stored while the handler works:  *)
(* query k and the later ones find it, unless they are evaluated at a time *)
(* before its own.  The handler's clock starts at 0; a scrape of time 0 is *)
(* one which had begun but was stored late.                                *)
World(old, new, stored, at) == [old |-> old, new |-> new, stored |-> stored, at |-> at]

(* All queries are evaluated at the moment the handler began.              *)
MutEvaluatedAt(k) == k
EvaluatedAt(k) == 0

Found(w, k) == IF k >= w.stored /\ w.at <= EvaluatedAt(k) THEN w.new ELSE w.old

SumBy(f, Group(_)) ==
  [g \in {Group(x) : x \in DOMAIN f} |-> SumFunctionOnSet(f, {x \in DOMAIN f : Group(x) = g})]

-----------------------------------------------------------------------------
(* The handler.                                                            *)
ByCapacity(f) == LET g == SumBy(f, LAMBDA x : x[1]) IN [c \in DOMAIN g \ {""} |-> g[c]]
ByBucket(f)   == LET g == SumBy(f, LAMBDA x : x[2]) IN [b \in DOMAIN g \ {NoBucket} |-> g[b]]

(* An absent entry of a map reads as 0.                                    *)
At(f, k)     == IF k \in DOMAIN f THEN f[k] ELSE 0
Cell(m, c, b) == At(m, <<c, b>>)

Fraction(a, b) == IF b = 0 THEN <<0, 1>> ELSE <<a, b>>

OrderCapacityTypes(set) == Filter(CapacityTypeOrder, LAMBDA c : c \in set)

(* Pinned last, numbers by value, anything else by its bytes.              *)
MutBucketLess(a, b) == a # b /\ a # Pinned /\ (b = Pinned \/ a.rank < b.rank)
BucketLess(a, b) ==
  /\ a # b /\ a # Pinned
  /\ \/ b = Pinned
     \/ a.half # NoNumber /\ b.half # NoNumber /\ a.half < b.half
     \/ (a.half = NoNumber \/ b.half = NoNumber) /\ a.rank < b.rank

OrderBuckets(set) == Arranged(set, BucketLess)

MutDetectRedFlags(m) == IF Cell(m, "Spot", Pinned) > 1 THEN {<<"Spot", Pinned>>} ELSE {}
DetectRedFlags(m) == IF Cell(m, "Spot", Pinned) > 0 THEN {<<"Spot", Pinned>>} ELSE {}

CapacitySet(m, conf, idle) == {x[1] : x \in DOMAIN m} \cup DOMAIN conf \cup DOMAIN idle

BucketSet(m, demand, byBucket) == {x[2] : x \in DOMAIN m} \cup DOMAIN demand \cup DOMAIN byBucket

FinOps(w) ==
  LET conf     == ByCapacity(Found(w, 1).configured)
      idle     == Restrict(Found(w, 2).idle, DOMAIN Found(w, 2).idle \ {""})
      samples  == Found(w, 3).configured
      m        == Restrict(samples, {x \in DOMAIN samples : x[1] # "" /\ x[2] # NoBucket})
      demand   == Restrict(Found(w, 4).demand, DOMAIN Found(w, 4).demand \ {NoBucket})
      byBucket == ByBucket(Found(w, 5).configured)
      total    == SumFunction(conf)
      pinned   == SumFunctionOnSet(m, {x \in DOMAIN m : x[2] = Pinned})
  IN  [configuredMachines |-> total, idleMachines |-> SumFunction(idle),
       demandMachines |-> SumFunction(Found(w, 6).demand),
       spotFraction |-> Fraction(At(conf, "Spot"), total),
       pinnedFraction |-> Fraction(pinned, total),
       capacityTypes |-> OrderCapacityTypes(CapacitySet(m, conf, idle)),
       buckets |-> OrderBuckets(BucketSet(m, demand, byBucket)),
       configuredByCapacityType |-> conf, idleByCapacityType |-> idle, configured |-> m,
       configuredByBucket |-> byBucket, demand |-> demand, redFlags |-> DetectRedFlags(m)]

-----------------------------------------------------------------------------
(* The page.  Exceeds(p, q) compares two fractions.                        *)
Exceeds(p, q) == p[1] * q[2] > q[1] * p[2]
Fleet(s) == s.configuredMachines + s.idleMachines
Held(s, c) == At(s.configuredByCapacityType, c) + At(s.idleByCapacityType, c)

(* The sentences of the summary, each of which may be missing.             *)
PostureSummary(s) ==
  [mix |-> {c \in ToSet(s.capacityTypes) : Held(s, c) > 0},
   sentences |->
     {x \in {"active", "short", "under", "spot", "pinned", "noFlags"} :
        CASE x = "active"  -> s.configuredMachines > 0
          [] x = "short"   -> s.demandMachines > 0 /\ s.demandMachines > Fleet(s)
          [] x = "under"   -> s.demandMachines > 0 /\ s.demandMachines <= Fleet(s)
          [] x = "spot"    -> s.spotFraction[1] > 0
          [] x = "pinned"  -> s.pinnedFraction[1] > 0
          [] x = "noFlags" -> s.redFlags = {} /\ s.configuredMachines > 0}]

KeyMetrics(s) ==
  [active |-> s.configuredMachines, idle |-> s.idleMachines, demand |-> s.demandMachines,
   demandTone |-> IF s.demandMachines > Fleet(s) THEN "danger" ELSE "neutral",
   spotTone   |-> IF Exceeds(s.spotFraction, <<1, 2>>) THEN "warn" ELSE "neutral",
   pinnedTone |-> IF Exceeds(s.pinnedFraction, <<5, 100>>) THEN "warn" ELSE "neutral"]

(* A stacked bar: the values above 0 as shares of their sum.               *)
StackedBar(types, f) ==
  LET segments == Filter(types, LAMBDA c : At(f, c) > 0)
  IN  [segments |-> segments,
       total |-> SumFunctionOnSet([i \in DOMAIN segments |-> f[segments[i]]], DOMAIN segments)]

CapacityMix(s) ==
  [active |-> StackedBar(s.capacityTypes, s.configuredByCapacityType),
   idle   |-> StackedBar(s.capacityTypes, s.idleByCapacityType),
   cards  |-> [c \in {"BareMetal", "Reserved", "OnDemand", "Spot"} |-> Held(s, c)]]

(* The matrix and its tiles: a share of high penalties from 1024 dollars.  *)
HighPenalty(b) == b = Pinned \/ b.half >= 2048

PenaltyDistribution(s) ==
  LET f == s.configuredByBucket
      shown == {<<s.capacityTypes[i], s.buckets[j]>> :
                i \in DOMAIN s.capacityTypes, j \in DOMAIN s.buckets}
  IN  [high |-> SumFunctionOnSet(f, {b \in DOMAIN f : HighPenalty(b)}), total |-> SumFunction(f),
       max |-> Max({0} \cup {Cell(s.configured, x[1], x[2]) : x \in shown}),
       cells |-> [x \in shown |->
          [value |-> Cell(s.configured, x[1], x[2]),
           flagged |-> x = <<"Spot", Pinned>> /\ Cell(s.configured, x[1], x[2]) > 0]]]

(* Demand against supply: rows of those buckets that have one of them, the *)
(* widest bar, the tone of the gap and the lists under the chart.          *)
DemandVsSupply(s) ==
  LET rows == Filter(s.buckets, LAMBDA b : At(s.demand, b) > 0 \/ At(s.configuredByBucket, b) > 0)
      D(i) == At(s.demand, rows[i])
      S(i) == At(s.configuredByBucket, rows[i])
  IN  [rows |-> rows,
       widest |-> Max({1} \cup {D(i) : i \in DOMAIN rows} \cup {S(i) : i \in DOMAIN rows}),
       tone |-> [i \in DOMAIN rows |-> IF S(i) < D(i) THEN "red"
                                       ELSE IF S(i) - D(i) > 2 * D(i) THEN "amber" ELSE "subtle"],
       short |-> {rows[i] : i \in {j \in DOMAIN rows : S(j) < D(j)}},
       over  |-> {rows[i] : i \in {j \in DOMAIN rows : S(j) > 2 * D(j) /\ D(j) > 0}}]

(* What the page tells of a snapshot.                                      *)
Page(s) ==
  [flags |-> s.redFlags, posture |-> PostureSummary(s), metrics |-> KeyMetrics(s),
   mix |-> CapacityMix(s), matrix |-> PenaltyDistribution(s), gaps |-> DemandVsSupply(s)]

-----------------------------------------------------------------------------
(* The alarm, the red cell and the sentence of the all-clear are three     *)
(* computations; all of them, and only if pinned workloads are on Spot,    *)
(* say so, also for a snapshot of two scrapes.                             *)
RedFlagsAgree(s, p) ==
  LET red == \E x \in DOMAIN p.matrix.cells : p.matrix.cells[x].flagged
  IN  /\ red = (p.flags # {})
      /\ red = (Cell(s.configured, "Spot", Pinned) > 0)
      /\ red => "noFlags" \notin p.posture.sentences

(* No machine is left out: the bars add up to the tiles, every sample has  *)
(* its cell, the rows of the gaps have all the supply and the demand.      *)
NothingLeftOut(s, p) ==
  /\ p.mix.active.total = p.metrics.active /\ p.mix.idle.total = p.metrics.idle
  /\ \A x \in DOMAIN s.configured : x \in DOMAIN p.matrix.cells /\ s.configured[x] <= p.matrix.max
  /\ \A b \in DOMAIN s.demand : s.demand[b] > 0 => b \in ToSet(p.gaps.rows)
  /\ \A b \in DOMAIN s.configuredByBucket :
       At(s.configuredByBucket, b) > 0 => b \in ToSet(p.gaps.rows)
  /\ \A i \in DOMAIN p.gaps.rows : /\ At(s.demand, p.gaps.rows[i]) <= p.gaps.widest
                                   /\ At(s.configuredByBucket, p.gaps.rows[i]) <= p.gaps.widest

(* Who reads the list under the chart misses no bucket that is short, and  *)
(* no bucket in demand whose number is amber.                              *)
GapsAreListed(s, p) ==
  \A i \in DOMAIN p.gaps.rows :
    /\ (p.gaps.tone[i] = "red") = (p.gaps.rows[i] \in p.gaps.short)
    /\ p.gaps.tone[i] = "amber" /\ At(s.demand, p.gaps.rows[i]) > 0
         => p.gaps.rows[i] \in p.gaps.over

(* Seven queries tell of one moment: unless a scrape is stored late, the   *)
(* figures of different queries agree, whatever was scraped meanwhile, and *)
(* no share is above one.                                                  *)
OneInstant(w, s, p) ==
  w.at > 0 =>
    /\ ~Exceeds(s.spotFraction, <<1, 1>>) /\ ~Exceeds(s.pinnedFraction, <<1, 1>>)
    /\ \A x \in DOMAIN s.configured : /\ s.configured[x] <= At(s.configuredByCapacityType, x[1])
                                      /\ s.configured[x] <= At(s.configuredByBucket, x[2])
    /\ SumFunction(s.demand) <= s.demandMachines
    /\ p.matrix.high <= p.matrix.total

(* The columns are in the order of dollars, with pinned last: no two       *)
(* neighbours, so no two columns at all, are in the wrong order.           *)
BucketsInDollarOrder(s) ==
  \A i, j \in DOMAIN s.buckets : i < j =>
    /\ s.buckets[i] # Pinned
    /\ s.buckets[i].half # NoNumber /\ s.buckets[j].half # NoNumber
         => s.buckets[i].half < s.buckets[j].half
    /\ s.buckets[i].half = NoNumber => s.buckets[j].half = NoNumber
=============================================================================
