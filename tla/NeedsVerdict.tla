---------------------------- MODULE NeedsVerdict ----------------------------
(***************************************************************************)
(* One need on its way from the shard's message to the drawer of the Needs *)
(* page: the two conversions of the server (pkg/shardclient,               *)
(* handlers_needs.go), what JSON leaves out, and what the drawer computes  *)
(* from the rest (ui/src/pages/needsKit.tsx, Needs.tsx, lib/format.ts).    *)
(*                                                                         *)
(* Quantities are natural numbers of thousandths, a map is a function from *)
(* the names it has, None is a message the shard left out.  A fraction is  *)
(* kept as a pair, its width as a percentage rounded down.                 *)
(***************************************************************************)
EXTENDS Integers, Sequences, FiniteSets, FiniteSetsExt, Functions

(* The page computes with doubles.  A quantity with the suffix m is parsed *)
(* as a multiple of 0.001, which no double is: of two such quantities the  *)
(* quotient may come out above the whole number it is, as 2.1 / 0.3 does.  *)
(* Whole quantities are exact, and so is the quotient's integer part where *)
(* it is no whole number, up to amounts of 2^49.                           *)
CONSTANT RoundedUp  \* the pairs of quantities whose quotient comes out too large

IsWhole(x) == x % 1000 = 0
ASSUME RoundingAssumption ==
  \A p \in RoundedUp : /\ p[1] \in Nat \ {0} /\ p[2] \in Nat \ {0} /\ p[1] % p[2] = 0
                       /\ ~(IsWhole(p[1]) /\ IsWhole(p[2]))

None == [absent |-> TRUE]
IsNone(m) == DOMAIN m = {"absent"}

-----------------------------------------------------------------------------
(* The shard's client.  A getter on a missing message gives the zero value.*)
Fields(m) == IF IsNone(m) THEN <<>> ELSE m

(* The operator of a requirement and the strictness of a spread travel as  *)
(* names without the enum's prefix, in the case of Kubernetes.             *)
MutTitle == [OPERATOR_IN |-> "In", OPERATOR_NOT_IN |-> "NotIn", OPERATOR_EXISTS |-> "Exists",
             OPERATOR_DOES_NOT_EXIST |-> "DoesNotExist", OPERATOR_SAME |-> "SAME"]
TitleOperator ==
  [OPERATOR_IN |-> "In", OPERATOR_NOT_IN |-> "NotIn", OPERATOR_EXISTS |-> "Exists",
   OPERATOR_DOES_NOT_EXIST |-> "DoesNotExist", OPERATOR_SAME |-> "Same"]

TitleWhenUnsatisfiable == [DO_NOT_SCHEDULE |-> "DoNotSchedule",
                           SCHEDULE_ANYWAY |-> "ScheduleAnyway", UNSPECIFIED |-> "UNSPECIFIED"]

Requirements(rs) == [i \in DOMAIN rs |-> [rs[i] EXCEPT !.operator = TitleOperator[@]]]
Spread(ss)       == [i \in DOMAIN ss |-> TitleWhenUnsatisfiable[ss[i]]]

MutFromProto(nv) ==
  [priority |-> nv.priority, aggregate |-> Fields(nv.aggregate), minUnit |-> Fields(nv.minUnit),
   satisfied |-> nv.satisfied, reason |-> nv.reason, claimed |-> nv.claimed,
   bootstrap |-> nv.bootstrap, provision |-> nv.provision,
   deficit |-> Fields(nv.deficit), supply |-> None,
   requirements |-> Requirements(nv.requirements), spread |-> Spread(nv.spread),
   preemption |-> nv.preemption, domain |-> nv.domain, candidates |-> nv.candidates]
FromProto(nv) ==
  [priority |-> nv.priority, aggregate |-> Fields(nv.aggregate), minUnit |-> Fields(nv.minUnit),
   satisfied |-> nv.satisfied, reason |-> nv.reason, claimed |-> nv.claimed,
   bootstrap |-> nv.bootstrap, provision |-> nv.provision,
   deficit |-> Fields(nv.deficit),
   supply |-> IF IsNone(nv.supply) THEN None
              ELSE [idle |-> nv.supply.idle, configured |-> nv.supply.configured,
                    speculative |-> nv.supply.speculative, capped |-> nv.supply.capped],
   preemption |-> IF IsNone(nv.preemption) THEN None
                  ELSE [victims |-> nv.preemption.victims,
                        freed |-> Fields(nv.preemption.freed)],
   requirements |-> Requirements(nv.requirements), spread |-> Spread(nv.spread),
   domain |-> nv.domain, candidates |-> nv.candidates]

(* The handler's copy, pointer by pointer.                                 *)
ToAPINeedView(n) ==
  [n EXCEPT !.requirements = IF n.requirements = <<>> THEN <<>> ELSE n.requirements,
            !.supply = IF IsNone(n.supply) THEN None ELSE n.supply,
            !.preemption = IF IsNone(n.preemption) THEN None ELSE n.preemption]

(* What the page has of a message.                                         *)
View(nv) == ToAPINeedView(FromProto(nv))

(* A message of the shard: amounts are natural numbers, enums the enum's.  *)
Amounts(m) == IsFiniteSet(DOMAIN Fields(m)) /\ Fields(m) \in [DOMAIN Fields(m) -> Nat]
IsMessage(nv) ==
  /\ Amounts(nv.aggregate) /\ Amounts(nv.minUnit) /\ Amounts(nv.deficit)
  /\ nv.claimed \in Nat /\ nv.bootstrap \in Nat /\ nv.provision \in Nat /\ nv.satisfied \in BOOLEAN
  /\ IsNone(nv.supply) \/ nv.supply \in [idle : Nat, configured : Nat, speculative : Nat, capped : BOOLEAN]
  /\ nv.requirements \in Seq([operator : DOMAIN TitleOperator, values : Nat])
  /\ nv.spread \in Seq(DOMAIN TitleWhenUnsatisfiable)

-----------------------------------------------------------------------------
(* Coverage and chunks.  Get is m?.[k] parsed, in thousandths: what is     *)
(* missing counts as 0.                                                    *)
Get(m, k) == IF k \in DOMAIN m THEN m[k] ELSE 0
Atleast0(x) == IF x > 0 THEN x ELSE 0
Less(p, q) == p[1] * q[2] < q[1] * p[2]      \* p and q are fractions

(* The worst-covered resource, of those the need asks any of.              *)
MutCoverage(n) ==
  LET of == {<<Atleast0(n.aggregate[k] - Get(n.deficit, k)), n.aggregate[k]>> :
             k \in {x \in DOMAIN n.aggregate : n.aggregate[x] > 0}}
  IN  IF n.satisfied \/ of = {} THEN <<1, 1>>
      ELSE CHOOSE p \in of : \A q \in of : ~Less(p, q)
Coverage(n) ==
  LET of == {<<Atleast0(n.aggregate[k] - Get(n.deficit, k)), n.aggregate[k]>> :
             k \in {x \in DOMAIN n.aggregate : n.aggregate[x] > 0}}
  IN  IF n.satisfied \/ of = {} THEN <<1, 1>>
      ELSE CHOOSE p \in of : \A q \in of : ~Less(q, p)

(* The number of chunks of the min-unit, and a resource that needs as many:*)
(* Math.ceil of the quotient that the division of the doubles gives.       *)
MutCeilDiv(a, b) == a \div b + 1
CeilDiv(a, b) == (a + b - 1) \div b + (IF <<a, b>> \in RoundedUp THEN 1 ELSE 0)

Chunks(n, k) == CeilDiv(n.aggregate[k], Get(n.minUnit, k))

ChunkEstimate(n) ==
  LET dims  == {k \in DOMAIN n.aggregate : Get(n.minUnit, k) > 0}
      total == Max({0} \cup {Chunks(n, k) : k \in dims})
  IN  IF total = 0 THEN None
      ELSE [total |-> total, binding |-> CHOOSE k \in dims : Chunks(n, k) = total]

(* The segmented meter: at most cap segments, the covered share of them    *)
(* filled; Math.round rounds a half up.                                    *)
ChunkMeter(n, cap) ==
  LET total == IF IsNone(ChunkEstimate(n)) THEN 1 ELSE ChunkEstimate(n).total
      shown == IF total < cap THEN total ELSE cap
      cov   == Coverage(n)
  IN  [shown |-> shown, more |-> total - shown,
       filled |-> IF n.satisfied THEN shown ELSE (2 * cov[1] * shown + cov[2]) \div (2 * cov[2])]

(* The bars of the resources: want, what is short, and the fraction got.   *)
ResourceRow(n, k) ==
  LET want  == n.aggregate[k]
      short == IF n.satisfied THEN 0 ELSE Get(n.deficit, k)
  IN  [short |-> short,
       frac |-> IF want > 0 THEN <<Atleast0(want - short), want>> ELSE <<1, 1>>]

CoverageBar(n) ==
  LET cov == Coverage(n)
      pct == (100 * cov[1]) \div cov[2]
  IN  [width |-> IF pct > 3 THEN pct ELSE 3,
       colour |-> IF n.satisfied THEN "emerald" ELSE IF cov[1] > 0 THEN "amber" ELSE "red"]

-----------------------------------------------------------------------------
(* The verdict's text.  An unknown reason has a label of its own.          *)
Reasons == {"PRIORITY_STARVED", "NO_MATCHING_SUPPLY", "TOPOLOGY_UNSATISFIABLE",
            "PREEMPTION_EXHAUSTED"}
ReasonMeta(n) ==
  IF n.satisfied THEN [label |-> "satisfied", tone |-> "good", action |-> FALSE]
  ELSE IF n.reason \in Reasons
    THEN [label |-> n.reason, action |-> TRUE,
          tone |-> CASE n.reason = "NO_MATCHING_SUPPLY" -> "danger"
                     [] n.reason = "TOPOLOGY_UNSATISFIABLE" -> "violet"
                     [] OTHER -> "warn"]
    ELSE [label |-> IF n.reason = "" THEN "unmet" ELSE n.reason, tone |-> "danger",
          action |-> FALSE]

Acquired(n) == n.bootstrap + n.provision

(* How a satisfied need is held, what was newly acquired, and the rest.    *)
HeldPanel(n) ==
  [held |-> n.claimed, new |-> Acquired(n),
   carried |-> IF Acquired(n) = 0 THEN n.claimed ELSE Atleast0(n.claimed - Acquired(n))]

(* The three stages of an unmet one.                                       *)
UnmetWaterfall(n) ==
  [claims |-> n.claimed, new |-> IF n.claimed > 0 THEN Acquired(n) ELSE 0,
   victims |-> IF IsNone(n.preemption) THEN 0 ELSE n.preemption.victims,
   freed |-> IF IsNone(n.preemption) THEN <<>> ELSE n.preemption.freed,
   short |-> n.deficit]

(* The funnel: what matches, what can be claimed now, what was claimed,    *)
(* each a bar as wide as its share of the widest, but 6 % at least.        *)
MutFunnelMax(matching, claimable, claimed) == Max({matching, claimable, 1})
FunnelMax(matching, claimable, claimed) == Max({matching, claimable, claimed, 1})

SupplyFunnel(n) ==
  LET ms        == n.supply
      claimable == IF IsNone(ms) THEN 0 ELSE ms.idle + ms.configured
      matching  == IF IsNone(ms) THEN 0 ELSE claimable + ms.speculative
      widest    == FunnelMax(matching, claimable, n.claimed)
      Bar(v)    == [value |-> v, width |-> Max({6, (100 * v) \div widest})]
  IN  <<Bar(matching), Bar(claimable), Bar(n.claimed)>>

(* The candidate domains of a gang: a bar and the chosen one's mark.       *)
TopologyBlock(n) ==
  [c \in DOMAIN n.candidates |->
     [width |-> Max({2, n.candidates[c].perMille \div 10}),
      chosen |-> n.candidates[c].domain = n.domain]]

(* The sections of the drawer which a need may lack.                       *)
Sections(n) ==
  {x \in {"held", "waterfall", "funnel", "competition", "topology"} :
     CASE x = "held"        -> n.satisfied
       [] x = "waterfall"   -> ~n.satisfied
       [] x = "funnel"      -> ~n.satisfied /\ ~IsNone(n.supply)
       [] x = "competition" -> ~n.satisfied /\ n.reason = "PRIORITY_STARVED"
       [] x = "topology"    -> n.domain # "" \/ n.candidates # <<>>}

(* The chips of the aggregation key: the glyph of the operator, the mark   *)
(* of co-location, and of a spread whether it is hard.                     *)
Glyph == [In |-> "in", NotIn |-> "notin", Exists |-> "exists", DoesNotExist |-> "nexists",
          Same |-> "bowtie"]
Chips(n) ==
  [requirements |-> [i \in DOMAIN n.requirements |->
     LET r == n.requirements[i]
     IN  [coloc |-> r.operator = "Same", values |-> r.values,
          glyph |-> IF r.operator \in DOMAIN Glyph THEN Glyph[r.operator] ELSE r.operator]],
   hard |-> [i \in DOMAIN n.spread |-> n.spread[i] = "DoNotSchedule"]]

(* All the drawer says of a need.                                          *)
DecisionReport(n, cap) ==
  [meta |-> ReasonMeta(n), coverage |-> Coverage(n), bar |-> CoverageBar(n),
   estimate |-> ChunkEstimate(n), meter |-> ChunkMeter(n, cap),
   rows |-> [k \in DOMAIN n.aggregate |-> ResourceRow(n, k)],
   held |-> HeldPanel(n), waterfall |-> UnmetWaterfall(n), funnel |-> SupplyFunnel(n),
   chips |-> Chips(n), topology |-> TopologyBlock(n), sections |-> Sections(n)]

-----------------------------------------------------------------------------
(* Penalty buckets: unspecified, zero, half a dollar, 2^k dollars, pinned. *)
(* The wire names them; a bucket is its name and, where that is a number,  *)
(* its dollars.                                                            *)
Ladder    == 27
BucketAt(i) == CASE i = 0 -> [name |-> "UNSPECIFIED"]
                 [] i = 1 -> [name |-> "ZERO"]
                 [] i = 2 -> [name |-> "HALF_DOLLAR"]
                 [] i \in 3..26 -> [name |-> "DOLLARS", n |-> 2^(i - 3)]
                 [] i = 27 -> [name |-> "PINNED"]

(* The stop of the thermometer a bucket fills to.                          *)
Log2(n) == CHOOSE k \in 0..30 : 2^k = n
MutPenaltyOrdinal(b) ==
  CASE b.name = "UNSPECIFIED" -> 0 [] b.name = "ZERO" -> 1 [] b.name = "HALF_DOLLAR" -> 2
    [] b.name = "PINNED" -> Ladder [] b.name = "DOLLARS" -> Log2(b.n) + 2
PenaltyOrdinal(b) ==
  CASE b.name = "UNSPECIFIED" -> 0 [] b.name = "ZERO" -> 1 [] b.name = "HALF_DOLLAR" -> 2
    [] b.name = "PINNED" -> Ladder [] b.name = "DOLLARS" -> Log2(b.n) + 3

(* The page of the shard reports ranks them by half dollars; pinned is     *)
(* beyond all, unspecified before all.                                     *)
BucketRank(b) ==
  CASE b.name = "UNSPECIFIED" -> -1 [] b.name = "ZERO" -> 0 [] b.name = "HALF_DOLLAR" -> 1
    [] b.name = "PINNED" -> 2^30 [] b.name = "DOLLARS" -> 2 * b.n

(* The label: dollars, or thousands or millions of them to a tenth.        *)
FormatPenalty(b) ==
  CASE b.name = "UNSPECIFIED" -> <<"unset", 0>> [] b.name = "ZERO" -> <<"$", 0>>
    [] b.name = "HALF_DOLLAR" -> <<"$", 5>>     [] b.name = "PINNED" -> <<"pinned", 0>>
    [] b.name = "DOLLARS" /\ b.n >= 1000000 -> <<"M", (b.n + 50000) \div 100000>>
    [] b.name = "DOLLARS" /\ b.n < 1000000 /\ b.n >= 1000 -> <<"K", (b.n + 50) \div 100>>
    [] b.name = "DOLLARS" /\ b.n < 1000 -> <<"$", 10 * b.n>>

-----------------------------------------------------------------------------
(* The bar in the table tells the worst of the bars in the drawer, and is  *)
(* red only if some resource is not covered at all.                        *)
CoverageIsTheWorstBar(n, d) ==
  /\ \A k \in DOMAIN d.rows : ~Less(d.rows[k].frac, d.coverage)
  /\ d.coverage # <<1, 1>> => \E k \in DOMAIN d.rows : d.rows[k].frac = d.coverage
  /\ d.bar.colour = "red" => \E k \in DOMAIN d.rows : d.rows[k].frac[1] = 0

(* The estimate is a number of chunks that holds every resource which has  *)
(* a chunk size, and it is at most one too many: one chunk less would hold *)
(* no more than the resource named as binding wants, and less than that if *)
(* its quantities are whole.                                               *)
ChunksAreEnough(n, d) ==
  LET e == d.estimate
      dims == {k \in DOMAIN n.aggregate : Get(n.minUnit, k) > 0}
  IN  IF IsNone(e) THEN \A k \in dims : n.aggregate[k] = 0
      ELSE /\ \A k \in dims : e.total * n.minUnit[k] >= n.aggregate[k]
           /\ LET want  == n.aggregate[e.binding]
                  chunk == n.minUnit[e.binding]
              IN  /\ (e.total - 1) * chunk <= want
                  /\ IsWhole(want) /\ IsWhole(chunk) => (e.total - 1) * chunk < want
           /\ d.meter.shown + d.meter.more = e.total /\ d.meter.filled <= d.meter.shown

(* No bar of the funnel is wider than its track, even if the count of the  *)
(* supply is capped below what the need has claimed.                       *)
FunnelFits(d) == \A i \in DOMAIN d.funnel : d.funnel[i].width \in 6..100

(* What the shard says of a need survives both conversions: a message that *)
(* is there, if all its numbers are 0 too, shows its section and no other  *)
(* does, the numbers are the shard's, and Same is what is marked.          *)
DrawerTellsTheVerdict(nv, d) ==
  /\ ("funnel" \in d.sections) = (~nv.satisfied /\ ~IsNone(nv.supply))
  /\ ~IsNone(nv.supply) => d.funnel[1].value = nv.supply.idle + nv.supply.configured
                                                + nv.supply.speculative
  /\ ("topology" \in d.sections) = (nv.domain # "" \/ nv.candidates # <<>>)
  /\ ("held" \in d.sections) = nv.satisfied
  /\ d.held.held = d.held.new + d.held.carried \/ nv.claimed < nv.bootstrap + nv.provision
  /\ \A i \in DOMAIN nv.requirements :
       d.chips.requirements[i].coloc = (nv.requirements[i].operator = "OPERATOR_SAME")
  /\ \A i \in DOMAIN nv.spread : d.chips.hard[i] = (nv.spread[i] = "DO_NOT_SCHEDULE")

(* The ladder, the ranks of the other page and the labels agree: each is a *)
(* strictly increasing, or at least injective, image of the enum.          *)
PenaltyScalesAgree(i, j) ==
  LET a == BucketAt(i)
      b == BucketAt(j)
  IN  i < j => /\ PenaltyOrdinal(a) < PenaltyOrdinal(b) /\ PenaltyOrdinal(b) <= Ladder
               /\ BucketRank(a) < BucketRank(b)
               /\ FormatPenalty(a) # FormatPenalty(b)
=============================================================================
