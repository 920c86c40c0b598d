----------------------------- MODULE MCFigures -----------------------------
(***************************************************************************)
(* The inputs of the figures for TLC.                                      *)
(***************************************************************************)
EXTENDS Figures

Upto(n, S) == UNION {[1..m -> S] : m \in 0..n}

-----------------------------------------------------------------------------
(* The walk: up to three needs of every kind, four of two profiles.        *)
Served == {<<0, FALSE>>, <<1, TRUE>>, <<1, FALSE>>}
MCRow(p, a, f, s) == [priority |-> p, arrival |-> a, fingerprint |-> f, claimed |-> s[1],
                      satisfied |-> s[2], shape |-> {"cpu"}, supply |-> -1]
Numbered(seq) == [i \in DOMAIN seq |-> seq[i] @@ [id |-> i]]
WalkNeeds == Upto(3, {MCRow(p, a, f, s) : p \in 1..2, a \in 0..1, f \in {"", "x"}, s \in Served})
LongNeeds == [1..4 -> {MCRow(p, 0, f, s) : p \in 1..2, f \in {"x", "y"}, s \in {<<0, FALSE>>, <<1, TRUE>>}}]
MCWalks == {[needs |-> Numbered(needs), several |-> b] : needs \in WalkNeeds \cup LongNeeds, b \in BOOLEAN}

(* The competition: the need of the drawer may be one of the answer behind *)
(* it or, after a poll, be missing there.                                  *)
MCRival(p, a, c, sh) == [MCRow(p, a, "", <<c, FALSE>>) EXCEPT !.shape = sh]
Shapes == {{"cpu"}, {"gpu"}, {"cpu", "gpu"}}
Rivals == {Numbered(all) : all \in
             Upto(2, {MCRival(p, a, c, sh) : p \in 1..2, a \in 0..1, c \in 0..1, sh \in Shapes})
             \cup [1..4 -> {MCRival(p, a, 1, {"cpu"}) : p \in 1..2, a \in 0..1}]}
Gone == {MCRival(p, a, 0, sh) @@ [id |-> 0] : p \in 1..2, a \in 0..1, sh \in Shapes}
MCCompetitions == UNION {[need : Gone \cup ToSet(all), all : {all}] : all \in Rivals}

-----------------------------------------------------------------------------
(* The verdict: what a need asks, by what units, and what it lacks; which  *)
(* messages it has, and the enums.                                         *)
MCRoundedUp == {<<2100, 300>>}
Asked == {<<>>, [cpu |-> 4000], [cpu |-> 3000, mem |-> 1000], [cpu |-> 0, mem |-> 2000],
          [cpu |-> 2100]}
Units == {<<>>, [cpu |-> 2000], [cpu |-> 3000, mem |-> 1000], [cpu |-> 300]}
Lacks == {<<>>, [cpu |-> 1000], [cpu |-> 4000, mem |-> 1000]}
Supplies == {None, [idle |-> 0, configured |-> 0, speculative |-> 0, capped |-> FALSE],
             [idle |-> 1, configured |-> 0, speculative |-> 2, capped |-> TRUE]}

MCMessages ==
  {[priority |-> 1, aggregate |-> asked, minUnit |-> unit, satisfied |-> sat,
    reason |-> why, claimed |-> got[1], bootstrap |-> got[2], provision |-> 0,
    deficit |-> lack, supply |-> sup, domain |-> place,
    preemption |-> IF sat THEN None ELSE [victims |-> 2, freed |-> None],
    requirements |-> <<[operator |-> op, values |-> 1]>>,
    spread |-> IF sat THEN <<"DO_NOT_SCHEDULE">> ELSE <<"SCHEDULE_ANYWAY">>,
    candidates |-> IF place = "" THEN <<>> ELSE <<[domain |-> "rack", perMille |-> 0]>>] :
   asked \in Asked, unit \in Units, lack \in Lacks, sat \in BOOLEAN, got \in {<<0, 0>>, <<5, 3>>},
   sup \in Supplies, why \in {"", "PRIORITY_STARVED", "NEW"}, op \in DOMAIN TitleOperator,
   place \in {"", "rack"}}

-----------------------------------------------------------------------------
(* Ranges in Go's time: moments, and durations and steps of whole          *)
(* milliseconds, too long or 0 ones among them; samples missing or bad.    *)
SamplesOf(r, gone, bad) ==
  LET times == SampleTimes(r)
      kept  == Filter([i \in DOMAIN times |-> [t |-> times[i], i |-> i]], LAMBDA s : s.i \notin gone)
  IN  [k \in DOMAIN kept |-> [t |-> kept[k].t, value |-> IF kept[k].i = bad THEN Bad ELSE 3]]
MatrixOf(s, named) ==
  <<[labels |-> [kind |-> "Provision"], samples |-> s],
    [labels |-> <<>>, samples |-> s],
    [labels |-> IF named THEN [pod |-> "p", kind |-> "Reclaim"] ELSE <<>>, samples |-> s]>>
SeriesFound(now, d, st, s, named) ==
  [now |-> now, duration |-> d, step |-> st, samples |-> s, matrix |-> MatrixOf(s, named)]
MCSeries ==
  {SeriesFound(now, d, st, SamplesOf(RangeAsked(now, d, st), gone, bad), named) :
     now \in 30..45, d \in {0, 2, 6, 10, 16, 40}, st \in {0, 2, 4, 6, 10},
     gone \in {{}, {1}, {2, 3}}, bad \in {0, 1, 4}, named \in BOOLEAN}

(* The overview: a vector of states with values that may repeat or be bad, *)
(* and a sample without the label.                                         *)
StateNames == <<"Idle", "Configured", "Failed", "Draining", "Creating">>
States == {[i \in DOMAIN v |-> [labels |-> [state |-> StateNames[i]], value |-> v[i]]]
             \o <<[labels |-> <<>>, value |-> 9]>> : v \in Upto(5, {Bad, 0, 1, 7})}
MCVectors == [cycle : {<<>>, <<[labels |-> <<>>, value |-> Bad]>>}, states : States]

-----------------------------------------------------------------------------
(* Fleets: none, one with all kinds of labels, one with pinned work on     *)
(* Spot, one of another provider, one where labels are missing.            *)
Zero == Bucket("0", 0, 10)
One  == Bucket("1", 2, 11)
K1   == Bucket("1024", 2048, 12)
D16  == Bucket("16", 32, 13)
Two  == Bucket("2", 4, 14)
Unspecified == Bucket("unspecified", NoNumber, 99)
MCBuckets == {Zero, One, K1, D16, Two, Unspecified, Pinned}
MCOtherTypes == <<"Custom", "Lab">>
MCFleet(c, i, d) == [configured |-> c, idle |-> i, demand |-> d]
MCFleets ==
  {MCFleet(<<>>, <<>>, <<>>),
   MCFleet(<<"Spot", One>> :> 2 @@ <<"OnDemand", K1>> :> 3 @@ <<"OnDemand", Pinned>> :> 1
             @@ <<"BareMetal", Unspecified>> :> 1,
           "BareMetal" :> 2 @@ "Reserved" :> 1,
           One :> 1 @@ D16 :> 2 @@ Two :> 0 @@ Pinned :> 3),
   MCFleet(<<"Spot", Pinned>> :> 1 @@ <<"Spot", Two>> :> 5 @@ <<"BareMetal", D16>> :> 4,
           "Spot" :> 0, Two :> 1 @@ D16 :> 4 @@ Zero :> 1),
   MCFleet(<<"Custom", Zero>> :> 1 @@ <<"Spot", Pinned>> :> 0, "Custom" :> 3 @@ "Lab" :> 1, Zero :> 9),
   MCFleet(<<"", One>> :> 2 @@ <<"Spot", NoBucket>> :> 1 @@ <<"Reserved", One>> :> 3,
           "" :> 4 @@ "OnDemand" :> 1, NoBucket :> 2 @@ One :> 1)}

-----------------------------------------------------------------------------
(* Reports: of a shard without a summary, with an empty or a counted one;  *)
(* shortfalls that tie in one field and not in another.                    *)
MCNames == <<"a", "b", "c", "d">>
MCShort(p, age, b, d) == [priority |-> p, age |-> age, bucket |-> BucketAt(b), deficit |-> d]
Shorts == {<<>>, <<MCShort(1, 2, 27, [a |-> 1]), MCShort(2, 1, 2, [a |-> 1]), MCShort(2, 3, 27, [b |-> 2])>>,
           <<MCShort(1, 1, 0, <<>>)>>}
Summaries ==
  {None} \cup
  {[total |-> 5, free |-> 2, types |-> t, zones |-> z] :
     t \in {<<>>, [b |-> 5], [a |-> 1, b |-> 3, c |-> 1], [a |-> 1, b |-> 1, c |-> 1, d |-> 2]},
     z \in {<<>>, [d |-> 5]}}
MCReports == [shard : {"c"}, summary : Summaries, shortfalls : Shorts]
MCReporting ==
  [reports : Upto(1, MCReports) \cup {<<r, [r EXCEPT !.shard = "a", !.summary = None]>> : r \in MCReports},
   field : SortFields]

(* Registries around the minute, with a shard that is not registered.      *)
Registries == Upto(1, [shard : {"b"}, beat : {0, 1} \cup 198..203])
              \cup {<<[shard |-> "b", beat |-> 300], [shard |-> "a", beat |-> t]>> : t \in 238..242}
Pendings == {None, <<>>, [a |-> 2], [a |-> 1, b |-> 2], [c |-> 4, b |-> 1]}
Assignments == {<<>>, <<[key |-> "b", value |-> "c", shard |-> "a"], [key |-> "a", value |-> "b", shard |-> "b"],
                        [key |-> "b", value |-> "a", shard |-> "b"], [key |-> "b", value |-> "b", shard |-> "a"]>>}
MCCoordinators == [registry : Registries, prom : Pendings, domains : Assignments,
                   now : 318..322 \cup {200000}]

-----------------------------------------------------------------------------
(* Scrapes of two shards and a coordinator, which has no machines; LISTs   *)
(* of objects some of which have no phase; hints of two clusters.          *)
Machines == {<<>>, <<"s1", "Idle", "Spot">> :> 3 @@ <<"s1", "Idle", "Reserved">> :> 1
                     @@ <<"s1", "Failed", "Spot">> :> 2 @@ <<"s2", "Idle", "Spot">> :> 0,
             <<"s2", "Configured", "BareMetal">> :> 4,
             <<"s1", "Idle", "">> :> 2 @@ <<"s1", "Idle", "Spot">> :> 1 @@ <<"", "Idle", "Spot">> :> 4
               @@ <<"s2", "", "Spot">> :> 1}
Exported == {"s1" :> 0 @@ "s2" :> 1 @@ "coordinator" :> 0, "s1" :> 2 @@ "coordinator" :> 0}
Cycles == {<<>>, "s1" :> 1 @@ "s2" :> 6, "s1" :> 3 @@ "s2" :> Bad @@ "coordinator" :> Bad}
Rates == {<<>>, <<"s1", "Provision">> :> 2 @@ <<"s1", "Reclaim">> :> 0}
Proposals == {<<>>, <<"s1", "committed">> :> 3 @@ <<"s1", "conflict">> :> 1,
              <<"s2", "committed">> :> 2 @@ <<"s2", "conflict">> :> 1}
MCScrapes == [machines : Machines, shortfalls : Exported, sessions : Exported, cycle : Cycles,
              actions : Rates, occ : Proposals]

Lists(S) == {Failed} \cup {Answered(s) : s \in Upto(3, S)}
MCClusters == [crs : Lists({"", "Pending", "Acknowledged"}), uns : Lists({"", "Ready", "Failed"})]

Hinted == {<<>>} \cup {<<[name |-> 2, count |-> i], [name |-> 1, count |-> j], [name |-> 3, count |-> 1]>> :
                       i, j \in 0..2}
MCHintLists == UNION {[C -> {Failed} \cup {Answered(s) : s \in Hinted}] : C \in SUBSET {"c1", "c2"}}
=============================================================================
