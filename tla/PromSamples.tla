---------------------------- MODULE PromSamples ----------------------------
(***************************************************************************)
(* From Prometheus to figures: the helpers of pkg/promclient that turn the *)
(* results of queries into numbers, and the handlers which are little more *)
(* than their use: the range handlers of the fleet and of a shard, and the *)
(* fleet overview with its tiles (FleetOverview.tsx).                      *)
(*                                                                         *)
(* Time is counted in Go's unit, the nanosecond; Ms of them are one        *)
(* millisecond, Prometheus's unit, and Sec one second, the axis's.  A value*)
(* is a number or Bad (NaN, +-Inf).                                        *)
(***************************************************************************)
EXTENDS Integers, Sequences, FiniteSets, SequencesExt, FiniteSetsExt, Functions, Arrays

CONSTANTS Ms, Sec,
          DefaultDuration, MaxDuration, DefaultStep, MaxStep   \* of a range: 1h, 24h, 30s, 1h

Bad == -1

(* A span of time in whole milliseconds.                                   *)
Whole(d) == d % Ms = 0

ASSUME SampleAssumption ==
  /\ Ms \in Nat \ {0} /\ Sec \in Nat \ {0}
  /\ \A d \in {DefaultDuration, MaxDuration, DefaultStep, MaxStep} : d \in Nat \ {0} /\ Whole(d)

-----------------------------------------------------------------------------
(* Instant queries.  A vector is a sequence of samples [labels, value]; a  *)
(* label a sample lacks is not in the domain of its labels.                *)
JsonSafe(v) == IF v = Bad THEN 0 ELSE v

QueryScalar(vec) == IF vec = <<>> THEN 0 ELSE JsonSafe(vec[1].value)

QueryVector(vec) == Filter(vec, LAMBDA s : s.value # Bad)

(* By one label: samples without it are dropped, of two with the same the  *)
(* later one stays.                                                        *)
QueryByLabel(vec, label) ==
  LET kept == Filter(QueryVector(vec), LAMBDA s : label \in DOMAIN s.labels)
      At(k) == {i \in DOMAIN kept : kept[i].labels[label] = k}
  IN  [k \in {kept[i].labels[label] : i \in DOMAIN kept} |-> kept[Max(At(k))].value]

-----------------------------------------------------------------------------
(* The parameters of a range: a missing, broken, zero or negative one (all *)
(* of them 0 here) is the default, one beyond the maximum the maximum.     *)
ParseDuration(d, default, most) == IF d <= 0 THEN default ELSE IF d > most THEN most ELSE d

(* The range ends now, rounded down to a whole step.                       *)
MutRangeOf(now, duration, step) == [from |-> now - duration, to |-> now, step |-> step]
RangeOf(now, duration, step) ==
  LET end == now - (now % step)
  IN  [from |-> end - duration, to |-> end, step |-> step]

RangeAsked(now, duration, step) ==
  RangeOf(now, ParseDuration(duration, DefaultDuration, MaxDuration),
          ParseDuration(step, DefaultStep, MaxStep))

(* Prometheus rounds the ends and the step to its milliseconds and takes a *)
(* sample at every step, if the series has one there.                      *)
Rounded(t) == (t + Ms \div 2) \div Ms

SampleTimes(r) ==
  LET step == Rounded(r.step)
      n == IF step = 0 THEN 0 ELSE (Rounded(r.to) - Rounded(r.from)) \div step
  IN  [i \in 1..(n + 1) |-> (Rounded(r.from) + (i - 1) * step) * Ms]

(* Go's division rounds to zero.                                           *)
Quo(a, b) == IF a >= 0 THEN a \div b ELSE -((-a) \div b)

(* The axis, in seconds, and the row of one series: a sample belongs to    *)
(* the step its time falls into; what has no sample or a bad one is 0.     *)
Steps(r)      == Quo(r.to - r.from, r.step) + 1
StepOf(r, t)  == Quo(t - r.from, r.step) + 1
Timestamps(r) == [i \in 1..Steps(r) |-> (r.from + (i - 1) * r.step) \div Sec]

RowOf(r, samples) ==
  [i \in 1..Steps(r) |->
     LET here == {j \in DOMAIN samples : StepOf(r, samples[j].t) = i /\ samples[j].value # Bad}
     IN  IF here = {} THEN 0 ELSE samples[Max(here)].value]

QueryRangeByLabel(r, matrix, label) ==
  LET labelled == {i \in DOMAIN matrix : label \in DOMAIN matrix[i].labels}
      Name(i)  == matrix[i].labels[label]
  IN  [timestamps |-> Timestamps(r),
       series |-> [k \in {Name(i) : i \in labelled} |->
                     RowOf(r, matrix[Max({i \in labelled : Name(i) = k})].samples)]]

(* The actions of the fleet, in the order of the kinds' names; the trends  *)
(* of one shard, whose cycle times are null if the pod has no series.      *)
FleetActions(answer, byName) ==
  LET kinds == Filter(byName, LAMBDA k : k \in DOMAIN answer.series)
  IN  [timestamps |-> answer.timestamps, kinds |-> kinds,
       values |-> [i \in DOMAIN kinds |-> answer.series[kinds[i]]]]

ShardTrends(pod, cycles, actions) ==
  [timestamps |-> cycles.timestamps, actionRates |-> actions.series,
   cycleP99 |-> IF pod \in DOMAIN cycles.series THEN cycles.series[pod] ELSE <<>>]

-----------------------------------------------------------------------------
(* The fleet overview: five queries, the machines summed over the states.  *)
(* Seconds is the worst cycle time.                                        *)
FleetOverview(shards, clusters, shortfalls, cycle, states) ==
  LET byState == QueryByLabel(states, "state")
  IN  [shards |-> QueryScalar(shards), clusters |-> QueryScalar(clusters),
       machines |-> SumFunction(byState), machinesByState |-> byState,
       shortfalls |-> QueryScalar(shortfalls), cycleP99Seconds |-> QueryScalar(cycle)]

(* Its tiles: below the machines the four largest states.                  *)
TopStates(f) ==
  LET there == {k \in DOMAIN f : f[k] > 0}
  IN  CHOOSE top \in SUBSET there :
        /\ Cardinality(top) = IF Cardinality(there) < 4 THEN Cardinality(there) ELSE 4
        /\ \A k \in top, j \in there \ top : f[k] >= f[j]

Tiles(ov) ==
  [machines |-> ov.machines, summary |-> TopStates(ov.machinesByState),
   shortfallTone |-> IF ov.shortfalls > 0 THEN "danger" ELSE "good",
   cycleTone |-> IF ov.cycleP99Seconds > 5 THEN "danger"
                 ELSE IF ov.cycleP99Seconds > 1 THEN "warn" ELSE "good"]

-----------------------------------------------------------------------------
(* Every sample is drawn at its own time: the row has the sample's value   *)
(* where the axis has the sample's second, so that no two samples share a  *)
(* step and none is shifted or lost, and a step with a value has a sample. *)
SamplesKeepTheirTime(r, samples) ==
  /\ \A j \in DOMAIN samples : samples[j].value # Bad =>
       LET i == StepOf(r, samples[j].t)
       IN  /\ i \in 1..Steps(r) /\ RowOf(r, samples)[i] = samples[j].value
           /\ Timestamps(r)[i] = samples[j].t \div Sec
  /\ \A i \in 1..Steps(r) : RowOf(r, samples)[i] # 0 =>
       \E j \in DOMAIN samples : samples[j].t \div Sec = Timestamps(r)[i]

(* Every series is as long as the axis it is drawn against, also where the *)
(* axis is another query's (the actions of a shard).                       *)
RowsFitTheAxis(actions, trends) ==
  /\ \A i \in DOMAIN actions.values : Len(actions.values[i]) = Len(actions.timestamps)
  /\ \A k \in DOMAIN trends.actionRates : Len(trends.actionRates[k]) = Len(trends.timestamps)
  /\ trends.cycleP99 # <<>> => Len(trends.cycleP99) = Len(trends.timestamps)

(* The states below the number of machines add up to it, if there are not  *)
(* more than four, and no state that is left out is larger than one shown. *)
SummaryFitsTheTotal(ov, tiles) ==
  LET f == ov.machinesByState
      shown == SumFunctionOnSet(f, tiles.summary)
  IN  /\ shown <= tiles.machines
      /\ Cardinality({k \in DOMAIN f : f[k] > 0}) <= 4 => shown = tiles.machines
      /\ \A k \in tiles.summary, j \in DOMAIN f \ tiles.summary : f[k] >= f[j]
=============================================================================
