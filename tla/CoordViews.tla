----------------------------- MODULE CoordViews -----------------------------
(***************************************************************************)
(* The coordinator's state on its two pages: the reports of the shards     *)
(* (ShardReports.tsx, and a card of Topology.tsx), the registry of shards  *)
(* with their heartbeats and pending instructions, the assignments of      *)
(* domains; and the way there, through pkg/coordclient and the handlers.   *)
(*                                                                         *)
(* A map is a function from names, None (of NeedsVerdict) is null, a       *)
(* penalty bucket is one of BucketAt's, time is in half seconds.           *)
(***************************************************************************)
EXTENDS NeedsVerdict, Arrays, SequencesExt

CONSTANTS Names,          \* all names, as localeCompare and Go's sorted keys order them
          CardLists,      \* entries of a list of the shard page: 12
          TopologyLists   \* those of the topology page: 6

ASSUME ViewAssumption ==
  /\ CardLists \in Nat /\ TopologyLists \in Nat /\ TopologyLists <= CardLists
  /\ Names \in Seq(ToSet(Names)) /\ "absent" \notin ToSet(Names)
  /\ \A i, j \in DOMAIN Names : Names[i] = Names[j] => i = j

Rank(x) == CHOOSE i \in DOMAIN Names : Names[i] = x
ByName(a, b) == Rank(a) < Rank(b)

(* What the coordinator has: reports of shards, a registry of them, and    *)
(* assignments of domains.                                                 *)
Named == ToSet(Names)
IsTally(m) == DOMAIN m \subseteq Named /\ m \in [DOMAIN m -> Nat]
IsSummary(m) ==
  /\ m \in [total : Nat, free : Nat, types : {m.types}, zones : {m.zones}]
  /\ IsTally(m.types) /\ IsTally(m.zones)
IsShortfall(s) ==
  /\ s \in [priority : Int, age : Int, bucket : {BucketAt(i) : i \in 0..Ladder}, deficit : {s.deficit}]
  /\ IsTally(s.deficit)
IsReport(r) ==
  /\ r \in [shard : Named, summary : {r.summary}, shortfalls : Seq(ToSet(r.shortfalls))]
  /\ IsNone(r.summary) \/ IsSummary(r.summary)
  /\ \A s \in ToSet(r.shortfalls) : IsShortfall(s)
IsRegistry(registry) ==
  /\ registry \in Seq([shard : Named, beat : Nat])
  /\ \A i, j \in DOMAIN registry : registry[i].shard = registry[j].shard => i = j

(* The greater key first.                                                  *)
Descending(s, KeyOf(_)) == Sorted(s, LAMBDA x, y : KeyOf(x) > KeyOf(y))

-----------------------------------------------------------------------------
(* The client and the handler.  A map without entries has no bytes on the  *)
(* wire: it arrives as nil and leaves as null.                             *)
Counts(m) == IF DOMAIN m = {} THEN None ELSE m

MutToAPISummary(m) ==
  IF IsNone(m) THEN None ELSE [m EXCEPT !.types = Counts(@), !.zones = Counts(m.types)]
ToAPISummary(m) ==
  IF IsNone(m) THEN None ELSE [m EXCEPT !.types = Counts(@), !.zones = Counts(@)]

ToAPIShortfall(s) == [s EXCEPT !.deficit = Counts(@)]
ToAPIShardReport(r) ==
  [r EXCEPT !.summary = ToAPISummary(@),
            !.shortfalls = [i \in DOMAIN @ |-> ToAPIShortfall(@[i])]]

ShardReports(reports) == [i \in DOMAIN reports |-> ToAPIShardReport(reports[i])]

(* The topology.  prom is the pending instructions by shard, or None if    *)
(* Prometheus is not wired or the query failed.                            *)
MutTopology(registry, domains, prom) ==
  [pending |-> IF IsNone(prom) THEN 0 ELSE SumFunctionOnSet(prom, {registry[i].shard : i \in DOMAIN registry} \cap DOMAIN prom),
   warned |-> FALSE,
   shards |-> [i \in DOMAIN registry |->
     LET s == registry[i]
     IN  [shard |-> s.shard, beat |-> 2 * (s.beat \div 2),
          pending |-> IF s.shard \in DOMAIN prom THEN prom[s.shard] ELSE 0]],
   domains |-> domains]
Topology(registry, domains, prom) ==
  LET byShard == IF IsNone(prom) THEN <<>> ELSE prom
  IN  [pending |-> SumFunction(byShard), warned |-> IsNone(prom),
       shards |-> [i \in DOMAIN registry |->
         LET s == registry[i]
         IN  [shard |-> s.shard, beat |-> 2 * (s.beat \div 2),
              pending |-> IF s.shard \in DOMAIN byShard THEN byShard[s.shard] ELSE 0]],
       domains |-> domains]

-----------------------------------------------------------------------------
(* The page of the shard reports.                                          *)
SortFields == {"priority", "age", "bucket"}

SortKey(s, field) == CASE field = "priority" -> s.priority
                       [] field = "age" -> s.age
                       [] field = "bucket" -> BucketRank(s.bucket)

MutSortShortfalls(rows, field) ==
  Descending(rows, LAMBDA s : IF field = "age" THEN s.age ELSE s.priority)
SortShortfalls(rows, field) == Descending(rows, LAMBDA s : SortKey(s, field))

(* Object.entries(m), the largest counts first; null has no entries to     *)
(* take, so the call throws.  At most n are listed.                        *)
Entries(m) == Descending(Arranged(DOMAIN m, ByName), LAMBDA k : m[k])
Breakdown(m, n) ==
  [listed |-> SubSeq(Entries(m), 1, Min({n, Cardinality(DOMAIN m)})),
   more   |-> Atleast0(Cardinality(DOMAIN m) - n)]

CardThrows(r) == ~IsNone(r.summary) /\ (IsNone(r.summary.types) \/ IsNone(r.summary.zones))

Number(r, field) == IF IsNone(r.summary) THEN 0 ELSE r.summary[field]
Map(r, field)    == IF IsNone(r.summary) THEN <<>> ELSE r.summary[field]

ShardCard(r, field) ==
  [shard |-> r.shard, total |-> Number(r, "total"), free |-> Number(r, "free"),
   types |-> Breakdown(Map(r, "types"), CardLists),
   zones |-> Breakdown(Map(r, "zones"), CardLists),
   shortfalls |-> SortShortfalls(r.shortfalls, field)]

InOrder(reports) == Sorted(reports, LAMBDA r, s : ByName(r.shard, s.shard))

ShardReportsPage(reports, field) ==
  IF \E i \in DOMAIN reports : CardThrows(reports[i]) THEN [throws |-> TRUE]
  ELSE [throws |-> FALSE,
        empty |-> reports = <<>>,
        rebuilding |-> /\ reports # <<>>
                       /\ \A i \in DOMAIN reports : /\ IsNone(reports[i].summary)
                                                    /\ reports[i].shortfalls = <<>>,
        cards |-> LET s == InOrder(reports) IN [i \in DOMAIN s |-> ShardCard(s[i], field)]]

-----------------------------------------------------------------------------
(* The topology page.  The deficit of every shortfall is put together from *)
(* its entries, which throws for null too.                                 *)
ItemThrows(r) == \/ ~IsNone(r.summary) /\ IsNone(r.summary.types)
                 \/ \E i \in DOMAIN r.shortfalls : IsNone(r.shortfalls[i].deficit)

ReportItem(r) ==
  [shard |-> r.shard, total |-> Number(r, "total"), free |-> Number(r, "free"),
   types |-> Breakdown(Map(r, "types"), TopologyLists), shortfalls |-> r.shortfalls]

ReportsCard(reports) ==
  IF \E i \in DOMAIN reports : ItemThrows(reports[i]) THEN [throws |-> TRUE]
  ELSE [throws |-> FALSE,
        items |-> LET s == InOrder(reports) IN [i \in DOMAIN s |-> ReportItem(s[i])]]

(* An age in half seconds as text; Math.round rounds a half up.            *)
Minute == 120
Hour   == 60 * Minute
FormatRelative(beat, now) ==
  LET age == now - beat
      In(unit) == (2 * age + unit) \div (2 * unit)
  IN  CASE beat <= 0 -> <<"never", 0>>
        [] beat > 0 /\ age < Minute -> <<"s", In(2)>>
        [] beat > 0 /\ age >= Minute /\ age < Hour -> <<"m", In(Minute)>>
        [] beat > 0 /\ age >= Hour /\ age < 24 * Hour -> <<"h", In(Hour)>>
        [] beat > 0 /\ age >= 24 * Hour -> <<"d", In(24 * Hour)>>

MutHeartbeatTone(beat, now) ==
  IF beat <= 0 THEN "muted"
  ELSE IF now - beat > 60 THEN "amber" ELSE IF now - beat > Minute THEN "red" ELSE "muted"
HeartbeatTone(beat, now) ==
  IF now - beat > Minute THEN "red" ELSE IF now - beat > 60 THEN "amber" ELSE "muted"

ShardsCard(t, now) ==
  [i \in DOMAIN t.shards |->
     [shard |-> t.shards[i].shard, pending |-> t.shards[i].pending,
      tone |-> HeartbeatTone(t.shards[i].beat, now),
      text |-> FormatRelative(t.shards[i].beat, now)]]

(* The assignments of a key, by value; the keys by name.                   *)
MutDomainsCard(assignments) ==
  LET keys == Arranged({assignments[i].key : i \in DOMAIN assignments}, ByName)
  IN  [k \in DOMAIN keys |->
         [key |-> keys[k],
          rows |-> SetToSortSeq({a \in ToSet(assignments) : a.key = keys[k]},
                                LAMBDA a, b : ByName(a.shard, b.shard))]]
DomainsCard(assignments) ==
  LET keys == Arranged({assignments[i].key : i \in DOMAIN assignments}, ByName)
  IN  [k \in DOMAIN keys |->
         [key |-> keys[k],
          rows |-> Sorted(Filter(assignments, LAMBDA a : a.key = keys[k]),
                          LAMBDA a, b : ByName(a.value, b.value))]]

-----------------------------------------------------------------------------
(* What breaks the pages is a report with an empty map, which two          *)
(* conversions turn into null: a summary without types or zones breaks the *)
(* one, a summary without types or a shortfall without a deficit the other,*)
(* and nothing else does.                                                  *)
CountsNo(r, field) == ~IsNone(r.summary) /\ DOMAIN r.summary[field] = {}
LacksNothing(r) == \E i \in DOMAIN r.shortfalls : DOMAIN r.shortfalls[i].deficit = {}

(* What a page shows is all of the report: every shard once, by name, no   *)
(* shortfall lost or doubled whatever it is sorted by, the longest entries *)
(* of each list and how many there are besides.                            *)
Largest(b, m) ==
  /\ Len(b.listed) + b.more = Cardinality(DOMAIN m)
  /\ \A i \in DOMAIN b.listed, k \in DOMAIN m \ ToSet(b.listed) : m[b.listed[i]] >= m[k]
  /\ \A i \in 1..(Len(b.listed) - 1) : m[b.listed[i]] >= m[b.listed[i + 1]]
Told(shortfalls) == [i \in DOMAIN shortfalls |-> [shortfalls[i] EXCEPT !.deficit = DOMAIN @ \ {"absent"}]]
Same(s, t) ==
  /\ Len(s) = Len(t)
  /\ \A x \in ToSet(s) \cup ToSet(t) :
       Cardinality({i \in DOMAIN s : s[i] = x}) = Cardinality({i \in DOMAIN t : t[i] = x})
CardsTellTheReports(raw, field, page) ==
  /\ page.throws = \E i \in DOMAIN raw : CountsNo(raw[i], "types") \/ CountsNo(raw[i], "zones")
  /\ ~page.throws =>
       /\ Len(page.cards) = Len(raw)
       /\ \A i \in DOMAIN raw : \E c \in DOMAIN page.cards :
            LET card == page.cards[c]
            IN  /\ card.shard = raw[i].shard
                /\ Same(Told(card.shortfalls), Told(raw[i].shortfalls))
                /\ ~IsNone(raw[i].summary) => /\ Largest(card.types, raw[i].summary.types)
                                              /\ Largest(card.zones, raw[i].summary.zones)
       /\ \A c \in DOMAIN page.cards :
            LET rows == page.cards[c].shortfalls
            IN  \A i, j \in DOMAIN rows : i < j => SortKey(rows[i], field) >= SortKey(rows[j], field)
       /\ page.rebuilding => \A c \in DOMAIN page.cards : page.cards[c].total = 0

ItemsTellTheReports(raw, card) ==
  /\ card.throws = \E i \in DOMAIN raw : CountsNo(raw[i], "types") \/ LacksNothing(raw[i])
  /\ ~card.throws =>
       /\ Len(card.items) = Len(raw)
       /\ \A i \in DOMAIN raw : \E c \in DOMAIN card.items :
            LET item == card.items[c]
            IN  /\ item.shard = raw[i].shard
                /\ Same(Told(item.shortfalls), Told(raw[i].shortfalls))
                /\ ~IsNone(raw[i].summary) => Largest(item.types, raw[i].summary.types)

(* Two pages, one report: where both render they say the same, and the     *)
(* shorter list is the beginning of the longer one.                        *)
PagesAgree(page, card) ==
  ~page.throws /\ ~card.throws =>
    \A i \in DOMAIN card.items :
      LET a == page.cards[i]
          b == card.items[i]
      IN  /\ a.shard = b.shard /\ a.total = b.total /\ a.free = b.free
          /\ Same(a.shortfalls, b.shortfalls)
          /\ SubSeq(a.types.listed, 1, Len(b.types.listed)) = b.types.listed

(* The tile of the pending instructions counts those of the rows, and all  *)
(* of them if every shard is registered; zeros without Prometheus come     *)
(* with a warning.  A silent shard is red and its age is not in seconds:   *)
(* what colour and text say fits, also for a shard that never reported,    *)
(* and cutting the heartbeat to seconds hides no silence.  No assignment   *)
(* is lost.                                                                *)
TopologyTellsTheState(in, t, rows, groups) ==
  LET n == SumFunction([i \in DOMAIN rows |-> rows[i].pending])
      places == UNION {{g} \X DOMAIN groups[g].rows : g \in DOMAIN groups}
  IN  /\ n <= t.pending
      /\ IsNone(in.prom) => t.warned
      /\ ~IsNone(in.prom) /\ DOMAIN in.prom \subseteq {r.shard : r \in ToSet(in.registry)}
           => n = t.pending
      /\ \A i \in DOMAIN rows :
           /\ in.now - in.registry[i].beat > Minute => rows[i].tone = "red"
           /\ rows[i].tone = "red" => /\ rows[i].text[1] # "s"
                                      /\ in.now - in.registry[i].beat >= Minute - 1
      /\ \A a \in ToSet(in.domains) \cup {groups[p[1]].rows[p[2]] : p \in places} :
           Cardinality({p \in places : groups[p[1]].rows[p[2]] = a})
             = Cardinality({i \in DOMAIN in.domains : in.domains[i] = a})
      /\ \A g \in DOMAIN groups :
           \A i, j \in DOMAIN groups[g].rows :
             i < j => ~ByName(groups[g].rows[j].value, groups[g].rows[i].value)
=============================================================================
