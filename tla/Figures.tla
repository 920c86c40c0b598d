------------------------------ MODULE Figures ------------------------------
(***************************************************************************)
(* The figures of the dashboard: what the code makes of its inputs.  They  *)
(* are functions: a behaviour takes one input, computes and ends.          *)
(***************************************************************************)
EXTENDS NeedsWalk, NeedsVerdict, CoordViews, InventoryViews

CONSTANTS
  Walks,        \* [needs, several]: an answer, and whether it has several clusters
  Competitions, \* [need, all]: the need of the drawer and the answer behind it
  Messages,     \* the shard's messages about a need
  Segments,     \* the segments of the drawer's meter: 16
  Series,       \* [now, duration, step, samples, matrix]: a range query and what it found
  Vectors,      \* [cycle, states]: the instant vectors of the overview
  Reporting,    \* [reports, field]: the shards' reports, and what they are sorted by
  Coordinators  \* [registry, prom, domains, now]: the coordinator's state

(* A range is asked in whole milliseconds, as the pages do (api.ts:297-305)*)
(* but not at a whole one, and Prometheus has at most one sample for each  *)
(* of its steps.  A vector has a number of machines for every state.       *)
ASSUME SeriesAssumption ==
  \A in \in Series :
    /\ in.now \in Nat /\ in.duration \in Int /\ Whole(in.duration) /\ in.step \in Int /\ Whole(in.step)
    /\ LET times == SampleTimes(RangeAsked(in.now, in.duration, in.step))
       IN  in.samples \in Seq([t : ToSet(times), value : Nat \cup {Bad}])
    /\ \A i, j \in DOMAIN in.samples : in.samples[i].t = in.samples[j].t => i = j

(* An id is the identity of an object, in an answer and in the drawer.     *)
ASSUME WalksAssumption ==
  /\ \A in \in Walks : AreNeeds(in.needs) /\ in.several \in BOOLEAN
  /\ \A in \in Competitions :
       /\ AreNeeds(in.all) /\ IsNeed(in.need)
       /\ \A i \in DOMAIN in.all : in.all[i].id = in.need.id => in.all[i] = in.need

ASSUME MessageAssumption == Segments \in Nat /\ \A nv \in Messages : IsMessage(nv)

ASSUME VectorAssumption ==
  \A in \in Vectors :
    /\ in.states \in Seq(ToSet(in.states))
    /\ \A s \in ToSet(in.states) : s.value \in Nat \cup {Bad}

ASSUME ReportingAssumption ==
  \A in \in Reporting :
    /\ in.field \in SortFields
    /\ in.reports \in Seq(ToSet(in.reports)) /\ \A r \in ToSet(in.reports) : IsReport(r)

ASSUME CoordinatorAssumption ==
  \A in \in Coordinators :
    /\ IsRegistry(in.registry) /\ (IsNone(in.prom) \/ IsTally(in.prom))
    /\ in.domains \in Seq([key : Named, value : Named, shard : Named]) /\ in.now \in Nat

VARIABLES kind, input, output
figures == <<kind, input, output>>

Computes(k, in, out) == kind' = k /\ input' = in /\ output' = out

-----------------------------------------------------------------------------
(* The needs explorer.                                                     *)
Walk    == \E in \in Walks : Computes("walk", in.needs, BuildWalk(in.needs, in.several))
Compete == \E in \in Competitions : Computes("competition", in, CompetitorsFor(in.need, in.all))
Verdict == \E nv \in Messages : Computes("verdict", nv, DecisionReport(View(nv), Segments))
Penalty == \E i, j \in 0..Ladder : Computes("penalty", <<i, j>>, <<>>)

-----------------------------------------------------------------------------
(* Prometheus: ranges of the fleet and of a shard p, and the overview.     *)
Sample ==
  \E in \in Series :
    LET r     == RangeAsked(in.now, in.duration, in.step)
        kinds == QueryRangeByLabel(r, in.matrix, "kind")
    IN  Computes("samples", in,
                 [range |-> r,
                  actions |-> FleetActions(kinds, <<"Bootstrap", "Provision", "Reclaim">>),
                  trends |-> ShardTrends("p", QueryRangeByLabel(r, in.matrix, "pod"), kinds)])

Overview ==
  \E in \in Vectors :
    LET ov == FleetOverview(<<>>, <<>>, <<>>, in.cycle, in.states)
    IN  Computes("overview", ov, Tiles(ov))

(* Seven queries, and a scrape stored before one of them or after all.     *)
Finance ==
  \E old, new \in Fleets, stored \in 1..7, at \in 0..7 :
    LET w == World(old, new, stored, at)
    IN  Computes("finops", [world |-> w, snapshot |-> FinOps(w)], Page(FinOps(w)))

-----------------------------------------------------------------------------
(* The coordinator's pages, and those of the inventory.                    *)
Report ==
  \E in \in Reporting :
    LET api == ShardReports(in.reports)
    IN  Computes("reports", in, [page |-> ShardReportsPage(api, in.field), card |-> ReportsCard(api)])

Coordinator ==
  \E in \in Coordinators :
    LET t == Topology(in.registry, in.domains, in.prom)
    IN  Computes("topology", in,
                 [answer |-> t, rows |-> ShardsCard(t, in.now), groups |-> DomainsCard(t.domains)])

Shard   == \E w \in Scrapes : Computes("shards", w, ShardsList(w))
Cluster == \E in \in Clusters :
             Computes("cluster", in,
                      [row |-> ClusterRow(in.crs, in.uns), page |-> ClusterDetail(in.crs, in.uns)])
Hints   == \E lists \in HintLists : Computes("hints", lists, CapacityPage(AvailableCapacity(lists)))

-----------------------------------------------------------------------------
Init == kind = "none" /\ input = <<>> /\ output = <<>>
Next == /\ kind = "none"
        /\ Walk \/ Compete \/ Verdict \/ Penalty \/ Sample \/ Overview \/ Finance
           \/ Report \/ Coordinator \/ Shard \/ Cluster \/ Hints
FiguresSpec == Init /\ [][Next]_figures

-----------------------------------------------------------------------------
(* The table of needs and the list of competitors in the drawer            *)
(* (needsKit.tsx:112-134, Needs.tsx:233-291): no need is lost, stretches   *)
(* and the flat tail are in order, the cut-line is the cut, who is listed  *)
(* is ahead.                                                               *)
WalkIsFaithful ==
  /\ kind = "walk" => /\ EveryNeedHasItsRow(input, output)
                      /\ StretchesAreOrdered(output)
                      /\ CutLineIsTheCut(output)
  /\ kind = "competition" => CompetitorsAreAhead(input.need, input.all, output)

(* The drawer (needsKit.tsx:31-110, 299-498): its bars, chunks and funnel  *)
(* agree with each other and with what the shard said, after two           *)
(* conversions and the rounding of doubles; the scales of the penalties    *)
(* agree.                                                                  *)
VerdictIsFaithful ==
  /\ kind = "verdict" => /\ CoverageIsTheWorstBar(View(input), output)
                         /\ ChunksAreEnough(View(input), output)
                         /\ FunnelFits(output)
                         /\ DrawerTellsTheVerdict(input, output)
  /\ kind = "penalty" => PenaltyScalesAgree(input[1], input[2])

(* Range queries and vectors (promclient.go:118-184, handlers_fleet.go):   *)
(* no sample is moved, rows fit their axis, the states add up.             *)
SeriesAreFaithful ==
  /\ kind = "samples" => /\ SamplesKeepTheirTime(output.range, input.samples)
                         /\ RowsFitTheAxis(output.actions, output.trends)
  /\ kind = "overview" => SummaryFitsTheTotal(input, output)

(* The FinOps page (handlers_finops.go, FinOps.tsx): its sections agree    *)
(* with each other, and its seven queries with one moment.                 *)
FinOpsIsConsistent ==
  kind = "finops" => /\ RedFlagsAgree(input.snapshot, output)
                     /\ NothingLeftOut(input.snapshot, output)
                     /\ GapsAreListed(input.snapshot, output)
                     /\ OneInstant(input.world, input.snapshot, output)
                     /\ BucketsInDollarOrder(input.snapshot)

(* The coordinator's pages (coordclient.go, handlers_topology.go,          *)
(* handlers_shardreports.go, ShardReports.tsx, Topology.tsx): exactly the  *)
(* reports with an empty map break a page, all others are shown whole,     *)
(* alike on both pages, silence in red, no count lost.                     *)
CoordViewsAreFaithful ==
  /\ kind = "reports" => /\ CardsTellTheReports(input.reports, input.field, output.page)
                         /\ ItemsTellTheReports(input.reports, output.card)
                         /\ PagesAgree(output.page, output.card)
  /\ kind = "topology" => TopologyTellsTheState(input, output.answer, output.rows, output.groups)

(* The lists and the single pages of shards and clusters, and the hints    *)
(* (handlers_shards.go, handlers_clusters.go, kubeclient.go and their      *)
(* pages): two ways to the same inventory tell the same, but for samples   *)
(* without the label they are grouped by.                                  *)
ListAndPageAgree ==
  /\ kind = "shards" => ShardPagesAgree(input, output)
  /\ kind = "cluster" => ClusterPagesAgree(input.crs, input.uns, output.row, output.page)
  /\ kind = "hints" => HintsAreShown(input, output)
=============================================================================
