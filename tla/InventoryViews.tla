--------------------------- MODULE InventoryViews ---------------------------
(***************************************************************************)
(* The lists of shards and clusters, the pages of one shard and of one     *)
(* cluster, and the capacity hints of all clusters: two pages each are     *)
(* made by different queries, or LISTs, of the same inventory.             *)
(*                                                                         *)
(* Metrics are functions from labels to natural numbers, or Bad for NaN; a *)
(* LIST is answered with a sequence of objects, or it failed.              *)
(***************************************************************************)
EXTENDS PromSamples, FinOpsFigures

CONSTANTS
  Scrapes,  \* the metrics of all shards
  Clusters, \* [crs, uns]: the two LISTs of a cluster
  HintLists \* the LISTs of the hints, by cluster

Metric(f, V) == IsFiniteSet(DOMAIN f) /\ f \in [DOMAIN f -> V]
IsList(list, V) == list.ok \in BOOLEAN /\ list.objects \in Seq(V)

(* No two objects of a cluster have the same name.                         *)
ASSUME InventoryAssumption ==
  /\ \A w \in Scrapes :
       /\ Metric(w.machines, Nat) /\ Metric(w.shortfalls, Nat) /\ Metric(w.sessions, Nat)
       /\ Metric(w.cycle, Nat \cup {Bad}) /\ Metric(w.actions, Nat) /\ Metric(w.occ, Nat)
  /\ \A in \in Clusters : IsList(in.crs, STRING) /\ IsList(in.uns, STRING)
  /\ \A lists \in HintLists : \A c \in DOMAIN lists :
       /\ IsList(lists[c], [name : Nat, count : Int])
       /\ \A i, j \in DOMAIN lists[c].objects :
            lists[c].objects[i].name = lists[c].objects[j].name => i = j

-----------------------------------------------------------------------------
(* Shards.  A scrape: machines by <<pod, state, capacity type>>, the       *)
(* others by pod, actions and proposals by <<pod, kind or outcome>>.  Every*)
(* binary exports shortfalls and sessions, only shards export machines.    *)
(* A label that is missing is ""; who groups by it drops the sample.       *)
Valid(f) == Restrict(f, {x \in DOMAIN f : f[x] # Bad})
Of(f, pod) == Restrict(f, {x \in DOMAIN f : x[1] = pod})

MutLabelled(g) == g
Labelled(g) == Restrict(g, DOMAIN g \ {""})

Scalar(f, pod) == IF pod \in DOMAIN f THEN JsonSafe(f[pod]) ELSE 0

MutShardsList(w) ==
  [pod \in DOMAIN w.shortfalls |->
     [cycle |-> At(Valid(w.cycle), pod), machines |-> At(SumBy(w.machines, LAMBDA x : x[1]), pod),
      shortfalls |-> w.shortfalls[pod], sessions |-> At(w.sessions, pod)]]
ShardsList(w) ==
  LET machines == Labelled(SumBy(w.machines, LAMBDA x : x[1]))
  IN  [pod \in DOMAIN machines |->
         [cycle |-> At(Valid(w.cycle), pod), machines |-> machines[pod],
          shortfalls |-> At(w.shortfalls, pod), sessions |-> At(w.sessions, pod)]]

MutShardDetail(w, pod) ==
  LET byState == Labelled(SumBy(Of(w.machines, pod), LAMBDA x : x[2]))
  IN  [cycle |-> IF pod \in DOMAIN w.cycle THEN w.cycle[pod] ELSE 0,
       machines |-> SumFunction(byState), byState |-> byState,
       byCapacity |-> Labelled(SumBy(Of(w.machines, pod), LAMBDA x : x[3])),
       shortfalls |-> Scalar(w.shortfalls, pod), sessions |-> Scalar(w.sessions, pod),
       actions |-> Labelled(SumBy(Of(w.actions, pod), LAMBDA x : x[2])),
       committed |-> At(w.occ, <<pod, "committed">>), conflict |-> At(w.occ, <<pod, "conflict">>)]
ShardDetail(w, pod) ==
  LET byState == Labelled(SumBy(Of(w.machines, pod), LAMBDA x : x[2]))
  IN  [cycle |-> Scalar(w.cycle, pod),
       machines |-> SumFunction(byState), byState |-> byState,
       byCapacity |-> Labelled(SumBy(Of(w.machines, pod), LAMBDA x : x[3])),
       shortfalls |-> Scalar(w.shortfalls, pod), sessions |-> Scalar(w.sessions, pod),
       actions |-> Labelled(SumBy(Of(w.actions, pod), LAMBDA x : x[2])),
       committed |-> At(w.occ, <<pod, "committed">>), conflict |-> At(w.occ, <<pod, "conflict">>)]

(* What the two pages say.  Cycle times are in seconds.                    *)
CycleTone(s) == IF s > 5 THEN "red" ELSE IF s > 1 THEN "amber" ELSE "plain"

ShardRow(s) == [cycle |-> CycleTone(s.cycle), shortfalls |-> IF s.shortfalls > 0 THEN "red" ELSE "plain"]

(* A bar has the segments above 0.                                         *)
BarOf(f) == Restrict(f, {x \in DOMAIN f : f[x] > 0})

DetailPage(d) ==
  LET proposals == d.committed + d.conflict
  IN  [cycle |-> CycleTone(d.cycle), shortfalls |-> IF d.shortfalls > 0 THEN "red" ELSE "plain",
       occ |-> IF 10 * d.conflict > 3 * proposals THEN "red"
               ELSE IF 20 * d.conflict > 3 * proposals THEN "amber" ELSE "plain",
       states |-> BarOf(d.byState), capacities |-> BarOf(d.byCapacity),
       kinds |-> DOMAIN d.actions]

-----------------------------------------------------------------------------
(* Clusters.  The objects of a LIST are counted by phase; an object        *)
(* without one has the first phase of its kind.                            *)
Answered(objects) == [ok |-> TRUE, objects |-> objects]
Failed == [ok |-> FALSE, objects |-> <<>>]

MutCountByStatusPhase(list, default) ==
  [p \in ToSet(list) |-> Cardinality({i \in DOMAIN list : list[i] = p})]
CountByStatusPhase(list, default) ==
  LET phase == [i \in DOMAIN list |-> IF list[i] = "" THEN default ELSE list[i]]
  IN  [p \in ToSet(phase) |-> Cardinality({i \in DOMAIN phase : phase[i] = p})]

CapacityRequests(list) == CountByStatusPhase(list.objects, "Pending")
UpcomingNodes(list)    == CountByStatusPhase(list.objects, "Provisioning")

(* The row of the list: an error hides the numbers, and the other LIST.    *)
ClusterRow(crs, uns) ==
  IF ~crs.ok \/ ~uns.ok THEN [status |-> "error"]
  ELSE [status |-> "ok", requests |-> SumFunction(CapacityRequests(crs)),
        pending |-> At(CapacityRequests(crs), "Pending"), nodes |-> SumFunction(UpcomingNodes(uns))]

(* The page of one cluster, which is not shown if a LIST failed.           *)
ClusterDetail(crs, uns) ==
  IF ~crs.ok \/ ~uns.ok THEN [status |-> "error"]
  ELSE LET c == CapacityRequests(crs)
           u == UpcomingNodes(uns)
       IN  [status |-> "ok", requests |-> SumFunction(c), nodes |-> SumFunction(u),
            pending |-> At(c, "Pending"), failed |-> At(u, "Failed"),
            requestsBar |-> BarOf(c), nodesBar |-> BarOf(u)]

-----------------------------------------------------------------------------
(* The capacity hints.  A hint is [name, count]; names are numbers.        *)
MutListAvailableCapacity(list) == SortSeq(list, LAMBDA a, b : a.count > b.count \/ a.name < b.name)
ListAvailableCapacity(list) ==
  Arranged(ToSet(list), LAMBDA a, b : a.count > b.count \/ (a.count = b.count /\ a.name < b.name))

(* A cluster which failed has null instead of a list.                      *)
AvailableCapacity(lists) ==
  [c \in DOMAIN lists |-> IF lists[c].ok THEN [error |-> FALSE, items |-> ListAvailableCapacity(lists[c].objects)]
                          ELSE [error |-> TRUE]]

(* The page; with a null in it, it throws.                                 *)
CapacityPage(clusters) ==
  IF \E c \in DOMAIN clusters : clusters[c].error THEN [throws |-> TRUE]
  ELSE [throws |-> FALSE, noClusters |-> DOMAIN clusters = {},
        noHints |-> DOMAIN clusters # {} /\ \A c \in DOMAIN clusters : clusters[c].items = <<>>,
        cards |-> [c \in {d \in DOMAIN clusters : clusters[d].items # <<>>} |-> clusters[c].items]]

-----------------------------------------------------------------------------
(* Who follows a row of the list to its page reads the same there: the     *)
(* alarms, and the machines but for those that the page must drop as they  *)
(* lack the label it groups by - although the list asks for all pods at    *)
(* once, the page for one, and NaN takes two different ways.  Nothing is   *)
(* listed that is no shard, and no shard with machines is missing.         *)
Lacking(f, pod, k) == SumFunctionOnSet(f, {x \in DOMAIN f : x[1] = pod /\ x[k] = ""})
ShardPagesAgree(w, list) ==
  /\ DOMAIN list = {x[1] : x \in DOMAIN w.machines} \ {""}
  /\ \A pod \in DOMAIN list :
       LET d == ShardDetail(w, pod)
           p == DetailPage(d)
           r == ShardRow(list[pod])
       IN  /\ d.machines + Lacking(w.machines, pod, 2) = list[pod].machines
           /\ SumFunction(p.states) = d.machines
           /\ SumFunction(p.capacities) + Lacking(w.machines, pod, 3) = list[pod].machines
           /\ d.shortfalls = list[pod].shortfalls
           /\ d.sessions = list[pod].sessions /\ d.cycle = list[pod].cycle /\ d.cycle # Bad
           /\ p.cycle = r.cycle /\ p.shortfalls = r.shortfalls
           /\ p.occ # "plain" => d.conflict > 0

(* The same for the clusters; what has no phase yet is somewhere on the    *)
(* page, and a cluster is never shown as well if a LIST of it failed.      *)
ClusterPagesAgree(crs, uns, row, page) ==
  /\ row.status = page.status /\ (~crs.ok \/ ~uns.ok => row.status = "error")
  /\ row.status = "ok" =>
       /\ row.requests = Len(crs.objects) /\ row.nodes = Len(uns.objects)
       /\ row.pending = page.pending /\ row.nodes = page.nodes
       /\ page.pending = Cardinality({i \in DOMAIN crs.objects : crs.objects[i] \in {"", "Pending"}})
       /\ SumFunction(page.requestsBar) = row.requests /\ SumFunction(page.nodesBar) = row.nodes

(* Every hint of every cluster is shown, the largest first, unless some    *)
(* cluster failed.                                                         *)
HintsAreShown(lists, page) ==
  (\A c \in DOMAIN lists : lists[c].ok) =>
    /\ ~page.throws
    /\ page.noHints => \A c \in DOMAIN lists : lists[c].objects = <<>>
    /\ \A c \in DOMAIN lists : lists[c].objects # <<>> =>
         LET s == page.cards[c]
         IN  /\ ToSet(s) = ToSet(lists[c].objects) /\ Len(s) = Len(lists[c].objects)
             /\ \A i, j \in DOMAIN s : i < j =>
                  s[i].count > s[j].count \/ (s[i].count = s[j].count /\ s[i].name < s[j].name)
=============================================================================
