# bigfleet-web-dashboard: verification

TLA+ models of the read-only web dashboard in `src/`, the TLC configurations that check them
on small instances, and theorems about them checked by TLAPS. `PROJECT.json` lists the runs,
the mutants, which source lines each definition stands for, the findings, the hazards and
the theorems.

    tlc -workers 2 -config FanOut.cfg ClusterFanOut.tla
    tlapm ClusterFanOutProofs.tla

## 1. The system

A Go server answers `/api/...` from three kinds of upstream, each wired by a flag:
Prometheus, the coordinator (gRPC, and through the addresses it knows, the shards), and the
managed clusters of a kubeconfig. It keeps no data of its own. A React application polls the
server and caches its answers.

| Component | State | Operations | Talks to | Modules |
|---|---|---|---|---|
| Multi-cluster fan-out (`handlers_clusters.go`, `handlers_available_capacity.go`) | per request: a slice of rows, semaphore, WaitGroup, contexts | one goroutine per cluster: token, per-cluster context, one or two LISTs, row | client cache, apiservers | `ClusterFanOut`, `ClusterAnswer`, `InventoryViews` |
| Sequential handlers (the other `handlers_*.go`) | per request: one context, the results so far | wiring check, parameter check, calls in order, answer | Prometheus, coordinator, shards, one apiserver | `ReadPipeline`, and the figures below |
| Client cache (`kubeclient.go`) | map of clients, mutex | `clientFor` | every clusters and capacity request | `KubeClientCache` |
| Shard client (`shardclient.go`, `handlers_needs.go`) | connection per call, the snapshot put together so far | list, dial, `InspectNeeds` stream | coordinator, shards | `NeedsStream`, `NeedsAnswer`, `NeedsVerdict` |
| Coordinator client (`coordclient.go`) | one connection | three unary calls, leader error mapping, conversion | coordinator | `CoordViews`, `ReadPipeline`, `NeedsStream` |
| Prometheus client (`promclient.go`) | none | query, range query, alignment | Prometheus | `PromSamples` |
| Lifecycle (`server.go`, `routes.go`, `main.go`) | listener, error channel, signal context | start, serve, shutdown on signal | operating system | `ServerLifecycle` |
| Pages (`ui/src/pages`, react-query) | config query, view queries, timers | fetch, poll, retry, render notice / error / data | server | `QueryPage` |
| Needs explorer (`Needs.tsx`, `needsKit.tsx`) | URL parameters, filters, drawer, per-shard cache | pick, filter, walk, coverage | server | `NeedsExplorer`, `NeedsWalk`, `NeedsVerdict`, `Arrays` |
| Figures of the pages (`handlers_*.go`, `FinOps.tsx`, `ShardReports.tsx`, `Topology.tsx`, lists) | none | sums, fractions, orders, red flags | Prometheus and coordinator clients | `PromSamples`, `FinOpsFigures`, `CoordViews`, `InventoryViews`, `Arrays`; all run by `Figures` |
| Widgets, formatting, API types, embedding, packaging | none | layout | - | the rules figures depend on only |

What is hard in it, and what each component must get right:

- **Fan-out.** Goroutines of one request share five tokens, a 60 s budget and a slice that
  is encoded when all are done; each has 30 s from the moment it got its token. The wait for
  a token ignores both deadlines and the browser's departure, and of two LISTs either may
  fail by itself. To get right: no zero that stands for a failed LIST, no write after the
  answer, an end within 60 s, healthy clusters not starved by sick ones.
- **Sequential handlers.** Up to nine calls under one deadline, each with its own early
  return. To get right: nothing shown that was not read, each status means one thing, an
  unwired source is refused before anything is called, optional sources never hide required
  ones.
- **Client cache.** Check-then-act on a shared map under one mutex with four return paths.
  To get right: one client per cluster, shared, no lost mutex.
- **Needs stream.** The address comes from one process and is dialled after it may have
  become another's; the needs arrive message by message from a process whose cycle goes on,
  or which is still rebuilding; the limit is cut to 32 bits. To get right: one process's
  snapshot of one cycle, whole up to the limit, or an error.
- **Needs explorer.** Effects that pick a shard and a cluster race with polls; answers of a
  shard left behind arrive late; the drawer keeps a need of an earlier answer. To get right:
  the table belongs to the shard that is named, a badge leads to its rows and back, what the
  user or a link chose stays.
- **Pages.** Two queries with states of their own, combined at render time; polls, retries,
  hidden tabs, unmounting, a browser that goes offline, fetches that hang, a server
  restarted with other flags. To get right: no fetch from an unwired source, no false
  notice, bounded age of what is shown, recovery, one bad row not taking the page down.
- **Figures.** Seven instant queries made one after the other, maps that lack keys or are
  null, samples that lack a label, series that lack steps, quotients of doubles, two orders
  and two conversions of the same value. To get right: two ways to the same number agree,
  nothing is moved in time, and what is dropped is known.
- **Lifecycle.** Signal, listener error, connections and requests longer than the grace
  period. To get right: the exit code, no request cut without need, an end.

`PROJECT.json` has each hazard at its line with the properties that cover it, or says why none does.

## 2. The modules

A definition `Mut...` is a plausible mistake in the definition after it. With it in the
place of that definition, the property named in `PROJECT.json` must fail.

### ClusterFanOut, ClusterAnswer
One request to either multi-cluster handler (`NumLists` = 2 for the clusters list, 1 for the
capacity page). `Acquire` is `sem <- struct{}{}` with what follows it up to the first LIST;
`ListAnswers` and `ListGivesUp` are the two ways a LIST returns, each together with what the
goroutine does next (`Proceed`: the second LIST under the *same* context, or the deferred
calls); `Answer` is `wg.Wait()` and `writeJSON`; `Disconnect` cancels `r.Context()`. The
program's own steps take no time, so `Tick` waits while one is possible; apiservers answer
after any latency or never. When a LIST's answer and its deadline coincide, either may win,
as in the code.

Each LIST has an outcome of its own (`ListAnswers`), so a row may have the number of one and
the error of the other; a failed `clientFor` is an error without latency. The two LISTs of a
cluster take equally long (`latency`). `ClusterAnswer` is the abstract specification: a row
per cluster, settled once with data or an error, the answer sent after the last. The
refinement maps a row to `pending`, `data`, `error`, or `zero`, a value the abstract
specification does not have (no error, but not all its numbers either). That no finished row
is a silent zero (`NoSilentZero`) and that rows are frozen once answered
(`RowsFrozenOnceAnswered`) follow from the refinement; the two are stated by theorems.

### ReadPipeline
The ten handlers with sequential calls, as a table: the source that gates it, the deadline,
the answer to a bad parameter, the number of calls it needs and of calls it can do without.
`Start` has the early returns in their order; `CallSucceeds` and `CallFails` are the return
of the call in flight together with what the handler does next. What a body contains is
abstracted to which calls it was built from (`got`) and which a warning stands for
(`warned`). The topology, which asks Prometheus only if it is wired and turns those failures
into warnings, is the only handler with optional calls. The needs handler's second call goes
to the shard whose address the first call returned, or is never made (404).

### KubeClientCache
`clientFor`, one action per step between `Lock` and the deferred `Unlock`; a client is the
number of its building, so that two clients of a cluster differ.

### NeedsStream, NeedsAnswer
`GET /api/needs` in full: the early returns, the list of shards, the dial, the receive loop
of `shardclient.go` message by message. The deployment changes between any two steps,
`MaxMoves` times per request: a shard moves, a process finishes a cycle, stops (`Down`),
starts and rebuilds. A process that rebuilds is in cycle 0 and has no needs; it sends a
header that says so or only the end of the stream, and either is a 200 (`types.go:236-238`).
The end of the stream is success whatever came before it, as in `shardclient.go:139-158`.
What a process opens the stream with (`sent`) is fixed when the call reaches it, as a gRPC
server streams from the slice it holds. `Wire` is `int32(limit)`: the low 32 bits with a
sign, and a shard that gets no positive limit sends everything. `Expire` is the 10 s context
in any of the three waits. `NeedsAnswer` is the abstract specification, the promise to the
caller: an error, or one process's needs of one cycle, in order, from the first on, as many
as asked for. Which process that is depends on who answers at the address by then; that the
address is the shard's own is not something the code can know, and not promised.

### NeedsExplorer
The Needs page as a state machine: the parameters in the URL, the filter, the drawer,
react-query's one cache entry per shard, the fetches in flight for any of them. `Effects` is
what the two `useEffect`s write after a change; every action that changes what they read
includes them. `Forget` is react-query dropping an entry nobody observes. `Badges` are
counted before the filters of the status and the reason. A `<select>` changes only to
another option than the one it shows (`ShardShown`). `Links` are the URLs the page may be
opened with, with a status that does not exist and a shard that is gone among them.
`ExplorerAssumption` says what the rest of the system guarantees: every need of an answer is
of the shard that was asked (what `NeedsStream` promises as far as the code can), of a known
cluster, and has a reason, which is the name of an enum value and never empty.

### Arrays
What JavaScript's `filter`, `sort` (stable) and `flat` and Go's `sort.Slice` over different
elements return, for arrays of any length and any order given as an operator. They are
defined without recursion, by the rank of each element, so that the proofs can reach them.

### NeedsWalk, NeedsVerdict
`NeedsWalk` has the order of a cluster's needs, the cohorts, the cut-line and the
competitors of the drawer, with their reference definitions. `NeedsVerdict` follows one need
from the protobuf through two conversions and JSON to the drawer: enum names, maps that
disappear when they are empty, worst coverage, chunks, the funnel of supply, the penalty
scales. Quantities are in thousandths, the finest step that the suffix `m` can name, and
shares (coverage, meters) are exact pairs. The chunks are the ceiling of a quotient of
doubles: `2100m` over `300m` is 7.000000000000001 in JavaScript and makes 8. So `CeilDiv` of
a pair in `RoundedUp` is one more than the exact ceiling, where only pairs that divide
evenly and are not both whole units can be in it; other quotients are farther from a whole
number than a double errs, for quantities up to 2^49. A need's `id` is the identity of its
object: the drawer leaves out its own need with `o !== n`.

### PromSamples, FinOpsFigures, CoordViews, InventoryViews
The functions behind the other pages, each from the upstream's answer to what is shown.
`PromSamples`: label maps whose entries collide, `NaN`, series aligned on one axis, the
shard trends and the fleet overview. `FinOpsFigures`: the handler's seven queries and what
the page derives; `World` is a fleet of which a new scrape becomes visible between two of
the queries, unless they carry one evaluation time (`EvaluatedAt`: they do,
`handlers_finops.go` passes one `now`), so that `OneInstant` compares the figures with those
of one moment. `CoordViews`: reports, registry, pending instructions and domains on the
shard reports and topology pages; a map without entries arrives as null and makes the page
that enumerates it throw, and the property says exactly when each page does.
`InventoryViews`: the lists of shards and clusters against the pages of one of them, and the
capacity page; samples without the label that is grouped by are dropped, as `QueryByLabel`
does (`promclient.go:129-133`), so that bars add up to their tile less those (`Lacking`).
Fields that are copied and shown without a decision are left out.

### Figures
The state machine of these modules: a behaviour takes one of its inputs, computes one
figure, and ends; `Next` has one disjunct per figure, and the invariants compare `output`
with a reference definition. The inputs are constants, and the assumptions say what they
are: a range is asked in whole milliseconds, as the pages do (`api.ts:297-305`), and has at
most one sample per step (`SeriesAssumption`, `SampleAssumption`); two needs of an answer
are two objects (`WalksAssumption`); gauges and counts are natural numbers or not a number
(`VectorAssumption`, `InventoryAssumption`, `FinOpsAssumption`); two labels of penalty
buckets are two numbers, and one that is no number begins with a letter and comes after the
digits (`FinOpsAssumption`); messages, reports and the registry have their types
(`MessageAssumption`, `ReportingAssumption`, `CoordinatorAssumption`); quotients that come
out too large are of pairs as said above (`RoundingAssumption`); and `Names` lists each name
once, in the order `localeCompare` and Go's sorted keys give them (`ViewAssumption`).

### QueryPage
A page from the moment it is opened: the config query, the view query enabled by it, and
what is rendered. The pages are a table of polling interval, the longest time the handler
takes (from the other models), what the answer may hold, whether rendering that throws, and
whether the page looks into rows it does not show (`AvailableCapacity.tsx` computes its
total before it knows if there is an error). The query semantics (one retry, data kept on
error, no error kept without data, no doubled fetch, no poll or retry in a hidden tab, retry
given up when nobody looks, refetch on mount if stale) is react-query's with the defaults of
`main.tsx`; it is external to the repository and modelled from its use. `Layout` always
observes the config query. Leaving and coming back, hiding the tab, losing the network, and
a server restarted with the other flag are actions of the environment. While the browser is
offline react-query (its `networkMode` is left at the default) puts a fetch off without an
error (`paused`) and keeps showing what there is; when it is online again what is stale is
fetched. `getJSON` (`api.ts:278-291`) has no timeout: a fetch may hang (`Lost`) and come
back whenever it likes, and as long as it is under way no poll is made. Leaving for more
than five minutes drops the cached view in react-query; the model keeps it, which only makes
what may be shown older.

`shown` counts from the arrival of the data, or from when it is polled again if it was kept
while nobody looked, and only while there is a network and no fetch of the view hangs: that
is what the polling can bound. Offline, or behind a hung fetch, the data shown ages without
a bound and without a mark. The "staleness banner" of `docs/slos.md:68` and `:89` does not
exist, so nothing marks the older data (`queriedAt` is in every answer and read by no page;
`Freshness` shows the age of a shard's report).

### ServerLifecycle
`main` and `Run`: the goroutine of `ListenAndServe` with its channel, the select on the
signal and the channel, `Shutdown` with a context of its own, the exit code. The connections
and `Shutdown`'s polling are `http.Server`'s, external and modelled from their use: idle
connections are closed, active ones waited for, a silent new one counts as idle after 5 s.
The select takes either branch when both are ready.

### MC modules
`MC...` extend their module with the instance and the statements of the docs that the code
does not keep (the `violation` runs). `MCFigures` has the inputs of `Figures`.
`ClusterFanOut`, `ReadPipeline`, `KubeClientCache` and `ServerLifecycle` are run as they
are.

## 3. The runs and their bounds

| Run | Instance | States | Shows |
|---|---|---|---|
| `fanout` | 3 clusters, 2 tokens, 2 LISTs | 100 571 | types, 60 s, abandoned requests stop, healthy clusters not starved, implements `ClusterAnswer` with its fairness |
| `pipeline_routes` | all ten routes, all wirings | 5 238 | statuses, no invented figures, always answered |
| `cache_calls` | 3 callers, 2 contexts and an unknown name | 5 988 | one shared client, mutex given back, every call returns |
| `needs_stream` | 2 shards, 2 processes, cycles 0 to 2, 2 moves | 189 888 | implements `NeedsAnswer`, every request answered |
| `needs_explorer` | 2 shards and a stale one, 3 clusters, 3 clicks | 81 650 | table, badges and back, choices, no endless wait |
| `page_life` | `fleet`, `cluster`, `shardReports`, restarts | 1 484 414 | age bound, wiring not forgotten, no fetch before wired, recovery |
| `lifecycle` | 3 connections | 373 405 | exit code and cut requests, a signal ends the process |
| `figures` | see below | 77 292 | the figures against their reference definitions |

Time is discrete. In the fan-out a tick is about 10 s: `PerCall` = 3 is the 30 s of
`handlers_clusters.go`, latencies 0, 1, 2 and 9 are prompt, slow (one LIST of 20 s fits the
timeout, two do not) and hung. `Overall` = 5 is a tick less than the 60 s: with two tokens
the third of three clusters gets its token after 3 ticks when the others hang, and its
context then ends with the overall deadline before its own 3 ticks are over, so that both
deadlines end LISTs. In `ReadPipeline` a tick is 5 s (deadlines of 1, 2 and 6 ticks) and a
call takes 0, 1 or 9 ticks: none, the whole short deadline, for ever. `QueryPage` counts in
ticks of 10 s with intervals rounded up; a handler answers at once or as late as its
deadline allows, or the fetch hangs. The age stops counting one tick past the bound the
property states. The pages of `page_life` are one whose interval equals the slowest answer,
one where it is longer than the interval, and one whose render may throw. The others differ
from these in their numbers, but for `availableCapacity`, which looks at rows it does not
show and has `page_crash`. In `lifecycle` a tick is 1 s: `Grace` = 5, and `NewIdle` = 6
because "more than 5 s" is the sixth; the three connections can be silent, idle and busy at
once. `MaxBuilds` = 2 caps the clients built per cluster; one is what the code builds, and
the second is there so that a mistake shows.

In `needs_stream` the wire carries limits up to 3 in the place of 2^31 - 1, so that 5
arrives as -3 and 9 as 1: both ways a too large limit is bent. A process has no need in
cycle 0, three in the next and one in the last, the default limit is 2, so a limit falls
below, on and above. Two moves per request are enough for the shard to move after the list
and the new process to go on to its next cycle before it is called.

In `needs_explorer` three clicks and any number of polls, answers, failures and forgotten
entries reach every pair of choices with an answer of the first one still in flight. The
answers of `s1` are none (it rebuilds), a mixed list and a satisfied one, so that a badge's
rows may vanish under a filter.

`figures` enumerates inputs: needs up to four of two profiles, two priorities and arrivals
(the list of competitors is cut at `Shown` = 2 for 8); every combination of demand, unit,
deficit and verdict of two resources, with the quotient 2.1 / 0.3; ranges at every moment of
a period (`Ms`, `Sec` are its scale) whose first or later samples are missing or bad; five
fleets, each replaced by another between any two of the queries; registries around the
minute; reports of one or two shards with ties (`CardLists` = 2 and `TopologyLists` = 1 for
12 and 6), their maps empty or not; inventories of two shards or up to three objects,
samples without a capacity type or zone among them. Each case split of the code has inputs
on both sides, which the mutants confirm.

`HealthyClusterReported` is about every cluster whose LISTs together (`Work`) take less than
the per-call timeout, under the premise that all clusters together (`Load`) cannot hold
every token up to the last moment at which it could still begin. Without the premise the
statement is false: enough hung clusters take all tokens until the overall deadline.

**Deadlock** is not checked in `figures` (a behaviour is one computation) and in `lifecycle`
(the process ends).

**Fairness.** Weak fairness of each goroutine, of the answer and of time: the Go scheduler
runs what can run, and clocks advance. The same holds of browser timers and fetches in
`QueryPage` and `NeedsExplorer`, whose handlers answer within the deadlines the other models
establish; a fetch that hangs in the network gets none. `Lock` of the client cache has
strong fairness, since `sync.Mutex` hands itself to the longest waiter after a millisecond
(starvation mode). `NeedsStream` only assumes that the 10 s deadline passes (`Expire`): the
coordinator, the shard and the network owe nothing. `ServerLifecycle` assumes that the
program's steps and the clock go on. No fairness is assumed of the environment: disconnects,
failures, restarts, signals, the user, and a build that succeeds may never happen. `Heals`
assumes that from some moment the server is wired and well, the browser online, no fetch of
the view hung, and the page looked at; that is its premise and not part of the
specification.

**Where the documentation differs**, each a `violation` run and a finding:

- the unwired notice is shown when the config could not be fetched (`page_notice`);
- a failed cluster's `items: null` makes the capacity page throw, although "one cluster's
  failure surfaces inline" (`page_crash`);
- the null maps of a shard without machines make the shard reports page throw, although the
  API types them as never null (`page_reports`);
- the cluster selector says "All clusters" while another cluster is in scope
  (`needs_selector`).

Others, seen while modelling and visible in the modules without a run of their own:

- two LISTs share the budget called per call (`handlers_clusters.go:43`), and enough hung
  clusters fail the healthy ones behind them;
- the budget of the CRD lists is 60 s, not the tighter one of `docs/slos.md`;
- a coordinator that is not the leader is answered with 503, the status of an unwired source
  (`docs/api.md:22-31`);
- partial Prometheus data is dropped by every handler but the topology (`README.md:22`);
- cohorts come before the flat rows of the table, also those of lower priority, while
  `Needs.tsx:111` says "walked top-down by priority";
- `promclient.go:145` says a missing step is filled with NaN; it stays zero;
- while the browser is offline, or a fetch hangs, a page shows what it has without a mark;
- `chunkEstimate` may be one more than needed, and while only satisfied needs are shown,
  picking the badge of a reason shows none of the needs it counts;
- samples without a capacity type or zone are in the tiles of a shard's page and in none of
  its bars;
- an answer cut at 2000 needs is not marked as cut on the page;
- an unspecified penalty bucket sorts near the end on the FinOps page and first on the shard
  reports page; the reports page shows its "rebuilding" banner next to an error box as well;
- when the signal and a bind error coincide, `Run` may take the signal and exit with 0; a
  connection on which nothing was sent holds `Shutdown` to the grace period, so that the
  exit code is 1 although nothing was cut; a second signal is swallowed.

## 4. The proofs

For every value of the constants that satisfies the named assumptions (`FanOutAssumption`,
`PipelineAssumption`, `CacheAssumption`, `StreamAssumption`, `LifecycleAssumption`,
`PageAssumption`, `ExplorerAssumption`, and those of the figures named above). TLC evaluates
each assumption on the instances of section 3.

**ClusterFanOutProofs.** `TypeCorrect` first; a lemma bounds the tokens by the cardinality
of `Running`. `AnswersWithinOverall` and `AbandonedStops` rest on one lemma: a done context
makes a step of the program possible, so that `Tick` waits. `RowsAreNotSilentlyZero` needs
more than it says, because nothing in a finished row tells that both LISTs were made: `IInv`
adds `Recorded` (a goroutine's row without error has exactly the LISTs before the current
one) and `AnsweredLast` (an answered request has only finished goroutines). From `IInv` also
follow `RowsAreFrozen` and `AnswerSafety`: each step is a step of `ClusterAnswer` or a
stutter.

`HealthyIsReported` is about tokens, not about one cluster. Its invariant is
`TokensWellSpent`: a goroutine with a token keeps it no longer than its LISTs take
(`Paced`); as long as somebody waits for a token, all of them are held (`NoTokenIdle`); so
nobody begins so late that its own work would not fit (`BeganInTime`), and whose work fits
the per-call timeout is in no error but its own (`Unharmed`). `NoTokenIdle` compares a
product with a sum over clusters. The sum is counted as the size of a set of pairs, a
cluster and a tick its goroutine had a token in: every tick with a queue adds `Concurrency`
pairs, and all pairs there can ever be are `Load`. The premise says that those are fewer
than the tokens have ticks before the cluster's last moment.

**ReadPipelineProofs.** The table is first reduced to the shape of its rows
(`HandlersAreWellFormed`), so that no step of the proof looks at a particular route. `IInv`
says which calls are accounted for while the request runs (`Accounted`: those before the
current one, by a result or a warning) and why it was answered as it was (`Explained`). The
five properties follow from it.

**KubeClientCacheProofs.** `IInv` joins the mutex with two facts about the map: the number
of clients built is what the map holds, except for the one just built and not yet stored
(`Agree`), and what each caller inside knows about its cluster (`Knows`). Mutual exclusion
makes the steps of different callers independent.

**NeedsStreamProofs.** `StreamKeepsThePromise`: the handler with its client implements
`NeedsAnswer`, for any shards, processes, ledgers and limits. The refinement maps `read`,
the snapshot the answer will be, to `sent`. `Assembled` says that what the client has put
together and what is still on its way (`rest`) are together what was sent, so that the end
of the stream, and nothing before it, gives the whole; a stream without a header gives the
empty snapshot of cycle 0, which is what a rebuilding process has; `Unanswered` that nothing
was given before. That `Snapshot` under `Wire` is what was asked for, for limits the wire
carries, is a lemma about sequences and the remainder.

**QueryPageProofs.** The table is reduced to the shape of its rows, and react-query's
operators (`Begun`, `Mounted`) to what they keep. The age bound is not inductive: how old
the data may be depends on what the query is doing. `Aged` bounds the age by the timer while
nothing is fetched, by what is left of the latency during the first try, by one interval and
one try before the retry, and so on; each action moves between these and `Tick` takes from
one side what it gives to the other. Offline and behind a hung fetch both sides stand still,
and whatever happens then leaves the age where one of the bounds allows it.
`WiringKeptUntilTold` and `NoEarlyFetch` are action properties of the same steps.

**ServerLifecycleProofs.** `EndIsGraceful` needs `Lives`: requests are cut by the exit
alone, `Shutdown` is called only after a signal, and until then the channel is not closed,
so that the select cannot take the end of the listener for a clean one.

**NeedsExplorerProofs.** `PageInv` adds to the types that every entry of the cache holds an
answer of its own shard (`OwnAnswers`): a late answer goes into the entry it was asked for,
whatever the URL names by then. `TableIsOfTheShardNamed` and `ChoiceStays` follow, the
latter step by step through what `Effects` may write. `BadgesLeadToTheirRows` is about
filtering twice: the positions that pass both filters are those of the needs a badge counts,
or none under the status "satisfied"; and while the needs in scope stay, so does the badge
that clears the filter.

**FiguresProofs.** For every figure an invariant says what the state is after its step
(`FinOpsInput`, `WalkInput`, ...: the input is one of the inputs and the output what the
code makes of it), and lemmas about the operators say that this is what the reference asks.
Induction over data is out of reach as a theorem of the library, so it is made by hand: a
set of counterexamples that is not empty has a least element (`WFMin` over the order of
finite subsets, or of numbers), and that one is refuted.

- *Sums* (`SumIsTicks`): a sum is the size of a set of ticks, so sums over parts, groups and
  renamings are facts about disjoint unions and bijections of sets.
- *Sorting* (`Ranks`, `LinedUp`, `PrecedenceSorts`, `SortedByKey`): in a strict total order
  of a finite set each number below its size is the rank of exactly one element; a stable
  sort is the order of pairs of key and position.
- `FinOpsConsistency`: the seven answers are those of one moment (`FinOpsIsSnapshot`), so
  row sums, column sums, bars and totals are sums over the same fleet, and the red flags are
  those of the matrix.
- `InventoryAgreement`, `SeriesFaithful`: lists and pages group the same objects by label,
  and the bars lack exactly the objects without one; a sample is found at the axis' index by
  division, exactly, because starts and steps are whole milliseconds.
- `VerdictFaithful`: the worst coverage is the least fraction, cross-multiplied; the
  estimate of chunks is enough and at most one too many, and the least number that covers
  where the quantities are whole units (`RoundingAssumption`); both penalty scales are the
  places of the same powers of two.
- `CoordViewsFaithful`: exactly the reports with a null map break a page, the one or the
  other (`BreaksPages`); what either page shows of a report comes from one conversion, the
  topology's groups are a partition of the registered shards, and pending instructions and
  assignments are matched one to one.
- `WalkFaithful`: the walk is blocks laid one after the other (`Blocks`, `LaidOut`):
  cohorts, in the order of their first members (`ByFirsts`), then the flat list, each
  listing its needs once and ranked. Positions map to places in lexicographic order, so a
  block is a stretch of the table (`StretchOf`), which gives the cut-line its header and its
  rows and the tail its order whatever the profiles; rows and needs are matched one to one.

**Only model-checked**: what holds under fairness (`ImplementsAnswer`'s liveness,
`Answered`, `EveryCallReturns`, `EveryRequestAnswered`, `Settles`, `Heals`, `SignalEndsIt`),
since liveness is out of the prover's reach here. Every invariant and every action property
of the passing runs is stated by a theorem.

## 5. What is not modelled

The texts of queries; fields copied without a decision; charts, their axes and ticks;
`Sparkline`'s drawing; layout, static files, packaging and the API types (declarations
only). Dialling and TLS below a call. Two requests at the same apiserver at once (the token
cap is per request), and two LISTs of one cluster that take differently long. The second
queries of the overview, shard detail and topology pages, which have intervals and cache
entries of their own; the shard reports of the topology page are one of them, and the null
maps for which they throw are in `CoordViews`. Details of the widgets: `formatDuration` may
say "1m 60s", a repeated React key in `Topology.tsx:168`, the amber gap of the FinOps chart
against its list. The per-component notes in `PROJECT.json` give the reasons.

## 6. Plan

1. *Done:* `ClusterFanOut`, `ReadPipeline`, `KubeClientCache`, `NeedsStream`, `QueryPage`,
   `ServerLifecycle`, `NeedsExplorer` and the figures, with the proofs of their safety
   properties.
2. Page pairs that share a cache entry (topology and shard reports) and the second queries
   of three pages, composed from `QueryPage`; two `ClusterFanOut` requests at one apiserver.
3. Proofs about the abstract specifications themselves: that `ClusterAnswer` sends only
   settled rows and `NeedsAnswer` gives at most what was asked for.
