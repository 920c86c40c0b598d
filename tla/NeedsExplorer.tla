--------------------------- MODULE NeedsExplorer ---------------------------
(***************************************************************************)
(* The Needs page (ui/src/pages/Needs.tsx): the shard, cluster and status  *)
(* it shows live in the URL (useSearchParamState.ts), the reason filter    *)
(* and the open drawer in the page, the answers in one cache entry per     *)
(* shard.  Topology and needs are polled; an answer may arrive after the   *)
(* user has gone to another shard.  After every change the page's effects  *)
(* fill in the first shard and the first cluster if there is none.         *)
(***************************************************************************)
EXTENDS Naturals, Sequences, FiniteSets, SequencesExt, Arrays

CONSTANTS
  Shards,     \* the shards there are
  Ids,        \* all cluster ids, in the order of localeCompare
  Answers,    \* Answers[s]: what the server may answer for shard s
  Topologies, \* what the topology may list: sequences of shards
  Links,      \* the URLs the page may be opened with
  MaxClicks   \* bound on what the user does

(* A need as far as the selectors, the badges and the table look at it,    *)
(* and what the server answers: needs of the shard that was asked for.  A  *)
(* reason is the name of an enum value (shardclient.go), never empty.      *)
NeedOf(s)   == [shard : {s}, clusterId : ToSet(Ids), satisfied : BOOLEAN,
                unmetReason : STRING \ {""}]
AnswerOf(s) == [is : {"answer"}, cycle : Nat, needs : Seq(NeedOf(s))]

ALL    == "*"

ASSUME ExplorerAssumption ==
  /\ Ids \in Seq(STRING)
  /\ \A s \in Shards : Answers[s] \subseteq AnswerOf(s)
  /\ Topologies \subseteq Seq(Shards)
  /\ Links \subseteq [shard : Shards \cup {""}, cluster : {"", ALL} \cup ToSet(Ids), status : STRING]
  /\ MaxClicks \in Nat

NoData == [cycle |-> 0, needs |-> <<>>, is |-> "none"]

Unmet(n) == ~n.satisfied
Count(all, P(_)) == Cardinality({i \in DOMAIN all : P(all[i])})
RankOf(id) == CHOOSE i \in DOMAIN Ids : Ids[i] = id

VARIABLES
  wired,     \* does the page know of a coordinator? (the config says so)
  url,       \* the parameters: shard, cluster, status; "" when absent
  reason,    \* the reason filter, or ""
  selected,  \* the need in the drawer, or NoNeed
  topo,      \* the shards of the last topology, <<>> before it
  cache,     \* cache[k]: the last answer under key k, or NoData
  failed,    \* failed[k]: did the last fetch under key k fail?
  flying,    \* the shards with a fetch on its way
  clicks     \* what the user may still do

answers == <<cache, failed>>
vars == <<wired, url, reason, selected, topo, cache, failed, flying, clicks>>

NoNeed == [id |-> "none"]

-----------------------------------------------------------------------------
(* The query's key: one cache entry per shard.                             *)
MutKey(s) == "needs"
Key(s) == s

Keys == {Key(s) : s \in Shards}

Status == IF url.status \in {"satisfied", "unmet"} THEN url.status ELSE "all"
(* What the page knows of the shard in the URL; nothing without one.       *)
DataOf(s, c)  == IF s = "" THEN NoData ELSE c[Key(s)]
All == DataOf(url.shard, cache).needs

(* The clusters of the answer, the one with most unmet needs first.        *)
UnmetOf(all, id) == Count(all, LAMBDA n : n.clusterId = id /\ Unmet(n))
ClustersOf(all) ==
  Arranged({all[i].clusterId : i \in DOMAIN all},
           LAMBDA a, b : \/ UnmetOf(all, a) > UnmetOf(all, b)
                         \/ UnmetOf(all, a) = UnmetOf(all, b) /\ RankOf(a) < RankOf(b))

Within(all, cl) == IF cl \in {"", ALL} THEN all ELSE Filter(all, LAMBDA n : n.clusterId = cl)
Scoped == Within(All, url.cluster)
ByReason(rs, r) == IF r = "" THEN rs
                   ELSE Filter(rs, LAMBDA n : Unmet(n) /\ n.unmetReason = r)
ByStatus(rs, st) == CASE st = "all" -> rs
                      [] st = "satisfied" -> Filter(rs, LAMBDA n : n.satisfied)
                      [] st = "unmet" -> Filter(rs, Unmet)
Rows == ByReason(ByStatus(Scoped, Status), reason)

(* The summary bar: one badge per reason, of the needs in scope.           *)
BadgesOf(rs) ==
  {[reason |-> r, count |-> Count(rs, LAMBDA n : Unmet(n) /\ n.unmetReason = r)] :
   r \in {rs[i].unmetReason : i \in {j \in DOMAIN rs : Unmet(rs[j])}}}

MutBadges == BadgesOf(Rows)

Badges == BadgesOf(Scoped)

(* What the page shows below its selectors.                                *)
Screen ==
  CASE ~wired -> "unwired"
    [] wired /\ url.shard = "" -> "blank"
    [] wired /\ url.shard # "" /\ failed[Key(url.shard)] -> "error"
    [] wired /\ url.shard # "" /\ ~failed[Key(url.shard)] ->
         CASE cache[Key(url.shard)] = NoData -> "loading"
           [] cache[Key(url.shard)] # NoData /\ All = <<>> -> "empty"
           [] All # <<>> /\ Rows = <<>> -> "nothing matches"
           [] All # <<>> /\ Rows # <<>> -> "table"

(* What a <select> shows: its value, or the first option when no option    *)
(* has that value.                                                         *)
ShardShown ==
  IF url.shard \notin ToSet(topo) /\ topo # <<>> THEN topo[1] ELSE url.shard
ClusterShown ==
  IF \E i \in DOMAIN ClustersOf(All) : ClustersOf(All)[i] = url.cluster THEN url.cluster ELSE ALL

-----------------------------------------------------------------------------
(* The effects that run after a change: u is the URL, t the topology and c *)
(* the cache they find.                                                    *)
MutDefaults(u, t, c) ==
  LET cl == ClustersOf(DataOf(u.shard, c).needs)
  IN  IF cl # <<>> /\ u.cluster \notin ToSet(cl) THEN [u EXCEPT !.cluster = cl[1]] ELSE u
MutEffects(u, t, c) ==
  LET cl == ClustersOf(DataOf(u.shard, c).needs)
  IN  IF u.cluster = "" /\ cl # <<>> THEN [u EXCEPT !.cluster = cl[1]] ELSE u
Effects(u, t, c) ==
  LET v  == IF u.shard = "" /\ t # <<>> THEN [u EXCEPT !.shard = t[1]] ELSE u
      cl == ClustersOf(DataOf(v.shard, c).needs)
  IN  IF v.cluster = "" /\ cl # <<>> THEN [v EXCEPT !.cluster = cl[1]] ELSE v

ExplorerInit ==
  /\ wired = FALSE
  /\ url \in Links
  /\ reason = "" /\ selected = NoNeed /\ topo = <<>>
  /\ cache = [k \in Keys |-> NoData] /\ failed = [k \in Keys |-> FALSE]
  /\ flying = {}
  /\ clicks = MaxClicks

(* The page after the URL became u: the effects run, and a shard that     *)
(* comes into view without an answer is fetched at once.                   *)
Settle(u, t) ==
  /\ url' = Effects(u, t, cache)
  /\ IF url'.shard # url.shard /\ cache[Key(url'.shard)] = NoData
       THEN /\ flying' = flying \cup {url'.shard}
            /\ failed' = [failed EXCEPT ![Key(url'.shard)] = FALSE]
       ELSE UNCHANGED <<flying, failed>>

-----------------------------------------------------------------------------
(* The config arrives and enables the queries.                             *)
ConfigArrives ==
  /\ ~wired /\ wired' = TRUE
  /\ flying' = {url.shard} \ {""}
  /\ UNCHANGED <<url, reason, selected, topo, answers, clicks>>

(* The polls.  A failed topology leaves the last one.                      *)
TopologyArrives ==
  /\ wired /\ topo' \in Topologies
  /\ Settle(url, topo')
  /\ UNCHANGED <<wired, reason, selected, cache, clicks>>

Poll ==
  /\ wired /\ url.shard # "" /\ url.shard \notin flying
  /\ flying' = flying \cup {url.shard}
  /\ failed' = [failed EXCEPT ![Key(url.shard)] = @ /\ cache[Key(url.shard)] # NoData]
  /\ UNCHANGED <<wired, url, reason, selected, topo, cache, clicks>>

(* An answer goes to the entry of the shard it was asked for.              *)
Arrive(s) ==
  /\ s \in flying
  /\ \E a \in Answers[s] : cache' = [cache EXCEPT ![Key(s)] = a]
  /\ failed' = [failed EXCEPT ![Key(s)] = FALSE]
  /\ url' = Effects(url, topo, cache')
  /\ flying' = flying \ {s}
  /\ UNCHANGED <<wired, reason, selected, topo, clicks>>

Fail(s) ==
  /\ s \in flying
  /\ failed' = [failed EXCEPT ![Key(s)] = TRUE]
  /\ flying' = flying \ {s}
  /\ UNCHANGED <<wired, url, reason, selected, topo, cache, clicks>>

(* An entry nobody looks at is dropped after a while.                      *)
Forget(s) ==
  /\ s # url.shard /\ s \notin flying /\ cache[Key(s)] # NoData
  /\ cache' = [cache EXCEPT ![Key(s)] = NoData]
  /\ failed' = [failed EXCEPT ![Key(s)] = FALSE]
  /\ UNCHANGED <<wired, url, reason, selected, topo, flying, clicks>>

-----------------------------------------------------------------------------
(* The user.                                                               *)
Click == wired /\ clicks > 0 /\ clicks' = clicks - 1

SelectShard(s) ==
  /\ Click /\ s \in ToSet(topo) /\ s # ShardShown
  /\ Settle([url EXCEPT !.shard = s], topo)
  /\ UNCHANGED <<wired, reason, selected, topo, cache>>

SelectCluster(c) ==
  /\ Click /\ c \in {ALL} \cup ToSet(ClustersOf(All)) /\ c # ClusterShown
  /\ Settle([url EXCEPT !.cluster = c], topo)
  /\ UNCHANGED <<wired, reason, selected, topo, cache>>

(* Writing the fallback of a parameter removes it from the URL.            *)
MutWritten(v, fallback) == v
Written(v, fallback) == IF v = fallback THEN "" ELSE v

SelectStatus(st) ==
  /\ Click /\ st # Status
  /\ url' = [url EXCEPT !.status = Written(st, "all")]
  /\ UNCHANGED <<wired, reason, selected, topo, answers, flying>>

PickReason(r) ==
  /\ Click /\ Screen \in {"table", "nothing matches"}
  /\ r \in {b.reason : b \in Badges}
  /\ reason' = IF reason = r THEN "" ELSE r
  /\ UNCHANGED <<wired, url, selected, topo, answers, flying>>

OpenNeed ==
  /\ Click /\ Screen = "table" /\ selected = NoNeed
  /\ \E i \in DOMAIN Rows : selected' = Rows[i]
  /\ UNCHANGED <<wired, url, reason, topo, answers, flying>>

CloseNeed ==
  /\ selected # NoNeed /\ selected' = NoNeed
  /\ UNCHANGED <<wired, url, reason, topo, answers, flying, clicks>>

Reasons == {n.unmetReason : n \in UNION {ToSet(a.needs) : a \in UNION {Answers[s] : s \in Shards}}}

ExplorerNext ==
  \/ ConfigArrives \/ TopologyArrives \/ Poll \/ OpenNeed \/ CloseNeed
  \/ \E s \in Shards : Arrive(s) \/ Fail(s) \/ Forget(s) \/ SelectShard(s)
  \/ \E c \in {ALL} \cup ToSet(Ids) : SelectCluster(c)
  \/ \E st \in {"all", "satisfied", "unmet"} : SelectStatus(st)
  \/ \E r \in Reasons : PickReason(r)

(* The timers of the polls run, and a fetch ends: fetch() has no deadline  *)
(* of its own, but the server's handlers all answer.                       *)
ExplorerSpec ==
  /\ ExplorerInit /\ [][ExplorerNext]_vars
  /\ WF_vars(TopologyArrives)
  /\ \A s \in Shards : WF_vars(Arrive(s) \/ Fail(s))

-----------------------------------------------------------------------------
(* Every variable holds a value of its kind.                               *)
TypeOK ==
  /\ wired \in BOOLEAN
  /\ url.shard \in Shards \cup {""}
  /\ url.cluster \in {"", ALL} \cup ToSet(Ids)
  /\ url.status \in {"", "satisfied", "unmet"} \cup {l.status : l \in Links}
  /\ reason \in Reasons \cup {""}
  /\ topo \in Topologies \cup {<<>>}
  /\ \A k \in Keys : cache[k] \in {NoData} \cup UNION {Answers[s] : s \in Shards}
  /\ failed \in [Keys -> BOOLEAN]
  /\ flying \subseteq Shards /\ clicks \in 0..MaxClicks
  /\ Screen \in {"unwired", "blank", "error", "loading", "empty", "nothing matches", "table"}

(* The table shows needs of the shard in the URL, whichever answers of     *)
(* other shards arrive late or are still cached.                           *)
ShowsTheShardNamed ==
  Screen = "table" => \A i \in DOMAIN Rows : Rows[i].shard = url.shard

(* A badge that is picked shows the needs it counts, none of them while    *)
(* only satisfied ones are asked for, and stays there to be clicked again: *)
(* another answer, shard or cluster may take the badge of the picked       *)
(* reason away, never a filter of the user's (summary is made of scoped).  *)
Clearable == reason \in {""} \cup {b.reason : b \in Badges}
BadgesLeadBack ==
  [][/\ reason' \notin {reason, ""} =>
          \A b \in Badges : b.reason = reason' =>
            Len(Rows') = IF Status = "satisfied" THEN 0 ELSE b.count
     /\ Clearable /\ UNCHANGED <<url.shard, url.cluster, cache>> => Clearable']_vars

(* What a link or the user chose is never changed by a poll or an answer:  *)
(* the effects only fill in what is absent, the cluster with one that has  *)
(* the most unmet needs of its shard.                                      *)
ChoiceIsKept ==
  [][clicks' = clicks =>
       /\ url.shard # "" => url'.shard = url.shard
       /\ url.cluster # "" => url'.cluster = url.cluster
       /\ url'.status = url.status
       /\ url.cluster = "" /\ url'.cluster # "" =>
            \A id \in ToSet(Ids) : UnmetOf(All', id) <= UnmetOf(All', url'.cluster)]_vars

(* Once the coordinator lists a shard, the page comes to show needs, that  *)
(* there are none, or an error: it never waits for a shard nobody chose.   *)
Settles == (wired /\ topo # <<>>) ~> (Screen \in {"error", "empty", "nothing matches", "table"})

(* "All clusters (n)" in the cluster selector means all of them.           *)
SelectorTellsTheScope ==
  Screen \in {"table", "nothing matches"} /\ ClusterShown = ALL => Scoped = All
=============================================================================
