---------------------------- MODULE ReadPipeline ----------------------------
(***************************************************************************)
(* One request to a handler that reads its upstreams one after the other:  *)
(* fleet, shards, trends, finops, topology, shard reports, needs and the   *)
(* cluster detail (pkg/server/handlers_*.go).  They share one shape: 503   *)
(* when the source is not wired, then the parameter check, then a sequence *)
(* of calls under a single deadline.  A failed call ends the request, but  *)
(* for the Prometheus calls of the topology, which leave a warning.        *)
(*                                                                         *)
(* Time is counted in ticks of 5 s; the program's own steps take none.     *)
(* The queries' texts and the numbers they return are not represented.     *)
(*                                                                         *)
(* A definition named Mut... is a mistake one could make in the definition *)
(* after it; replacing the definition by it makes a property fail.         *)
(***************************************************************************)
EXTENDS Integers

CONSTANTS
  Routes,      \* the routes requested
  Latencies    \* how many ticks an upstream may take over a call

Sources == {"prometheus", "coordinator", "kube"}   \* the ones a flag wires

-----------------------------------------------------------------------------
(* The handlers: the source that must be wired, the deadline, what a bad   *)
(* parameter is answered with (200: the route takes none that can be bad), *)
(* the number of calls it needs, and of Prometheus calls it can do without.*)
FleetOverview == [gate |-> "prometheus", ticks |-> 1, bad |-> 200, must |-> 5, may |-> 0]
FleetActions  == [gate |-> "prometheus", ticks |-> 2, bad |-> 200, must |-> 1, may |-> 0]
ShardsList    == [gate |-> "prometheus", ticks |-> 1, bad |-> 200, must |-> 4, may |-> 0]
ShardDetail   == [gate |-> "prometheus", ticks |-> 1, bad |-> 400, must |-> 9, may |-> 0]
ShardTrends   == [gate |-> "prometheus", ticks |-> 2, bad |-> 400, must |-> 2, may |-> 0]
FinOps        == [gate |-> "prometheus", ticks |-> 1, bad |-> 200, must |-> 7, may |-> 0]
ClusterDetail == [gate |-> "kube", ticks |-> 6, bad |-> 404, must |-> 2, may |-> 0]
Topology      == [gate |-> "coordinator", ticks |-> 1, bad |-> 200, must |-> 2, may |-> 4]
ShardReports  == [gate |-> "coordinator", ticks |-> 1, bad |-> 200, must |-> 1, may |-> 0]
Needs         == [gate |-> "coordinator", ticks |-> 2, bad |-> 400, must |-> 2, may |-> 0]

Handler ==
  [fleetOverview |-> FleetOverview, fleetActions |-> FleetActions,
   shards |-> ShardsList, shardDetail |-> ShardDetail, shardTrends |-> ShardTrends,
   finops |-> FinOps, clusterDetail |-> ClusterDetail, topology |-> Topology,
   shardReports |-> ShardReports, needs |-> Needs]

ASSUME PipelineAssumption ==
  /\ Routes \subseteq DOMAIN Handler
  /\ Latencies \subseteq Nat

-----------------------------------------------------------------------------
VARIABLES
  route,    \* the route requested
  wired,    \* the sources the dashboard was started with
  goodParam,\* whether the request's parameter passes the handler's check
  now,      \* ticks since the handler created its context
  gone,     \* the client hung up, so the context is cancelled
  k,        \* the call in flight; 0 before the first
  due,      \* when it answers
  got,      \* the calls whose result the handler has
  warned,   \* the calls a warning stands for instead
  failed,   \* how the call that ended the request failed, or "no"
  status    \* the HTTP status answered, 0 until then

vars == <<route, wired, goodParam, now, gone, k, due, got, warned, failed, status>>
input == <<route, wired, goodParam>>

H == Handler[route]
N == H.must + H.may
Calls == 1..N
Required(j) == j <= H.must

(* The source of call j: needs asks the coordinator for the shard's address *)
(* and then the shard.                                                     *)
Asked(j) ==
  IF ~Required(j) THEN "prometheus"
  ELSE IF route = "needs" /\ j = 2 THEN "shard" ELSE H.gate

(* A call due at Horizon or later is never answered: the context ends it    *)
(* before.  The clock of the model stops there.                            *)
Horizon == H.ticks + 1

(* context.WithTimeout(r.Context(), ...), one for all the calls. *)
MutCtxDone == gone
CtxDone == gone \/ now >= H.ticks

Init ==
  /\ route \in Routes
  /\ wired \in SUBSET Sources
  /\ goodParam \in IF Handler[route].bad = 200 THEN {TRUE} ELSE BOOLEAN
  /\ now = 0 /\ gone = FALSE /\ k = 0 /\ due = 0
  /\ got = {} /\ warned = {} /\ failed = "no" /\ status = 0

(* writeError, or writeJSON with 200. *)
Reply(code) == status' = code /\ UNCHANGED <<k, due>>

(* The calls the handler makes: the topology asks Prometheus only if it is *)
(* wired.                                                                  *)
Made(j) == Required(j) \/ Asked(j) \in wired

(* The calls from j on if they are left out: one warning stands for them.  *)
LeftOut(j) == IF j <= N /\ ~Made(j) THEN j..N ELSE {}

(* Call j begins and will be answered after some latency, unless the       *)
(* context is done before; past the last call the answer is 200.           *)
Begin(j) ==
  IF j > N \/ ~Made(j)
  THEN Reply(200)
  ELSE /\ k' = j
       /\ \E l \in Latencies : due' = IF CtxDone THEN Horizon ELSE now + l
       /\ UNCHANGED status

(* The early returns: 503 for an unwired source comes before the check of  *)
(* the parameter, and both before any call.                                *)
MutStart ==
  /\ k = 0 /\ status = 0
  /\ IF ~goodParam THEN Reply(H.bad) ELSE Begin(1)
  /\ UNCHANGED <<input, now, gone, got, warned, failed>>

Start ==
  /\ k = 0 /\ status = 0
  /\ IF H.gate \notin wired THEN Reply(503)
     ELSE IF ~goodParam THEN Reply(H.bad)
     ELSE Begin(1)
  /\ UNCHANGED <<input, now, gone, got, warned, failed>>

(* The call in flight returns its result.  The needs handler looks the     *)
(* shard's address up in the first one and answers 404 if there is none.   *)
CallSucceeds ==
  /\ k > 0 /\ status = 0 /\ due <= now
  /\ got' = got \cup {k}
  /\ warned' = warned \cup LeftOut(k + 1)
  /\ \/ Begin(k + 1)
     \/ route = "needs" /\ k = 1 /\ Reply(404)
  /\ UNCHANGED <<input, now, gone, failed>>

(* The call in flight fails: its source answers with an error (a           *)
(* coordinator that is not the leader with FailedPrecondition), or the     *)
(* context is done.                                                        *)
Kinds == {"upstream", "notLeader", "context"}

CallError(kind) ==
  \/ kind = "upstream" /\ due <= now
  \/ kind = "notLeader" /\ due <= now /\ Asked(k) = "coordinator"
  \/ kind = "context" /\ CtxDone

(* statusFromCoordErr for the coordinator, 502 for the other sources. *)
MutErrorStatus(kind) ==
  IF kind = "notLeader" THEN 503 ELSE IF kind = "context" THEN 504 ELSE 502
ErrorStatus(kind) == IF kind = "notLeader" THEN 503 ELSE 502

MutCallFails ==
  /\ k > 0 /\ status = 0
  /\ \E kind \in Kinds :
       /\ CallError(kind)
       /\ failed' = kind /\ Reply(ErrorStatus(kind)) /\ UNCHANGED warned
  /\ UNCHANGED <<input, now, gone, got>>

MutCallFailsSilently ==
  /\ k > 0 /\ status = 0
  /\ \E kind \in Kinds :
       /\ CallError(kind)
       /\ IF Required(k)
          THEN failed' = kind /\ Reply(ErrorStatus(kind))
          ELSE Begin(k + 1) /\ UNCHANGED failed
  /\ UNCHANGED <<input, now, gone, got, warned>>

MutCallFailsNoReturn ==
  /\ k > 0 /\ status = 0
  /\ \E kind \in Kinds :
       CallError(kind) /\ failed' = kind /\ Begin(k + 1)
  /\ UNCHANGED <<input, now, gone, got, warned>>

CallFails ==
  /\ k > 0 /\ status = 0
  /\ \E kind \in Kinds :
       /\ CallError(kind)
       /\ IF Required(k)
          THEN failed' = kind /\ Reply(ErrorStatus(kind)) /\ UNCHANGED warned
          ELSE warned' = warned \cup {k} /\ Begin(k + 1) /\ UNCHANGED failed
  /\ UNCHANGED <<input, now, gone, got>>

Disconnect ==
  /\ status = 0 /\ ~gone
  /\ gone' = TRUE
  /\ UNCHANGED <<input, now, k, due, got, warned, failed, status>>

(* Time passes while a call is in flight and nothing can return it. *)
Tick ==
  /\ k > 0 /\ status = 0 /\ due > now /\ ~CtxDone /\ now < Horizon
  /\ now' = now + 1
  /\ UNCHANGED <<input, gone, k, due, got, warned, failed, status>>

Over == status # 0 /\ UNCHANGED vars

Next == Start \/ CallSucceeds \/ CallFails \/ Disconnect \/ Tick \/ Over

(* The handler goroutine runs, and time passes. *)
Fairness == WF_vars(Start) /\ WF_vars(CallSucceeds \/ CallFails) /\ WF_vars(Tick)

Spec == Init /\ [][Next]_vars /\ Fairness

-----------------------------------------------------------------------------
(* Types; every status is one docs/api.md names. *)
TypeOK ==
  /\ route \in Routes /\ wired \subseteq Sources
  /\ goodParam \in BOOLEAN /\ gone \in BOOLEAN
  /\ now \in Nat /\ due \in Nat /\ k \in 0..N
  /\ got \subseteq Calls /\ warned \subseteq Calls
  /\ failed \in Kinds \cup {"no"}
  /\ status \in {0, 200, 400, 404, 502, 503}

(* No invented figures: a body sent with 200 was built from the results of
   all the calls of its handler, but for those a warning in the body stands
   for, and the calls a handler cannot do without have no such warning.  A
   forgotten return after writeError, or a swallowed error, would show zeros
   as measurements. *)
AllOrWarned ==
  status = 200 =>
    /\ got = Calls \ warned
    /\ \A j \in warned : ~Required(j)

(* What the caller may conclude from the status: 502 that a required call
   failed, 503 that the source is not wired or the coordinator not the leader,
   404 that the needs handler asked the coordinator and found no address, or
   that the cluster is unknown. *)
StatusMeaning ==
  /\ status = 502 <=> failed \in {"upstream", "context"}
  /\ status = 503 <=> failed = "notLeader" \/ (status # 0 /\ H.gate \notin wired)
  /\ status = 400 => ~goodParam
  /\ status = 404 => ~goodParam \/ got = {1}

(* "An unwired source returns 503 immediately ..., never a hang"
   (docs/slos.md:63): no call is begun and no time passes, and a bad
   parameter does not change it (the first lines of every handler). *)
UnwiredAtOnce ==
  H.gate \notin wired => k = 0 /\ now = 0 /\ status \in {0, 503}

(* What the coordinator said is shown even if Prometheus fails, hangs or has
   no time left because the coordinator used it (handlers_topology.go:43-70). *)
PrometheusNeverHidesTopology ==
  route = "topology" /\ {1, 2} \subseteq got => status \in {0, 200}

(* Every request is answered, whichever upstream hangs at whichever of its
   calls. *)
Answered == <>(status # 0)
=============================================================================
