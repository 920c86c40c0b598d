------------------------- MODULE ReadPipelineProofs -------------------------
(***************************************************************************)
(* Proofs about ReadPipeline, for any set of routes and any latencies.     *)
(* The invariant IInv says which calls are accounted for while the request *)
(* is under way: all those before the one in flight, each once.            *)
(***************************************************************************)
EXTENDS ReadPipeline, TLAPS

USE PipelineAssumption DEF PipelineAssumption

(* The fields of a handler which the proofs use. *)
Shape(h) ==
  /\ h.must \in Nat \ {0} /\ h.may \in Nat /\ h.ticks \in Nat \ {0}
  /\ h.bad \in {200, 400, 404}

(* Every handler in the table is well formed: it makes at least one call it
   needs, under a deadline (pkg/server/handlers_*.go). *)
LEMMA HandlersAreWellFormed ==
  \A r \in DOMAIN Handler : Shape(Handler[r])
BY DEF Handler, Shape, FleetOverview, FleetActions, ShardsList, ShardDetail,
  ShardTrends, FinOps, ClusterDetail, Topology, ShardReports, Needs

(* Types; nothing else is needed to preserve them. *)
Typed ==
  /\ route \in Routes /\ wired \subseteq Sources
  /\ goodParam \in BOOLEAN /\ gone \in BOOLEAN
  /\ now \in Nat /\ due \in Nat /\ k \in 0..N
  /\ failed \in Kinds \cup {"no"}
  /\ status \in {0, 200, 400, 404, 502, 503}
  /\ H.bad = 200 => goodParam

(* The calls behind the handler, and how its status came about. *)
Accounted ==
  /\ status = 0 => got \cup warned = 1..(k - 1)
  /\ status = 200 => got \cup warned = Calls
  /\ got \cap warned = {}
  /\ got \cup warned \subseteq Calls
  /\ \A j \in warned : ~Required(j)
  /\ status = 0 /\ k > 0 => Made(k)
  /\ got \subseteq 1..k
  /\ failed # "no" => Required(k) /\ k \notin got

Explained ==
  /\ failed = "no" <=> status \notin {502} /\ ~(status = 503 /\ H.gate \in wired)
  /\ StatusMeaning
  /\ UnwiredAtOnce
  /\ status = 0 /\ H.gate \in wired /\ k > 0 => goodParam

IInv == Typed /\ Accounted /\ Explained

-----------------------------------------------------------------------------
(* The invariant holds when the request arrives (the handlers' first lines). *)
LEMMA InitIInv == Init => IInv
<1> SUFFICES ASSUME Init PROVE IInv
  OBVIOUS
<1>1. Shape(H)
  BY HandlersAreWellFormed DEF Init, H
<1>2. goodParam \in BOOLEAN /\ (H.bad = 200 => goodParam)
  BY Zenon DEF Init, H
<1>3. k \in 0..N /\ now \in Nat /\ due \in Nat
  BY <1>1 DEF Init, Shape, N
<1>4. Typed
  BY <1>2, <1>3, Zenon DEF Init, Typed
<1>5. Accounted
  BY <1>1 DEF Init, Accounted, Calls, N, Shape
<1>6. Explained
  BY <1>1 DEF Init, Explained, StatusMeaning, UnwiredAtOnce
<1> QED
  BY <1>4, <1>5, <1>6 DEF IInv

(* Every step of the handler, of the client and of the clock keeps it
   (pkg/server/handlers_*.go). *)
LEMMA StepIInv == IInv /\ [Next]_vars => IInv'
<1> SUFFICES ASSUME IInv, [Next]_vars PROVE IInv'
  OBVIOUS
<1>1. Shape(H) /\ N \in Nat \ {0}
  BY HandlersAreWellFormed DEF IInv, Typed, H, Shape, N
<1>2. CASE Start
  <2>1. UNCHANGED <<input, now, gone, got, warned, failed>> /\ k = 0 /\ status = 0
    BY <1>2 DEF Start
  <2>2. H' = H /\ N' = N /\ Calls' = Calls
    BY <2>1 DEF H, N, Calls, input
  <2>3. CASE H.gate \notin wired /\ Reply(503)
    <3>1. Typed'
      BY <2>1, <2>2, <2>3 DEF IInv, Typed, Reply, input
    <3>2. Accounted'
      BY <2>1, <2>2, <2>3 DEF IInv, Accounted, Reply, input, Required, Made, Asked
    <3>3. Explained'
      BY <2>1, <2>2, <2>3 DEF IInv, Explained, StatusMeaning, UnwiredAtOnce, Reply, input
    <3> QED
      BY <3>1, <3>2, <3>3 DEF IInv
  <2>4. CASE H.gate \in wired /\ ~goodParam /\ Reply(H.bad)
    <3>1. Typed'
      BY <1>1, <2>1, <2>2, <2>4 DEF IInv, Typed, Reply, input, Shape
    <3>2. Accounted'
      BY <1>1, <2>1, <2>2, <2>4 DEF IInv, Typed, Accounted, Reply, input, Shape, Required, Made, Asked
    <3>3. Explained'
      BY <1>1, <2>1, <2>2, <2>4 DEF IInv, Typed, Explained, StatusMeaning, UnwiredAtOnce, Reply, input, Shape
    <3> QED
      BY <3>1, <3>2, <3>3 DEF IInv
  <2>5. CASE H.gate \in wired /\ goodParam /\ Begin(1)
    <3>1. k' = 1 /\ due' \in Nat /\ status' = 0
      BY <1>1, <2>1, <2>5 DEF Begin, Made, Required, Shape, Horizon, IInv, Typed
    <3>2. Typed'
      BY <1>1, <2>1, <2>2, <2>5, <3>1 DEF IInv, Typed, input
    <3>3. Accounted'
      BY <1>1, <2>1, <2>2, <2>5, <3>1 DEF IInv, Accounted, Shape, input, Required, Made, Asked
    <3>4. Explained'
      BY <2>1, <2>2, <2>5, <3>1 DEF IInv, Explained, StatusMeaning, UnwiredAtOnce, input
    <3> QED
      BY <3>2, <3>3, <3>4 DEF IInv
  <2> QED
    BY <1>2, <2>3, <2>4, <2>5 DEF Start
<1>3. CASE CallSucceeds
  <2>1. UNCHANGED <<input, now, gone, failed>> /\ k > 0 /\ status = 0
    BY <1>3 DEF CallSucceeds
  <2>2. H' = H /\ N' = N /\ Calls' = Calls
    BY <2>1 DEF H, N, Calls, input
  <2>2a. got' = got \cup {k} /\ warned' = warned \cup LeftOut(k + 1)
    BY <1>3 DEF CallSucceeds
  <2>2b. got \cup warned = 1..(k - 1) /\ k \in Calls
    BY <1>1, <2>1 DEF IInv, Accounted, Typed, Calls
  <2>3. /\ got' = got \cup {k} /\ warned' = warned \cup LeftOut(k + 1)
        /\ got \cup warned = 1..(k - 1) /\ k \in Calls
    BY <2>2a, <2>2b
  <2>4. H.gate \in wired /\ failed = "no"
    BY <2>1 DEF IInv, Explained, UnwiredAtOnce, Typed
  <2>5. CASE Begin(k + 1) /\ k + 1 \in Calls /\ Made(k + 1)
    <3>1. k' = k + 1 /\ due' \in Nat /\ status' = 0 /\ LeftOut(k + 1) = {}
      BY <1>1, <2>1, <2>5 DEF Begin, Shape, Horizon, IInv, Typed, Calls, LeftOut
    <3>2. Typed'
      BY <1>1, <2>1, <2>2, <2>5, <3>1 DEF IInv, Typed, input, Calls
    <3>3. Accounted'
      BY <1>1, <2>1, <2>2, <2>3, <2>4, <2>5, <3>1 DEF IInv, Accounted, Typed, input, Required, Made, Asked, Calls
    <3>4. Explained'
      BY <2>1, <2>2, <2>4, <2>5, <3>1 DEF IInv, Explained, StatusMeaning, UnwiredAtOnce, input
    <3> QED
      BY <3>2, <3>3, <3>4 DEF IInv
  <2>6. CASE Begin(k + 1) /\ ~(k + 1 \in Calls /\ Made(k + 1))
    <3>1. k' = k /\ due' = due /\ status' = 200
      BY <1>1, <2>1, <2>6 DEF Begin, Reply, IInv, Typed, Calls
    <3>2. Typed'
      BY <2>1, <2>2, <3>1 DEF IInv, Typed, input
    <3>3. \A j \in LeftOut(k + 1) : ~Required(j) /\ j \in Calls /\ j > k
      BY <1>1, <2>1, <2>3 DEF LeftOut, Made, Required, IInv, Typed, Calls, Shape
    <3>4. got' \cup warned' = Calls
      BY <1>1, <2>1, <2>3, <2>6 DEF LeftOut, Calls, IInv, Typed
    <3>5. Accounted'
      BY <1>1, <2>1, <2>2, <2>3, <2>4, <3>1, <3>3, <3>4 DEF IInv, Accounted, Typed, input, Required, Made, Asked, Calls
    <3>6. Explained'
      BY <2>1, <2>2, <2>4, <3>1 DEF IInv, Explained, StatusMeaning, UnwiredAtOnce, input
    <3> QED
      BY <3>2, <3>5, <3>6 DEF IInv
  <2>7. CASE route = "needs" /\ k = 1 /\ Reply(404)
    <3>1. k' = 1 /\ due' = due /\ status' = 404 /\ got = {} /\ warned = {}
      BY <2>3, <2>7 DEF Reply
    <3>2. H = Needs
      BY <2>7 DEF H, Handler
    <3>3. LeftOut(k + 1) = {} /\ got' = {1}
      BY <2>3, <2>7, <3>1, <3>2 DEF LeftOut, Made, Required, N, Needs
    <3>4. Typed'
      BY <2>1, <2>2, <2>7, <3>1 DEF IInv, Typed, input
    <3>5. Accounted'
      BY <1>1, <2>1, <2>2, <2>3, <2>4, <2>7, <3>1, <3>3 DEF IInv, Accounted, input, Required, Made, Asked
    <3>6. Explained'
      BY <2>1, <2>2, <2>4, <3>1, <3>3 DEF IInv, Explained, StatusMeaning, UnwiredAtOnce, input
    <3> QED
      BY <3>4, <3>5, <3>6 DEF IInv
  <2> QED
    BY <1>3, <2>5, <2>6, <2>7 DEF CallSucceeds
<1>4. CASE CallFails
  <2>1. UNCHANGED <<input, now, gone, got>> /\ k > 0 /\ status = 0
    BY <1>4 DEF CallFails
  <2>2. H' = H /\ N' = N /\ Calls' = Calls
    BY <2>1 DEF H, N, Calls, input
  <2>3. got \cup warned = 1..(k - 1) /\ k \in Calls
    BY <1>1, <2>1 DEF IInv, Accounted, Typed, Calls
  <2>4. H.gate \in wired /\ failed = "no"
    BY <2>1 DEF IInv, Explained, UnwiredAtOnce, Typed
  <2>5. CASE Required(k)
    <3>1. PICK kind \in Kinds : /\ failed' = kind /\ warned' = warned
                               /\ k' = k /\ due' = due /\ status' = ErrorStatus(kind)
      BY <1>4, <2>5 DEF CallFails, Reply
    <3>2. Typed'
      BY <2>1, <2>2, <3>1 DEF IInv, Typed, input, ErrorStatus
    <3>3. Accounted'
      BY <1>1, <2>1, <2>2, <2>3, <2>5, <3>1 DEF IInv, Accounted, Typed, Calls, input, Required, Made, Asked, ErrorStatus
    <3>4. Explained'
      BY <2>1, <2>2, <2>4, <3>1 DEF IInv, Explained, StatusMeaning, UnwiredAtOnce, input, ErrorStatus, Kinds
    <3> QED
      BY <3>2, <3>3, <3>4 DEF IInv
  <2>6. CASE ~Required(k)
    <3>1. warned' = warned \cup {k} /\ Begin(k + 1) /\ failed' = failed
      BY <1>4, <2>6 DEF CallFails
    <3>2. \/ k' = k + 1 /\ k' \in Calls /\ due' \in Nat /\ status' = 0
          \/ k' = k /\ due' = due /\ status' = 200 /\ (k = N \/ ~Made(k + 1))
      BY <1>1, <2>1, <2>3, <3>1 DEF Begin, Reply, Shape, Horizon, IInv, Typed, Calls
    <3>3. Made(k) /\ Made(k + 1)
      BY <1>1, <2>1, <2>3, <2>6 DEF IInv, Accounted, Typed, Made, Required, Asked, Calls, Shape
    <3>4. Typed'
      BY <1>1, <2>1, <2>2, <3>1, <3>2 DEF IInv, Typed, input, Calls
    <3>5. Accounted'
      BY <1>1, <2>1, <2>2, <2>3, <2>4, <2>6, <3>1, <3>2, <3>3 DEF IInv, Accounted, Typed, input, Required, Made, Asked, Calls
    <3>6. Explained'
      BY <2>1, <2>2, <2>4, <3>1, <3>2 DEF IInv, Explained, StatusMeaning, UnwiredAtOnce, input
    <3> QED
      BY <3>4, <3>5, <3>6 DEF IInv
  <2> QED
    BY <2>5, <2>6
<1>5. CASE Disconnect
  <2>1. UNCHANGED <<input, now, k, due, got, warned, failed, status>> /\ gone' = TRUE
    BY <1>5 DEF Disconnect
  <2> QED
    BY <2>1 DEF IInv, Typed, Accounted, Explained, StatusMeaning, UnwiredAtOnce,
      H, N, Calls, Required, Made, Asked, input
<1>6. CASE Tick
  <2>1. /\ UNCHANGED <<input, gone, k, due, got, warned, failed, status>>
        /\ now' = now + 1 /\ k > 0 /\ now < H.ticks
    BY <1>1, <1>6 DEF Tick, CtxDone, IInv, Typed, Shape
  <2>2. H' = H /\ N' = N /\ Calls' = Calls
    BY <2>1 DEF H, N, Calls, input
  <2>3. Typed'
    BY <1>1, <2>1, <2>2 DEF IInv, Typed, input, Shape
  <2>4. Accounted'
    BY <2>1, <2>2 DEF IInv, Accounted, Required, Made, Asked, input
  <2>5. Explained'
    BY <2>1, <2>2 DEF IInv, Explained, StatusMeaning, UnwiredAtOnce, input
  <2> QED
    BY <2>3, <2>4, <2>5 DEF IInv
<1>7. CASE UNCHANGED vars
  BY <1>7 DEF vars, input, IInv, Typed, Accounted, Explained, StatusMeaning, UnwiredAtOnce,
      H, N, Calls, Required, Made, Asked
<1> QED
  BY <1>2, <1>3, <1>4, <1>5, <1>6, <1>7 DEF Next, Over

LEMMA Invariance == Spec => []IInv
BY InitIInv, StepIInv, PTL DEF Spec

-----------------------------------------------------------------------------
(* Every variable keeps its type and every status is a documented one. *)
THEOREM TypeCorrect == Spec => []TypeOK
<1>1. IInv => TypeOK
  BY DEF IInv, Typed, Accounted, TypeOK
<1> QED
  BY <1>1, Invariance, PTL

(* A page is never built from results the handler does not have. *)
THEOREM NothingIsInvented == Spec => []AllOrWarned
<1>1. IInv => AllOrWarned
  BY DEF IInv, Accounted, AllOrWarned
<1> QED
  BY <1>1, Invariance, PTL

(* The status tells the caller what happened. *)
THEOREM StatusTells == Spec => []StatusMeaning
<1>1. IInv => StatusMeaning
  BY DEF IInv, Explained
<1> QED
  BY <1>1, Invariance, PTL

(* An unwired source is answered with 503 at once. *)
THEOREM UnwiredIsRefused == Spec => []UnwiredAtOnce
<1>1. IInv => UnwiredAtOnce
  BY DEF IInv, Explained
<1> QED
  BY <1>1, Invariance, PTL

(* The coordinator's answer is shown whatever becomes of Prometheus. *)
THEOREM TopologyIsShown == Spec => []PrometheusNeverHidesTopology
<1>1. IInv => PrometheusNeverHidesTopology
  <2> SUFFICES ASSUME IInv, route = "topology", {1, 2} \subseteq got, status \notin {0, 200}
               PROVE FALSE
    BY DEF PrometheusNeverHidesTopology
  <2>1. H = Topology
    BY DEF H, Handler
  <2>2. goodParam /\ k >= 2
    BY <2>1 DEF IInv, Typed, Accounted, Topology
  <2>3. failed # "no"
    BY <2>1, <2>2 DEF IInv, Typed, Explained, StatusMeaning, UnwiredAtOnce
  <2>4. k <= 2 /\ k \notin got
    BY <2>1, <2>3 DEF IInv, Accounted, Required, Topology
  <2> QED
    BY <2>2, <2>4 DEF IInv, Typed
<1> QED
  BY <1>1, Invariance, PTL
=============================================================================
