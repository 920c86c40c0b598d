---------------------------- MODULE NeedsStream ----------------------------
(***************************************************************************)
(* GET /api/needs (pkg/server/handlers_needs.go) and the shard client it   *)
(* dials (pkg/shardclient/shardclient.go): ask the coordinator where the   *)
(* shard is, dial that address, read the shard's needs off a stream.  The  *)
(* registry, the addresses and the shards' cycles change at any moment,    *)
(* the list may fail, a dial may find nobody, a stream may break between   *)
(* any two messages, and a silent peer is left to the 10 s deadline.       *)
(***************************************************************************)
EXTENDS Integers, Sequences

CONSTANTS
  Processes,     \* the shard processes
  Cycles,        \* the numbers of their cycles, 0 before the first is finished
  Needs,         \* the needs
  Ledger,        \* Ledger[p][c][cl]: the needs of cluster cl which process p
                 \* computed in cycle c, in its order
  Clusters,      \* the values of ?cluster=
  AllClusters,   \* the one that asks for all of them: none
  MaxLimit,      \* the largest limit the wire carries, 2^31 - 1
  Shards,        \* the shard identifiers
  Limits,        \* the values of ?limit=; 0 also for none and for no number
  DefaultLimit,  \* defaultNeedsLimit
  MaxMoves       \* how often the deployment changes while a request runs

NoAddress == "no address"   \* the shard is unknown or advertises none
NoShard   == "no shard"     \* ?shard= is missing
Down      == -1             \* in place of its cycle: the process does not run

ASSUME StreamAssumption ==
  /\ NoAddress \notin Processes
  /\ AllClusters \in Clusters
  /\ \A c \in Cycles : c \in Nat
  /\ Ledger \in [Processes -> [Cycles -> [Clusters -> Seq(Needs)]]]
  /\ \A p \in Processes, cl \in Clusters : 0 \in Cycles => Ledger[p][0][cl] = <<>>
  /\ Limits \subseteq Int /\ DefaultLimit \in Nat \ {0} /\ MaxLimit \in Nat \ {0}
  /\ DefaultLimit <= MaxLimit /\ MaxMoves \in Nat

VARIABLES
  want,     \* the request: its cluster and its effective limit
  given,    \* the answer: Nothing yet, Error or a snapshot
  snap,     \* the snapshot the client has put together so far
  wired,    \* was the dashboard given a coordinator?
  registry, \* registry[s]: the process shard s advertises, or NoAddress
  cycle,    \* cycle[p]: the cycle p last finished; Down while it does not run
  moves,    \* changes of the deployment left for this request
  pc,       \* what the handler does: idle, list, dial, recv, answered
  shard,    \* the shard asked for
  addr,     \* the process whose address the list named
  sent,     \* the snapshot the shard answers with, once it was asked
  header,   \* is the header still on its way?
  rest,     \* the needs still on their way
  status    \* the status of the answer, 0 until there is one

Answer == INSTANCE NeedsAnswer WITH read <- sent
Nothing == Answer!Nothing
Error   == Answer!Error
Empty   == [Nothing EXCEPT !.is = "snapshot"]   \* the zero NeedsSnapshot

deployment == <<registry, cycle, moves>>
stream     == <<sent, header, rest>>
vars == <<want, given, snap, wired, registry, cycle, moves, pc, shard, addr,
          sent, header, rest, status>>

-----------------------------------------------------------------------------
(* The limit: a missing, non-numeric, zero or negative one is the default. *)
MutEffective(v) == IF v = 0 THEN DefaultLimit ELSE v
Effective(v) == IF v > 0 THEN v ELSE DefaultLimit

(* What the wire makes of it: int32(limit), the low 32 bits with a sign.   *)
Wire(v) == LET span == 2 * (MaxLimit + 1) IN
           IF v % span <= MaxLimit THEN v % span ELSE (v % span) - span

(* The shard's side: the needs of the cluster asked for, the first of them *)
(* when the limit is positive, all of them when it is not.                 *)
Snapshot(p, c, cluster, limit) ==
  LET all == Ledger[p][c][cluster] IN
  [is |-> "snapshot", cycle |-> c, total |-> Len(Ledger[p][c][AllClusters]),
   needs |-> IF limit > 0 /\ limit < Len(all) THEN SubSeq(all, 1, limit) ELSE all]

-----------------------------------------------------------------------------
StreamInit ==
  /\ want = [cluster |-> AllClusters, limit |-> 1] /\ given = Nothing /\ snap = Nothing
  /\ wired \in BOOLEAN
  /\ registry \in [Shards -> Processes \cup {NoAddress}]
  /\ cycle \in [Processes -> Cycles \cup {Down}]
  /\ moves = MaxMoves
  /\ pc = "idle" /\ shard = NoShard /\ addr = NoAddress /\ status = 0
  /\ sent = Nothing /\ header = FALSE /\ rest = <<>>

(* A request arrives: 503 without a coordinator, 400 without a shard.      *)
Request ==
  /\ pc \in {"idle", "answered"}
  /\ \E s \in Shards \cup {NoShard}, cl \in Clusters, v \in Limits :
       /\ shard' = s
       /\ want' = [cluster |-> cl, limit |-> Effective(v)]
       /\ status' = IF ~wired THEN 503 ELSE IF s = NoShard THEN 400 ELSE 0
  /\ pc' = IF status' = 0 THEN "list" ELSE "answered"
  /\ given' = IF status' = 0 THEN Nothing ELSE Error
  /\ snap' = Nothing /\ moves' = MaxMoves /\ addr' = NoAddress
  /\ sent' = Nothing /\ header' = FALSE /\ rest' = <<>>
  /\ UNCHANGED <<wired, registry, cycle>>

(* Every return of writeError.                                             *)
Refuse(code) ==
  /\ pc' = "answered" /\ status' = code /\ given' = Error
  /\ UNCHANGED <<want, snap, wired, deployment, shard, addr, stream>>

(* The list arrives: dial the address it names, or answer 404.             *)
Listed ==
  /\ pc = "list"
  /\ IF registry[shard] = NoAddress
       THEN Refuse(404)
       ELSE /\ addr' = registry[shard] /\ pc' = "dial"
            /\ UNCHANGED <<want, given, snap, wired, deployment, shard, stream, status>>

(* The list fails: 503 at a replica which is not the leader, 502 otherwise.*)
ListFails == pc = "list" /\ \E code \in {502, 503} : Refuse(code)

(* Whoever answers at the address by now opens the stream: the header and  *)
(* then the needs.  A process that is rebuilding its ledger has no needs,  *)
(* and may say so with a header of cycle 0 or with nothing but the end.    *)
Open ==
  /\ pc = "dial" /\ cycle[addr] # Down
  /\ sent' = Snapshot(addr, cycle[addr], want.cluster, Wire(want.limit))
  /\ header' \in IF cycle[addr] = 0 THEN BOOLEAN ELSE {TRUE}
  /\ rest' = sent'.needs /\ snap' = Empty /\ pc' = "recv"
  /\ UNCHANGED <<want, given, wired, deployment, shard, addr, status>>

(* Nobody answers at the address, or it refuses the call: 502.             *)
DialFails == pc = "dial" /\ Refuse(502)

-----------------------------------------------------------------------------
(* The receive loop takes what comes next, and the end for success.        *)
RecvHeader ==
  /\ pc = "recv" /\ header
  /\ header' = FALSE
  /\ snap' = [snap EXCEPT !.cycle = sent.cycle, !.total = sent.total]
  /\ UNCHANGED <<want, given, wired, deployment, pc, shard, addr, sent, rest, status>>

RecvNeed ==
  /\ pc = "recv" /\ ~header /\ rest # <<>>
  /\ snap' = [snap EXCEPT !.needs = Append(@, Head(rest))]
  /\ rest' = Tail(rest)
  /\ UNCHANGED <<want, given, wired, deployment, pc, shard, addr, sent, header, status>>

RecvEOF ==
  /\ pc = "recv" /\ ~header /\ rest = <<>>
  /\ pc' = "answered" /\ status' = 200 /\ given' = snap
  /\ UNCHANGED <<want, snap, wired, deployment, shard, addr, stream>>

MutRecvFails ==
  /\ pc = "recv"
  /\ pc' = "answered" /\ status' = 200 /\ given' = snap
  /\ UNCHANGED <<want, snap, wired, deployment, shard, addr, stream>>
RecvFails == pc = "recv" /\ Refuse(502)

(* The context ends: in the list, in the dial or in the middle of a stream.*)
MutExpire == pc \in {"list", "dial"} /\ Refuse(502)
Expire == pc \in {"list", "dial", "recv"} /\ Refuse(502)

-----------------------------------------------------------------------------
(* The deployment meanwhile.                                               *)
Move(s) ==
  /\ pc \in {"list", "dial", "recv"} /\ moves > 0 /\ moves' = moves - 1
  /\ registry' \in {[registry EXCEPT ![s] = p] : p \in Processes \cup {NoAddress}}
  /\ UNCHANGED <<want, given, snap, wired, cycle, pc, shard, addr, stream, status>>

Cycle(p) ==
  /\ pc \in {"list", "dial", "recv"} /\ moves > 0 /\ moves' = moves - 1
  /\ cycle' \in {[cycle EXCEPT ![p] = c] : c \in Cycles \cup {Down}}
  /\ UNCHANGED <<want, given, snap, wired, registry, pc, shard, addr, stream, status>>

Handle == \/ Listed \/ ListFails \/ Open \/ DialFails
          \/ RecvHeader \/ RecvNeed \/ RecvEOF \/ RecvFails \/ Expire

StreamNext == \/ Request \/ Handle
              \/ \E s \in Shards : Move(s)
              \/ \E p \in Processes : Cycle(p)

StreamSpec == StreamInit /\ [][StreamNext]_vars /\ WF_vars(Expire)

-----------------------------------------------------------------------------
(* Every variable holds a value of its kind; a limit is at least one.      *)
Snapshots == [is : {"nothing", "error", "snapshot"}, cycle : Nat, total : Nat, needs : Seq(Needs)]
TypeOK ==
  /\ want \in [cluster : Clusters, limit : Nat \ {0}]
  /\ given \in Snapshots /\ snap \in Snapshots /\ sent \in Snapshots
  /\ wired \in BOOLEAN
  /\ registry \in [Shards -> Processes \cup {NoAddress}]
  /\ cycle \in [Processes -> Cycles \cup {Down}]
  /\ moves \in 0..MaxMoves
  /\ pc \in {"idle", "list", "dial", "recv", "answered"}
  /\ shard \in Shards \cup {NoShard}
  /\ addr \in Processes \cup {NoAddress} /\ (pc = "dial" => addr \in Processes)
  /\ header \in BOOLEAN /\ rest \in Seq(Needs)
  /\ status \in {0, 200, 400, 404, 502, 503}

(* The handler keeps the promise of NeedsAnswer: what a 200 carries is one *)
(* process's snapshot, whole up to the limit - not the needs of two cycles *)
(* or of two shards, and not the head of a stream that broke.              *)
ImplementsNeedsAnswer == Answer!Spec

(* Every request is answered, even if the coordinator or the shard stays   *)
(* silent: the deadline of the context ends the list, the dial and the     *)
(* stream alike.                                                           *)
EveryRequestAnswered == (pc = "list") ~> (pc = "answered")
=============================================================================
