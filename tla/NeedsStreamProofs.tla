------------------------- MODULE NeedsStreamProofs -------------------------
(***************************************************************************)
(* For any shards, ledgers, limits and changes of the deployment: the      *)
(* handler of /api/needs keeps the promise of NeedsAnswer.                 *)
(***************************************************************************)
EXTENDS NeedsStream, SequenceTheorems, TLAPS

(* Taking the first of what is on its way changes the sum of neither.      *)
LEMMA TakingKeepsTheSum ==
  ASSUME NEW S, NEW a \in Seq(S), NEW r \in Seq(S), r # <<>>
  PROVE  /\ Append(a, Head(r)) \o Tail(r) = a \o r
         /\ Append(a, Head(r)) \in Seq(S) /\ Tail(r) \in Seq(S)
<1> DEFINE h == Head(r)
           t == Tail(r)
<1>1. h \in S /\ t \in Seq(S) /\ Len(t) = Len(r) - 1 /\ \A i \in 1..Len(t) : t[i] = r[i + 1]
  BY HeadTailProperties
<1>2. h = r[1] /\ Len(r) \in Nat \ {0}
  <2>1. Len(r) \in Nat /\ Len(r) # 0
    BY EmptySeq, LenProperties
  <2> QED BY <2>1
<1>3. /\ Append(a, h) \in Seq(S) /\ Len(Append(a, h)) = Len(a) + 1
      /\ \A i \in 1..Len(a) : Append(a, h)[i] = a[i]
      /\ Append(a, h)[Len(a) + 1] = h
  BY <1>1, AppendProperties
<1> DEFINE b == Append(a, h)
           x == b \o t
           y == a \o r
<1>4. /\ x \in Seq(S) /\ Len(x) = Len(b) + Len(t)
      /\ \A i \in 1..(Len(b) + Len(t)) : x[i] = IF i <= Len(b) THEN b[i] ELSE t[i - Len(b)]
  BY <1>1, <1>3, ConcatProperties
<1>5. /\ y \in Seq(S) /\ Len(y) = Len(a) + Len(r)
      /\ \A i \in 1..(Len(a) + Len(r)) : y[i] = IF i <= Len(a) THEN a[i] ELSE r[i - Len(a)]
  BY ConcatProperties
<1>6. Len(a) \in Nat
  BY LenProperties
<1> HIDE DEF h, t, b, x, y
<1>7. Len(x) = Len(y)
  BY <1>1, <1>2, <1>3, <1>4, <1>5, <1>6 DEF b
<1>8. ASSUME NEW i \in 1..Len(x) PROVE x[i] = y[i]
  <2>1. CASE i <= Len(a)
    <3>1. Len(b) = Len(a) + 1 /\ Len(t) \in Nat /\ Len(r) \in Nat
      BY <1>1, <1>2, <1>3 DEF b
    <3>2. i \in 1..Len(a) /\ i \in 1..(Len(b) + Len(t)) /\ i \in 1..(Len(a) + Len(r)) /\ i <= Len(b)
      BY <2>1, <3>1, <1>4, <1>5, <1>6, <1>7
    <3>3. x[i] = b[i] /\ y[i] = a[i]
      BY <2>1, <3>2, <1>4, <1>5
    <3> QED BY <3>2, <3>3, <1>3 DEF b
  <2>2. CASE i = Len(a) + 1
    <3>1. x[i] = b[i] /\ y[i] = r[i - Len(a)] /\ b[i] = h
      BY <2>2, <1>1, <1>2, <1>3, <1>4, <1>5, <1>6, <1>7 DEF b
    <3>2. i - Len(a) = 1
      BY <2>2, <1>6
    <3> QED BY <3>1, <3>2, <1>2
  <2>3. CASE i > Len(a) + 1
    <3>1. x[i] = t[i - Len(b)] /\ y[i] = r[i - Len(a)]
      BY <2>3, <1>1, <1>2, <1>3, <1>4, <1>5, <1>6, <1>7 DEF b
    <3>2. i - Len(b) \in 1..Len(t) /\ i - Len(b) + 1 = i - Len(a)
      BY <2>3, <1>1, <1>2, <1>3, <1>4, <1>5, <1>6, <1>7 DEF b
    <3> QED BY <3>1, <3>2, <1>1
  <2> QED BY <2>1, <2>2, <2>3, <1>4, <1>6
<1>9. x = y
  BY <1>4, <1>5, <1>7, <1>8, SeqEqual
<1> QED BY <1>1, <1>3, <1>9 DEF x, y, b, h, t

-----------------------------------------------------------------------------
(* What is assumed of the constants, in the pieces the proofs need.        *)
LEMMA Sizes == /\ MaxLimit \in Nat \ {0} /\ DefaultLimit \in Nat \ {0} /\ MaxMoves \in Nat
               /\ \A v \in Limits : v \in Int
               /\ \A c \in Cycles : c \in Nat
BY StreamAssumption DEF StreamAssumption

LEMMA Names == AllClusters \in Clusters /\ NoAddress \notin Processes
BY StreamAssumption, Zenon DEF StreamAssumption

LEMMA LedgerType ==
  ASSUME NEW p \in Processes, NEW c \in Cycles, NEW cl \in Clusters
  PROVE  Ledger[p][c][cl] \in Seq(Needs)
<1>1. Ledger \in [Processes -> [Cycles -> [Clusters -> Seq(Needs)]]]
  BY StreamAssumption, Zenon DEF StreamAssumption
<1> QED BY <1>1

(* A process that has finished no cycle has no needs.                      *)
LEMMA RebuildingLedger ==
  ASSUME NEW p \in Processes, NEW cl \in Clusters, 0 \in Cycles PROVE Ledger[p][0][cl] = <<>>
BY StreamAssumption, Zenon DEF StreamAssumption

(* What the client has put together and what is still on its way make up   *)
(* what the shard sent; before the header, if there is one, there is       *)
(* nothing.                                                                *)
Assembled ==
  pc = "recv" =>
    /\ sent.is = "snapshot"
    /\ snap.is = "snapshot"
    /\ snap.needs \o rest = sent.needs
    /\ ~header => snap.cycle = sent.cycle /\ snap.total = sent.total

(* Nothing is answered, and nothing sent, before its time.                 *)
Unanswered ==
  /\ pc \in {"list", "dial", "recv"} => given = Nothing
  /\ pc \in {"list", "dial"} => sent = Nothing
  /\ pc = "list" => shard \in Shards

IInv == TypeOK /\ Assembled /\ Unanswered

-----------------------------------------------------------------------------
(* The wire does not change a limit it can carry.                          *)
LEMMA Remainder == ASSUME NEW v \in Nat, NEW m \in Nat, v < m PROVE v % m = v
OBVIOUS

LEMMA WireKeeps ==
  ASSUME NEW v \in Nat \ {0} PROVE v <= MaxLimit => Wire(v) = v
<1> HAVE v <= MaxLimit
<1>1. 2 * (MaxLimit + 1) \in Nat /\ v < 2 * (MaxLimit + 1)
  BY Sizes
<1>2. v % (2 * (MaxLimit + 1)) = v
  BY <1>1, Remainder
<1> QED BY <1>2 DEF Wire

LEMMA WireType == ASSUME NEW v \in Nat \ {0} PROVE Wire(v) \in Int
<1>1. 2 * (MaxLimit + 1) \in Nat \ {0}
  BY Sizes
<1>2. v % (2 * (MaxLimit + 1)) \in Int
  BY <1>1
<1> QED BY <1>1, <1>2 DEF Wire

(* The cut a shard makes of its needs, for a limit the wire may have       *)
(* changed: a prefix, of the length asked for if it did not change.        *)
Cut(all, n) == IF n > 0 /\ n < Len(all) THEN SubSeq(all, 1, n) ELSE all

LEMMA CutFits ==
  ASSUME NEW all \in Seq(Needs), NEW lim \in Nat \ {0}, NEW n \in Int,
         NEW small \in BOOLEAN, small => n = lim
  PROVE  /\ Cut(all, n) \in Seq(Needs) /\ Len(Cut(all, n)) <= Len(all)
         /\ Cut(all, n) = SubSeq(all, 1, Len(Cut(all, n)))
         /\ small => Len(Cut(all, n)) = IF lim < Len(all) THEN lim ELSE Len(all)
<1>1. Len(all) \in Nat
  BY LenProperties
<1>2. CASE n > 0 /\ n < Len(all)
  <2>1. Cut(all, n) = SubSeq(all, 1, n)
    BY <1>2 DEF Cut
  <2>2. \A i \in 1..n : all[i] \in Needs
    BY <1>1, <1>2, ElementOfSeq
  <2>3. SubSeq(all, 1, n) \in Seq(Needs) /\ Len(SubSeq(all, 1, n)) = n
    BY <1>2, <2>2, SubSeqProperties
  <2>4. n <= Len(all) /\ (small => n = IF lim < Len(all) THEN lim ELSE Len(all))
    BY <1>1, <1>2
  <2> QED BY <2>1, <2>3, <2>4, Zenon
<1>3. CASE ~(n > 0 /\ n < Len(all))
  <2>1. Cut(all, n) = all
    BY <1>3 DEF Cut
  <2>2. SubSeq(all, 1, Len(all)) = all
    BY SubSeqFull
  <2>3. Len(all) <= Len(all) /\ (small => Len(all) = IF lim < Len(all) THEN lim ELSE Len(all))
    BY <1>1, <1>3
  <2> QED BY <2>1, <2>2, <2>3, Zenon
<1> QED BY <1>2, <1>3

LEMMA Compares == ASSUME NEW v \in Nat \ {0} PROVE (v <= MaxLimit) \in BOOLEAN
OBVIOUS

(* What a shard sends is a snapshot of it, and fits the request.           *)
LEMMA SnapshotFits ==
  ASSUME NEW p \in Processes, NEW c \in Cycles, NEW w, w.cluster \in Clusters, w.limit \in Nat \ {0}
  PROVE  /\ Snapshot(p, c, w.cluster, Wire(w.limit)) \in Snapshots
         /\ Snapshot(p, c, w.cluster, Wire(w.limit)).is = "snapshot"
         /\ Answer!Fits(Snapshot(p, c, w.cluster, Wire(w.limit)), p, c, w)
<1> DEFINE all == Ledger[p][c][w.cluster]
           n == Wire(w.limit)
           a == Snapshot(p, c, w.cluster, n)
           small == w.limit <= MaxLimit
<1>1. all \in Seq(Needs) /\ Ledger[p][c][AllClusters] \in Seq(Needs)
  BY LedgerType, Names
<1>2. n \in Int
  BY WireType, Zenon
<1>3. small => n = w.limit
  BY WireKeeps, Zenon
<1>4. Len(Ledger[p][c][AllClusters]) \in Nat /\ c \in Nat
  BY <1>1, LenProperties, Sizes
<1>5. small \in BOOLEAN
  BY Compares, Zenon
<1>6. a = [is |-> "snapshot", cycle |-> c, total |-> Len(Ledger[p][c][AllClusters]), needs |-> Cut(all, n)]
  BY Zenon DEF Snapshot, Cut
<1> HIDE DEF n, all, a, small
<1>7. a.is = "snapshot" /\ a.cycle = c /\ a.total = Len(Ledger[p][c][AllClusters]) /\ a.needs = Cut(all, n)
  BY <1>6
<1>8. /\ Cut(all, n) \in Seq(Needs) /\ Len(Cut(all, n)) <= Len(all)
      /\ Cut(all, n) = SubSeq(all, 1, Len(Cut(all, n)))
      /\ small => Len(Cut(all, n)) = IF w.limit < Len(all) THEN w.limit ELSE Len(all)
  BY <1>1, <1>2, <1>3, <1>5, CutFits, Zenon
<1>9. a \in Snapshots
  BY <1>4, <1>6, <1>8 DEF Snapshots
<1>10. Answer!Fits(a, p, c, w)
  BY <1>7, <1>8, Zenon DEF Answer!Fits, all, small
<1> QED BY <1>7, <1>9, <1>10, Zenon DEF a, n

-----------------------------------------------------------------------------
LEMMA EffectiveType == ASSUME NEW v \in Limits PROVE Effective(v) \in Nat \ {0}
<1>1. v \in Int
  BY Sizes
<1> QED BY <1>1, Sizes DEF Effective

LEMMA NothingType ==
  /\ Nothing = [cycle |-> 0, total |-> 0, needs |-> <<>>, is |-> "nothing"]
  /\ Error = [cycle |-> 0, total |-> 0, needs |-> <<>>, is |-> "error"]
  /\ Nothing \in Snapshots /\ Error \in Snapshots
<1>1. Nothing = [cycle |-> 0, total |-> 0, needs |-> <<>>, is |-> "nothing"]
  BY DEF Nothing, Answer!Nothing
<1>2. Error = [cycle |-> 0, total |-> 0, needs |-> <<>>, is |-> "error"]
  BY DEF Error, Answer!Error, Answer!Nothing
<1>3. <<>> \in Seq(Needs)
  BY EmptySeq
<1>4. Nothing \in Snapshots
  BY <1>1, <1>3 DEF Snapshots
<1>5. Error \in Snapshots
  BY <1>2, <1>3 DEF Snapshots
<1> QED BY <1>1, <1>2, <1>4, <1>5

LEMMA EmptyType ==
  /\ Empty = [cycle |-> 0, total |-> 0, needs |-> <<>>, is |-> "snapshot"]
  /\ Empty \in Snapshots
<1>1. Empty = [cycle |-> 0, total |-> 0, needs |-> <<>>, is |-> "snapshot"]
  BY NothingType DEF Empty
<1>2. <<>> \in Seq(Needs)
  BY EmptySeq
<1> QED BY <1>1, <1>2 DEF Snapshots

LEMMA NothingSafe == Nothing \in Snapshots /\ Error \in Snapshots
BY NothingType, Zenon

LEMMA InitSafe == StreamInit => IInv
<1> SUFFICES ASSUME StreamInit PROVE IInv
  OBVIOUS
<1>1. TypeOK
  <2>1. want \in [cluster : Clusters, limit : Nat \ {0}]
    BY Names DEF StreamInit
  <2>2. <<>> \in Seq(Needs)
    BY EmptySeq
  <2>3. moves \in 0..MaxMoves
    BY Sizes DEF StreamInit
  <2>4. given \in Snapshots /\ snap \in Snapshots /\ sent \in Snapshots
    BY NothingSafe, Zenon DEF StreamInit
  <2> QED BY <2>1, <2>2, <2>3, <2>4 DEF StreamInit, TypeOK
<1> QED BY <1>1 DEF StreamInit, IInv, Assembled, Unanswered

(* Every return of writeError keeps the invariant.                         *)
LEMMA RefuseSafe ==
  ASSUME IInv, NEW code \in {404, 502, 503}, Refuse(code) PROVE IInv'
<1>1. TypeOK'
  BY NothingSafe DEF IInv, TypeOK, Refuse, deployment, stream
<1> QED BY <1>1 DEF IInv, Refuse, Assembled, Unanswered

LEMMA RequestSafe == ASSUME IInv, Request PROVE IInv'
<1>1. PICK s \in Shards \cup {NoShard}, cl \in Clusters, v \in Limits :
        /\ shard' = s /\ want' = [cluster |-> cl, limit |-> Effective(v)]
        /\ status' = IF ~wired THEN 503 ELSE IF s = NoShard THEN 400 ELSE 0
  BY DEF Request
<1>2. want' \in [cluster : Clusters, limit : Nat \ {0}]
  BY <1>1, EffectiveType, Zenon
<1>3. shard' \in Shards \cup {NoShard} /\ status' \in {0, 200, 400, 404, 502, 503}
  BY <1>1
<1>4. TypeOK'
  <2>1. <<>> \in Seq(Needs) /\ given' \in {Nothing, Error} /\ pc' \in {"list", "answered"}
    BY EmptySeq DEF Request
  <2>2. given' \in Snapshots /\ snap' \in Snapshots /\ sent' \in Snapshots
    BY <2>1, NothingSafe DEF Request
  <2>3. moves' \in 0..MaxMoves /\ addr' = NoAddress /\ header' = FALSE /\ rest' = <<>>
    BY Sizes DEF Request
  <2>4. wired' = wired /\ registry' = registry /\ cycle' = cycle
    BY DEF Request
  <2>5. wired \in BOOLEAN /\ registry \in [Shards -> Processes \cup {NoAddress}]
        /\ cycle \in [Processes -> Cycles \cup {Down}]
    BY DEF IInv, TypeOK
  <2>6. pc' \in {"idle", "list", "dial", "recv", "answered"} /\ pc' # "dial"
    BY <2>1
  <2>7. addr' \in Processes \cup {NoAddress} /\ header' \in BOOLEAN /\ rest' \in Seq(Needs)
    BY <2>1, <2>3
  <2> QED BY <1>2, <1>3, <2>2, <2>3, <2>4, <2>5, <2>6, <2>7, Zenon DEF TypeOK
<1> QED BY <1>4 DEF IInv, Request, Assembled, Unanswered

LEMMA ListedSafe == ASSUME IInv, Listed PROVE IInv'
<1>1. CASE registry[shard] = NoAddress
  BY <1>1, RefuseSafe DEF Listed
<1>2. CASE registry[shard] # NoAddress
  BY <1>2 DEF IInv, TypeOK, Listed, Assembled, Unanswered, deployment, stream
<1> QED BY <1>1, <1>2

(* Whoever answers sends a snapshot of one process and one cycle, and if   *)
(* no header comes it is the empty one of cycle 0.                         *)
LEMMA OpenSends ==
  ASSUME IInv, Open
  PROVE  /\ given = Nothing /\ sent = Nothing
         /\ sent' \in Snapshots /\ sent'.is = "snapshot"
         /\ \E p \in Processes, c \in Cycles : Answer!Fits(sent', p, c, want)
         /\ ~header' => sent'.cycle = 0 /\ sent'.total = 0
<1>1. pc = "dial" /\ addr \in Processes /\ cycle[addr] \in Cycles
  BY DEF IInv, TypeOK, Open
<1>2. want.cluster \in Clusters /\ want.limit \in Nat \ {0}
  BY DEF IInv, TypeOK
<1>3. sent' = Snapshot(addr, cycle[addr], want.cluster, Wire(want.limit))
  BY DEF Open
<1>4. given = Nothing /\ sent = Nothing
  BY <1>1 DEF IInv, Unanswered
<1>5. /\ Snapshot(addr, cycle[addr], want.cluster, Wire(want.limit)) \in Snapshots
      /\ Snapshot(addr, cycle[addr], want.cluster, Wire(want.limit)).is = "snapshot"
      /\ Answer!Fits(Snapshot(addr, cycle[addr], want.cluster, Wire(want.limit)), addr, cycle[addr], want)
  BY <1>1, <1>2, SnapshotFits, Zenon
<1>6. ~header' => sent'.cycle = 0 /\ sent'.total = 0
  <2> HAVE ~header'
  <2>1. cycle[addr] = 0
    BY DEF Open
  <2>2. Ledger[addr][0][AllClusters] = <<>>
    BY <1>1, <2>1, RebuildingLedger, Names, Zenon
  <2>3. sent'.cycle = 0 /\ sent'.total = Len(<<>>)
    BY <1>3, <2>1, <2>2 DEF Snapshot
  <2> QED BY <2>3, EmptySeq
<1> QED BY <1>1, <1>3, <1>4, <1>5, <1>6, Zenon

LEMMA OpenSafe == ASSUME IInv, Open PROVE IInv'
<1>1. /\ sent' \in Snapshots /\ sent'.is = "snapshot" /\ given = Nothing
      /\ ~header' => sent'.cycle = 0 /\ sent'.total = 0
  BY OpenSends
<1>2. rest' = sent'.needs /\ snap' = Empty /\ header' \in BOOLEAN /\ pc' = "recv"
  BY DEF Open
<1>3. rest' \in Seq(Needs)
  BY <1>1, <1>2 DEF Snapshots
<1>4. TypeOK'
  <2>1. snap' \in Snapshots
    BY <1>2, EmptyType
  <2>2. /\ want' = want /\ given' = given /\ wired' = wired /\ registry' = registry
        /\ cycle' = cycle /\ moves' = moves /\ shard' = shard /\ addr' = addr /\ status' = status
    BY DEF Open, deployment
  <2>3. TypeOK
    BY DEF IInv
  <2>4. pc' \in {"idle", "list", "dial", "recv", "answered"} /\ pc' # "dial" /\ header' \in BOOLEAN
    BY <1>2
  <2>5. want' \in [cluster : Clusters, limit : Nat \ {0}] /\ given' \in Snapshots
    BY <2>2, <2>3 DEF TypeOK
  <2>6. wired' \in BOOLEAN /\ registry' \in [Shards -> Processes \cup {NoAddress}]
        /\ cycle' \in [Processes -> Cycles \cup {Down}] /\ moves' \in 0..MaxMoves
    BY <2>2, <2>3 DEF TypeOK
  <2>7. shard' \in Shards \cup {NoShard} /\ addr' \in Processes \cup {NoAddress}
        /\ status' \in {0, 200, 400, 404, 502, 503}
    BY <2>2, <2>3 DEF TypeOK
  <2>8. sent' \in Snapshots /\ rest' \in Seq(Needs)
    BY <1>1, <1>3
  <2> QED BY <2>1, <2>4, <2>5, <2>6, <2>7, <2>8 DEF TypeOK
<1>5. /\ snap'.needs \o rest' = sent'.needs
      /\ snap'.is = "snapshot" /\ snap'.cycle = 0 /\ snap'.total = 0
  <2>1. snap' = [cycle |-> 0, total |-> 0, needs |-> <<>>, is |-> "snapshot"]
    BY <1>2, EmptyType
  <2> QED BY <1>2, <1>3, <2>1, ConcatEmptySeq
<1>6. Assembled'
  BY <1>1, <1>2, <1>5 DEF Assembled
<1>7. Unanswered'
  BY <1>1, <1>2 DEF Open, Unanswered
<1> QED BY <1>4, <1>6, <1>7 DEF IInv

LEMMA HeaderSafe == ASSUME IInv, RecvHeader PROVE IInv'
<1>1. /\ sent.is = "snapshot" /\ snap.needs \o rest = sent.needs /\ snap.is = "snapshot"
      /\ sent \in Snapshots /\ snap \in Snapshots /\ given = Nothing
  BY DEF IInv, TypeOK, Assembled, Unanswered, RecvHeader
<1>2. snap' = [snap EXCEPT !.cycle = sent.cycle, !.total = sent.total]
  BY DEF RecvHeader
<1>3. /\ snap' \in Snapshots /\ snap'.needs = snap.needs /\ snap'.is = "snapshot"
      /\ snap'.cycle = sent.cycle /\ snap'.total = sent.total
  BY <1>1, <1>2 DEF Snapshots
<1>4. TypeOK'
  <2>1. /\ header' \in BOOLEAN
        /\ UNCHANGED <<want, given, wired, deployment, pc, shard, addr, sent, rest, status>>
    BY DEF RecvHeader
  <2> QED BY <1>3, <2>1 DEF IInv, TypeOK, deployment
<1>5. Assembled'
  BY <1>1, <1>3 DEF Assembled, RecvHeader
<1>6. Unanswered'
  BY <1>1 DEF Unanswered, RecvHeader
<1> QED BY <1>4, <1>5, <1>6 DEF IInv

LEMMA NeedSafe == ASSUME IInv, RecvNeed PROVE IInv'
<1>1. /\ sent.is = "snapshot" /\ snap.needs \o rest = sent.needs
      /\ snap.is = "snapshot" /\ snap.cycle = sent.cycle /\ snap.total = sent.total
      /\ snap \in Snapshots /\ given = Nothing /\ rest \in Seq(Needs) /\ rest # <<>>
  BY DEF IInv, TypeOK, Assembled, Unanswered, RecvNeed
<1>2. snap.needs \in Seq(Needs)
  BY <1>1 DEF Snapshots
<1>3. /\ Append(snap.needs, Head(rest)) \o Tail(rest) = snap.needs \o rest
      /\ Append(snap.needs, Head(rest)) \in Seq(Needs) /\ Tail(rest) \in Seq(Needs)
  BY <1>1, <1>2, TakingKeepsTheSum, Zenon
<1>4. /\ snap' = [snap EXCEPT !.needs = Append(snap.needs, Head(rest))]
      /\ rest' = Tail(rest)
  BY DEF RecvNeed
<1>5. /\ snap' \in Snapshots /\ snap'.needs = Append(snap.needs, Head(rest))
      /\ snap'.is = "snapshot" /\ snap'.cycle = sent.cycle /\ snap'.total = sent.total
  BY <1>1, <1>3, <1>4 DEF Snapshots
<1>6. TypeOK'
  BY <1>3, <1>4, <1>5 DEF IInv, TypeOK, RecvNeed, deployment
<1>7. Assembled'
  BY <1>1, <1>3, <1>4, <1>5 DEF Assembled, RecvNeed
<1>8. Unanswered'
  BY <1>1 DEF Unanswered, RecvNeed
<1> QED BY <1>6, <1>7, <1>8 DEF IInv

(* What is answered is what was sent: nothing is left on its way.          *)
LEMMA AnswerIsWhole ==
  ASSUME IInv, RecvEOF PROVE given = Nothing /\ sent # Nothing /\ given' = sent
<1>1. /\ sent.is = "snapshot" /\ snap.needs \o rest = sent.needs /\ rest = <<>>
      /\ snap.is = "snapshot" /\ snap.cycle = sent.cycle /\ snap.total = sent.total
      /\ snap \in Snapshots /\ sent \in Snapshots /\ given = Nothing /\ given' = snap
  BY DEF IInv, TypeOK, Assembled, Unanswered, RecvEOF
<1>2. snap.needs \in Seq(Needs)
  BY <1>1 DEF Snapshots
<1>3. snap.needs = sent.needs
  BY <1>1, <1>2, ConcatEmptySeq
<1>4. snap = sent
  BY <1>1, <1>3 DEF Snapshots
<1>5. sent # Nothing
  BY <1>1, NothingType
<1> QED BY <1>1, <1>4, <1>5

LEMMA EOFSafe == ASSUME IInv, RecvEOF PROVE IInv'
<1>1. TypeOK'
  BY DEF IInv, TypeOK, RecvEOF, deployment, stream
<1> QED BY <1>1 DEF IInv, Assembled, Unanswered, RecvEOF, deployment, stream

(* The deployment changes nothing of the request.                          *)
LEMMA MoveSafe == ASSUME IInv, NEW s \in Shards, Move(s) PROVE IInv'
<1>1. moves' \in 0..MaxMoves
  BY Sizes DEF IInv, TypeOK, Move
<1>2. registry' \in [Shards -> Processes \cup {NoAddress}]
  BY DEF IInv, TypeOK, Move
<1>3. TypeOK'
  BY <1>1, <1>2 DEF IInv, TypeOK, Move, stream
<1> QED BY <1>3 DEF IInv, Assembled, Unanswered, Move, stream

LEMMA CycleSafe == ASSUME IInv, NEW p \in Processes, Cycle(p) PROVE IInv'
<1>1. moves' \in 0..MaxMoves
  BY Sizes DEF IInv, TypeOK, Cycle
<1>2. cycle' \in [Processes -> Cycles \cup {Down}]
  BY DEF IInv, TypeOK, Cycle
<1>3. TypeOK'
  BY <1>1, <1>2 DEF IInv, TypeOK, Cycle, stream
<1> QED BY <1>3 DEF IInv, Assembled, Unanswered, Cycle, stream

LEMMA StutterSafe == ASSUME IInv, UNCHANGED vars PROVE IInv'
<1>1. TypeOK'
  BY DEF IInv, TypeOK, vars
<1> QED BY <1>1 DEF IInv, Assembled, Unanswered, vars

LEMMA StepSafe == IInv /\ [StreamNext]_vars => IInv'
<1> SUFFICES ASSUME IInv, [StreamNext]_vars PROVE IInv'
  OBVIOUS
<1>1. CASE Request
  BY <1>1, RequestSafe
<1>2. CASE Listed
  BY <1>2, ListedSafe
<1>3. CASE ListFails
  BY <1>3, RefuseSafe DEF ListFails
<1>4. CASE Open
  BY <1>4, OpenSafe
<1>5. CASE DialFails
  BY <1>5, RefuseSafe DEF DialFails
<1>6. CASE RecvHeader
  BY <1>6, HeaderSafe
<1>7. CASE RecvNeed
  BY <1>7, NeedSafe
<1>8. CASE RecvEOF
  BY <1>8, EOFSafe
<1>9. CASE RecvFails
  BY <1>9, RefuseSafe DEF RecvFails
<1>10. CASE Expire
  BY <1>10, RefuseSafe DEF Expire
<1>11. CASE \E s \in Shards : Move(s)
  BY <1>11, MoveSafe
<1>12. CASE \E p \in Processes : Cycle(p)
  BY <1>12, CycleSafe
<1>13. CASE UNCHANGED vars
  BY <1>13, StutterSafe
<1> QED BY <1>1, <1>2, <1>3, <1>4, <1>5, <1>6, <1>7, <1>8, <1>9, <1>10,
           <1>11, <1>12, <1>13 DEF StreamNext, Handle

(* Every variable of the handler holds a value of its kind, whatever the   *)
(* coordinator, the shards and the network do (getNeeds).                  *)
THEOREM StreamTypeCorrect == StreamSpec => []TypeOK
<1>1. IInv => TypeOK
  BY DEF IInv
<1> QED BY InitSafe, StepSafe, <1>1, PTL DEF StreamSpec

-----------------------------------------------------------------------------
(* A refusal is the failure the promise allows.                            *)
LEMMA RefuseFails ==
  ASSUME IInv, NEW code, pc \in {"list", "dial", "recv"}, Refuse(code) PROVE Answer!Fail
BY DEF IInv, Unanswered, Refuse, stream, Answer!Fail, Nothing, Error

LEMMA StepAnswers ==
  ASSUME IInv, [StreamNext]_vars PROVE [Answer!Next]_<<want, sent, given>>
<1>1. CASE Request
  <2>1. want' \in [cluster : Clusters, limit : Nat \ {0}]
    BY <1>1, RequestSafe DEF IInv, TypeOK
  <2>2. sent' = Nothing /\ given' \in {Nothing, Error}
    BY <1>1 DEF Request
  <2>3. Answer!Ask
    BY <2>1, <2>2 DEF Answer!Ask, Nothing, Error
  <2> QED BY <2>3 DEF Answer!Next
<1>2. CASE Listed
  <2>1. CASE registry[shard] = NoAddress
    BY <1>2, <2>1, RefuseFails DEF Listed, Answer!Next
  <2>2. CASE registry[shard] # NoAddress
    BY <1>2, <2>2 DEF Listed, stream
  <2> QED BY <2>1, <2>2
<1>3. CASE ListFails
  BY <1>3, RefuseFails DEF ListFails, Answer!Next
<1>4. CASE Open
  <2>1. UNCHANGED <<want, given>>
    BY <1>4 DEF Open
  <2>2. Answer!Read
    BY <1>4, <2>1, OpenSends, Zenon DEF Answer!Read, Nothing
  <2> QED BY <2>2 DEF Answer!Next
<1>5. CASE DialFails
  BY <1>5, RefuseFails DEF DialFails, Answer!Next
<1>6. CASE RecvHeader
  BY <1>6 DEF RecvHeader
<1>7. CASE RecvNeed
  BY <1>7 DEF RecvNeed
<1>8. CASE RecvEOF
  <2>1. UNCHANGED <<want, sent>>
    BY <1>8 DEF RecvEOF, stream
  <2>2. Answer!Give
    BY <1>8, <2>1, AnswerIsWhole DEF Answer!Give, Nothing
  <2> QED BY <2>2 DEF Answer!Next
<1>9. CASE RecvFails
  BY <1>9, RefuseFails DEF RecvFails, Answer!Next
<1>10. CASE Expire
  BY <1>10, RefuseFails DEF Expire, Answer!Next
<1>11. CASE \E s \in Shards : Move(s)
  BY <1>11 DEF Move, stream
<1>12. CASE \E p \in Processes : Cycle(p)
  BY <1>12 DEF Cycle, stream
<1>13. CASE UNCHANGED vars
  BY <1>13 DEF vars
<1> QED BY <1>1, <1>2, <1>3, <1>4, <1>5, <1>6, <1>7, <1>8, <1>9, <1>10,
           <1>11, <1>12, <1>13 DEF StreamNext, Handle

(* The handler keeps the promise of NeedsAnswer for any deployment: what a *)
(* 200 carries is one process's snapshot, never the head of a stream that  *)
(* broke (the loop of shardclient.Needs, the writeError of getNeeds).      *)
THEOREM StreamKeepsThePromise == StreamSpec => ImplementsNeedsAnswer
<1>1. StreamInit => Answer!Init
  BY DEF StreamInit, Answer!Init, Nothing
<1> QED BY InitSafe, StepSafe, StepAnswers, <1>1, PTL
        DEF StreamSpec, ImplementsNeedsAnswer, Answer!Spec
=============================================================================
