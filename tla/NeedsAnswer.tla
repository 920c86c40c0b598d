---------------------------- MODULE NeedsAnswer ----------------------------
(***************************************************************************)
(* What GET /api/needs promises its caller, whatever the coordinator, the  *)
(* shard processes and the network do: an error, or the needs of ONE       *)
(* process in ONE of its cycles, in that process's order, from the first   *)
(* on and, for a limit of 32 bits, exactly as many as the limit asks for.  *)
(* A process that has finished no cycle yet has no needs to give: cycle 0  *)
(* without needs says that it is rebuilding its ledger.                    *)
(* Nothing of a stream that broke is ever part of an answer.               *)
(***************************************************************************)
EXTENDS Naturals, Sequences

CONSTANTS Processes,   \* the shard processes of the deployment
          Cycles,      \* the numbers of their cycles, 0 before the first is finished
          Needs,       \* the needs
          Ledger,      \* Ledger[p][c][cl]: the needs of cluster cl which process
                       \* p computed in cycle c, in its order
          Clusters,    \* the values of ?cluster=
          AllClusters, \* the one that asks for all of them: none
          MaxLimit     \* the largest limit the wire carries, 2^31 - 1

VARIABLES want,        \* the request: its cluster and its effective limit
          read,        \* the snapshot the answer will be, or Nothing
          given        \* the answer the caller has: Nothing, Error or a snapshot

Nothing == [cycle |-> 0, total |-> 0, needs |-> <<>>, is |-> "nothing"]
Error   == [Nothing EXCEPT !.is = "error"]

\* a is the snapshot of process p in cycle c which the request w asks for
Fits(a, p, c, w) ==
  LET all == Ledger[p][c][w.cluster] IN
  /\ a.is = "snapshot" /\ a.cycle = c /\ a.total = Len(Ledger[p][c][AllClusters])
  /\ Len(a.needs) <= Len(all)
  /\ a.needs = SubSeq(all, 1, Len(a.needs))
  /\ w.limit <= MaxLimit =>
       Len(a.needs) = IF w.limit < Len(all) THEN w.limit ELSE Len(all)

Init == want = [cluster |-> AllClusters, limit |-> 1] /\ read = Nothing /\ given = Nothing

Ask  == /\ want' \in [cluster : Clusters, limit : Nat \ {0}]
        /\ read' = Nothing /\ given' \in {Nothing, Error}

Read == /\ given = Nothing /\ read = Nothing
        /\ \E p \in Processes, c \in Cycles : Fits(read', p, c, want)
        /\ UNCHANGED <<want, given>>

Give == read # Nothing /\ given = Nothing /\ given' = read /\ UNCHANGED <<want, read>>
Fail == given = Nothing /\ given' = Error /\ UNCHANGED <<want, read>>

Next == Ask \/ Read \/ Give \/ Fail
Spec == Init /\ [][Next]_<<want, read, given>>
=============================================================================
