---------------------------- MODULE ClusterAnswer ----------------------------
(***************************************************************************)
(* What /api/clusters and /api/available-capacity promise a page: each     *)
(* managed cluster gets a row, a row is settled once - with the cluster's  *)
(* data or with an inline error - and the answer is sent after the last    *)
(* row was settled.  How the rows are settled (goroutines, a semaphore,    *)
(* two deadlines) is the business of ClusterFanOut, which implements this. *)
(***************************************************************************)
CONSTANT Clusters      \* the kubeconfig contexts the dashboard serves

VARIABLES row,         \* row[c]: the state of cluster c's row of the answer
          sent         \* has the answer been written?

avars == <<row, sent>>

AnswerInit == /\ row = [c \in Clusters |-> "pending"]
              /\ sent = FALSE

(* The row of one cluster is settled, independently of the other rows. *)
Settle(c) == /\ row[c] = "pending"
             /\ \E outcome \in {"data", "error"} :
                   row' = [row EXCEPT ![c] = outcome]
             /\ UNCHANGED sent

(* The answer is written, with every row settled. *)
Send == /\ ~sent
        /\ \A c \in Clusters : row[c] # "pending"
        /\ sent' = TRUE
        /\ UNCHANGED row

AnswerNext == Send \/ \E c \in Clusters : Settle(c)

AnswerSpec == /\ AnswerInit
              /\ [][AnswerNext]_avars
              /\ WF_avars(AnswerNext)
=============================================================================
