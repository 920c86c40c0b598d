--------------------------- MODULE MCNeedsStream ---------------------------
(* Two shards, two processes that may change places, two cycles and the    *)
(* time before the first, in which a process has no needs.  The wire       *)
(* carries limits up to 3 (for 2^31 - 1): 5 arrives as -3 and 9 as 1.      *)
EXTENDS NeedsStream

MCLimits == {0, -1, 1, 5, 9}
MCNeed(p, cl, c) == [cluster |-> cl, from |-> p, cycle |-> c]
MCNeeds == {MCNeed(p, cl, c) : p \in Processes, cl \in {"a", "b"}, c \in Cycles}

(* In cycle 1 a process has one need of cluster a and two of cluster b, in *)
(* cycle 2 only a need of cluster a.                                       *)
MCLedger == [p \in Processes |-> [c \in Cycles |-> [cl \in Clusters |->
  LET all == CASE c = 0 -> <<>>
               [] c = 1 -> <<MCNeed(p, "b", c), MCNeed(p, "a", c), MCNeed(p, "b", c)>>
               [] c = 2 -> <<MCNeed(p, "a", c)>>
  IN  SelectSeq(all, LAMBDA n : cl = AllClusters \/ n.cluster = cl)]]]
=============================================================================
