-------------------------- MODULE MCNeedsExplorer --------------------------
(* Two shards with clusters of their own, a third one only a stale link    *)
(* names.  s1 rebuilds (cycle 0), or has a mixed or a satisfied list.      *)
EXTENDS NeedsExplorer

MCNeed(s, id, sat, why) == [shard |-> s, clusterId |-> id, satisfied |-> sat, unmetReason |-> why]
MCAnswer(c, ns) == [is |-> "answer", cycle |-> c, needs |-> ns]

MCShards == {"s1", "s2", "s9"}
MCIds == <<"a", "b", "c">>
MCAnswers ==
  [s1 |-> {MCAnswer(0, <<>>),
           MCAnswer(1, <<MCNeed("s1", "a", TRUE,  "UNSPECIFIED"),
                         MCNeed("s1", "b", FALSE, "PRIORITY_STARVED"),
                         MCNeed("s1", "b", FALSE, "TOPOLOGY_UNSATISFIABLE"),
                         MCNeed("s1", "b", TRUE,  "UNSPECIFIED"),
                         MCNeed("s1", "a", FALSE, "PRIORITY_STARVED")>>),
           MCAnswer(2, <<MCNeed("s1", "a", TRUE, "UNSPECIFIED")>>)},
   s2 |-> {MCAnswer(1, <<MCNeed("s2", "c", FALSE, "TOPOLOGY_UNSATISFIABLE")>>)},
   s9 |-> {}]
MCTopologies == {<<>>, <<"s1", "s2">>}
MCPlainLink == {[shard |-> "", cluster |-> "", status |-> ""]}
MCLinks == [shard : {"", "s2", "s9"}, cluster : {"", "b"}, status : {"", "unmet", "nonsense"}]
=============================================================================
