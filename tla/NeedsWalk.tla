----------------------------- MODULE NeedsWalk -----------------------------
(***************************************************************************)
(* The order in which the Needs page walks a cluster's needs               *)
(* (ui/src/pages/Needs.tsx, needsKit.tsx): who precedes whom, the cohorts  *)
(* of needs that share a profile, the cut-line in a cohort, and the needs  *)
(* "ahead of you in line" in the drawer.  All of it is computed in the     *)
(* browser from one answer of the shard; the engine's own walk is gone.    *)
(* A need is a record; its id tells two of them apart, nothing else does.  *)
(***************************************************************************)
EXTENDS Integers, SequencesExt, Arrays

CONSTANT Shown      \* how many competitors the drawer lists: 8

ASSUME WalkAssumption == Shown \in Nat

-----------------------------------------------------------------------------
(* Priority first, the higher the earlier; then arrival, the earlier first.*)
(* A missing arrival counts as 0.                                          *)
Precedes(a, b) ==
  IF a.priority # b.priority THEN a.priority > b.priority ELSE a.arrival < b.arrival

(* Two needs compete if they ask for a resource of the same name.          *)
ShapesOverlap(a, b) == a.shape \cap b.shape # {}

(* What the walk looks at; no two needs of an answer are one.              *)
IsNeed(n) == /\ n.priority \in Int /\ n.arrival \in Int
             /\ n.claimed \in Nat /\ n.satisfied \in BOOLEAN
AreNeeds(needs) ==
  /\ needs \in Seq(ToSet(needs)) /\ \A n \in ToSet(needs) : IsNeed(n)
  /\ \A i, j \in DOMAIN needs : needs[i].id = needs[j].id => i = j

(* The needs ahead of n which claimed machines, the first Shown of them in *)
(* line.  n is what the drawer was opened with, all is the latest answer.  *)
Ahead(n, all) == Filter(all, LAMBDA o : /\ o.id # n.id /\ o.claimed > 0
                                        /\ Precedes(o, n) /\ ShapesOverlap(o, n))
First(line) == SubSeq(line, 1, IF Len(line) < Shown THEN Len(line) ELSE Shown)

MutCompetitorsFor(n, all) == Sorted(First(Ahead(n, all)), Precedes)
CompetitorsFor(n, all) == First(Sorted(Ahead(n, all), Precedes))

-----------------------------------------------------------------------------
(* A cohort's cut-line follows the first member that claimed machines and  *)
(* whose successor is unmet and claimed none; 0 when there is no such.     *)
MutCut(g) ==
  LET at == {i \in 1..(Len(g) - 1) : g[i].claimed > 0 /\ ~g[i + 1].satisfied}
  IN  IF at = {} THEN 0 ELSE Min(at)
Cut(g) ==
  LET at == {i \in 1..(Len(g) - 1) :
               g[i].claimed > 0 /\ ~g[i + 1].satisfied /\ g[i + 1].claimed = 0}
  IN  IF at = {} THEN 0 ELSE Min(at)

Row(n)        == [kind |-> "row", need |-> n]
Header(fp, g) == [kind |-> "header", fingerprint |-> fp, count |-> Len(g),
                  contested |-> \E i \in DOMAIN g : ~g[i].satisfied,
                  pool |-> LET has == {i \in DOMAIN g : g[i].supply # -1}
                           IN  IF has = {} THEN -1 ELSE g[Min(has)].supply]
CutLine(g)    == [kind |-> "cutline", below |-> Len(g) - Cut(g)]

(* A cohort: its header, its rows, and after the row of the cut the line.  *)
CohortItems(fp, g) ==
  LET rows(lo, hi) == [k \in 1..(hi - lo + 1) |-> Row(g[lo + k - 1])]
  IN  <<Header(fp, g)>> \o
      (IF Cut(g) = 0 THEN rows(1, Len(g))
       ELSE rows(1, Cut(g)) \o <<CutLine(g)>> \o rows(Cut(g) + 1, Len(g)))

(* The walk of the page.  Needs of a profile at least two of them have     *)
(* form a cohort, unless several clusters are shown; the cohorts come      *)
(* first, by their first members, then the others as one flat list.        *)
Grouped(sorted, showCluster) == Filter(sorted, LAMBDA n : n.fingerprint # "" /\ ~showCluster)
Members(grouped, fp) == Filter(grouped, LAMBDA n : n.fingerprint = fp)
Cohorts(grouped) ==
  {fp \in {grouped[i].fingerprint : i \in DOMAIN grouped} : Len(Members(grouped, fp)) >= 2}
Heads(grouped) ==
  LET cohorts == Cohorts(grouped)
  IN  Sorted(Filter(grouped, LAMBDA n : /\ n.fingerprint \in cohorts
                                        /\ n = Members(grouped, n.fingerprint)[1]), Precedes)

MutTail(sorted, grouped, showCluster) ==
  LET cohorts == Cohorts(grouped)
  IN  Filter(sorted, LAMBDA n : n.fingerprint = "" \/ showCluster)
      \o Filter(grouped, LAMBDA n : n.fingerprint \notin cohorts)
MutFlat(sorted, grouped, showCluster) ==
  Sorted(Filter(sorted, LAMBDA n : n.fingerprint = "" \/ showCluster), Precedes)
Flat(sorted, grouped, showCluster) ==
  LET cohorts == Cohorts(grouped)
  IN  Sorted(Filter(sorted, LAMBDA n : n.fingerprint = "" \/ showCluster)
             \o Filter(grouped, LAMBDA n : n.fingerprint \notin cohorts), Precedes)

BuildWalk(needs, showCluster) ==
  LET sorted  == Sorted(needs, Precedes)
      grouped == Grouped(sorted, showCluster)
      heads   == Heads(grouped)
      flat    == Flat(sorted, grouped, showCluster)
  IN  Flattened(Append([i \in DOMAIN heads |->
                          CohortItems(heads[i].fingerprint, Members(grouped, heads[i].fingerprint))],
                       [i \in DOMAIN flat |-> Row(flat[i])]))

-----------------------------------------------------------------------------
(* Nothing is lost between the answer and the table: every need has one    *)
(* row, whatever cohorts the needs form.                                   *)
EveryNeedHasItsRow(needs, walk) ==
  LET rows == {j \in DOMAIN walk : walk[j].kind = "row"}
  IN  /\ Cardinality(rows) = Len(needs)
      /\ \A i \in DOMAIN needs : \E j \in rows : walk[j].need = needs[i]

(* A cohort's rows stand under its header, as many as it counts, and the   *)
(* cohorts come by their first members; all other rows are one flat tail,  *)
(* in the order of precedence whatever profiles they have.                 *)
Headers(walk) == {h \in DOMAIN walk : walk[h].kind = "header"}
CohortRows(walk, h) ==
  {i \in DOMAIN walk : walk[i].kind = "row" /\ walk[i].need.fingerprint = walk[h].fingerprint}
TailRows(walk) ==
  {i \in DOMAIN walk : /\ walk[i].kind = "row"
                       /\ \A h \in Headers(walk) : walk[i].need.fingerprint # walk[h].fingerprint}
InLine(walk, rows) ==
  \A i, j \in rows : i < j => ~Precedes(walk[j].need, walk[i].need)

StretchesAreOrdered(walk) ==
  /\ \A h \in Headers(walk) : /\ CohortRows(walk, h) \subseteq h..(h + walk[h].count + 1)
                              /\ InLine(walk, CohortRows(walk, h))
  /\ InLine(walk, TailRows(walk)) /\ \A h \in Headers(walk) : \A i \in TailRows(walk) : h < i
  /\ InLine(walk, {h + 1 : h \in Headers(walk)})

(* Where the engine served a cohort strictly in the order of precedence -  *)
(* who claimed nothing is unmet and nobody after it claimed - the cut-line *)
(* divides the claimers from the needs that got nothing, and its number is *)
(* that of the needs under it.                                             *)
ServedInLine(walk, rows) ==
  \A i, j \in rows : i < j /\ walk[i].need.claimed = 0 =>
    walk[j].need.claimed = 0 /\ ~walk[i].need.satisfied
CutLineIsTheCut(walk) ==
  \A c \in DOMAIN walk : walk[c].kind = "cutline" =>
    LET h    == Max({i \in 1..c : walk[i].kind = "header"})
        rows == {i \in h..(h + walk[h].count + 1) : walk[i].kind = "row"}
    IN  /\ walk[c].below = Cardinality({i \in rows : i > c})
        /\ ServedInLine(walk, rows) => \A i \in rows : i > c <=> walk[i].need.claimed = 0

(* The drawer never lists a need as its own competitor, not even when the  *)
(* list behind it is a later answer with another object for the same need; *)
(* it lists the first of those ahead, in their order.                      *)
SameNeed(a, b) == /\ a.priority = b.priority /\ a.arrival = b.arrival
                  /\ a.fingerprint = b.fingerprint
CompetitorsAreAhead(n, all, comp) ==
  /\ \A i \in DOMAIN comp : ~SameNeed(comp[i], n)
  /\ \A i \in 1..(Len(comp) - 1) : ~Precedes(comp[i + 1], comp[i])
  /\ \A i \in DOMAIN all :
       (all[i].claimed > 0 /\ Precedes(all[i], n) /\ ShapesOverlap(all[i], n)) =>
         \/ \E j \in DOMAIN comp : comp[j] = all[i]
         \/ Len(comp) = Shown /\ \A j \in DOMAIN comp : ~Precedes(all[i], comp[j])
=============================================================================
