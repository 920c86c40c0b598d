------------------------------- MODULE Arrays -------------------------------
(***************************************************************************)
(* JavaScript's filter, sort and flat, and Go's sort where no two elements *)
(* are equal, over arrays of any length.                                   *)
(***************************************************************************)
EXTENDS Naturals, Sequences, FiniteSets

(* S in the order of Before, a strict total order of it.                   *)
Arranged(S, Before(_, _)) ==
  [k \in 1..Cardinality(S) |-> CHOOSE x \in S : Cardinality({y \in S : Before(y, x)}) = k - 1]

(* The elements of s that pass, in the order they have in s.               *)
Filter(s, Pass(_)) ==
  LET at == Arranged({i \in DOMAIN s : Pass(s[i])}, LAMBDA i, j : i < j)
  IN  [k \in DOMAIN at |-> s[at[k]]]

(* s in the order of Before, stably: of two elements neither of which is   *)
(* before the other, the one that came first stays first.                  *)
Sorted(s, Before(_, _)) ==
  LET D == DOMAIN s
      R == {p \in D \X D : \/ Before(s[p[1]], s[p[2]])
                           \/ ~Before(s[p[2]], s[p[1]]) /\ p[1] < p[2]}
  IN  [k \in D |-> s[CHOOSE i \in D : Cardinality({j \in D : <<j, i>> \in R}) = k - 1]]

(* The sequences of ss, one after the other.                               *)
Flattened(ss) ==
  LET places == UNION {{b} \X DOMAIN ss[b] : b \in DOMAIN ss}
      at == Arranged(places, LAMBDA p, q : p[1] < q[1] \/ (p[1] = q[1] /\ p[2] < q[2]))
  IN  [k \in DOMAIN at |-> ss[at[k][1]][at[k][2]]]
=============================================================================
