------------------------------- MODULE OrderBy -------------------------------
(***************************************************************************)
(* Enumerable.OrderBy(x => x.FullName) on the descriptions a collector of  *)
(* types returns.  The sort is stable; a full name is its rank.            *)
(***************************************************************************)
EXTENDS Integers, Sequences, FiniteSets

Precedes(s, i, j) ==
  \/ s[i].fullName < s[j].fullName
  \/ s[i].fullName = s[j].fullName /\ i < j

\* Mutant: List.Sort instead of OrderBy, equal names in any (here: reverse) order.
MutantUnstableOrder(s) ==
  LET precedes(i, j) == \/ s[i].fullName < s[j].fullName
                        \/ s[i].fullName = s[j].fullName /\ i > j
      position(i) == 1 + Cardinality({j \in DOMAIN s : precedes(j, i)})
  IN  [k \in DOMAIN s |-> s[CHOOSE i \in DOMAIN s : position(i) = k]]

OrderByFullName(s) ==
  LET position(i) == 1 + Cardinality({j \in DOMAIN s : Precedes(s, j, i)})
  IN  [k \in DOMAIN s |-> s[CHOOSE i \in DOMAIN s : position(i) = k]]
=============================================================================
