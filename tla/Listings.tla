------------------------------ MODULE Listings ------------------------------
(* The members of a finite set as a list. *)
EXTENDS Integers, FiniteSets

\* In the order of a set of pairs: first the one that nothing precedes.
Ranked(S, before) ==
  [k \in 1..Cardinality(S) |->
     CHOOSE i \in S : Cardinality({j \in S : <<j, i>> \in before}) = k - 1]

\* Numbers, the latest first.
Descending(S) == Ranked(S, {e \in S \X S : e[1] > e[2]})

\* Numbers, the earliest first.
Ascending(S) == Ranked(S, {e \in S \X S : e[1] < e[2]})

\* The entries of a list that are in a set, in the order of the list.
Among(list, S) ==
  LET places == Ascending({n \in DOMAIN list : list[n] \in S})
  IN  [k \in DOMAIN places |-> list[places[k]]]
=============================================================================
