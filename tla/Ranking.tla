------------------------------ MODULE Ranking ------------------------------
(***************************************************************************)
(* The order in which Python sorts by a key that is a tuple of numbers.    *)
(* The reasoner, the decision engine and the planner each sort their        *)
(* candidates by (-score, risk, cost, id); a list in that order is a set    *)
(* here, in which every member has a rank.                                 *)
(***************************************************************************)
EXTENDS Integers, FiniteSets

(* a < b, for tuples of one length.                                        *)
Earlier(a, b) ==
  \E i \in DOMAIN a : a[i] < b[i] /\ \A j \in 1..(i - 1) : a[j] = b[j]

(* The place of x in S sorted by key, from 1.                              *)
Rank(S, key(_), x) == Cardinality({y \in S : Earlier(key(y), key(x))}) + 1

(* The members that no other comes before.                                 *)
Leading(S, key(_)) == {x \in S : \A y \in S : ~Earlier(key(y), key(x))}

(* reasoning.models.clamp01, in units of which top make 1.                 *)
Clamp(n, top) == IF n < 0 THEN 0 ELSE IF n > top THEN top ELSE n
=============================================================================
