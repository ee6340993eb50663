---------------------------- MODULE Subsequences ----------------------------
(***************************************************************************)
(* What the site's filter calls keep of an array, in its order.            *)
(***************************************************************************)
EXTENDS Naturals, Sequences, FiniteSets, Functions

(* The numbers in I, ascending.                                            *)
Ascending(I) ==
  CHOOSE order \in Bijection(1..Cardinality(I), I) :
    \A k, l \in DOMAIN order : k < l => order[k] < order[l]

(* The elements of s whose index is in I.                                  *)
KeptAt(s, I) == LET order == Ascending(I) IN [k \in DOMAIN order |-> s[order[k]]]
=============================================================================
