------------------------------- MODULE Selection -------------------------------
(***************************************************************************)
(* SelectSeq without recursion, so that it can be reasoned about.          *)
(***************************************************************************)
EXTENDS Integers, Sequences, FiniteSets

(* The entries of s with indices in kept, in their order: the k-th is the  *)
(* one with k kept indices up to its own.  As the argument of a function   *)
(* the set is evaluated only once.                                         *)
Picked(s, kept) ==
  [K \in SUBSET DOMAIN s |->
     [k \in 1 .. Cardinality(K) |->
        s[CHOOSE i \in K : Cardinality({j \in K : j <= i}) = k]]][kept]

Selected(s, Test(_)) == Picked(s, {i \in DOMAIN s : Test(s[i])})
=============================================================================
