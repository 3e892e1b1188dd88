------------------------------ MODULE Ordering ------------------------------
(***************************************************************************)
(* Sorting, as a function of a finite set: the element at place i is the   *)
(* one that has i - 1 elements in front of it.  Saying it by ranks keeps   *)
(* it within the prover's reach, unlike SortSeq of the TLC module.         *)
(***************************************************************************)
EXTENDS Integers, Sequences, FiniteSets

InOrder(S, Before(_, _)) ==
    [i \in 1 .. Cardinality(S) |->
        CHOOSE x \in S : Cardinality({y \in S : Before(y, x)}) = i - 1]

(* The elements of `s` at the given places, in their order: what retain    *)
(* and filter leave of a list.                                             *)
AtPlaces(s, places) ==
    LET kept == InOrder(places, LAMBDA i, j : i < j)
    IN  [n \in DOMAIN kept |-> s[kept[n]]]
=============================================================================
