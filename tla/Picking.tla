------------------------------- MODULE Picking ------------------------------
(***************************************************************************)
(* What a loop with a condition around an append leaves of a list: its     *)
(* elements at some of its places, in their order.  Written with an        *)
(* explicit function, so that it can be reasoned about.                    *)
(***************************************************************************)
EXTENDS Integers, Sequences, FiniteSets

\* The k-th smallest of a finite set of places.
Nth(P, k) == CHOOSE i \in P : Cardinality({j \in P : j < i}) = k - 1

Picked(s, P) == [k \in 1..Cardinality(P) |-> s[Nth(P, k)]]
=============================================================================
