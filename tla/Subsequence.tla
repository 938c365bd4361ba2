---------------------------- MODULE Subsequence -----------------------------
(***************************************************************************)
(* The part of a sequence at a set of places: what SelectSeq gives when    *)
(* the choice depends on the place and not on the element alone.           *)
(***************************************************************************)
EXTENDS Naturals, Sequences, FiniteSets

\* The member of a set of numbers that has n of them up to and with itself.
Nth(S, n) == CHOOSE k \in S : Cardinality({j \in S : j <= k}) = n

\* What a sequence has at a set of places, in the order of the places.
Pick(s, S) == [n \in 1 .. Cardinality(S) |-> s[Nth(S, n)]]
=============================================================================
