------------------------------ MODULE Listing -------------------------------
(***************************************************************************)
(* Sets of numbers as lists.                                               *)
(***************************************************************************)
EXTENDS Naturals, FiniteSets

\* The members of a finite set of numbers, the least first.
InOrder(S) ==
    CHOOSE s \in [1 .. Cardinality(S) -> S] : \A i, j \in DOMAIN s : i < j => s[i] < s[j]
=============================================================================
