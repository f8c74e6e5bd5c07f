----------------------------- MODULE Positions ------------------------------
(***************************************************************************)
(* Sequences by their positions.  The loops of chapaBD that erase or skip  *)
(* elements (std::remove_if and erase; rows that are deleted or do not     *)
(* match) keep the others in their order.                                  *)
(***************************************************************************)
EXTENDS Integers, Sequences, FiniteSetsExt

\* How many positions of S come before i.
Rank(S, i) == Cardinality({j \in S : j < i})

\* The k-th position of S, counted from 1.
Nth(S, k) == CHOOSE i \in S : Rank(S, i) = k - 1

\* The elements of s at the positions S, in their order.
Keep(s, S) == [k \in 1 .. Cardinality(S) |-> s[Nth(S, k)]]

\* s without the elements equal to x.
Without(s, x) == Keep(s, {i \in DOMAIN s : s[i] # x})
=============================================================================
