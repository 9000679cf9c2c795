----------------------------- MODULE Selection -----------------------------
(* Parts of a sequence, chosen by their positions. *)
EXTENDS Naturals, Sequences, FiniteSets

\* The members of a finite set of numbers in ascending order, and the elements
\* of a sequence at these positions.
Rank(S, p) == Cardinality({q \in S : q <= p})
Ascending(S) == [k \in 1 .. Cardinality(S) |-> CHOOSE p \in S : Rank(S, p) = k]
Select(s, S) == LET at == Ascending(S) IN [k \in DOMAIN at |-> s[at[k]]]
============================================================================
