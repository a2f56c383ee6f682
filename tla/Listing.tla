------------------------------- MODULE Listing -------------------------------
(***************************************************************************)
(* Lists as the handlers build them: sorted, and filtered.  They are given *)
(* by the rank of a number in a set, as the prover knows nothing of        *)
(* SortSeq and SelectSeq.                                                  *)
(***************************************************************************)
EXTENDS Naturals, FiniteSets, Sequences

\* The place of a number in a set, from the smallest up.
Rank(n, S) == Cardinality({m \in S : m <= n})

\* The members of a set in increasing order.
Sorted(S) == [k \in 1 .. Cardinality(S) |-> CHOOSE n \in S : Rank(n, S) = k]

\* The entries of a sequence at some of its positions.
EntriesAt(s, positions) ==
  LET sorted == Sorted(positions) IN [k \in DOMAIN sorted |-> s[sorted[k]]]
=============================================================================
