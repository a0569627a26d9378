---------------------------- MODULE MCDocuments ----------------------------
(***************************************************************************)
(* Instances of Documents for TLC: a requester and one other person, up to *)
(* two chains, so that a returned document is submitted again, and an      *)
(* advance of 2 of which 2 or nothing comes back, or 1 is overspent (3 is  *)
(* refused).                                                               *)
(***************************************************************************)
EXTENDS Documents, TLC

CONSTANTS c1, c2, w1, w2, req, fin

MCUnspent == {-1, 0, 2, 3}

\* Bounds: at most two payments, and each outcome of a chain at most once.
MaxPaid == 2
MaxDelivered == 1
Bounded ==
    /\ paid <= MaxPaid
    /\ \A c \in Chains, s \in Outcomes : delivered[c][s] <= MaxDelivered

Interchangeable == Permutations(Workers) \cup Permutations(Chains)

=============================================================================
