----------------------------- MODULE MCPayroll -----------------------------
(***************************************************************************)
(* Instances of Payroll for TLC: a grid saved up to twice, so that it can  *)
(* change after an approval, and chains for the period, for the run, and   *)
(* for one of them again.                                                  *)
(***************************************************************************)
EXTENDS Payroll, TLC

CONSTANTS c1, c2, c3, w1, w2, x1, x2

\* Bounds: deliveries of an outcome of a chain, and journals of a currency.
\* Both callbacks treat a return like a rejection, and both legs are alike.
MaxDelivered == 1
MaxPosted == 1
Bounded ==
    /\ \A c \in Chains : status[c] # "RETURNED" /\ \A s \in Outcomes : delivered[c][s] <= MaxDelivered
    /\ \A cur \in Currencies : Len(posted[cur]) <= MaxPosted
    /\ "ZWG" \notin postable

Interchangeable == Permutations(Chains) \cup Permutations(Workers) \cup Permutations(Extras)

=============================================================================
