------------------------------ MODULE Payment ------------------------------
(***************************************************************************)
(* What paying for an approved document comes to: it is approved first,    *)
(* and money leaves afterwards, once ("APPROVE FIRST, FUND SECOND",        *)
(* apps/api/src/common/workflow-status.ts line 12).  Only after something  *)
(* slipped may it leave again, but still never before the approval.        *)
(***************************************************************************)
EXTENDS Naturals

VARIABLES approved, paid, slipped

paymentVars == <<approved, paid, slipped>>

PaymentInit == approved = FALSE /\ paid = 0 /\ slipped \in BOOLEAN

Approval ==
    /\ ~approved
    /\ approved' = TRUE
    /\ UNCHANGED <<paid, slipped>>

Pay ==
    /\ approved
    /\ slipped \/ paid = 0
    /\ paid' = paid + 1
    /\ UNCHANGED <<approved, slipped>>

Slip ==
    /\ ~slipped
    /\ slipped' = TRUE
    /\ UNCHANGED <<approved, paid>>

PaymentSpec == PaymentInit /\ [][Approval \/ Pay \/ Slip]_paymentVars

=============================================================================
