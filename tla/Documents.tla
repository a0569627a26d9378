----------------------------- MODULE Documents -----------------------------
(***************************************************************************)
(* A document of any kind going through its workflow: a requisition, a     *)
(* travel advance or a director withdrawal.  The registry of callbacks     *)
(* (apps/api/src/approvals/status-transition.registry.ts) is keyed by the  *)
(* document's table, so the kind says which service is called.             *)
(***************************************************************************)
EXTENDS Disbursement, DirectorWithdrawal

CONSTANT Kinds

ASSUME KindsAssumption == Kinds \subseteq {"requisition", "travel", "withdrawal"}

documentVars == <<given, workflowVars, funded, retireVars, ledgerVars>>

Init ==
    /\ WorkflowInit
    /\ kind \in Kinds
    /\ funded \in (IF kind = "withdrawal" THEN {FALSE} ELSE BOOLEAN)
    /\ claim = [w \in Workers |-> 0] /\ returned = 0 /\ refund = 0
    /\ account \in (IF kind = "withdrawal" THEN BOOLEAN ELSE {FALSE})
    /\ stamp = FALSE

\* What a worker is asked to do.
Requested(w) ==
    /\ \/ kind = "requisition" /\ DisbursementRequested(w) /\ UNCHANGED <<retireVars, ledgerVars>>
       \/ kind = "travel" /\ TravelRequested(w) /\ UNCHANGED ledgerVars
       \/ kind = "withdrawal" /\ WithdrawalRequested(w) /\ UNCHANGED <<funded, retireVars>>
       \/ /\ \E c \in Chains, s \in Outcomes : DecideChain(w, c, s)
          /\ UNCHANGED <<funded, retireVars, ledgerVars>>
    /\ UNCHANGED given

\* What it then does of itself.
Proceed(w) ==
    /\ \/ kind = "requisition" /\ DisbursementProceeds(w) /\ UNCHANGED <<retireVars, ledgerVars>>
       \/ kind = "travel" /\ TravelProceeds(w) /\ UNCHANGED ledgerVars
       \/ kind = "withdrawal" /\ WithdrawalProceeds(w) /\ UNCHANGED <<funded, retireVars>>
    /\ UNCHANGED given

Fail(w) ==
    /\ Crash(w)
    /\ UNCHANGED <<kind, funded, retireVars, ledgerVars>>

\* The rest of the system.
Surroundings ==
    \/ kind # "withdrawal" /\ CashMoves /\ UNCHANGED <<given, retireVars, ledgerVars>>
    \/ kind = "withdrawal" /\ OpenAccount /\ UNCHANGED <<given, funded, retireVars>>

Next ==
    \/ \E w \in Workers : Requested(w) \/ Proceed(w) \/ Fail(w)
    \/ Surroundings

Spec == Init /\ [][Next]_documentVars

\* The daily job (jobs/scheduled-jobs.service.ts) tests pending documents.
DailyRetest(w) ==
    /\ kind \in {"requisition", "travel"}
    /\ RetestList(w)
    /\ UNCHANGED <<given, retireVars, ledgerVars>>

\* Requests are served to their end, and the job runs again and again.
FairSpec ==
    /\ Spec
    /\ \A w \in Workers : WF_documentVars(Proceed(w)) /\ SF_documentVars(DailyRetest(w))

-----------------------------------------------------------------------------
(* What holds however requests race and wherever they fail. *)

Statuses ==
    {"DRAFT", "SUBMITTED", "REJECTED", "RETURNED"} \cup
    (IF kind = "withdrawal" THEN Posted
     ELSE Payable \cup {"CLOSED"} \cup (IF kind = "travel" THEN {"DISBURSED"} ELSE {}))

Places ==
    {"none", "submit", "route", "mirror"} \cup
    (IF kind = "withdrawal" THEN {"post", "source", "journal", "stamp", "transfer"}
     ELSE {"funds", "settle", "journal", "close", "retest", "promote"} \cup
          (IF kind = "travel" THEN {"return", "record"} ELSE {}))

TypeOK ==
    /\ status \in [Chains -> {"NONE", "PENDING"} \cup Outcomes]
    /\ task \in [Workers -> Task]
    /\ delivered \in [Chains -> [Outcomes -> Nat]]
    /\ kind \in Kinds /\ failures \in Nat
    /\ doc \in Statuses
    /\ paid \in Nat
    /\ call \in [Workers -> [at : Places, saw : BOOLEAN \cup {None}]]
    /\ funded \in BOOLEAN /\ account \in BOOLEAN /\ stamp \in BOOLEAN
    /\ claim \in [Workers -> Int] /\ returned \in Int /\ refund \in Int

(***************************************************************************)
(* No money leaves before an approval of the document was delivered, and   *)
(* no document waits to be paid, or shows a payment, without the approval  *)
(* or the payment.  (runFundsCheck, disburse, postToLedger, complete.)     *)
(***************************************************************************)
ApprovedFirst ==
    /\ paid > 0 => ApprovedOnce
    /\ doc \in Payable => ApprovedOnce
    /\ doc \in DisbursedStatus \cup Posted \/ stamp => paid > 0

(***************************************************************************)
(* However requests race, cash is returned and a refund recorded only on   *)
(* an advance that was paid, and the recorded refund is never more than    *)
(* the advance.  The cash itself can be: two retirements of one advance,   *)
(* or one repeated after it stopped before its record, both return what    *)
(* they claim.  BooksAgree bounds it where neither happens.  (retire,      *)
(* lines 403-488.)                                                         *)
(***************************************************************************)
RefundsArePaidFor ==
    /\ returned # 0 \/ refund # 0 => paid > 0
    /\ refund <= Advance

(***************************************************************************)
(* A handler past its checks stands on what made it pass them, however     *)
(* long ago that was: it only pays, promotes or tests the funds of an      *)
(* approved document, only closes, completes or retires a paid one, and    *)
(* mirrors only a negative outcome.                                        *)
(***************************************************************************)
HandlerFounded(w) ==
    /\ call[w].at \in {"funds", "settle", "journal", "retest", "promote", "post", "source"}
         => ApprovedOnce
    /\ call[w].at \in {"close", "stamp", "transfer", "return", "record"} => paid > 0
    /\ call[w].at = "settle" => call[w].saw \in BOOLEAN
    /\ call[w].at = "mirror" => task[w].outcome \in {"REJECTED", "RETURNED"}
    /\ claim[w] <= Advance
    /\ task[w].phase # "none" => task[w].chain \in Chains /\ task[w].outcome \in Outcomes

HandlersFounded == \A w \in Workers : HandlerFounded(w)

IInv == TypeOK /\ ApprovedFirst /\ RefundsArePaidFor /\ HandlersFounded

-----------------------------------------------------------------------------
(* What holds when requests do not overlap. *)

P == INSTANCE Payment WITH
        approved <- ApprovedOnce,
        slipped <- Overlap \/ (failures > 0 /\ kind # "withdrawal")

(***************************************************************************)
(* Paying for a document implements Payment.  It can be paid twice when a  *)
(* disbursement fails between its journal and its status; a withdrawal is  *)
(* posted at most once even then ("Idempotency guard: never double-post if *)
(* the transition fires twice", director-withdrawals.service.ts line 197). *)
(***************************************************************************)
ImplementsPayment == P!PaymentSpec

\* A paid document stays so: the lifecycle of workflow-status.ts lines 7-10
\* ends there, but for a travel advance that is retired.
PaidIsFinal ==
    [][/\ doc = "DISBURSED" => doc' \in DisbursedStatus
       /\ doc = "CLOSED" => doc' = "CLOSED"
       /\ doc \in Posted => doc' \in Posted
       /\ doc = "COMPLETED" => doc' = "COMPLETED"]_documentVars

\* A submitted document on which nobody works is in some approver's hands
\* (requisitions.service.ts line 134: "to SUBMITTED and hand it to the
\* approval engine"), unless a handler failed or a withdrawal has no account
\* to be posted to.
SubmittedIsAwaited ==
    doc = "SUBMITTED" /\ AllFree /\ failures = 0 => Awaited \/ (kind = "withdrawal" /\ ApprovedOnce)

\* The ledger agrees with the document, unless a handler failed: a document at
\* rest is paid exactly if it says so, what left for a closed trip is the
\* advance less the recorded refund (or plus the recorded overspend), and no
\* more cash than the advance is ever returned, by however many retirements.
BooksAgree ==
    failures = 0 =>
        /\ kind = "travel" => returned <= Advance
        /\ AllFree =>
             /\ paid > 0 <=> doc \in DisbursedStatus \cup Posted
             /\ kind = "travel" /\ doc = "CLOSED" => paid * Advance - returned = Advance - refund

\* Every outcome of the engine arrives at the document, unless a handler
\* fails; an approved withdrawal also needs an account to be posted to.
OutcomeArrives ==
    [](failures = 0 /\ (kind = "withdrawal" => account)) => \A c \in Chains :
        /\ status[c] = "REJECTED" ~> doc = "REJECTED"
        /\ status[c] = "APPROVED" ~> doc \in Payable \cup DisbursedStatus \cup Posted

\* Once there is cash for good, no document goes on waiting for funds.
FundsAreFound ==
    [](failures = 0) /\ <>[]funded => (doc = "APPROVED_PENDING_FUNDS" ~> doc # "APPROVED_PENDING_FUNDS")

=============================================================================
