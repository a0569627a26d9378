---------------------------- MODULE Disbursement ----------------------------
(***************************************************************************)
(* Cash requisitions and travel advances: the funds check that the         *)
(* approval triggers, the disbursement that finance records, and the daily *)
(* job that tests again what waited for funds                              *)
(* (apps/api/src/workflows/requisitions/requisitions.service.ts and        *)
(* workflows/travel/travel.service.ts, which are alike but for the status  *)
(* a disbursement leads to).  A travel advance is then retired, that is,   *)
(* reconciled with what was really spent.                                  *)
(*                                                                         *)
(* Of the ledger only what the services read is kept: whether some cash    *)
(* account of the document's currency covers its amount.                   *)
(***************************************************************************)
EXTENDS Workflow, Integers

VARIABLE funded     \* the best-funded suitable account covers the amount

Payable == {"APPROVED_READY_TO_PAY", "APPROVED_PENDING_FUNDS"}
PaidStatus == IF kind = "travel" THEN "DISBURSED" ELSE "CLOSED"
DisbursedStatus == {"DISBURSED", "CLOSED"}

-----------------------------------------------------------------------------
(* runFundsCheck, called back with the approval. *)

FundsRead(w) ==
    /\ In(w, "funds")
    /\ Go(w, "settle", funded)
    /\ UNCHANGED <<outcomeVars, doc, paid, funded>>

FundsBlock(w) ==
    /\ In(w, "settle")
    /\ doc' = IF call[w].saw THEN "APPROVED_READY_TO_PAY" ELSE doc
    /\ Leave(w)
    /\ UNCHANGED <<outcomeVars, paid, funded>>

\* Funds never block an approval, they only choose the status.
FundsWrite(w) ==
    /\ In(w, "settle")
    /\ doc' = IF call[w].saw THEN "APPROVED_READY_TO_PAY" ELSE "APPROVED_PENDING_FUNDS"
    /\ Leave(w)
    /\ UNCHANGED <<outcomeVars, paid, funded>>

-----------------------------------------------------------------------------
(* disburse: check, post the journal, write the status. *)

DisburseUnapproved(w, u) ==
    /\ Free(w)
    /\ doc \in Payable \cup {"SUBMITTED"}
    /\ u # Requester
    /\ Go(w, "journal", None)
    /\ UNCHANGED <<outcomeVars, doc, paid, funded>>

DisburseAgain(w, u) ==
    /\ Free(w)
    /\ doc \in Payable \cup {PaidStatus}
    /\ u # Requester
    /\ Go(w, "journal", None)
    /\ UNCHANGED <<outcomeVars, doc, paid, funded>>

\* Whoever records the payment is not the requester; being short of funds is
\* no obstacle.
DisburseRead(w, u) ==
    /\ Free(w)
    /\ doc \in Payable
    /\ u # Requester
    /\ Go(w, "journal", None)
    /\ UNCHANGED <<outcomeVars, doc, paid, funded>>

DisburseJournal(w) ==
    /\ In(w, "journal")
    /\ paid' = paid + 1
    /\ funded' \in {funded, FALSE}
    /\ Go(w, "close", None)
    /\ UNCHANGED <<outcomeVars, doc>>

DisburseWrite(w) ==
    /\ In(w, "close")
    /\ doc' = PaidStatus
    /\ Leave(w)
    /\ UNCHANGED <<outcomeVars, paid, funded>>

-----------------------------------------------------------------------------
(* reTestPendingFunds: list what waits for funds, read the cash position,  *)
(* then write to each document that is funded now; a document that is not  *)
(* gets a notification at most.                                            *)

RetestListAll(w) ==
    /\ Free(w)
    /\ doc # "SUBMITTED"
    /\ Go(w, "retest", None)
    /\ UNCHANGED <<outcomeVars, doc, paid, funded>>

RetestList(w) ==
    /\ Free(w)
    /\ doc = "APPROVED_PENDING_FUNDS"
    /\ Go(w, "retest", None)
    /\ UNCHANGED <<outcomeVars, doc, paid, funded>>

RetestCash(w) ==
    /\ In(w, "retest")
    /\ IF funded THEN Go(w, "promote", None) ELSE Leave(w)
    /\ UNCHANGED <<outcomeVars, doc, paid, funded>>

RetestGivesUp(w) ==
    /\ In(w, "promote")
    /\ Leave(w)
    /\ UNCHANGED <<outcomeVars, doc, paid, funded>>

\* The update is by id: the status is not looked at again.
RetestPromote(w) ==
    /\ In(w, "promote")
    /\ doc' = "APPROVED_READY_TO_PAY"
    /\ Leave(w)
    /\ UNCHANGED <<outcomeVars, paid, funded>>

\* Other postings move the cash.
CashMoves ==
    /\ funded' = ~funded
    /\ UNCHANGED workflowVars

-----------------------------------------------------------------------------

\* What a worker does of itself once it was asked.
DisbursementProceeds(w) ==
    \/ (Submitting(w) \/ Delivering(w, "funds")) /\ UNCHANGED funded
    \/ FundsRead(w) \/ FundsWrite(w)
    \/ DisburseJournal(w) \/ DisburseWrite(w)
    \/ RetestCash(w) \/ RetestPromote(w)

DisbursementRequested(w) ==
    \/ SubmitRead(w) /\ UNCHANGED funded
    \/ \E u \in People : DisburseRead(w, u)
    \/ RetestList(w)

-----------------------------------------------------------------------------
(* Travel (travel.service.ts): the handlers up to the payment are those    *)
(* above, step for step; retire is travel's own.                           *)

CONSTANTS
    Advance,    \* the amount of the advance
    Unspent     \* bound: the unspent amounts travellers declare

VARIABLES
    claim,      \* [Workers -> Int]: the unspent amount a retirement works with
    returned,   \* history: net cash the retirement journals brought back
    refund      \* the recorded refund, due (> 0) or owed (< 0)

retireVars == <<claim, returned, refund>>

ASSUME TravelAssumption ==
    /\ Advance \in Nat \ {0}
    /\ Unspent \subseteq Int

TravelSubmit(w) ==
    /\ SubmitWrite(w) \/ SubmitRefused(w) \/ \E c \in Chains : SubmitRoute(w, c)
    /\ UNCHANGED <<funded, retireVars>>

RunFundsCheck(w) ==
    /\ FundsRead(w) \/ FundsWrite(w)
    /\ UNCHANGED retireVars

Disburse(w) ==
    /\ DisburseJournal(w) \/ DisburseWrite(w)
    /\ UNCHANGED retireVars

ReTestPendingFunds(w) ==
    /\ RetestCash(w) \/ RetestPromote(w)
    /\ UNCHANGED retireVars

TravelCallback(w) ==
    /\ StartCallback(w, "funds") \/ EndCallback(w)
    /\ UNCHANGED <<funded, retireVars>>

TravelSetStatus(w) ==
    /\ Mirror(w)
    /\ UNCHANGED <<funded, retireVars>>

-----------------------------------------------------------------------------
(* retire: check, post a journal for what is returned or owed, record it   *)
(* and close.                                                              *)

RetireUnchecked(w, n) ==
    /\ Free(w)
    /\ doc = "DISBURSED"
    /\ claim' = [claim EXCEPT ![w] = n]
    /\ Go(w, IF n = 0 THEN "record" ELSE "return", None)
    /\ UNCHANGED <<outcomeVars, doc, paid, funded, returned, refund>>

\* A negative amount is an overspend; an exact one needs no journal.
RetireRead(w, n) ==
    /\ Free(w)
    /\ doc = "DISBURSED"
    /\ n <= Advance
    /\ claim' = [claim EXCEPT ![w] = n]
    /\ Go(w, IF n = 0 THEN "record" ELSE "return", None)
    /\ UNCHANGED <<outcomeVars, doc, paid, funded, returned, refund>>

RetireRefundOnly(w) ==
    /\ In(w, "return")
    /\ returned' = IF claim[w] > 0 THEN returned + claim[w] ELSE returned
    /\ funded' \in {funded, claim[w] > 0}
    /\ Go(w, "record", None)
    /\ UNCHANGED <<outcomeVars, doc, paid, claim, refund>>

\* Cash comes back to the account it was paid from, or leaves it once more.
RetireJournal(w) ==
    /\ In(w, "return")
    /\ returned' = returned + claim[w]
    /\ funded' \in {funded, claim[w] > 0}
    /\ Go(w, "record", None)
    /\ UNCHANGED <<outcomeVars, doc, paid, claim, refund>>

RetireWrite(w) ==
    /\ In(w, "record")
    /\ doc' = "CLOSED"
    /\ refund' = claim[w]
    /\ claim' = [claim EXCEPT ![w] = 0]
    /\ Leave(w)
    /\ UNCHANGED <<outcomeVars, paid, funded, returned>>

-----------------------------------------------------------------------------

TravelProceeds(w) ==
    \/ TravelSubmit(w) \/ RunFundsCheck(w) \/ Disburse(w) \/ ReTestPendingFunds(w)
    \/ TravelCallback(w) \/ TravelSetStatus(w)
    \/ RetireJournal(w) \/ RetireWrite(w)

TravelRequested(w) ==
    \/ DisbursementRequested(w) /\ UNCHANGED retireVars
    \/ \E n \in Unspent : RetireRead(w, n)

=============================================================================
