------------------------- MODULE DirectorWithdrawal -------------------------
(***************************************************************************)
(* Director withdrawals (apps/api/src/workflows/director-withdrawals/      *)
(* director-withdrawals.service.ts).  Here the approval itself moves the   *)
(* money: the callback posts the withdrawal to the ledger, and a second    *)
(* director later records that the transfer was made.                      *)
(***************************************************************************)
EXTENDS Workflow

VARIABLES
    account,    \* some account of the withdrawal's currency exists
    stamp       \* ledgerPostedAt is set

ledgerVars == <<account, stamp>>

Posted == {"POSTED_AWAITING_TRANSFER", "COMPLETED"}

WithdrawalSubmit(w) ==
    /\ SubmitWrite(w) \/ SubmitRefused(w) \/ \E c \in Chains : SubmitRoute(w, c)
    /\ UNCHANGED ledgerVars

WithdrawalCallback(w) ==
    /\ StartCallback(w, "post") \/ EndCallback(w)
    /\ UNCHANGED ledgerVars

WithdrawalSetStatus(w) ==
    /\ Mirror(w)
    /\ UNCHANGED ledgerVars

-----------------------------------------------------------------------------
(* postToLedger, called back with the approval. *)

PostRead(w) ==
    /\ In(w, "post")
    /\ IF stamp THEN Leave(w) ELSE Go(w, "source", None)
    /\ UNCHANGED <<outcomeVars, doc, paid, ledgerVars>>

\* Without an account of its currency the withdrawal stays where it is.
PostSource(w) ==
    /\ In(w, "source")
    /\ IF account THEN Go(w, "journal", None) ELSE Leave(w)
    /\ UNCHANGED <<outcomeVars, doc, paid, ledgerVars>>

PostReversed(w) ==
    /\ In(w, "journal")
    /\ paid' = paid - 1
    /\ Go(w, "stamp", None)
    /\ UNCHANGED <<outcomeVars, doc, account, stamp>>

PostJournal(w) ==
    /\ In(w, "journal")
    /\ paid' = paid + 1
    /\ Go(w, "stamp", None)
    /\ UNCHANGED <<outcomeVars, doc, account, stamp>>

PostStamp(w) ==
    /\ In(w, "stamp")
    /\ doc' = "POSTED_AWAITING_TRANSFER"
    /\ stamp' = TRUE
    /\ Leave(w)
    /\ UNCHANGED <<outcomeVars, account, paid>>

-----------------------------------------------------------------------------
(* complete: a director other than the requester made the transfer. *)

CompleteRead(w, u) ==
    /\ Free(w)
    /\ doc = "POSTED_AWAITING_TRANSFER"
    /\ u # Requester
    /\ Go(w, "transfer", None)
    /\ UNCHANGED <<outcomeVars, doc, paid, ledgerVars>>

CompleteWrite(w) ==
    /\ In(w, "transfer")
    /\ doc' = "COMPLETED"
    /\ Leave(w)
    /\ UNCHANGED <<outcomeVars, paid, ledgerVars>>

\* An administrator opens an account of the currency.
OpenAccount ==
    /\ ~account
    /\ account' = TRUE
    /\ UNCHANGED <<workflowVars, stamp>>

-----------------------------------------------------------------------------

WithdrawalProceeds(w) ==
    \/ WithdrawalSubmit(w) \/ WithdrawalCallback(w) \/ WithdrawalSetStatus(w)
    \/ PostRead(w) \/ PostSource(w) \/ PostJournal(w) \/ PostStamp(w)
    \/ CompleteWrite(w)

WithdrawalRequested(w) ==
    \/ SubmitRead(w) /\ UNCHANGED ledgerVars
    \/ \E u \in People : CompleteRead(w, u)

=============================================================================
