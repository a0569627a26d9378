----------------------------- MODULE PettyCash -----------------------------
(***************************************************************************)
(* Petty cash (apps/api/src/workflows/petty-cash/petty-cash.service.ts): a *)
(* float, one transaction on it and the counts that lock it.  A withdrawal *)
(* below the threshold is posted when a site manager confirms it; one at   *)
(* the threshold, a top-up and a large conversion go to the finance        *)
(* director through the engine; a small conversion is posted at once.      *)
(*                                                                         *)
(* Of amounts only the comparison with the threshold is kept, and of a     *)
(* count whether it is off.  A definition named for a mistake              *)
(* (ConfirmUnchecked, ...) is what its successor must not be.              *)
(***************************************************************************)
EXTENDS Handlers

VARIABLES
    locked,     \* the float is locked
    small,      \* the amount is below the threshold of the settings, now
    txn,        \* the transaction (of a conversion: the leg going out)
    leg,        \* status of the leg of a conversion coming in
    journals,   \* ledger journals of the transaction
    confirmed,  \* history: a site manager's confirmation posted it
    moved       \* history: the threshold passed the amount after it was raised

pettyVars == <<locked, small, txn, leg, journals, confirmed, moved>>
Voucher == [id |-> "txn"]     \* the subject of its chain
NoTxn == [type |-> None, status |-> "NONE", big |-> FALSE]

PettyInit ==
    /\ locked = FALSE /\ small = TRUE
    /\ txn = NoTxn /\ leg = "NONE" /\ journals = 0
    /\ confirmed = FALSE /\ moved = FALSE

-----------------------------------------------------------------------------
(* createWithdrawal, createConversion, createTopUp. *)

Raising == {"threshold", "create", "createLeg"}
Unraised == txn = NoTxn /\ \A w \in Workers : call[w].at \notin Raising

CreateRead(w, type) ==
    /\ Unraised
    /\ type = "TOP_UP" \/ ~locked
    /\ IF type = "TOP_UP"
         THEN Begin(w, "create", [type |-> type, big |-> TRUE])
         ELSE Begin(w, "threshold", [type |-> type])
    /\ UNCHANGED pettyVars

CreateWithdrawal(w) == CreateRead(w, "WITHDRAWAL")
CreateConversion(w) == CreateRead(w, "CONVERSION")
CreateTopUp(w) == CreateRead(w, "TOP_UP")

ThresholdRead(w) ==
    /\ In(w, "threshold")
    /\ Step(w, "create", [type |-> call[w].saw.type, big |-> ~small])
    /\ UNCHANGED pettyVars

CreateTxn(w) ==
    /\ In(w, "create")
    /\ LET new == call[w].saw IN
         /\ txn' = [type |-> new.type, big |-> new.big,
                    status |-> IF new.type = "CONVERSION" /\ ~new.big THEN "POSTED" ELSE "SUBMITTED"]
         /\ \/ new.type = "CONVERSION" /\ Step(w, "createLeg", new)
            \/ new.type # "CONVERSION" /\ new.big /\ Step(w, "route", Voucher)
            \/ new.type # "CONVERSION" /\ ~new.big /\ Done(w)
    /\ UNCHANGED <<locked, small, leg, journals, confirmed, moved>>

\* The leg coming in, and the reference back to it, which is read by
\* callbacks of the chain only.
CreateLeg(w) ==
    /\ In(w, "createLeg")
    /\ leg' = IF call[w].saw.big THEN "SUBMITTED" ELSE "POSTED"
    /\ IF call[w].saw.big THEN Step(w, "route", Voucher) ELSE Done(w)
    /\ UNCHANGED <<locked, small, txn, journals, confirmed, moved>>

-----------------------------------------------------------------------------
(* confirmWithdrawal: the transaction, the float and the threshold are     *)
(* read one after the other.                                               *)

ConfirmRead(w, u) ==
    /\ txn.type = "WITHDRAWAL" /\ txn.status = "SUBMITTED"
    /\ u # Author
    /\ Begin(w, "float", None)
    /\ UNCHANGED pettyVars

ConfirmLocked(w) ==
    /\ In(w, "float")
    /\ Step(w, "limit", None)
    /\ UNCHANGED pettyVars

ConfirmFloat(w) ==
    /\ In(w, "float")
    /\ IF locked THEN Done(w) ELSE Step(w, "limit", None)
    /\ UNCHANGED pettyVars

ConfirmUnchecked(w) ==
    /\ In(w, "limit")
    /\ Step(w, "post", [by |-> "manager"])
    /\ UNCHANGED pettyVars

\* The threshold as it is now, not as it was when the voucher was raised.
ConfirmThreshold(w) ==
    /\ In(w, "limit")
    /\ IF small THEN Step(w, "post", [by |-> "manager"]) ELSE Done(w)
    /\ UNCHANGED pettyVars

-----------------------------------------------------------------------------
(* postTxn, for a confirmation and for an approval. *)

ApprovedRead(w) ==
    /\ In(w, "approved")
    /\ IF txn.status = "POSTED" THEN Done(w) ELSE Step(w, "post", [by |-> "director"])
    /\ UNCHANGED pettyVars

\* The status first, then the ledger (a top-up) or the other leg.
PostStatus(w) ==
    /\ In(w, "post")
    /\ txn' = [txn EXCEPT !.status = "POSTED"]
    /\ confirmed' = (confirmed \/ call[w].saw.by = "manager")
    /\ \/ txn.type = "TOP_UP" /\ Step(w, "journal", None)
       \/ txn.type = "CONVERSION" /\ Step(w, "otherLeg", None)
       \/ txn.type = "WITHDRAWAL" /\ Done(w)
    /\ UNCHANGED <<locked, small, leg, journals, moved>>

PostToLedger(w) ==
    /\ In(w, "journal")
    /\ journals' = journals + 1
    /\ Done(w)
    /\ UNCHANGED <<locked, small, txn, leg, confirmed, moved>>

PostLeg(w) ==
    /\ In(w, "otherLeg")
    /\ leg' = "POSTED"
    /\ Done(w)
    /\ UNCHANGED <<locked, small, txn, journals, confirmed, moved>>

-----------------------------------------------------------------------------
(* The callback of any other outcome: setTxnStatus. *)

MirrorTxn(w) ==
    /\ In(w, "mirrorTxn")
    /\ txn' = [txn EXCEPT !.status = task[w].outcome]
    /\ IF txn.type = "CONVERSION" THEN Step(w, "mirrorLeg", None) ELSE Done(w)
    /\ UNCHANGED <<locked, small, leg, journals, confirmed, moved>>

MirrorLeg(w) ==
    /\ In(w, "mirrorLeg")
    /\ leg' = IF leg = "POSTED" THEN leg ELSE task[w].outcome
    /\ Done(w)
    /\ UNCHANGED <<locked, small, txn, journals, confirmed, moved>>

-----------------------------------------------------------------------------
(* recordCount and unlockFloat. *)

CountRead(w) ==
    /\ Begin(w, "count", [locked |-> locked])
    /\ UNCHANGED pettyVars

\* A count within tolerance writes back the lock it read.
CountWrite(w, beyond) ==
    /\ In(w, "count")
    /\ locked' = IF beyond THEN TRUE ELSE call[w].saw.locked
    /\ Done(w)
    /\ UNCHANGED <<small, txn, leg, journals, confirmed, moved>>

UnlockRead(w) ==
    /\ Begin(w, "unlock", None)
    /\ UNCHANGED pettyVars

UnlockWrite(w) ==
    /\ In(w, "unlock")
    /\ locked' = FALSE
    /\ Done(w)
    /\ UNCHANGED <<small, txn, leg, journals, confirmed, moved>>

\* An administrator edits the threshold (once after the voucher was raised).
ThresholdMoves ==
    /\ ~moved
    /\ small' = ~small
    /\ moved' = ~Unraised
    /\ UNCHANGED <<handlerVars, locked, txn, leg, journals, confirmed>>

-----------------------------------------------------------------------------

PettyRequested(w) ==
    \/ CreateWithdrawal(w) \/ CreateConversion(w) \/ CreateTopUp(w)
    \/ \E u \in People : ConfirmRead(w, u)
    \/ CountRead(w) \/ UnlockRead(w)
    \/ (\E c \in Chains, s \in Outcomes : DecideChain(w, c, s)) /\ UNCHANGED pettyVars

PettyProceeds(w) ==
    \/ ThresholdRead(w) \/ CreateTxn(w) \/ CreateLeg(w)
    \/ (\E c \in Chains : Route(w, c)) /\ UNCHANGED pettyVars
    \/ ConfirmFloat(w) \/ ConfirmThreshold(w)
    \/ (StartCallback(w, "approved", "mirrorTxn") \/ EndCallback(w)) /\ UNCHANGED pettyVars
    \/ ApprovedRead(w) \/ PostStatus(w) \/ PostToLedger(w) \/ PostLeg(w)
    \/ MirrorTxn(w) \/ MirrorLeg(w)
    \/ \E beyond \in BOOLEAN : CountWrite(w, beyond)
    \/ UnlockWrite(w)

PettyNext ==
    \/ \E w \in Workers : PettyRequested(w) \/ PettyProceeds(w) \/ (Crash(w) /\ UNCHANGED pettyVars)
    \/ ThresholdMoves

-----------------------------------------------------------------------------

PettyTypeOK ==
    /\ locked \in BOOLEAN /\ small \in BOOLEAN /\ confirmed \in BOOLEAN /\ moved \in BOOLEAN
    /\ txn.status \in {"NONE", "SUBMITTED", "POSTED"} \cup Outcomes
    /\ leg \in {"NONE", "SUBMITTED", "POSTED"} \cup Outcomes
    /\ journals \in Nat

\* However requests race and fail: what is posted was confirmed or approved,
\* but for a small conversion; the ledger was touched for an approved top-up
\* only; and what was large when it was raised is not confirmed by a site
\* manager, unless the threshold was moved since.
PettyAuthorised ==
    /\ txn.status = "POSTED" => confirmed \/ ApprovedFor(Voucher) \/ (txn.type = "CONVERSION" /\ ~txn.big)
    /\ journals > 0 => txn.type = "TOP_UP" /\ ApprovedFor(Voucher)
    /\ confirmed => txn.type = "WITHDRAWAL" /\ (txn.big => moved)

\* One request at a time: a top-up is in the ledger exactly if it is posted,
\* the legs of a conversion agree, and what waits for the director is with him.
PettyAgrees ==
    AtRest =>
        /\ journals = IF txn.type = "TOP_UP" /\ txn.status = "POSTED" THEN 1 ELSE 0
        /\ txn.type = "CONVERSION" => leg = txn.status
        /\ txn.status = "SUBMITTED" /\ txn.big => AwaitedFor(Voucher)

\* One request at a time: what is posted stays (unless the threshold moved
\* and an open chain was rejected later), nothing is confirmed on a locked
\* float, and only unlockFloat opens one.
PettyKept ==
    ~overlapped' =>
        /\ txn.status = "POSTED" /\ ~moved => txn'.status = "POSTED"
        /\ confirmed' # confirmed => ~locked
        /\ locked /\ ~locked' => \E w \in Workers : In(w, "unlock")

=============================================================================
