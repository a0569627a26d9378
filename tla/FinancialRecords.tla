-------------------------- MODULE FinancialRecords --------------------------
(***************************************************************************)
(* The financial records (apps/api/src/financial/) around the ledger:      *)
(* the revenue that receipts and claims post, and the nightly jobs that    *)
(* accrue interest and judge the health of orders.                         *)
(***************************************************************************)
EXTENDS Handlers

(***************************************************************************)
(* Revenue in the ledger: a receipt of an order (OrdersService.            *)
(* recordReceipt) and a claim on a contract (ContractsService.addClaim)    *)
(* are rows of their own, posted in calls of their own against the system  *)
(* accounts, which are created when first needed                           *)
(* (apps/api/src/ledger/ledger.service.ts).                                *)
(***************************************************************************)
CONSTANTS
    Receipts,   \* the receipts and claims that may be recorded
    Claims      \* those of them that are claims

VARIABLES
    recorded,   \* the rows of order_receipts and contract_claims
    postings,   \* how many postings each has in the ledger
    accounts    \* how many system accounts of each type there are

receiptVars == <<recorded, postings, accounts>>

AccountTypes == {"BANK", "RECEIVABLE", "REVENUE"}

ASSUME ReceiptsAssumption == Claims \subseteq Receipts

ReceiptsInit ==
    /\ recorded = {}
    /\ postings = [x \in Receipts |-> 0]
    /\ accounts = [a \in AccountTypes |-> 0]

-----------------------------------------------------------------------------

\* recordReceipt, addClaim: the row, before anything is posted.
Record(w, x) ==
    /\ x \notin recorded
    /\ recorded' = recorded \cup {x}
    /\ Begin(w, "posted?", x)
    /\ UNCHANGED <<postings, accounts>>

RecordReceipt(w, x) == x \notin Claims /\ Record(w, x)
AddClaim(w, x) == x \in Claims /\ Record(w, x)

\* postOrderReceipt, postContractClaim: nothing to do for what has a journal.
PostedRead(w) ==
    /\ In(w, "posted?")
    /\ IF postings[call[w].saw] > 0 THEN Done(w) ELSE Step(w, "asset", call[w].saw)
    /\ UNCHANGED receiptVars

\* ensureSystemAccountTx, for the two legs in turn: found, or created when
\* nothing was found.
AssetType(x) == IF x \in Claims THEN "RECEIVABLE" ELSE "BANK"

Find(w, at, type, create, next) ==
    /\ In(w, at)
    /\ Step(w, IF accounts[type] > 0 THEN next ELSE create, call[w].saw)
    /\ UNCHANGED receiptVars

FindAsset(w) == Find(w, "asset", AssetType(call[w].saw), "newAsset", "revenue")
FindRevenue(w) == Find(w, "revenue", "REVENUE", "newRevenue", "entries")

\* Nothing in the schema makes the name of an account unique
\* (schema.prisma:685), so that a second create succeeds.
Create(w, at, type, next) ==
    /\ In(w, at)
    /\ accounts' = [accounts EXCEPT ![type] = @ + 1]
    /\ Step(w, next, call[w].saw)
    /\ UNCHANGED <<recorded, postings>>

CreateAsset(w) == Create(w, "newAsset", AssetType(call[w].saw), "revenue")
CreateRevenue(w) == Create(w, "newRevenue", "REVENUE", "entries")

\* Both legs in one createMany.
PostEntries(w) ==
    /\ In(w, "entries")
    /\ postings' = [postings EXCEPT ![call[w].saw] = @ + 1]
    /\ Done(w)
    /\ UNCHANGED <<recorded, accounts>>

Posting == {"posted?", "asset", "newAsset", "revenue", "newRevenue", "entries"}

ReceiptsStep(w) ==
    \/ \E x \in Receipts : RecordReceipt(w, x) \/ AddClaim(w, x)
    \/ PostedRead(w) \/ FindAsset(w) \/ CreateAsset(w)
    \/ FindRevenue(w) \/ CreateRevenue(w) \/ PostEntries(w)
    \/ call[w].at \in Posting /\ Crash(w) /\ UNCHANGED receiptVars

ReceiptsNext == \E w \in Workers : ReceiptsStep(w)

-----------------------------------------------------------------------------

ReceiptsTypeOK ==
    /\ recorded \subseteq Receipts
    /\ postings \in [Receipts -> Nat] /\ accounts \in [AccountTypes -> Nat]

\* Nothing is in the ledger twice, or without its row, or without the accounts
\* it was posted to.
ReceiptsAuthorised ==
    \A x \in Receipts : postings[x] > 0 =>
        postings[x] = 1 /\ x \in recorded /\ accounts[AssetType(x)] > 0 /\ accounts["REVENUE"] > 0

\* Whatever is recorded is posted, and there is one account of each type.
ReceiptsAgree ==
    /\ AtRest => \A x \in recorded : postings[x] = 1
    /\ Orderly => \A a \in AccountTypes : accounts[a] <= 1

(***************************************************************************)
(* The nightly jobs (apps/api/src/financial/domain/, scheduled by          *)
(* apps/api/src/jobs/scheduled-jobs.service.ts): a row of interest for     *)
(* each day a loan is out, the interest on a tax debt, and the health of   *)
(* an order with the alert it raises.  One loan, one debt, one order; days *)
(* are numbered, the loan and the debt start on day 1, the order closes    *)
(* before ClosingDay.  A job may be started again while it runs, and any   *)
(* night may pass without it.                                              *)
(***************************************************************************)
CONSTANTS
    LastDay,    \* bound: the days the instance lives
    Backfill,   \* MAX_BACKFILL_DAYS
    ClosingDay  \* the first day on which the order is past its closing date

VARIABLES
    day,
    active,     \* the loan is ACTIVE
    accrued,    \* the days with a row of loan_interest
    capped,     \* history: a run had more days to make up for than Backfill
    unpaid,       \* outstanding principal of the debt
    interest,   \* accruedInterest of the debt
    order,      \* what was received of the order, and whether it was serviced
    health,     \* lastHealth of the order
    reds,       \* history: how often the order turned red
    alerted      \* how often the job alerted its alert

loanVars == <<active, accrued, capped>>
debtVars == <<unpaid, interest>>
orderVars == <<order, health, reds, alerted>>
accrualVars == <<day, loanVars, debtVars, orderVars>>

ASSUME AccrualsAssumption == LastDay \in Nat \ {0} /\ Backfill \in Nat \ {0} /\ ClosingDay \in Nat

Due == 2        \* what the debt is, and what the order is worth

AccrualsInit ==
    /\ day = 1
    /\ active = TRUE /\ accrued = {} /\ capped = FALSE
    /\ unpaid = Due /\ interest = 0
    /\ order = [received |-> 0, serviced |-> FALSE]
    /\ health = None /\ reds = 0 /\ alerted = 0

-----------------------------------------------------------------------------
(* LoanInterestAccrualService.accrueLoan: from the day after the last row  *)
(* to yesterday.                                                           *)

Latest(days) == IF days = {} THEN 0 ELSE CHOOSE d \in days : \A e \in days : e <= d

AccrueRead(w) ==
    /\ active
    /\ Begin(w, "accrue", [last |-> Latest(accrued), today |-> day])
    /\ UNCHANGED accrualVars

FromLast(saw) == saw.last + 1
Earliest(saw) == saw.today - Backfill
FirstDay(saw) == IF FromLast(saw) < Earliest(saw) THEN Earliest(saw) ELSE FromLast(saw)

\* createMany skips the days that have a row.
AccrueWrite(w) ==
    /\ In(w, "accrue")
    /\ LET saw == call[w].saw IN
         /\ accrued' = accrued \cup FirstDay(saw)..(saw.today - 1)
         /\ capped' = (capped \/ FirstDay(saw) # FromLast(saw))
    /\ Done(w)
    /\ UNCHANGED <<day, active, debtVars, orderVars>>

\* Outside src's services: the loan is settled by hand.
SettleLoan ==
    /\ active
    /\ active' = FALSE
    /\ UNCHANGED <<handlerVars, day, accrued, capped, debtVars, orderVars>>

-----------------------------------------------------------------------------
(* ZimraInterestAccrualService.accrueOtherTaxDebts: simple interest on     *)
(* what is outstanding, for the days since it was due.                     *)

InterestOn(principal, today) == principal * (today - 1)

DebtRead(w) ==
    /\ Begin(w, "debt", [unpaid |-> unpaid, today |-> day])
    /\ UNCHANGED accrualVars

DebtWrite(w) ==
    /\ In(w, "debt")
    /\ interest' = InterestOn(call[w].saw.unpaid, call[w].saw.today)
    /\ Done(w)
    /\ UNCHANGED <<day, loanVars, unpaid, orderVars>>

PayDebt ==
    /\ unpaid > 0
    /\ unpaid' = unpaid - 1
    /\ UNCHANGED <<handlerVars, day, loanVars, interest, orderVars>>

-----------------------------------------------------------------------------
(* OrderHealthService.evaluate, and OrderHealthRecalcService.recalcAll.    *)

Evaluate(o, today) ==
    CASE o.received >= Due -> "PAID"
      [] o.received < Due /\ o.received > 0 /\ ~o.serviced -> "ADVANCE_PAID"
      [] o.received < Due /\ o.serviced /\ today >= ClosingDay -> "OVERDUE_PAYMENT"
      [] o.received < Due /\ o.serviced /\ today < ClosingDay -> "AWAITING_PAYMENT"
      [] o.received = 0 /\ ~o.serviced /\ today >= ClosingDay -> "OVERDUE_SERVICE"
      [] OTHER -> "OPEN"

Red == {"OVERDUE_PAYMENT", "OVERDUE_SERVICE"}

\* All orders are read before the first is written; a PAID one is passed over.
RecalcRead(w) ==
    /\ health # "PAID"
    /\ Begin(w, "health", [was |-> health, next |-> Evaluate(order, day)])
    /\ UNCHANGED accrualVars

RecalcWrite(w) ==
    /\ In(w, "health")
    /\ LET saw == call[w].saw
           turns == saw.next \in Red /\ saw.was \notin Red
       IN /\ health' = saw.next
          /\ reds' = reds + (IF saw.next \in Red /\ health \notin Red THEN 1 ELSE 0)
          /\ IF turns THEN Step(w, "redAlert", None) ELSE Done(w)
    /\ UNCHANGED <<day, loanVars, debtVars, order, alerted>>

\* raiseRedAlert, after the new health was written (AlertService: Alerts).
RaiseRedAlert(w) ==
    /\ In(w, "redAlert")
    /\ alerted' = alerted + 1
    /\ Done(w)
    /\ UNCHANGED <<day, loanVars, debtVars, order, health, reds>>

\* OrdersService.recordReceipt and markServiced.
ReceivePart ==
    /\ order.received < Due
    /\ order' = [order EXCEPT !.received = @ + 1]
    /\ UNCHANGED <<handlerVars, day, loanVars, debtVars, health, reds, alerted>>

MarkServiced ==
    /\ ~order.serviced
    /\ order' = [order EXCEPT !.serviced = TRUE]
    /\ UNCHANGED <<handlerVars, day, loanVars, debtVars, health, reds, alerted>>

-----------------------------------------------------------------------------

NightFalls ==
    /\ day < LastDay
    /\ day' = day + 1
    /\ UNCHANGED <<handlerVars, loanVars, debtVars, orderVars>>

LoanNext ==
    \/ \E w \in Workers : \/ AccrueRead(w) \/ AccrueWrite(w)
                          \/ In(w, "accrue") /\ Crash(w) /\ UNCHANGED accrualVars
    \/ SettleLoan \/ NightFalls

DebtNext ==
    \/ \E w \in Workers : \/ DebtRead(w) \/ DebtWrite(w)
                          \/ In(w, "debt") /\ Crash(w) /\ UNCHANGED accrualVars
    \/ PayDebt \/ NightFalls

HealthNext ==
    \/ \E w \in Workers : \/ RecalcRead(w) \/ RecalcWrite(w) \/ RaiseRedAlert(w)
                          \/ call[w].at \in {"health", "redAlert"} /\ Crash(w) /\ UNCHANGED accrualVars
    \/ ReceivePart \/ MarkServiced \/ NightFalls

-----------------------------------------------------------------------------

AccrualsTypeOK ==
    /\ day \in 1..LastDay /\ accrued \subseteq 1..LastDay
    /\ {active, capped, order.serviced} \subseteq BOOLEAN
    /\ {unpaid, interest, order.received, reds, alerted} \subseteq Nat

\* Only days that passed bear interest, and as long as no run had more to make
\* up for than it may, none is missing up to the last: also when runs overlap
\* or fail.  The debt never bears more interest than its whole principal would.
AccrualsFounded ==
    /\ \A d \in accrued : d < day
    /\ ~capped => accrued = 1..Latest(accrued)
    /\ interest <= InterestOn(Due, day)

\* An alert for each time the order turned red.
AccrualsAgree == AtRest => alerted = reds

\* What a day bore in interest it bears, and a paid order stays paid.
AccrualsKept ==
    /\ accrued \subseteq accrued'
    /\ ~overlapped' /\ health = "PAID" => health' = "PAID"

=============================================================================
