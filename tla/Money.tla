------------------------------- MODULE Money -------------------------------
(***************************************************************************)
(* What moves or counts money around the core: petty cash, budgets, back   *)
(* pay and acting allowances, revenue postings, statutory returns, the     *)
(* nightly accruals and the importer.  They share the workers, the engine  *)
(* and how a request may fail, and no row; so a behaviour is about one of  *)
(* them, the part, and leaves the tables of the others as they began.      *)
(***************************************************************************)
EXTENDS PettyCash, Budgets, Adjustments, FinancialRecords, Returns, Import

CONSTANT Parts      \* the parts an instance is about

VARIABLE part

vars == <<part, handlerVars, pettyVars, budgetVars, adjustmentVars, receiptVars,
          returnVars, accrualVars, importVars>>

MoneyInit ==
    /\ part \in Parts
    /\ HandlersInit
    /\ PettyInit /\ BudgetInit /\ AdjustmentInit /\ ReceiptsInit
    /\ ReturnsInit /\ AccrualsInit /\ ImportInit
    \* A part that is idle begins in one way.
    /\ part # "returns" => ~late
    /\ part # "import" => book = CHOOSE b \in Books : TRUE

PettyPart ==
    /\ part = "petty" /\ PettyNext
    /\ UNCHANGED <<part, budgetVars, adjustmentVars, receiptVars,
                   returnVars, accrualVars, importVars>>

BudgetPart ==
    /\ part = "budgets" /\ BudgetNext
    /\ UNCHANGED <<part, pettyVars, adjustmentVars, receiptVars,
                   returnVars, accrualVars, importVars>>

BackPayPart ==
    /\ part = "backPay" /\ BackPayNext
    /\ UNCHANGED <<part, pettyVars, budgetVars, receiptVars,
                   returnVars, accrualVars, importVars>>

ActingPart ==
    /\ part = "acting" /\ ActingNext
    /\ UNCHANGED <<part, pettyVars, budgetVars, receiptVars,
                   returnVars, accrualVars, importVars>>

ReceiptsPart ==
    /\ part = "receipts" /\ ReceiptsNext
    /\ UNCHANGED <<part, pettyVars, budgetVars, adjustmentVars,
                   returnVars, accrualVars, importVars>>

ReturnsPart ==
    /\ part = "returns" /\ ReturnsNext
    /\ UNCHANGED <<part, pettyVars, budgetVars, adjustmentVars,
                   receiptVars, accrualVars, importVars>>

LoanPart ==
    /\ part = "loan" /\ LoanNext
    /\ UNCHANGED <<part, pettyVars, budgetVars, adjustmentVars,
                   receiptVars, returnVars, importVars>>

DebtPart ==
    /\ part = "debt" /\ DebtNext
    /\ UNCHANGED <<part, pettyVars, budgetVars, adjustmentVars,
                   receiptVars, returnVars, importVars>>

HealthPart ==
    /\ part = "health" /\ HealthNext
    /\ UNCHANGED <<part, pettyVars, budgetVars, adjustmentVars,
                   receiptVars, returnVars, importVars>>

ImportPart ==
    /\ part = "import" /\ ImportNext
    /\ UNCHANGED <<part, pettyVars, budgetVars, adjustmentVars,
                   receiptVars, returnVars, accrualVars>>

MoneyNext ==
    \/ PettyPart \/ BudgetPart \/ BackPayPart \/ ActingPart \/ ReceiptsPart
    \/ ReturnsPart \/ LoanPart \/ DebtPart \/ HealthPart \/ ImportPart

Spec == MoneyInit /\ [][MoneyNext]_vars

-----------------------------------------------------------------------------

MoneyTypeOK ==
    /\ part \in Parts
    /\ PettyTypeOK /\ BudgetTypeOK /\ AdjustmentTypeOK /\ ReceiptsTypeOK
    /\ ReturnsTypeOK /\ AccrualsTypeOK /\ ImportTypeOK

\* However requests overlap and fail: nothing is posted, in force, raised, due
\* or accrued without what it takes, and nothing more than that.
MoneyAuthorised ==
    /\ PettyAuthorised /\ BudgetsAuthorised /\ AdjustmentsAuthorised
    /\ ReceiptsAuthorised /\ ReturnsAuthorised /\ AccrualsFounded

\* One request at a time, and none failed: what two tables say of the same
\* money agrees.  The rows and the journals of the importer, which runs alone,
\* agree with each other and with the workbook whatever failed.
MoneyAgrees ==
    /\ PettyAgrees /\ BudgetsAgree /\ AdjustmentsAgree
    /\ ReceiptsAgree /\ ReturnsAgree /\ AccrualsAgree
    /\ ImportPosted /\ ImportComplete

\* No step of a request undoes what is final, and importing the same
\* workbook again changes nothing.
MoneyKept ==
    [][/\ PettyKept /\ BudgetsKept /\ AdjustmentsKept
       /\ ReturnsKept /\ AccrualsKept /\ ImportRepeats]_vars

=============================================================================
