---------------------------- MODULE Adjustments ----------------------------
(***************************************************************************)
(* Back pay and acting allowances (apps/api/src/payroll-adjustments/       *)
(* back-pay.service.ts and acting.service.ts): a batch of differences and  *)
(* an assignment go from DRAFT over SUBMITTED to APPROVED by requests of   *)
(* their own, without the approval engine, and raise extra earnings that   *)
(* the next payroll run takes (Payroll).                                   *)
(*                                                                         *)
(* Of a difference only whether it is zero is kept, of an allowance the    *)
(* days it pays for.  Days are counted from 1 on.                          *)
(***************************************************************************)
EXTENDS Handlers, Sequences, FiniteSetsExt, Bags

CONSTANTS
    Employees,      \* of a back-pay batch
    Assignments,    \* acting assignments of one employee
    MonthEnds,      \* the last day of each month
    MinDays         \* minQualifyingDays of every assignment

VARIABLES
    batch,      \* status of the back-pay batch
    owed,       \* the employees whose differences do not add up to zero
    raised,     \* [Employees -> back-pay earnings raised]
    acting,     \* [Assignments -> [status, from, to]]
    allowances  \* raised: a bag of [assignment, month, days]

batchVars == <<batch, owed, raised>>
actingVars == <<acting, allowances>>
adjustmentVars == <<batchVars, actingVars>>

ASSUME AdjustmentsAssumption ==
    /\ MinDays \in Nat
    /\ MonthEnds \in Seq(Nat \ {0})
    /\ \A m, n \in DOMAIN MonthEnds : m < n => MonthEnds[m] < MonthEnds[n]

Months == DOMAIN MonthEnds
Days == 1 .. MonthEnds[Len(MonthEnds)]

AdjustmentInit ==
    /\ batch = "NONE" /\ owed = {} /\ raised = [e \in Employees |-> 0]
    /\ acting = [x \in Assignments |-> [status |-> "NONE", from |-> 0, to |-> 0]]
    /\ allowances = EmptyBag

-----------------------------------------------------------------------------
(* Back pay. *)

\* createBatch: one line for each employee and period that differs.
CreateBatch(w, some) ==
    /\ Free(w)
    /\ batch = "NONE"
    /\ batch' = "DRAFT"
    /\ owed' = some
    /\ UNCHANGED <<handlerVars, raised, actingVars>>

SubmitBatchRead(w) ==
    /\ batch = "DRAFT"
    /\ Begin(w, "submitBatch", None)
    /\ UNCHANGED adjustmentVars

SubmitBatchWrite(w) ==
    /\ In(w, "submitBatch")
    /\ batch' = "SUBMITTED"
    /\ Done(w)
    /\ UNCHANGED <<owed, raised, actingVars>>

ApproveBatchRead(w) ==
    /\ batch = "SUBMITTED"
    /\ Begin(w, "approveBatch", [owed |-> owed])
    /\ UNCHANGED adjustmentVars

\* One transaction raises the earnings and sets the status.
ApproveBatchWrite(w) ==
    /\ In(w, "approveBatch")
    /\ raised' = [e \in Employees |-> IF e \in call[w].saw.owed THEN raised[e] + 1 ELSE raised[e]]
    /\ batch' = "APPROVED"
    /\ Done(w)
    /\ UNCHANGED <<owed, actingVars>>

-----------------------------------------------------------------------------
(* Acting assignments of one employee. *)

Meet(a, from, to) == a.status # "NONE" /\ a.from <= to /\ a.to >= from

\* create: assertNoOverlap; no status excludes an assignment yet.
CreateActingRead(w, x, from, to) ==
    /\ acting[x].status = "NONE" /\ \A v \in Workers : In(v, "createActing") => call[v].saw.id # x
    /\ from <= to
    /\ \A other \in Assignments : ~Meet(acting[other], from, to)
    /\ Begin(w, "createActing", [id |-> x, from |-> from, to |-> to])
    /\ UNCHANGED adjustmentVars

CreateActingWrite(w) ==
    /\ In(w, "createActing")
    /\ LET new == call[w].saw IN
         acting' = [acting EXCEPT ![new.id] = [status |-> "DRAFT", from |-> new.from, to |-> new.to]]
    /\ Done(w)
    /\ UNCHANGED <<batchVars, allowances>>

\* submit and approve: read the status, then write the next one by id.
PromoteActingRead(w, x, next) ==
    /\ acting[x].status = IF next = "SUBMITTED" THEN "DRAFT" ELSE "SUBMITTED"
    /\ Begin(w, next, x)
    /\ UNCHANGED adjustmentVars

PromoteActingWrite(w) ==
    /\ call[w].at \in {"SUBMITTED", "APPROVED"}
    /\ acting' = [acting EXCEPT ![call[w].saw].status = call[w].at]
    /\ Done(w)
    /\ UNCHANGED <<batchVars, allowances>>

-----------------------------------------------------------------------------
(* computeProration and computeActingForRun. *)

MonthStart(m) == IF m = 1 THEN 1 ELSE MonthEnds[m - 1] + 1

\* The days of a month within an assignment, the last one included.
QualifyingDays(a, m) == Max({0, Min({a.to, MonthEnds[m]}) - Max({a.from, MonthStart(m)}) + 1})

\* The earliest approved assignment that meets the month.
ComputeActingRead(w, m) ==
    /\ \E x \in Assignments :
         /\ acting[x].status = "APPROVED" /\ Meet(acting[x], MonthStart(m), MonthEnds[m])
         /\ \A y \in Assignments :
              acting[y].status = "APPROVED" /\ Meet(acting[y], MonthStart(m), MonthEnds[m]) =>
                acting[x].from <= acting[y].from
         /\ Begin(w, "computeActing", [assignment |-> x, month |-> m, days |-> QualifyingDays(acting[x], m)])
    /\ UNCHANGED adjustmentVars

\* Too few days earn nothing.  Nothing keeps a second request for the month from
\* raising the allowance again.
ComputeActingWrite(w) ==
    /\ In(w, "computeActing")
    /\ allowances' = IF call[w].saw.days >= Max({MinDays, 1}) THEN allowances (+) SetToBag({call[w].saw}) ELSE allowances
    /\ Done(w)
    /\ UNCHANGED <<batchVars, acting>>

-----------------------------------------------------------------------------

BackPayNext ==
    \E w \in Workers :
        \/ \E some \in SUBSET Employees : CreateBatch(w, some)
        \/ SubmitBatchRead(w) \/ SubmitBatchWrite(w)
        \/ ApproveBatchRead(w) \/ ApproveBatchWrite(w)
        \/ Crash(w) /\ UNCHANGED adjustmentVars

ActingNext ==
    \E w \in Workers :
        \/ \E x \in Assignments :
             \/ \E from, to \in Days : CreateActingRead(w, x, from, to)
             \/ \E next \in {"SUBMITTED", "APPROVED"} : PromoteActingRead(w, x, next)
        \/ CreateActingWrite(w) \/ PromoteActingWrite(w)
        \/ \E m \in Months : ComputeActingRead(w, m)
        \/ ComputeActingWrite(w)
        \/ Crash(w) /\ UNCHANGED adjustmentVars

-----------------------------------------------------------------------------

Assignment == [status : {"NONE", "DRAFT", "SUBMITTED", "APPROVED"}, from : Nat, to : Nat]

AdjustmentTypeOK ==
    /\ batch \in {"NONE", "DRAFT", "SUBMITTED", "APPROVED"} /\ owed \subseteq Employees
    /\ raised \in [Employees -> Nat]
    /\ acting \in [Assignments -> Assignment]
    /\ BagToSet(allowances) \subseteq [assignment : Assignments, month : Months, days : Nat]

\* However requests race and fail: back pay goes only to whom the batch owes
\* something, and an allowance pays for days of that month on which its
\* assignment was in force.
AdjustmentsAuthorised ==
    /\ \A e \in Employees : raised[e] > 0 => e \in owed
    /\ \A a \in BagToSet(allowances) :
         /\ acting[a.assignment].status # "NONE"
         /\ a.days = Cardinality({d \in Days :
                acting[a.assignment].from <= d /\ d <= acting[a.assignment].to
                /\ MonthStart(a.month) <= d /\ d <= MonthEnds[a.month]})

\* Unless requests overlap: an approved batch paid everybody it owes exactly
\* once, whatever failed; no two assignments share a day; and the allowances
\* of an employee for a month, each taken once, never pay for more days than it
\* has.
BackPayAgrees ==
    ~overlapped => \A e \in Employees : raised[e] = IF batch = "APPROVED" /\ e \in owed THEN 1 ELSE 0

ActingApart ==
    ~overlapped => \A x, y \in Assignments :
        x # y /\ acting[x].status # "NONE" => ~Meet(acting[y], acting[x].from, acting[x].to)

AllowancesFit ==
    ~overlapped => \A m \in Months :
        MapThenSumSet(LAMBDA a : a.days, {b \in BagToSet(allowances) : b.month = m}) <= MonthEnds[m] - MonthStart(m) + 1

AdjustmentsAgree == BackPayAgrees /\ ActingApart /\ AllowancesFit

\* Unless requests overlap: what was approved stays so.
AdjustmentsKept ==
    ~overlapped' =>
        /\ batch = "APPROVED" => batch' = "APPROVED"
        /\ \A x \in Assignments : acting[x].status = "APPROVED" => acting'[x].status = "APPROVED"

=============================================================================
