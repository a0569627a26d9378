------------------------------ MODULE Payroll ------------------------------
(***************************************************************************)
(* The payroll run of one site and month, from the approved timesheet to   *)
(* the ledger (apps/api/src/payroll/payroll.service.ts), and the extra     *)
(* earnings that back-pay batches and acting assignments put into it       *)
(* (apps/api/src/payroll-adjustments).  How a pay line is calculated is    *)
(* left out; the lines of a run are the hours they were calculated from    *)
(* and the extra earnings they contain.                                    *)
(***************************************************************************)
EXTENDS Timesheets, Sequences

CONSTANT Extras     \* the extra earnings that may be raised

VARIABLES
    lines,      \* the pay lines of the run
    extra,      \* of each extra earning: not raised, due, or taken by the run
    postable,   \* currencies in which the run costs something and there is an account
    posted,     \* history: the lines the journals of each currency were posted for
    obliged     \* the lines the statutory obligations were generated from

payrollVars == <<run, lines, extra, posted, obliged>>
cycleVars == <<outcomeVars, timesheetVars, call, failures, payrollVars, postable>>

Currencies == {"USD", "ZWG"}
NoLines == [hours |-> 0, extras |-> {}]

Init ==
    /\ RequestsInit /\ TimesheetInit
    /\ run = "NONE"
    /\ lines = NoLines
    /\ extra = [x \in Extras |-> "none"]
    /\ postable \in SUBSET Currencies
    /\ posted = [cur \in Currencies |-> <<>>]
    /\ obliged = NoLines

-----------------------------------------------------------------------------
(* openRun: of an approved timesheet, once per site and month. *)

OpenInFlight(w) ==
    /\ Free(w)
    /\ run = "NONE"
    /\ Go(w, "open", None)
    /\ UNCHANGED <<outcomeVars, timesheetVars, payrollVars>>

OpenRead(w) ==
    /\ Free(w)
    /\ period \in Consumable
    /\ run = "NONE"
    /\ Go(w, "open", None)
    /\ UNCHANGED <<outcomeVars, timesheetVars, payrollVars>>

\* The second of two runs for the month is refused by the database.
OpenWrite(w) ==
    /\ In(w, "open")
    /\ run' = IF run = "NONE" THEN "DRAFT" ELSE run
    /\ Leave(w)
    /\ UNCHANGED <<outcomeVars, timesheetVars, lines, extra, posted, obliged>>

-----------------------------------------------------------------------------
(* computeRun: read the run, the period with its grid and the earnings not *)
(* yet taken; then replace the lines in one transaction.                   *)

ComputeRead(w) ==
    /\ Free(w)
    /\ run \in {"DRAFT", "CHECKED"}
    /\ Go(w, "compute", None)
    /\ UNCHANGED <<outcomeVars, timesheetVars, payrollVars>>

ComputeInFlight(w) ==
    /\ In(w, "compute")
    /\ Go(w, "earnings", [hours |-> entries, extras |-> {}])
    /\ UNCHANGED <<outcomeVars, timesheetVars, payrollVars>>

ComputePeriod(w) ==
    /\ In(w, "compute")
    /\ IF period \in Consumable
         THEN Go(w, "earnings", [hours |-> entries, extras |-> {}])
         ELSE Leave(w)
    /\ UNCHANGED <<outcomeVars, timesheetVars, payrollVars>>

ComputeEarnings(w) ==
    /\ In(w, "earnings")
    /\ Go(w, "lines", [call[w].saw EXCEPT !.extras = {x \in Extras : extra[x] = "due"}])
    /\ UNCHANGED <<outcomeVars, timesheetVars, payrollVars>>

ComputeUnstamped(w) ==
    /\ In(w, "lines")
    /\ lines' = call[w].saw
    /\ run' = "CHECKED"
    /\ Leave(w)
    /\ UNCHANGED <<outcomeVars, timesheetVars, extra, posted, obliged>>

\* The status is not looked at again.
ComputeWrite(w) ==
    /\ In(w, "lines")
    /\ lines' = call[w].saw
    /\ extra' = [x \in Extras |-> IF x \in call[w].saw.extras THEN "taken" ELSE extra[x]]
    /\ run' = "CHECKED"
    /\ Leave(w)
    /\ UNCHANGED <<outcomeVars, timesheetVars, posted, obliged>>

-----------------------------------------------------------------------------
(* submit: the run stays CHECKED while the finance director looks at it. *)

SubmitRunUncomputed(w) ==
    /\ Free(w)
    /\ run # "NONE"
    /\ Go(w, "askFd", None)
    /\ UNCHANGED <<outcomeVars, timesheetVars, payrollVars>>

SubmitRunRead(w) ==
    /\ Free(w)
    /\ run = "CHECKED"
    /\ Go(w, "askFd", None)
    /\ UNCHANGED <<outcomeVars, timesheetVars, payrollVars>>

SubmitRunRoute(w, c) ==
    /\ In(w, "askFd")
    /\ Open(c)
    /\ subject' = [subject EXCEPT ![c] = "run"]
    /\ Leave(w)
    /\ UNCHANGED <<period, entries, granted, payrollVars>>

-----------------------------------------------------------------------------
(* onApproved: set APPROVED, post the employer cost currency by currency,  *)
(* generate the statutory obligations; other outcomes change nothing.      *)

StartRunCallback(w) ==
    /\ Deliver(w)
    /\ subject[task[w].chain] = "run"
    /\ Go(w, IF task[w].outcome = "APPROVED" THEN "runRead" ELSE "none", None)
    /\ UNCHANGED <<timesheetVars, payrollVars>>

ApproveAgain(w) ==
    /\ In(w, "runRead")
    /\ Go(w, "runWrite", None)
    /\ UNCHANGED <<outcomeVars, timesheetVars, payrollVars>>

ApproveRead(w) ==
    /\ In(w, "runRead")
    /\ IF run \in {"DRAFT", "CHECKED"} THEN Go(w, "runWrite", None) ELSE Leave(w)
    /\ UNCHANGED <<outcomeVars, timesheetVars, payrollVars>>

ApproveWrite(w) ==
    /\ In(w, "runWrite")
    /\ run' = "APPROVED"
    /\ Go(w, "cost", None)
    /\ UNCHANGED <<outcomeVars, timesheetVars, lines, extra, posted, obliged>>

PostCost(w) ==
    /\ In(w, "cost")
    /\ Go(w, "USD", lines)
    /\ UNCHANGED <<outcomeVars, timesheetVars, payrollVars>>

\* Without an account of its currency a leg is skipped.
PostLeg(w, cur, next) ==
    /\ In(w, cur)
    /\ posted' = IF cur \in postable THEN [posted EXCEPT ![cur] = Append(@, call[w].saw)] ELSE posted
    /\ Go(w, next, call[w].saw)
    /\ UNCHANGED <<outcomeVars, timesheetVars, run, lines, extra, obliged>>

\* Generated from the lines as they are now, replacing what was generated.
Oblige(w) ==
    /\ In(w, "oblige")
    /\ obliged' = lines
    /\ Leave(w)
    /\ UNCHANGED <<outcomeVars, timesheetVars, run, lines, extra, posted>>

-----------------------------------------------------------------------------
(* Extra earnings: the approval of a back-pay batch emits one for every    *)
(* employee, and an acting allowance is raised on request, for a run at    *)
(* once if the request names it.                                           *)

BackPay(w, x) ==
    /\ Free(w)
    /\ extra[x] = "none"
    /\ extra' = [extra EXCEPT ![x] = "due"]
    /\ UNCHANGED <<outcomeVars, timesheetVars, call, run, lines, posted, obliged>>

ActingAllowance(w, x, named) ==
    /\ Free(w)
    /\ extra[x] = "none"
    /\ named => run # "NONE"
    /\ extra' = [extra EXCEPT ![x] = IF named THEN "taken" ELSE "due"]
    /\ UNCHANGED <<outcomeVars, timesheetVars, call, run, lines, posted, obliged>>

-----------------------------------------------------------------------------
(* The whole. *)

DecideChain(w, c, s) ==
    /\ Free(w)
    /\ Resolve(w, c, s)
    /\ UNCHANGED <<timesheetVars, call, payrollVars>>

EndCallback(w) ==
    /\ In(w, "none")
    /\ Return(w)
    /\ UNCHANGED <<timesheetVars, call, payrollVars>>

PayrollRequested(w) ==
    \/ OpenRead(w) \/ ComputeRead(w) \/ SubmitRunRead(w)
    \/ \E x \in Extras : BackPay(w, x)
    \/ \E x \in Extras, named \in BOOLEAN : ActingAllowance(w, x, named)
    \/ \E c \in Chains, s \in Outcomes : DecideChain(w, c, s)

PayrollProceeds(w) ==
    \/ OpenWrite(w)
    \/ ComputePeriod(w) \/ ComputeEarnings(w) \/ ComputeWrite(w)
    \/ \E c \in Chains : SubmitRunRoute(w, c)
    \/ StartRunCallback(w) \/ ApproveRead(w) \/ ApproveWrite(w)
    \/ PostCost(w) \/ PostLeg(w, "USD", "ZWG") \/ PostLeg(w, "ZWG", "oblige") \/ Oblige(w)
    \/ EndCallback(w)

PayrollRest == <<lines, extra, posted, obliged>>

Requested(w) ==
    /\ \/ TimesheetRequested(w) /\ UNCHANGED PayrollRest
       \/ PayrollRequested(w)
    /\ UNCHANGED <<failures, postable>>

Proceed(w) ==
    /\ \/ TimesheetProceeds(w) /\ UNCHANGED PayrollRest
       \/ PayrollProceeds(w)
    /\ UNCHANGED <<failures, postable>>

Fail(w) ==
    /\ Stop(w)
    /\ UNCHANGED <<timesheetVars, payrollVars, postable>>

Next == \E w \in Workers : Requested(w) \/ Proceed(w) \/ Fail(w)

Spec == Init /\ [][Next]_cycleVars

\* Requests are served to their end.
FairSpec == Spec /\ \A w \in Workers : WF_cycleVars(Proceed(w))

-----------------------------------------------------------------------------
(* What holds however requests race and wherever they fail. *)

Lines == [hours : Nat, extras : SUBSET Extras]

TypeOK ==
    /\ status \in [Chains -> {"NONE", "PENDING"} \cup Outcomes]
    /\ task \in [Workers -> Task]
    /\ delivered \in [Chains -> [Outcomes -> Nat]]
    /\ failures \in Nat
    /\ period \in {"OPEN"} \cup Consumable /\ entries \in Nat /\ granted \subseteq Nat
    /\ subject \in [Chains -> {"none", "period", "run"}]
    /\ \A c \in Chains : status[c] = "NONE" <=> subject[c] = "none"
    /\ run \in {"NONE", "DRAFT", "CHECKED", "APPROVED"}
    /\ lines \in Lines /\ obliged \in Lines
    /\ extra \in [Extras -> {"none", "due", "taken"}]
    /\ postable \subseteq Currencies
    /\ posted \in [Currencies -> Seq(Lines)]
    /\ DOMAIN call = Workers

Granted(what) == \E c \in Chains : subject[c] = what /\ delivered[c]["APPROVED"] > 0
Asked(what) == \E c \in Chains : subject[c] = what
Computed == lines.hours > 0

(***************************************************************************)
(* No wage is paid out of thin air: a journal needs a run the finance      *)
(* director approved, that run needs pay lines, the lines a run, the run a *)
(* timesheet a site manager approved, and the timesheet hours.  (openRun,  *)
(* computeRun, submit, onApproved; timesheets submit, markSiteApproved.)   *)
(***************************************************************************)
WagesAreFounded ==
    /\ \A cur \in Currencies : posted[cur] # <<>> => Granted("run")
    /\ run = "APPROVED" => Granted("run")
    /\ Asked("run") \/ run = "CHECKED" => Computed
    /\ Computed => run # "NONE" /\ lines.hours <= entries
    /\ run # "NONE" \/ period # "OPEN" => Granted("period")
    /\ Asked("period") => entries > 0

\* What a run has paid, no later run pays again: an extra earning in its
\* lines was taken ("so they are not re-applied by a later run",
\* payroll.service.ts line 323).
ExtrasAreTaken == \A x \in lines.extras : extra[x] = "taken"

(***************************************************************************)
(* A handler past its checks stands on something that was there once and   *)
(* is not undone: hours, an approval, a run, or its lines.                 *)
(***************************************************************************)
Founded(at, saw) ==
    /\ at = "askSite" => entries > 0
    /\ at \in {"siteRead", "siteWrite", "lock", "reopen", "reopenForced", "unlock", "open"}
         => Granted("period")
    /\ at \in {"compute", "earnings", "lines"} => run # "NONE"
    /\ at \in {"earnings", "lines"} => saw \in Lines /\ saw.hours \in 1 .. entries
    /\ at = "askFd" => Computed
    /\ at \in {"runRead", "runWrite", "cost", "USD", "ZWG"} => Granted("run")
    /\ at \in {"USD", "ZWG"} => saw \in Lines

HandlerFounded(w) ==
    /\ Founded(call[w].at, call[w].saw)
    /\ task[w].phase # "none" => /\ task[w].outcome \in Outcomes
                                 /\ task[w].chain \in Chains
                                 /\ subject[task[w].chain] # "none"

HandlersFounded == \A w \in Workers : HandlerFounded(w)

\* Together they are inductive.
IInv == TypeOK /\ WagesAreFounded /\ ExtrasAreTaken /\ HandlersFounded

-----------------------------------------------------------------------------
(* What holds when requests do not overlap. *)

\* Pay is calculated from hours a site manager approved ("payroll must never
\* be built from in-flight timesheet data", payroll.service.ts line 141),
\* also when the period was reopened and changed in between.
PaidHoursWereApproved == Computed => lines.hours \in granted

\* An approved grid, and the lines of an approved run, do not change
\* ("locked prevents edits", "APPROVED/PAID/LOCKED are frozen").
ApprovedIsFrozen ==
    [][/\ entries' # entries => period = "OPEN"
       /\ run = "APPROVED" => run' = "APPROVED" /\ lines' = lines]_cycleVars

(***************************************************************************)
(* Unless a handler failed, the ledger agrees with the run when nobody     *)
(* works on it: an approved run is posted once in every currency, for the  *)
(* lines it has, and has obligations for them; another is not posted.      *)
(***************************************************************************)
RunAgreesWithLedger ==
    AllFree /\ failures = 0 =>
        /\ \A cur \in Currencies :
              posted[cur] = IF run = "APPROVED" /\ cur \in postable THEN <<lines>> ELSE <<>>
        /\ obliged = IF run = "APPROVED" THEN lines ELSE NoLines

(***************************************************************************)
(* Every approval arrives, unless a handler fails: the hours can be paid,  *)
(* the run is posted in every currency it can be posted in.                *)
(***************************************************************************)
Arriving(c, what) == subject[c] = what /\ status[c] = "APPROVED" /\ delivered[c]["APPROVED"] = 0

ApprovalsArrive ==
    [](failures = 0) => \A c \in Chains :
        /\ Arriving(c, "period") ~> period \in Consumable
        /\ Arriving(c, "run") ~> run = "APPROVED" /\ \A cur \in postable : posted[cur] # <<>>

=============================================================================
