----------------------------- MODULE Timesheets -----------------------------
(***************************************************************************)
(* The timesheet period of one site and month                              *)
(* (apps/api/src/timesheets/timesheets.service.ts): its grid of hours is   *)
(* filled while it is OPEN, the site manager approves it through the       *)
(* approval engine, it is locked, and it can be reopened unless payroll    *)
(* already used it.  Of the grid only its version is kept: 0 when it is    *)
(* empty, and one more with every batch of rows that is saved.             *)
(*                                                                         *)
(* A definition named for a mistake is what its successor must not be.     *)
(***************************************************************************)
EXTENDS Requests

CONSTANT MaxEdits   \* bound: how often the grid is saved

VARIABLES
    period,     \* status of the period
    entries,    \* version of its grid
    granted,    \* history: the versions it had when a site manager's approval was recorded
    subject,    \* what each chain is about: "period", "run", or "none"
    run         \* status of the payroll run of this site and month, or "NONE"

timesheetVars == <<period, entries, granted, subject>>

Consumable == {"SITE_APPROVED", "LOCKED"}

TimesheetInit ==
    /\ period = "OPEN"
    /\ entries = 0
    /\ granted = {}
    /\ subject = [c \in Chains |-> "none"]

-----------------------------------------------------------------------------
(* upsertEntries: check that the period is open, then save all rows. *)

UpsertAnytime(w) ==
    /\ Free(w) /\ entries < MaxEdits
    /\ Go(w, "upsert", None)
    /\ UNCHANGED <<outcomeVars, timesheetVars, run>>

UpsertRead(w) ==
    /\ Free(w) /\ entries < MaxEdits
    /\ period = "OPEN"
    /\ Go(w, "upsert", None)
    /\ UNCHANGED <<outcomeVars, timesheetVars, run>>

UpsertBackwards(w) ==
    /\ In(w, "upsert")
    /\ entries' = entries - 1
    /\ Leave(w)
    /\ UNCHANGED <<outcomeVars, period, granted, subject, run>>

UpsertWrite(w) ==
    /\ In(w, "upsert")
    /\ entries' = entries + 1
    /\ Leave(w)
    /\ UNCHANGED <<outcomeVars, period, granted, subject, run>>

-----------------------------------------------------------------------------
(* submit: the period stays OPEN while the site manager looks at it. *)

SubmitPeriodRead(w) ==
    /\ Free(w)
    /\ period = "OPEN"
    /\ entries > 0
    /\ Go(w, "askSite", None)
    /\ UNCHANGED <<outcomeVars, timesheetVars, run>>

SubmitPeriodRoute(w, c) ==
    /\ In(w, "askSite")
    /\ Open(c)
    /\ subject' = [subject EXCEPT ![c] = "period"]
    /\ Leave(w)
    /\ UNCHANGED <<period, entries, granted, run>>

-----------------------------------------------------------------------------
(* markSiteApproved, called back with the approval; other outcomes leave   *)
(* the period OPEN.                                                        *)

StartPeriodCallback(w) ==
    /\ Deliver(w)
    /\ subject[task[w].chain] = "period"
    /\ Go(w, IF task[w].outcome = "APPROVED" THEN "siteRead" ELSE "none", None)
    /\ UNCHANGED <<timesheetVars, run>>

MarkReadInverted(w) ==
    /\ In(w, "siteRead")
    /\ IF period = "OPEN" THEN Leave(w) ELSE Go(w, "siteWrite", None)
    /\ UNCHANGED <<outcomeVars, timesheetVars, run>>

MarkRead(w) ==
    /\ In(w, "siteRead")
    /\ IF period = "OPEN" THEN Go(w, "siteWrite", None) ELSE Leave(w)
    /\ UNCHANGED <<outcomeVars, timesheetVars, run>>

MarkWrite(w) ==
    /\ In(w, "siteWrite")
    /\ period' = "SITE_APPROVED"
    /\ granted' = granted \cup {entries}
    /\ Leave(w)
    /\ UNCHANGED <<outcomeVars, entries, subject, run>>

-----------------------------------------------------------------------------
(* lock and reopen.  (requestReopen only records the wish.) *)

LockRead(w) ==
    /\ Free(w)
    /\ period = "SITE_APPROVED"
    /\ Go(w, "lock", None)
    /\ UNCHANGED <<outcomeVars, timesheetVars, run>>

LockWrite(w) ==
    /\ In(w, "lock")
    /\ period' = "LOCKED"
    /\ Leave(w)
    /\ UNCHANGED <<outcomeVars, entries, granted, subject, run>>

ReopenRead(w, force) ==
    /\ Free(w)
    /\ period \in Consumable
    /\ Go(w, IF force THEN "reopenForced" ELSE "reopen", None)
    /\ UNCHANGED <<outcomeVars, timesheetVars, run>>

\* A run past DRAFT has used the hours; only force opens the period then.
ReopenCheck(w) ==
    /\ \/ In(w, "reopenForced") /\ Go(w, "unlock", None)
       \/ In(w, "reopen") /\ IF run \in {"NONE", "DRAFT"} THEN Go(w, "unlock", None) ELSE Leave(w)
    /\ UNCHANGED <<outcomeVars, timesheetVars, run>>

ReopenWrite(w) ==
    /\ In(w, "unlock")
    /\ period' = "OPEN"
    /\ Leave(w)
    /\ UNCHANGED <<outcomeVars, entries, granted, subject, run>>

-----------------------------------------------------------------------------

TimesheetRequested(w) ==
    \/ UpsertRead(w) \/ SubmitPeriodRead(w) \/ LockRead(w)
    \/ \E force \in BOOLEAN : ReopenRead(w, force)

TimesheetProceeds(w) ==
    \/ UpsertWrite(w)
    \/ \E c \in Chains : SubmitPeriodRoute(w, c)
    \/ StartPeriodCallback(w) \/ MarkRead(w) \/ MarkWrite(w)
    \/ LockWrite(w) \/ ReopenCheck(w) \/ ReopenWrite(w)

=============================================================================
