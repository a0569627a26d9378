------------------------------ MODULE Budgets ------------------------------
(***************************************************************************)
(* Budgets and their revisions (apps/api/src/workflows/budgets/            *)
(* budgets.service.ts): both directors approve a version, it becomes       *)
(* ACTIVE, and the version it revises is superseded, in calls of their     *)
(* own.  What was spent is compared with the lines on demand; that writes  *)
(* nothing and is left out.                                                *)
(***************************************************************************)
EXTENDS Handlers

CONSTANT Budgets    \* versions of one budget, as they are cloned

VARIABLES
    budget,     \* [Budgets -> status]
    parent      \* [Budgets -> the version it revises]

budgetVars == <<budget, parent>>

BudgetInit ==
    /\ budget = [b \in Budgets |-> "NONE"]
    /\ parent = [b \in Budgets |-> None]

\* create: the first version.
CreateBudget(w, b) ==
    /\ Free(w)
    /\ \A other \in Budgets : budget[other] = "NONE"
    /\ budget' = [budget EXCEPT ![b] = "DRAFT"]
    /\ UNCHANGED <<handlerVars, parent>>

-----------------------------------------------------------------------------
(* submit. *)

SubmitBudgetRead(w, b) ==
    /\ budget[b] \in {"DRAFT", "RETURNED"}
    /\ Begin(w, "submit", b)
    /\ UNCHANGED budgetVars

SubmitBudgetWrite(w) ==
    /\ In(w, "submit")
    /\ budget' = [budget EXCEPT ![call[w].saw] = "SUBMITTED"]
    /\ Step(w, "route", call[w].saw)
    /\ UNCHANGED parent

-----------------------------------------------------------------------------
(* activate, called back with the approval of both directors; setStatus.   *)

ActivateRead(w) ==
    /\ In(w, "activateRead")
    /\ IF budget[call[w].saw] = "ACTIVE" THEN Done(w) ELSE Step(w, "activate", call[w].saw)
    /\ UNCHANGED budgetVars

ActivateWrite(w) ==
    /\ In(w, "activate")
    /\ budget' = [budget EXCEPT ![call[w].saw] = "ACTIVE"]
    /\ IF parent[call[w].saw] # None THEN Step(w, "supersede", call[w].saw) ELSE Done(w)
    /\ UNCHANGED parent

\* Only a parent that is still ACTIVE; a failure of this call is swallowed.
Supersede(w) ==
    /\ In(w, "supersede")
    /\ LET p == parent[call[w].saw] IN
         budget' = [budget EXCEPT ![p] = IF @ = "ACTIVE" THEN "SUPERSEDED" ELSE @]
    /\ Done(w)
    /\ UNCHANGED parent

MirrorBudget(w) ==
    /\ In(w, "mirrorBudget")
    /\ budget' = [budget EXCEPT ![call[w].saw] = task[w].outcome]
    /\ Done(w)
    /\ UNCHANGED parent

-----------------------------------------------------------------------------
(* revise: clone a version in force into a new draft. *)

ReviseRead(w, b) ==
    /\ budget[b] \in {"ACTIVE", "APPROVED"}
    /\ \E new \in Budgets : budget[new] = "NONE"
    /\ Begin(w, "clone", b)
    /\ UNCHANGED budgetVars

ReviseWrite(w, new) ==
    /\ In(w, "clone")
    /\ budget[new] = "NONE"
    /\ budget' = [budget EXCEPT ![new] = "DRAFT"]
    /\ parent' = [parent EXCEPT ![new] = call[w].saw]
    /\ Done(w)

-----------------------------------------------------------------------------

BudgetRequested(w) ==
    \/ \E b \in Budgets : CreateBudget(w, b) \/ SubmitBudgetRead(w, b) \/ ReviseRead(w, b)
    \/ (\E c \in Chains, s \in Outcomes : DecideChain(w, c, s)) /\ UNCHANGED budgetVars

BudgetProceeds(w) ==
    \/ SubmitBudgetWrite(w)
    \/ (\E c \in Chains : Route(w, c)) /\ UNCHANGED budgetVars
    \/ (StartCallback(w, "activateRead", "mirrorBudget") \/ EndCallback(w)) /\ UNCHANGED budgetVars
    \/ ActivateRead(w) \/ ActivateWrite(w) \/ Supersede(w) \/ MirrorBudget(w)
    \/ \E b \in Budgets : ReviseWrite(w, b)

BudgetNext ==
    \E w \in Workers : BudgetRequested(w) \/ BudgetProceeds(w) \/ (Crash(w) /\ UNCHANGED budgetVars)

-----------------------------------------------------------------------------

BudgetStatus == {"NONE", "DRAFT", "SUBMITTED", "APPROVED", "ACTIVE", "SUPERSEDED"} \cup Outcomes

BudgetTypeOK ==
    /\ budget \in [Budgets -> BudgetStatus]
    /\ parent \in [Budgets -> Budgets \cup {None}]

\* However requests race and fail: a version is in force, or was, only after
\* its own approval; and it is superseded only by an approved revision of it.
BudgetsAuthorised ==
    \A b \in Budgets :
        /\ budget[b] \in {"ACTIVE", "SUPERSEDED"} => ApprovedFor(b)
        /\ budget[b] = "SUPERSEDED" => \E r \in Budgets : parent[r] = b /\ ApprovedFor(r)

\* One request at a time: a version in force does not leave the version it
\* revises in force ("When a revision goes ACTIVE its predecessor is
\* superseded", line 242), and a submission waits for the directors.
BudgetsAgree ==
    AtRest => \A b \in Budgets :
        /\ budget[b] = "ACTIVE" /\ parent[b] # None => budget[parent[b]] = "SUPERSEDED"
        /\ budget[b] = "SUBMITTED" => AwaitedFor(b)

\* One request at a time: a version in force is at most superseded, which is
\* final, and a revision does not touch the version it was cloned from.
BudgetsKept ==
    ~overlapped' => \A b \in Budgets :
        /\ budget[b] = "ACTIVE" => budget'[b] \in {"ACTIVE", "SUPERSEDED"}
        /\ budget[b] = "SUPERSEDED" => budget'[b] = "SUPERSEDED"
        /\ budget[b] = "ACTIVE" /\ budget'[b] = "SUPERSEDED" =>
             \E r \in Budgets : parent[r] = b /\ budget[r] = "ACTIVE"

=============================================================================
