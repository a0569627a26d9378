-------------------------- MODULE ApprovalOutcomes --------------------------
(***************************************************************************)
(* What the approval engine promises to the modules whose subjects it      *)
(* decides, without steps, votes or roles: a chain is opened, it reaches   *)
(* an outcome, and the outcome is delivered by calling the callback the    *)
(* module registered (apps/api/src/approvals/status-transition.registry.ts *)
(* and the places in approval.service.ts that write a chain's status).     *)
(*                                                                         *)
(* With Overlap FALSE this is the engine one would like to have: a single  *)
(* outcome, delivered at most once.  With Overlap TRUE it is the engine    *)
(* whose requests run side by side: a chain that has an outcome may get    *)
(* another one, and both are delivered.  ApprovalEngine implements the     *)
(* first with one worker and the second with several; the workflow modules *)
(* are built on this module.                                               *)
(***************************************************************************)
EXTENDS Naturals

CONSTANTS
    None,       \* the chain and the outcome of a worker that carries none
    Chains,
    Workers,    \* requests in progress at a time
    Overlap     \* BOOLEAN: an outcome may be replaced

VARIABLES
    status,     \* of each chain
    task,       \* the outcome each worker is about to deliver, or delivers
    delivered   \* history: how often each outcome was delivered

outcomeVars == <<status, task, delivered>>

Outcomes == {"APPROVED", "REJECTED", "RETURNED"}

Task == [phase : {"none", "due", "calling"},
         chain : Chains \cup {None}, outcome : Outcomes \cup {None}]

NoTask == [phase |-> "none", chain |-> None, outcome |-> None]

OutcomesInit ==
    /\ status = [c \in Chains |-> "NONE"]
    /\ task = [w \in Workers |-> NoTask]
    /\ delivered = [c \in Chains |-> [s \in Outcomes |-> 0]]

\* submit creates the chain.
Open(c) ==
    /\ status[c] = "NONE"
    /\ status' = [status EXCEPT ![c] = "PENDING"]
    /\ UNCHANGED <<task, delivered>>

\* A decision closes or returns the chain.
Resolve(w, c, s) ==
    /\ task[w].phase = "none"
    /\ IF Overlap THEN status[c] # "NONE" ELSE status[c] = "PENDING"
    /\ status' = [status EXCEPT ![c] = s]
    /\ task' = [task EXCEPT ![w] = [phase |-> "due", chain |-> c, outcome |-> s]]
    /\ UNCHANGED delivered

\* The registry calls the callback.
Deliver(w) ==
    /\ task[w].phase = "due"
    /\ task' = [task EXCEPT ![w].phase = "calling"]
    /\ delivered' = [delivered EXCEPT ![task[w].chain][task[w].outcome] = @ + 1]
    /\ UNCHANGED status

\* The callback is over, whether it returned or threw.
Return(w) ==
    /\ task[w].phase = "calling"
    /\ task' = [task EXCEPT ![w] = NoTask]
    /\ UNCHANGED <<status, delivered>>

\* The worker fails before or during the callback.
Lose(w) ==
    /\ task[w].phase # "none"
    /\ task' = [task EXCEPT ![w] = NoTask]
    /\ UNCHANGED <<status, delivered>>

OutcomesNext ==
    \/ \E c \in Chains : Open(c)
    \/ \E w \in Workers :
         \/ \E c \in Chains, s \in Outcomes : Resolve(w, c, s)
         \/ Deliver(w) \/ Return(w) \/ Lose(w)

OutcomesSpec == OutcomesInit /\ [][OutcomesNext]_outcomeVars

=============================================================================
