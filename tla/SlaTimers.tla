------------------------------ MODULE SlaTimers ------------------------------
(***************************************************************************)
(* The hourly sweep over undecided approval steps (runSlaTimers of         *)
(* apps/api/src/approvals/approval.service.ts): a reminder past T1, an     *)
(* escalation past T2, each at most once for a step, against the decisions *)
(* that make the next step current and start its clock.  A chain of two    *)
(* steps, of which one is current.                                         *)
(***************************************************************************)
EXTENDS Handlers

VARIABLES
    current,    \* the chain's current step, 0 before it is submitted
    clock,      \* how old activatedAt of each step is: 0, past T1, past T2
    waited,     \* history: how long each step has been current
    reminded, escalated,    \* the stamps of each step
    reminders, escalations  \* history: the notices sent about each step

slaVars == <<current, clock, waited, reminded, escalated, reminders, escalations>>

StepOrders == {1, 2}
T1 == 1
T2 == 2
TheChain == CHOOSE c \in Chains : TRUE

ASSUME SlaAssumption == Chains # {}

SlaInit ==
    /\ current = 0
    /\ clock = [s \in StepOrders |-> 0]
    /\ waited = [s \in StepOrders |-> 0]
    /\ reminded = [s \in StepOrders |-> FALSE]
    /\ escalated = [s \in StepOrders |-> FALSE]
    /\ reminders = [s \in StepOrders |-> 0]
    /\ escalations = [s \in StepOrders |-> 0]

Pending == status[TheChain] = "PENDING"

-----------------------------------------------------------------------------

\* submit creates every step, and with it the clock of every step.
SlaSubmit(w) ==
    /\ Free(w)
    /\ Open(TheChain)
    /\ current' = 1
    /\ overlapped' = (overlapped \/ ~Alone(w))
    /\ UNCHANGED <<call, failures, subject, clock, waited, reminded, escalated, reminders, escalations>>

\* Time passes for the clocks of all steps, for the wait of the current one.
HoursPass ==
    /\ Pending
    /\ \E s \in StepOrders : clock[s] < T2
    /\ clock' = [s \in StepOrders |-> IF clock[s] < T2 THEN clock[s] + 1 ELSE T2]
    /\ waited' = [waited EXCEPT ![current] = IF @ < T2 THEN @ + 1 ELSE T2]
    /\ UNCHANGED <<handlerVars, current, reminded, escalated, reminders, escalations>>

\* advanceOnApproval: currentStep in one call, activatedAt in the next.
AdvanceStep(w) ==
    /\ Pending
    /\ current = 1
    /\ current' = 2
    /\ Begin(w, "clock", None)
    /\ UNCHANGED <<clock, waited, reminded, escalated, reminders, escalations>>

StartClock(w) ==
    /\ In(w, "clock")
    /\ clock' = [clock EXCEPT ![2] = 0]
    /\ Done(w)
    /\ UNCHANGED <<current, waited, reminded, escalated, reminders, escalations>>

DecideLast(w) ==
    /\ \/ current = 2 /\ DecideChain(w, TheChain, "APPROVED")
       \/ DecideChain(w, TheChain, "REJECTED")
    /\ UNCHANGED slaVars

\* runSlaTimers: the active step as it was read.
SlaSweep(w) ==
    /\ Pending
    /\ LET seen(what) == [step |-> current, what |-> what]
       IN \/ clock[current] >= T2 /\ ~escalated[current] /\ Begin(w, "notice", seen("escalate"))
          \/ /\ clock[current] >= T1 /\ ~reminded[current]
             /\ ~(clock[current] >= T2 /\ ~escalated[current])
             /\ Begin(w, "notice", seen("remind"))
    /\ UNCHANGED slaVars

\* escalateStep and remindStep, then the stamps; an escalation stamps both.
SlaNotice(w) ==
    /\ In(w, "notice")
    /\ LET s == call[w].saw.step
       IN IF call[w].saw.what = "escalate"
            THEN escalations' = [escalations EXCEPT ![s] = @ + 1] /\ UNCHANGED reminders
            ELSE reminders' = [reminders EXCEPT ![s] = @ + 1] /\ UNCHANGED escalations
    /\ Step(w, "stamp", call[w].saw)
    /\ UNCHANGED <<current, clock, waited, reminded, escalated>>

SlaStamp(w) ==
    /\ In(w, "stamp")
    /\ LET s == call[w].saw.step
       IN /\ reminded' = [reminded EXCEPT ![s] = TRUE]
          /\ IF call[w].saw.what = "escalate"
               THEN escalated' = [escalated EXCEPT ![s] = TRUE]
               ELSE UNCHANGED escalated
    /\ Done(w)
    /\ UNCHANGED <<current, clock, waited, reminders, escalations>>

SlaCalls == {"clock", "notice", "stamp"}

SlaJobs(w) == StartClock(w) \/ SlaNotice(w) \/ SlaStamp(w)

SlaStep(w) ==
    \/ SlaSubmit(w) \/ AdvanceStep(w) \/ DecideLast(w) \/ SlaSweep(w) \/ SlaJobs(w)
    \/ call[w].at \in SlaCalls /\ Crash(w) /\ UNCHANGED slaVars

SlaNext == (\E w \in Workers : SlaStep(w)) \/ HoursPass

\* Time passes, the sweep comes every hour whatever else the server does, and a
\* handler that began goes on.
SlaFairness ==
    /\ WF_slaVars(HoursPass)
    /\ SF_<<handlerVars, slaVars>>(\E w \in Workers : SlaSweep(w))
    /\ \A w \in Workers : WF_<<handlerVars, slaVars>>(SlaJobs(w))

-----------------------------------------------------------------------------

SlaTypeOK ==
    /\ current \in 0 .. 2
    /\ clock \in [StepOrders -> 0 .. T2] /\ waited \in [StepOrders -> 0 .. T2]
    /\ reminded \in [StepOrders -> BOOLEAN] /\ escalated \in [StepOrders -> BOOLEAN]
    /\ reminders \in [StepOrders -> Nat] /\ escalations \in [StepOrders -> Nat]

\* Whatever overlaps or fails: a stamp is never set without its notice, and
\* nobody is told of a step that has not been reached.
StampsAreFounded ==
    \A s \in StepOrders :
        /\ escalated[s] => escalations[s] > 0
        /\ reminded[s] => reminders[s] + escalations[s] > 0
        /\ reminders[s] + escalations[s] > 0 => current >= s

\* "each fires at most once per step" (approval.service.ts:553), and none
\* before the step was current for that long.
TimersFireOnce ==
    Orderly => \A s \in StepOrders :
        /\ reminders[s] <= 1 /\ escalations[s] <= 1
        /\ reminders[s] > 0 => waited[s] >= T1
        /\ escalations[s] > 0 => waited[s] >= T2

StampsAreKept ==
    \A s \in StepOrders : (reminded[s] => reminded'[s]) /\ (escalated[s] => escalated'[s])

\* A step that stays undecided is escalated.
EscalationComes ==
    \A s \in StepOrders : (Pending /\ current = s) ~> (escalated[s] \/ current # s \/ ~Pending)

=============================================================================
