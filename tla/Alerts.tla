------------------------------- MODULE Alerts -------------------------------
(***************************************************************************)
(* The alerts of the command centre                                        *)
(* (apps/api/src/command-centre/danger/alert.service.ts), the danger       *)
(* engine that raises and resolves them every hour (danger-engine.         *)
(* service.ts), the statutory calendar that raises them every morning and  *)
(* resolves them when an obligation is remitted (apps/api/src/compliance/  *)
(* compliance.service.ts), and the job that repeats the grave ones.        *)
(*                                                                         *)
(* One subject for each rule: "ratio" stands for the rules about a figure, *)
(* which resolve their alert when the figure is well again, "subject" for  *)
(* zimra_overdue and deadline_breach, which only look for what is wrong.   *)
(***************************************************************************)
EXTENDS Handlers, Sequences

CONSTANT MaxAlerts      \* bound: rows of the table alerts

VARIABLES
    alerts,     \* the table alerts, with how often each was sent
    due,        \* how near the date of the obligation is
    remitted    \* the obligation is REMITTED

alertVars == <<alerts, due, remitted>>

EngineRules == {"ratio", "subject"}
CalendarRules == {"overdue", "soon"}
AlertRules == EngineRules \cup CalendarRules
Severities == {"WATCH", "DANGER"}
Findings == [ratio |-> {"clear", "WATCH", "DANGER"}, subject |-> {"clear", "DANGER"}]

Often == 2      \* bound: how far the sends of an alert are counted

ASSUME AlertsAssumption == MaxAlerts \in Nat

AlertsInit ==
    /\ alerts = <<>>
    /\ due = "later"
    /\ remitted = FALSE

\* An alert is active while it is neither acknowledged nor resolved.
Active(i) == alerts[i].acked = None /\ ~alerts[i].resolved

-----------------------------------------------------------------------------
\* Days pass.
DueDateNears ==
    /\ due # "past"
    /\ due' = IF due = "later" THEN "soon" ELSE "past"
    /\ UNCHANGED <<handlerVars, alerts, remitted>>

-----------------------------------------------------------------------------
(* raiseOrRefresh and resolve. *)

Raising(r, s) == [rule |-> r, severity |-> s]

FindActive(w) ==
    /\ In(w, "find")
    /\ LET found == {i \in DOMAIN alerts : Active(i) /\ alerts[i].rule = call[w].saw.rule}
       IN IF found = {}
            THEN Step(w, "create", call[w].saw)
            ELSE \E i \in found : Step(w, "refresh", [id |-> i, severity |-> call[w].saw.severity])
    /\ UNCHANGED alertVars

\* A row found active is written although it may have been closed since.
Refresh(w) ==
    /\ In(w, "refresh")
    /\ LET i == call[w].saw.id
           s == call[w].saw.severity
       IN alerts' = [alerts EXCEPT ![i].severity = s, ![i].grave = @ \/ s = "DANGER"]
    /\ Done(w)
    /\ UNCHANGED <<due, remitted>>

\* At the bound a handler ends here.
CreateAlert(w) ==
    /\ In(w, "create")
    /\ LET s == call[w].saw.severity
       IN \/ /\ Len(alerts) < MaxAlerts
             /\ alerts' = Append(alerts, [rule |-> call[w].saw.rule, severity |-> s, acked |-> None,
                                          resolved |-> FALSE, sent |-> 0, grave |-> s = "DANGER"])
             /\ Step(w, "fanOut", [ids |-> {Len(alerts) + 1}])
          \/ Len(alerts) = MaxAlerts /\ Done(w) /\ UNCHANGED alerts
    /\ UNCHANGED <<due, remitted>>

\* fanOut: the alerts the handler still has to send, one after the other.
FanOut(w) ==
    /\ In(w, "fanOut")
    /\ LET ids == call[w].saw.ids
       IN \E i \in ids :
              /\ alerts' = [alerts EXCEPT ![i].sent = IF @ < Often THEN @ + 1 ELSE @]
              /\ IF ids = {i} THEN Done(w) ELSE Step(w, "fanOut", [ids |-> ids \ {i}])
    /\ UNCHANGED <<due, remitted>>

ResolveRule(r) ==
    alerts' = [i \in DOMAIN alerts |->
                  IF alerts[i].rule = r THEN [alerts[i] EXCEPT !.resolved = TRUE] ELSE alerts[i]]

-----------------------------------------------------------------------------

\* evaluateRule, for whatever the figures are by now: a figure that is well
\* again resolves its alert, a list with nothing on it resolves none.
Evaluate(w, r) ==
    /\ \E f \in Findings[r] :
           IF f # "clear" THEN Begin(w, "find", Raising(r, f)) ELSE r = "ratio" /\ Begin(w, "well", None)
    /\ UNCHANGED alertVars

ResolveFigure(w) ==
    /\ In(w, "well")
    /\ ResolveRule("ratio")
    /\ Done(w)
    /\ UNCHANGED <<due, remitted>>

\* checkDueAndOverdue, for an obligation it read as PENDING.
CalendarSweep(w) ==
    /\ ~remitted
    /\ due # "later"
    /\ Begin(w, "find", IF due = "past" THEN Raising("overdue", "DANGER") ELSE Raising("soon", "WATCH"))
    /\ UNCHANGED alertVars

\* remit: the obligation, then its alerts.
Remit(w) ==
    /\ remitted' = TRUE
    /\ Begin(w, "clearOverdue", None)
    /\ UNCHANGED <<alerts, due>>

\* Mutant: remitting only clears the warning that the obligation is overdue.
ClearOverdueOnly(w) ==
    /\ In(w, "clearOverdue")
    /\ ResolveRule("overdue")
    /\ Done(w)
    /\ UNCHANGED <<due, remitted>>

ClearOverdue(w) ==
    /\ In(w, "clearOverdue")
    /\ ResolveRule("overdue")
    /\ Step(w, "clearSoon", None)
    /\ UNCHANGED <<due, remitted>>

ClearSoon(w) ==
    /\ In(w, "clearSoon")
    /\ ResolveRule("soon")
    /\ Done(w)
    /\ UNCHANGED <<due, remitted>>

\* Mutant: only what was sent before is repeated.
UnheardBefore == {i \in DOMAIN alerts : alerts[i].severity = "DANGER" /\ Active(i) /\ alerts[i].sent > 0}

Unheard == {i \in DOMAIN alerts : alerts[i].severity = "DANGER" /\ Active(i)}

\* reNotifyUnacknowledged, the only path that sends again.
ReNotify(w) ==
    /\ Unheard # {}
    /\ Begin(w, "fanOut", [ids |-> Unheard])
    /\ UNCHANGED alertVars

\* Mutant: an acknowledgement replaces an earlier one.
AckReadAgain(w, u) ==
    /\ \E i \in DOMAIN alerts : Begin(w, "ack", [id |-> i, by |-> u])
    /\ UNCHANGED alertVars

\* ack: twice keeps the first.
AckRead(w, u) ==
    /\ \E i \in DOMAIN alerts :
           Begin(w, "ack", [id |-> i, by |-> IF alerts[i].acked = None THEN u ELSE alerts[i].acked])
    /\ UNCHANGED alertVars

AckWrite(w) ==
    /\ In(w, "ack")
    /\ alerts' = [alerts EXCEPT ![call[w].saw.id].acked = call[w].saw.by]
    /\ Done(w)
    /\ UNCHANGED <<due, remitted>>

AlertCalls == {"find", "create", "refresh", "fanOut", "well", "clearOverdue", "clearSoon", "ack"}

AlertJobs(w) ==
    \/ FindActive(w) \/ Refresh(w) \/ CreateAlert(w) \/ FanOut(w)
    \/ ResolveFigure(w) \/ ClearOverdue(w) \/ ClearSoon(w) \/ AckWrite(w)

AlertsStep(w) ==
    \/ \E r \in EngineRules : Evaluate(w, r)
    \/ CalendarSweep(w) \/ Remit(w) \/ ReNotify(w)
    \/ \E u \in People : AckRead(w, u)
    \/ AlertJobs(w)
    \/ call[w].at \in AlertCalls /\ Crash(w) /\ UNCHANGED alertVars

AlertsNext == (\E w \in Workers : AlertsStep(w)) \/ DueDateNears

\* The repeat comes every four hours whatever else the server does, and a
\* handler that began goes on.
AlertsFairness ==
    /\ SF_<<handlerVars, alertVars>>(\E w \in Workers : ReNotify(w))
    /\ \A w \in Workers : WF_<<handlerVars, alertVars>>(AlertJobs(w))

-----------------------------------------------------------------------------

AlertsTypeOK ==
    /\ alerts \in Seq([rule : AlertRules, severity : Severities, acked : People \cup {None},
                       resolved : BOOLEAN, sent : 0 .. Often, grave : BOOLEAN])
    /\ due \in {"later", "soon", "past"} /\ remitted \in BOOLEAN

\* Whatever overlaps or fails: what was never grave is sent at most once, only
\* a remittance resolves an alert of the calendar, and the rules about
\* subjects resolve none.
AlertsAuthorised ==
    \A i \in DOMAIN alerts :
        /\ ~alerts[i].grave => alerts[i].sent <= 1
        /\ alerts[i].resolved => \/ alerts[i].rule = "ratio"
                                 \/ alerts[i].rule \in CalendarRules /\ remitted

\* One request at a time: one active alert for each rule, each of them sent,
\* and none left of an obligation that is remitted.
AlertsAgree ==
    /\ Orderly => \A i, j \in DOMAIN alerts :
           Active(i) /\ Active(j) /\ alerts[i].rule = alerts[j].rule => i = j
    /\ AtRest => \A i \in DOMAIN alerts :
           /\ alerts[i].sent > 0
           /\ alerts[i].rule \in CalendarRules /\ remitted => alerts[i].resolved

\* What was acknowledged stays with who did it first, what is resolved stays.
AlertsKept ==
    ~overlapped' => \A i \in DOMAIN alerts :
        /\ alerts[i].acked # None => alerts'[i].acked = alerts[i].acked
        /\ alerts[i].resolved => alerts'[i].resolved

\* A grave alert nobody was told of (the process stopped before fanOut) is told
\* later, unless somebody saw it or it was resolved.
DangerIsHeard ==
    \A i \in 1 .. MaxAlerts :
        (i \in DOMAIN alerts /\ alerts[i].severity = "DANGER" /\ Active(i))
            ~> (i \in DOMAIN alerts /\ (alerts[i].sent > 0 \/ alerts[i].severity # "DANGER" \/ ~Active(i)))

=============================================================================
