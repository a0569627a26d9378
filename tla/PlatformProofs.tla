--------------------------- MODULE PlatformProofs ---------------------------
(***************************************************************************)
(* Proofs about Platform, for any number of workers and rows: part by part *)
(* PlatformAuthorised and PlatformKept, however requests overlap and fail; *)
(* then PlatformTypeOK, and PlatformAgrees, which is what the parts        *)
(* promise while requests come one at a time and none fails.               *)
(***************************************************************************)
EXTENDS FiniteSetTheorems, SequenceTheorems, WellFoundedInduction, TLAPS, Platform

-----------------------------------------------------------------------------
(* The handlers, which every part shares. *)

\* Two handlers that are under way together are remembered.
Calls ==
    /\ DOMAIN call = Workers
    /\ ~overlapped => \A v, w \in Workers : call[v].at = "none" \/ call[w].at = "none" \/ v = w

\* If two handlers never ran together, no other is under way when w steps.
Sole(w) ==
    /\ Calls'
    /\ \A v \in Workers \ {w} : call'[v] = call[v]
    /\ ~overlapped' => ~overlapped /\ \A v \in Workers \ {w} : call[v].at = "none"

LEMMA Begins ==
    ASSUME Calls, NEW w \in Workers, NEW at, NEW saw, Begin(w, at, saw)
    PROVE  /\ Sole(w) /\ UNCHANGED <<failures, status>>
           /\ call[w].at = "none" /\ call'[w].at = at /\ call'[w].saw = saw
BY DEF Calls, Sole, Begin, Free, Go, Alone, outcomeVars

LEMMA Steps ==
    ASSUME Calls, NEW w \in Workers, NEW at, NEW saw, call[w].at # "none", Step(w, at, saw)
    PROVE  /\ Sole(w) /\ UNCHANGED <<failures, status, overlapped>>
           /\ call'[w].at = at /\ call'[w].saw = saw
BY DEF Calls, Sole, Step, Go, outcomeVars

LEMMA Ends ==
    ASSUME Calls, NEW w \in Workers, call[w].at # "none", Done(w)
    PROVE  Sole(w) /\ UNCHANGED <<failures, status, overlapped>> /\ call'[w].at = "none"
BY DEF Calls, Sole, Done, Leave, NoCall, outcomeVars

LEMMA Crashes ==
    ASSUME Calls, NEW w \in Workers, call[w].at # "none", Crash(w)
    PROVE  Sole(w) /\ UNCHANGED <<status, overlapped>> /\ call'[w].at = "none"
BY DEF Calls, Sole, Crash, Stop, Leave, NoCall

LEMMA CallsBegin == HandlersInit => Calls /\ \A w \in Workers : call[w].at = "none"
BY DEF HandlersInit, RequestsInit, NoCall, Calls

-----------------------------------------------------------------------------
(* Alerts. *)

Alert == [rule : AlertRules, severity : Severities, acked : People \cup {None},
          resolved : BOOLEAN, sent : 0 .. Often, grave : BOOLEAN]

AlertSound(i) ==
    /\ alerts[i].severity = "DANGER" => alerts[i].grave
    /\ ~alerts[i].grave => alerts[i].sent <= 1
    /\ alerts[i].resolved => \/ alerts[i].rule = "ratio"
                             \/ alerts[i].rule \in CalendarRules /\ remitted

\* An alert that is not grave is still to be sent the first time.
AlertCall(w) ==
    LET at == call[w].at
        saw == call[w].saw
    IN  /\ at \in AlertCalls \cup {"none"}
        /\ at \in {"find", "create"} => saw.rule \in AlertRules /\ saw.severity \in Severities
        /\ at = "refresh" => saw.id \in DOMAIN alerts /\ saw.severity \in Severities
        /\ at = "fanOut" => /\ saw.ids \subseteq DOMAIN alerts
                            /\ \A i \in saw.ids : ~alerts[i].grave => alerts[i].sent = 0
        /\ at \in {"clearOverdue", "clearSoon"} => remitted
        /\ at = "ack" => /\ saw.id \in DOMAIN alerts /\ saw.by \in People \cup {None}
                         /\ ~overlapped /\ alerts[saw.id].acked # None => saw.by = alerts[saw.id].acked

Sending(w) == IF call[w].at = "fanOut" THEN call[w].saw.ids ELSE {}

\* Only its creator sends an alert that is not grave.
OneSender ==
    \A v, w \in Workers : \A i \in Sending(v) \cap Sending(w) : v = w \/ alerts[i].grave

AlertInv ==
    /\ Calls /\ AlertsTypeOK
    /\ \A i \in DOMAIN alerts : AlertSound(i)
    /\ \A w \in Workers : AlertCall(w)
    /\ OneSender

LEMMA AlertsStart == HandlersInit /\ AlertsInit => AlertInv
<1> SUFFICES ASSUME HandlersInit, AlertsInit PROVE AlertInv
  OBVIOUS
<1>1. DOMAIN alerts = {} /\ alerts \in Seq(Alert)
  BY DEF AlertsInit
<1> QED
  BY <1>1, CallsBegin DEF AlertsInit, AlertsTypeOK, AlertInv, AlertCall, OneSender, Sending, Alert

LEMMA AlertFrame ==
    ASSUME AlertInv, NEW w \in Workers, Sole(w), AlertsTypeOK',
           DOMAIN alerts \subseteq DOMAIN alerts', remitted => remitted',
           \A i \in DOMAIN alerts :
               /\ alerts[i].grave => alerts'[i].grave
               /\ alerts'[i].sent = alerts[i].sent \/ i \in Sending(w),
           \A i \in DOMAIN alerts' : AlertSound(i)',
           AlertCall(w)',
           \A i \in Sending(w)' : i \in Sending(w) \/ i \notin DOMAIN alerts \/ alerts'[i].grave
    PROVE  AlertInv'
<1>1. \A v \in Workers \ {w} : call'[v] = call[v] /\ Sending(v)' = Sending(v)
  BY DEF Sole, Sending
<1>2. \A v \in Workers : Sending(v) \subseteq DOMAIN alerts
  BY DEF AlertInv, AlertCall, Sending
<1>3. OneSender'
  BY <1>1, <1>2 DEF AlertInv, OneSender
<1>4. ASSUME NEW v \in Workers \ {w}
      PROVE  AlertCall(v)'
  <2>1. \A i \in Sending(v) : ~alerts'[i].grave => alerts'[i].sent = alerts[i].sent
    BY <1>2 DEF AlertInv, OneSender
  <2>2. \A i \in Sending(v) : ~alerts'[i].grave => alerts'[i].sent = 0
    BY <1>2, <2>1 DEF AlertInv, AlertCall, Sending
  <2>3. call'[v].at = "fanOut" => \A i \in call'[v].saw.ids : ~alerts'[i].grave => alerts'[i].sent = 0
    BY <1>1, <2>2 DEF Sending
  <2>4. call'[v].at # "none" => overlapped'
    BY <1>1 DEF Sole
  <2> QED
    BY <1>1, <2>3, <2>4 DEF AlertInv, AlertCall
<1> QED
  BY <1>3, <1>4 DEF AlertInv, Sole

\* A handler that only goes on.
LEMMA AlertReads ==
    ASSUME AlertInv, NEW w \in Workers, Sole(w), UNCHANGED <<alerts, due>>, remitted' \in BOOLEAN,
           remitted => remitted', AlertCall(w)',
           \A i \in Sending(w)' : i \in Sending(w) \/ alerts[i].grave
    PROVE  AlertInv'
<1>1. AlertsTypeOK' /\ \A i \in DOMAIN alerts : AlertSound(i)'
  BY DEF AlertInv, AlertsTypeOK, AlertSound
<1> QED
  BY <1>1, AlertFrame

LEMMA AlertRows == AlertInv => /\ DOMAIN alerts = 1 .. Len(alerts) /\ Len(alerts) \in Nat
                               /\ \A i \in DOMAIN alerts : alerts[i] \in Alert
<1>1. AlertInv => alerts \in Seq(Alert)
  BY DEF AlertInv, AlertsTypeOK, Alert
<1> QED
  BY <1>1

\* Rows that are written where they are.
LEMMA AlertWrites ==
    ASSUME AlertInv, NEW w \in Workers, Sole(w), UNCHANGED <<due, remitted>>,
           alerts' \in [DOMAIN alerts -> Alert],
           \A i \in DOMAIN alerts :
               /\ alerts[i].grave => alerts'[i].grave
               /\ alerts'[i].sent = alerts[i].sent \/ i \in Sending(w)
               /\ AlertSound(i)',
           AlertCall(w)', Sending(w)' \subseteq Sending(w)
    PROVE  AlertInv'
<1>1. alerts' \in Seq(Alert) /\ DOMAIN alerts' = DOMAIN alerts
  BY AlertRows
<1>2. AlertsTypeOK'
  BY <1>1 DEF AlertInv, AlertsTypeOK, Alert
<1> QED
  BY <1>1, <1>2, AlertFrame

LEMMA ResolvesAlerts ==
    ASSUME AlertInv, NEW w \in Workers, Sole(w), UNCHANGED <<due, remitted>>,
           NEW r, ResolveRule(r), r = "ratio" \/ (r \in CalendarRules /\ remitted),
           AlertCall(w)', Sending(w)' = {}
    PROVE  AlertInv'
<1>1. ASSUME NEW i \in DOMAIN alerts
      PROVE  /\ alerts'[i] = IF alerts[i].rule = r THEN [alerts[i] EXCEPT !.resolved = TRUE] ELSE alerts[i]
             /\ alerts[i] \in Alert /\ AlertSound(i)
  BY AlertRows DEF ResolveRule, AlertInv
<1>2. ASSUME NEW i \in DOMAIN alerts
      PROVE  /\ alerts'[i] \in Alert
             /\ alerts'[i].grave = alerts[i].grave /\ alerts'[i].sent = alerts[i].sent
             /\ alerts'[i].severity = alerts[i].severity /\ alerts'[i].rule = alerts[i].rule
             /\ alerts'[i].resolved => alerts[i].resolved \/ alerts[i].rule = r
    BY <1>1 DEF Alert
<1>3. \A i \in DOMAIN alerts : AlertSound(i)'
  BY <1>1, <1>2 DEF AlertSound
<1>4. alerts' \in [DOMAIN alerts -> Alert]
  BY <1>2 DEF ResolveRule
<1> QED
  BY <1>2, <1>3, <1>4, AlertWrites

LEMMA AlertsGoOn == AlertInv /\ AlertsNext => AlertInv'
<1> SUFFICES ASSUME AlertInv, AlertsNext PROVE AlertInv'
  OBVIOUS
<1>1. Calls /\ AlertRules = {"ratio", "subject", "overdue", "soon"} /\ CalendarRules = {"overdue", "soon"}
  BY DEF AlertInv, AlertRules, EngineRules, CalendarRules
<1>2. /\ remitted \in BOOLEAN /\ alerts \in Seq(Alert) /\ DOMAIN alerts = 1 .. Len(alerts)
      /\ \A i \in DOMAIN alerts : alerts[i] \in Alert /\ AlertSound(i)
  BY AlertRows DEF AlertInv, AlertsTypeOK, Alert
<1>3. CASE DueDateNears
  BY <1>3 DEF DueDateNears, AlertInv, AlertsTypeOK, AlertSound, AlertCall, OneSender, Sending,
     Calls, handlerVars
<1>4. ASSUME NEW w \in Workers, NEW r \in EngineRules, Evaluate(w, r) PROVE AlertInv'
  <2>1. /\ UNCHANGED alertVars
        /\ \/ \E f \in Severities : Begin(w, "find", Raising(r, f))
           \/ Begin(w, "well", None)
    BY <1>4 DEF Evaluate, Findings, EngineRules, Severities
  <2>2. AlertCall(w)' /\ Sole(w) /\ Sending(w)' = {}
    <3>1. ASSUME NEW f \in Severities, Begin(w, "find", Raising(r, f))
          PROVE  AlertCall(w)' /\ Sole(w) /\ Sending(w)' = {}
      BY <1>1, <1>4, <3>1, Begins DEF AlertCall, AlertCalls, Sending, Raising, EngineRules
    <3>2. CASE Begin(w, "well", None)
      BY <1>1, <3>2, Begins DEF AlertCall, AlertCalls, Sending
    <3> QED
      BY <2>1, <3>1, <3>2
  <2> QED
    BY <1>2, <2>1, <2>2, AlertReads DEF alertVars
<1>5. ASSUME NEW w \in Workers, CalendarSweep(w) PROVE AlertInv'
  <2>1. /\ UNCHANGED alertVars
        /\ \E r \in CalendarRules, f \in Severities : Begin(w, "find", Raising(r, f))
    BY <1>5 DEF CalendarSweep, CalendarRules, Severities
  <2>2. AlertCall(w)' /\ Sole(w) /\ Sending(w)' = {}
    BY <1>1, <2>1, Begins DEF AlertCall, AlertCalls, Sending, Raising
  <2> QED
    BY <1>2, <2>1, <2>2, AlertReads DEF alertVars
<1>6. ASSUME NEW w \in Workers, Remit(w) PROVE AlertInv'
  <2>1. AlertCall(w)' /\ Sole(w) /\ Sending(w)' = {} /\ UNCHANGED <<alerts, due>> /\ remitted'
    BY <1>1, <1>6, Begins DEF Remit, AlertCall, AlertCalls, Sending
  <2> QED
    BY <1>2, <2>1, <1>6, AlertReads DEF Remit
<1>7. ASSUME NEW w \in Workers, ReNotify(w) PROVE AlertInv'
  <2>1. \A i \in Unheard : i \in DOMAIN alerts /\ alerts[i].grave
    BY <1>2 DEF Unheard, AlertSound
  <2>2. AlertCall(w)' /\ Sole(w) /\ Sending(w)' \subseteq Unheard /\ UNCHANGED alertVars
    BY <1>1, <1>7, <2>1, Begins DEF ReNotify, AlertCall, AlertCalls, Sending, alertVars
  <2> QED
    BY <1>2, <2>1, <2>2, AlertReads DEF alertVars
<1>8. ASSUME NEW w \in Workers, NEW u \in People, AckRead(w, u) PROVE AlertInv'
  <2>1. PICK i \in DOMAIN alerts : 
             Begin(w, "ack", [id |-> i, by |-> IF alerts[i].acked = None THEN u ELSE alerts[i].acked])
    BY <1>8 DEF AckRead
  <2>2. UNCHANGED alertVars /\ alerts[i] \in Alert
    BY <1>2, <1>8 DEF AckRead
  <2>3. AlertCall(w)' /\ Sole(w) /\ Sending(w)' = {}
    BY <1>1, <2>1, <2>2, Begins DEF AlertCall, AlertCalls, Sending, alertVars, Alert
  <2> QED
    BY <1>2, <2>2, <2>3, AlertReads DEF alertVars
<1>9. ASSUME NEW w \in Workers, FindActive(w) PROVE AlertInv'
  <2>1. AlertCall(w) /\ call[w].at = "find" /\ UNCHANGED alertVars
    BY <1>9 DEF FindActive, In, AlertInv
  <2>2. \/ Step(w, "create", call[w].saw)
        \/ \E i \in DOMAIN alerts : Step(w, "refresh", [id |-> i, severity |-> call[w].saw.severity])
    BY <1>9 DEF FindActive
  <2>3. AlertCall(w)' /\ Sole(w) /\ Sending(w)' = {}
    <3>1. CASE Step(w, "create", call[w].saw)
      BY <1>1, <2>1, <3>1, Steps DEF AlertCall, AlertCalls, Sending, alertVars
    <3>2. ASSUME NEW i \in DOMAIN alerts, Step(w, "refresh", [id |-> i, severity |-> call[w].saw.severity])
          PROVE  AlertCall(w)' /\ Sole(w) /\ Sending(w)' = {}
      BY <1>1, <2>1, <3>2, Steps DEF AlertCall, AlertCalls, Sending, alertVars
    <3> QED
      BY <2>2, <3>1, <3>2
  <2> QED
    BY <1>2, <2>1, <2>3, AlertReads DEF alertVars
<1>10. ASSUME NEW w \in Workers, Refresh(w) PROVE AlertInv'
  <2> DEFINE i == call[w].saw.id
             s == call[w].saw.severity
  <2>1. /\ AlertCall(w) /\ call[w].at = "refresh" /\ UNCHANGED <<due, remitted>> /\ Done(w)
        /\ alerts' = [alerts EXCEPT ![i].severity = s, ![i].grave = @ \/ s = "DANGER"]
    BY <1>10 DEF Refresh, In, AlertInv
  <2>2. i \in DOMAIN alerts /\ s \in Severities /\ alerts[i] \in Alert /\ AlertSound(i)
    BY <1>2, <2>1 DEF AlertCall
  <2>3. AlertCall(w)' /\ Sole(w) /\ Sending(w)' = {}
    BY <1>1, <2>1, Ends DEF AlertCall, AlertCalls, Sending
  <2>4. /\ alerts'[i] = [alerts[i] EXCEPT !.severity = s, !.grave = @ \/ s = "DANGER"]
        /\ \A j \in DOMAIN alerts \ {i} : alerts'[j] = alerts[j]
        /\ DOMAIN alerts' = DOMAIN alerts
    BY <2>1, <2>2
  <2> HIDE DEF i, s
  <2>5. /\ alerts'[i] \in Alert /\ alerts'[i].sent = alerts[i].sent
        /\ alerts'[i].grave = (alerts[i].grave \/ s = "DANGER") /\ alerts'[i].severity = s
        /\ alerts'[i].rule = alerts[i].rule /\ alerts'[i].resolved = alerts[i].resolved
    BY <2>2, <2>4 DEF Alert
  <2>6. \A j \in DOMAIN alerts : AlertSound(j)'
    BY <1>2, <2>1, <2>2, <2>4, <2>5 DEF AlertSound
  <2>7. alerts' \in [DOMAIN alerts -> Alert]
    BY <1>2, <2>1, <2>4, <2>5
  <2> QED
    BY <2>1, <2>3, <2>4, <2>5, <2>6, <2>7, AlertWrites
<1>11. ASSUME NEW w \in Workers, CreateAlert(w) PROVE AlertInv'
  <2> DEFINE s == call[w].saw.severity
             new == [rule |-> call[w].saw.rule, severity |-> s, acked |-> None,
                     resolved |-> FALSE, sent |-> 0, grave |-> s = "DANGER"]
  <2>1. AlertCall(w) /\ call[w].at = "create" /\ UNCHANGED <<due, remitted>>
    BY <1>11 DEF CreateAlert, In, AlertInv
  <2>2. CASE Done(w) /\ UNCHANGED alerts
    <3>1. AlertCall(w)' /\ Sole(w) /\ Sending(w)' = {}
      BY <1>1, <2>1, <2>2, Ends DEF AlertCall, AlertCalls, Sending
    <3> QED
      BY <1>2, <2>1, <2>2, <3>1, AlertReads
  <2>3. CASE alerts' = Append(alerts, new) /\ Step(w, "fanOut", [ids |-> {Len(alerts) + 1}])
    <3>0. PICK n : n = Len(alerts) + 1
      OBVIOUS
    <3>1. new \in Alert
      BY <2>1 DEF AlertCall, Alert, Often
    <3> HIDE DEF new
    <3>2. /\ alerts' \in Seq(Alert) /\ DOMAIN alerts' = DOMAIN alerts \cup {n} /\ n \notin DOMAIN alerts
          /\ alerts'[n] = new /\ \A i \in DOMAIN alerts : alerts'[i] = alerts[i]
      BY <1>2, <2>3, <3>0, <3>1
    <3>3. /\ Sole(w) /\ call'[w].at = "fanOut" /\ call'[w].saw = [ids |-> {n}]
      BY <1>1, <2>1, <2>3, <3>0, Steps
    <3>4. AlertsTypeOK'
      BY <2>1, <3>2 DEF AlertInv, AlertsTypeOK, Alert
    <3>5. AlertCall(w)' /\ Sending(w)' = {n}
      BY <3>2, <3>3 DEF AlertCall, AlertCalls, Sending, new
    <3>6. \A i \in DOMAIN alerts' : AlertSound(i)'
      <4>1. AlertSound(n)'
        <5>1. new.severity = s /\ new.sent = 0 /\ new.resolved = FALSE /\ new.grave = (s = "DANGER")
          BY Zenon DEF new
        <5>2. new.severity = "DANGER" => new.grave
          BY <5>1, Zenon
        <5>3. 0 <= 1
          OBVIOUS
        <5> QED
          BY <3>2, <5>1, <5>2, <5>3, Zenon DEF AlertSound
      <4>2. \A i \in DOMAIN alerts : AlertSound(i)'
        BY <1>2, <2>1, <3>2 DEF AlertSound
      <4> QED
        BY <3>2, <4>1, <4>2
    <3> QED
      BY <2>1, <3>2, <3>3, <3>4, <3>5, <3>6, AlertFrame
  <2> QED
    BY <1>11, <2>2, <2>3 DEF CreateAlert
<1>12. ASSUME NEW w \in Workers, FanOut(w) PROVE AlertInv'
  <2> DEFINE ids == call[w].saw.ids
  <2>1. AlertCall(w) /\ call[w].at = "fanOut" /\ UNCHANGED <<due, remitted>>
    BY <1>12 DEF FanOut, In, AlertInv
  <2>2. PICK i \in ids :
           /\ alerts' = [alerts EXCEPT ![i].sent = IF @ < Often THEN @ + 1 ELSE @]
           /\ IF ids = {i} THEN Done(w) ELSE Step(w, "fanOut", [ids |-> ids \ {i}])
    BY <1>12 DEF FanOut
  <2>3. /\ i \in DOMAIN alerts /\ alerts[i] \in Alert /\ AlertSound(i) /\ i \in Sending(w)
        /\ ids \subseteq DOMAIN alerts
        /\ ~alerts[i].grave => alerts[i].sent = 0
    BY <1>2, <2>1 DEF AlertCall, Sending
  <2>4. /\ alerts'[i] = [alerts[i] EXCEPT !.sent = IF @ < Often THEN @ + 1 ELSE @]
        /\ \A j \in DOMAIN alerts \ {i} : alerts'[j] = alerts[j]
        /\ DOMAIN alerts' = DOMAIN alerts
    BY <2>2, <2>3
  <2>5. /\ alerts'[i] \in Alert /\ alerts'[i].grave = alerts[i].grave
        /\ alerts'[i].severity = alerts[i].severity /\ alerts'[i].rule = alerts[i].rule
        /\ alerts'[i].resolved = alerts[i].resolved
        /\ ~alerts'[i].grave => alerts'[i].sent <= 1
    <3>1. /\ alerts[i].sent \in 0 .. 2
          /\ alerts'[i].sent = IF alerts[i].sent < 2 THEN alerts[i].sent + 1 ELSE alerts[i].sent
      BY <2>3, <2>4 DEF Alert, Often
    <3>2. alerts'[i].sent \in 0 .. 2
      BY <3>1
    <3> QED
      BY <2>3, <2>4, <3>1, <3>2 DEF Alert, Often
  <2>6. /\ Sole(w) /\ \/ call'[w].at = "none"
                      \/ call'[w].at = "fanOut" /\ call'[w].saw = [ids |-> ids \ {i}]
    BY <1>1, <2>1, <2>2, Steps, Ends
  <2>7. AlertCall(w)' /\ Sending(w)' \subseteq Sending(w)
    BY <2>1, <2>3, <2>4, <2>6 DEF AlertCall, AlertCalls, Sending
  <2>8. \A j \in DOMAIN alerts : AlertSound(j)'
    BY <1>2, <2>1, <2>3, <2>4, <2>5 DEF AlertSound
  <2>9. alerts' \in [DOMAIN alerts -> Alert]
    BY <1>2, <2>2, <2>4, <2>5
  <2> QED
    BY <2>1, <2>3, <2>4, <2>5, <2>6, <2>7, <2>8, <2>9, AlertWrites
<1>13. ASSUME NEW w \in Workers, ResolveFigure(w) \/ ClearOverdue(w) \/ ClearSoon(w) PROVE AlertInv'
  <2>1. /\ AlertCall(w) /\ call[w].at \in {"well", "clearOverdue", "clearSoon"} /\ UNCHANGED <<due, remitted>>
        /\ \E r : ResolveRule(r) /\ (r = "ratio" \/ (r \in CalendarRules /\ remitted))
        /\ Done(w) \/ (Step(w, "clearSoon", None) /\ remitted)
    BY <1>1, <1>13 DEF ResolveFigure, ClearOverdue, ClearSoon, In, AlertInv, AlertCall
  <2>2. AlertCall(w)' /\ Sole(w) /\ Sending(w)' = {}
    BY <1>1, <2>1, Steps, Ends DEF AlertCall, AlertCalls, Sending
  <2> QED
    BY <2>1, <2>2, ResolvesAlerts
<1>14. ASSUME NEW w \in Workers, AckWrite(w) PROVE AlertInv'
  <2> DEFINE i == call[w].saw.id
             u == call[w].saw.by
  <2>1. /\ AlertCall(w) /\ call[w].at = "ack" /\ UNCHANGED <<due, remitted>> /\ Done(w)
        /\ alerts' = [alerts EXCEPT ![i].acked = u]
    BY <1>14 DEF AckWrite, In, AlertInv
  <2>2. i \in DOMAIN alerts /\ u \in People \cup {None} /\ alerts[i] \in Alert
    BY <1>2, <2>1 DEF AlertCall
  <2>3. AlertCall(w)' /\ Sole(w) /\ Sending(w)' = {}
    BY <1>1, <2>1, Ends DEF AlertCall, AlertCalls, Sending
  <2>4. /\ alerts'[i] = [alerts[i] EXCEPT !.acked = u]
        /\ \A j \in DOMAIN alerts \ {i} : alerts'[j] = alerts[j]
        /\ DOMAIN alerts' = DOMAIN alerts
    BY <2>1, <2>2
  <2> HIDE DEF i, u
  <2>5. /\ alerts'[i] \in Alert /\ alerts'[i].sent = alerts[i].sent /\ alerts'[i].grave = alerts[i].grave
        /\ alerts'[i].severity = alerts[i].severity /\ alerts'[i].rule = alerts[i].rule
        /\ alerts'[i].resolved = alerts[i].resolved
    BY <2>2, <2>4 DEF Alert
  <2>6. \A j \in DOMAIN alerts : AlertSound(j)'
    BY <1>2, <2>1, <2>2, <2>4, <2>5 DEF AlertSound
  <2>7. alerts' \in [DOMAIN alerts -> Alert]
    BY <1>2, <2>1, <2>4, <2>5
  <2> QED
    BY <2>1, <2>3, <2>4, <2>5, <2>6, <2>7, AlertWrites
<1>15. ASSUME NEW w \in Workers, call[w].at \in AlertCalls, Crash(w), UNCHANGED alertVars PROVE AlertInv'
  <2>1. AlertCall(w)' /\ Sole(w) /\ Sending(w)' = {}
    BY <1>1, <1>15, Crashes DEF AlertCall, AlertCalls, Sending
  <2> QED
    BY <1>2, <1>15, <2>1, AlertReads DEF alertVars
<1> QED
  BY <1>3, <1>4, <1>5, <1>6, <1>7, <1>8, <1>9, <1>10, <1>11, <1>12, <1>13, <1>14, <1>15
     DEF AlertsNext, AlertsStep, AlertJobs

LEMMA AlertsAreKept == AlertInv /\ AlertsNext => AlertsKept
<1> SUFFICES ASSUME AlertInv, AlertsNext, ~overlapped', NEW i \in DOMAIN alerts
             PROVE  /\ alerts[i].acked # None => alerts'[i].acked = alerts[i].acked
                    /\ alerts[i].resolved => alerts'[i].resolved
  BY DEF AlertsKept
<1>1. alerts[i] \in Alert /\ Calls /\ DOMAIN alerts = 1 .. Len(alerts) /\ alerts \in Seq(Alert)
  BY AlertRows DEF AlertInv, AlertsTypeOK, Alert
<1>2. CASE UNCHANGED alerts
  BY <1>2
<1>3. ASSUME NEW r, ResolveRule(r)
      PROVE  /\ alerts'[i].acked = alerts[i].acked
             /\ alerts[i].resolved => alerts'[i].resolved
  BY <1>1, <1>3 DEF ResolveRule, Alert
<1>4. ASSUME NEW w \in Workers, Refresh(w)
      PROVE  UNCHANGED <<alerts[i].acked, alerts[i].resolved>>
  BY <1>1, <1>4 DEF Refresh, Alert
<1>5. ASSUME NEW w \in Workers, FanOut(w)
      PROVE  UNCHANGED <<alerts[i].acked, alerts[i].resolved>>
  BY <1>1, <1>5 DEF FanOut, Alert
<1>6. ASSUME NEW w \in Workers, CreateAlert(w)
      PROVE  alerts'[i] = alerts[i]
  BY <1>1, <1>6 DEF CreateAlert
<1>7. ASSUME NEW w \in Workers, AckWrite(w)
      PROVE  /\ alerts[i].acked # None => alerts'[i].acked = alerts[i].acked
             /\ alerts'[i].resolved = alerts[i].resolved
  <2>1. call[w].at = "ack" /\ AlertCall(w) /\ Done(w) /\ alerts' = [alerts EXCEPT ![call[w].saw.id].acked = call[w].saw.by]
    BY <1>7 DEF AckWrite, In, AlertInv
  <2>2. ~overlapped
    BY <1>1, <2>1, Ends DEF Sole
  <2> QED
    BY <1>1, <2>1, <2>2 DEF AlertCall, Alert
<1> QED
  BY <1>2, <1>3, <1>4, <1>5, <1>6, <1>7
     DEF AlertsNext, AlertsStep, AlertJobs, DueDateNears, Evaluate, CalendarSweep, Remit, ReNotify, AckRead,
         FindActive, ResolveFigure, ClearOverdue, ClearSoon, alertVars

-----------------------------------------------------------------------------
(* The reminders of the approval engine. *)

Told(s) == reminders[s] + escalations[s]

SlaCall(w) ==
    LET at == call[w].at
        s == call[w].saw.step
    IN  /\ at \in SlaCalls \cup {"none"}
        /\ at \in {"notice", "stamp"} => s \in StepOrders /\ s <= current
        /\ at = "stamp" => /\ Told(s) > 0
                           /\ call[w].saw.what = "escalate" => escalations[s] > 0

SlaInv ==
    /\ Calls /\ SlaTypeOK /\ StampsAreFounded
    /\ status \in [Chains -> {"NONE", "PENDING"} \cup Outcomes]
    /\ status[TheChain] = "NONE" <=> current = 0
    /\ \A w \in Workers : SlaCall(w)

LEMMA OneChain == TheChain \in Chains
BY SlaAssumption DEF TheChain

LEMMA SlaStart == HandlersInit /\ SlaInit => SlaInv
<1> SUFFICES ASSUME HandlersInit, SlaInit PROVE SlaInv
  OBVIOUS
<1>1. status = [c \in Chains |-> "NONE"]
  BY DEF HandlersInit, RequestsInit, OutcomesInit
<1> QED
  BY <1>1, CallsBegin, OneChain
     DEF SlaInit, SlaInv, SlaTypeOK, StampsAreFounded, SlaCall, StepOrders, T2

\* The tables of the steps only grow, and the other handlers keep what they know.
LEMMA SlaFrame ==
    ASSUME SlaInv, NEW w \in Workers, Sole(w), SlaTypeOK', current <= current', SlaCall(w)',
           status' \in [Chains -> {"NONE", "PENDING"} \cup Outcomes],
           status'[TheChain] = "NONE" <=> current' = 0,
           \A s \in StepOrders :
               /\ reminders[s] <= reminders'[s] /\ escalations[s] <= escalations'[s]
               /\ escalated'[s] => escalations'[s] > 0
               /\ reminded'[s] => Told(s)' > 0
               /\ Told(s)' > 0 => Told(s) > 0 \/ current' >= s
    PROVE  SlaInv'
<1>1. \A s \in StepOrders : /\ reminders[s] \in Nat /\ escalations[s] \in Nat
                            /\ reminders'[s] \in Nat /\ escalations'[s] \in Nat
                            /\ s \in Nat
      /\ current \in Nat /\ current' \in Nat
  BY DEF SlaInv, SlaTypeOK, StepOrders
<1>2. StampsAreFounded'
  BY <1>1 DEF SlaInv, StampsAreFounded, Told
<1>3. ASSUME NEW v \in Workers \ {w}
      PROVE  SlaCall(v)'
  <2>1. call'[v] = call[v] /\ SlaCall(v)
    BY DEF Sole, SlaInv
  <2> QED
    BY <1>1, <2>1 DEF SlaCall, Told
<1> QED
  BY <1>2, <1>3 DEF SlaInv, Sole

LEMMA SlaReads ==
    ASSUME SlaInv, NEW w \in Workers, Sole(w), UNCHANGED slaVars, UNCHANGED status, SlaCall(w)'
    PROVE  SlaInv'
<1>1. SlaTypeOK'
  BY DEF SlaInv, SlaTypeOK, slaVars
<1>2. current <= current' /\ \A s \in StepOrders :
         /\ reminders[s] <= reminders'[s] /\ escalations[s] <= escalations'[s]
         /\ escalated'[s] => escalations'[s] > 0
         /\ reminded'[s] => Told(s)' > 0
         /\ Told(s)' > 0 => Told(s) > 0
  BY DEF SlaInv, SlaTypeOK, slaVars, StampsAreFounded, Told
<1>3. status' \in [Chains -> {"NONE", "PENDING"} \cup Outcomes] /\ (status'[TheChain] = "NONE" <=> current' = 0)
  BY DEF SlaInv, slaVars
<1> QED
  BY <1>1, <1>2, <1>3, SlaFrame

LEMMA SlaGoesOn == SlaInv /\ SlaNext => SlaInv' /\ StampsAreKept
<1> SUFFICES ASSUME SlaInv, SlaNext PROVE SlaInv' /\ StampsAreKept
  OBVIOUS
<1>1. /\ Calls /\ current \in 0 .. 2 /\ TheChain \in Chains
      /\ clock \in [StepOrders -> 0 .. T2] /\ waited \in [StepOrders -> 0 .. T2]
      /\ reminded \in [StepOrders -> BOOLEAN] /\ escalated \in [StepOrders -> BOOLEAN]
      /\ reminders \in [StepOrders -> Nat] /\ escalations \in [StepOrders -> Nat]
      /\ StepOrders = {1, 2} /\ T2 = 2 /\ StampsAreFounded
      /\ status \in [Chains -> {"NONE", "PENDING"} \cup Outcomes]
      /\ status[TheChain] = "NONE" <=> current = 0
  BY OneChain DEF SlaInv, SlaTypeOK, StepOrders, T2
<1>2. Pending => current \in StepOrders
  BY <1>1 DEF Pending
<1>3. CASE HoursPass
  <2>1. SlaTypeOK'
    BY <1>1, <1>2, <1>3 DEF HoursPass, SlaTypeOK
  <2>2. UNCHANGED <<call, overlapped, status, current, reminded, escalated, reminders, escalations>>
    BY <1>3 DEF HoursPass, handlerVars, outcomeVars
  <2>3. StampsAreKept
    BY <2>2 DEF StampsAreKept
  <2> QED
    BY <2>1, <2>2, <2>3 DEF SlaInv, StampsAreFounded, SlaCall, Calls, Told
<1>4. ASSUME NEW w \in Workers, UNCHANGED slaVars, UNCHANGED status, Sole(w), SlaCall(w)'
      PROVE  SlaInv' /\ StampsAreKept
  BY <1>4, SlaReads DEF StampsAreKept, slaVars
<1>5. ASSUME NEW w \in Workers, SlaSubmit(w) PROVE SlaInv' /\ StampsAreKept
  <2>1. /\ status[TheChain] = "NONE" /\ status' = [status EXCEPT ![TheChain] = "PENDING"]
        /\ current = 0 /\ current' = 1
        /\ UNCHANGED <<call, reminded, escalated, reminders, escalations, clock, waited>>
        /\ overlapped => overlapped'
    BY <1>1, <1>5 DEF SlaSubmit, Open
  <2>2. Calls' /\ SlaTypeOK'
    BY <1>1, <2>1 DEF Calls, SlaTypeOK
  <2>3. \A v \in Workers : SlaCall(v)'
    BY <1>1, <2>1 DEF SlaInv, SlaCall, Told
  <2>4. StampsAreFounded'
    BY <1>1, <2>1 DEF StampsAreFounded
  <2> QED
    BY <1>1, <2>1, <2>2, <2>3, <2>4 DEF SlaInv, StampsAreKept
<1>6. ASSUME NEW w \in Workers, AdvanceStep(w) PROVE SlaInv' /\ StampsAreKept
  <2>1. /\ current = 1 /\ current' = 2 /\ Begin(w, "clock", None)
        /\ UNCHANGED <<clock, waited, reminded, escalated, reminders, escalations>>
    BY <1>6 DEF AdvanceStep
  <2>2. /\ Sole(w) /\ SlaCall(w)' /\ SlaTypeOK' /\ UNCHANGED status
    BY <1>1, <2>1, Begins DEF SlaCall, SlaCalls, SlaTypeOK
  <2>3. \A s \in StepOrders : /\ escalated[s] => escalations[s] > 0
                              /\ reminded[s] => Told(s) > 0
    BY <1>1 DEF StampsAreFounded, Told
  <2>4. \A s \in StepOrders : /\ reminders[s] <= reminders'[s] /\ escalations[s] <= escalations'[s]
    BY <1>1, <2>1
  <2> QED
    BY <1>1, <2>1, <2>2, <2>3, <2>4, SlaFrame DEF StampsAreKept, Told
<1>7. ASSUME NEW w \in Workers, StartClock(w) PROVE SlaInv' /\ StampsAreKept
  <2>1. /\ call[w].at = "clock" /\ Done(w) /\ clock' = [clock EXCEPT ![2] = 0]
        /\ UNCHANGED <<current, waited, reminded, escalated, reminders, escalations>>
    BY <1>7 DEF StartClock, In
  <2>2. /\ Sole(w) /\ SlaCall(w)' /\ SlaTypeOK' /\ UNCHANGED status
    BY <1>1, <2>1, Ends DEF SlaCall, SlaCalls, SlaTypeOK
  <2>3. \A s \in StepOrders : /\ escalated[s] => escalations[s] > 0
                              /\ reminded[s] => Told(s) > 0
    BY <1>1 DEF StampsAreFounded, Told
  <2>4. \A s \in StepOrders : /\ reminders[s] <= reminders'[s] /\ escalations[s] <= escalations'[s]
    BY <1>1, <2>1
  <2> QED
    BY <1>1, <2>1, <2>2, <2>3, <2>4, SlaFrame DEF StampsAreKept, Told
<1>8. ASSUME NEW w \in Workers, DecideLast(w) PROVE SlaInv' /\ StampsAreKept
  <2>1. /\ UNCHANGED slaVars /\ call[w].at = "none"
        /\ \E s \in Outcomes : DecideChain(w, TheChain, s)
    BY <1>8 DEF DecideLast, DecideChain, Outcomes, Free
  <2>2. PICK s \in Outcomes : /\ status' = [status EXCEPT ![TheChain] = s] /\ UNCHANGED call
                              /\ status[TheChain] # "NONE"
                              /\ overlapped => overlapped'
    BY <2>1 DEF DecideChain, Resolve
  <2>3. /\ Calls' /\ status' \in [Chains -> {"NONE", "PENDING"} \cup Outcomes]
        /\ status'[TheChain] = s /\ s # "NONE"
    BY <1>1, <2>2 DEF Calls, Outcomes
  <2>4. SlaTypeOK' /\ StampsAreFounded' /\ \A v \in Workers : SlaCall(v)'
    BY <2>1, <2>2 DEF SlaInv, SlaTypeOK, StampsAreFounded, SlaCall, Told, slaVars
  <2> QED
    BY <1>1, <2>1, <2>2, <2>3, <2>4 DEF SlaInv, slaVars, StampsAreKept
<1>9. ASSUME NEW w \in Workers, SlaSweep(w) PROVE SlaInv' /\ StampsAreKept
  <2>1. /\ UNCHANGED slaVars
        /\ \E what : Begin(w, "notice", [step |-> current, what |-> what])
    BY <1>9 DEF SlaSweep
  <2>2. /\ Sole(w) /\ UNCHANGED status /\ call'[w].at = "notice" /\ call'[w].saw.step = current
    BY <1>1, <2>1, Begins
  <2>3. SlaCall(w)'
    BY <1>1, <1>2, <1>9, <2>1, <2>2 DEF SlaCall, SlaCalls, slaVars, SlaSweep
  <2> QED
    BY <1>4, <2>1, <2>2, <2>3
<1>10. ASSUME NEW w \in Workers, SlaNotice(w) PROVE SlaInv' /\ StampsAreKept
  <2> DEFINE s == call[w].saw.step
  <2>1. /\ call[w].at = "notice" /\ SlaCall(w) /\ Step(w, "stamp", call[w].saw)
        /\ UNCHANGED <<current, clock, waited, reminded, escalated>>
        /\ IF call[w].saw.what = "escalate"
             THEN escalations' = [escalations EXCEPT ![s] = @ + 1] /\ UNCHANGED reminders
             ELSE reminders' = [reminders EXCEPT ![s] = @ + 1] /\ UNCHANGED escalations
    BY <1>10 DEF SlaNotice, In, SlaInv
  <2>2. s \in StepOrders /\ s <= current
    BY <2>1 DEF SlaCall
  <2>3. /\ Sole(w) /\ UNCHANGED status /\ call'[w].at = "stamp" /\ call'[w].saw = call[w].saw
    BY <1>1, <2>1, Steps
  <2>4. /\ reminders' \in [StepOrders -> Nat] /\ escalations' \in [StepOrders -> Nat]
        /\ \A x \in StepOrders : reminders[x] <= reminders'[x] /\ escalations[x] <= escalations'[x]
        /\ \A x \in StepOrders \ {s} : reminders[x] = reminders'[x] /\ escalations[x] = escalations'[x]
        /\ reminders'[s] + escalations'[s] > 0 /\ (call[w].saw.what = "escalate" => escalations'[s] > 0)
    <3>1. reminders[s] \in Nat /\ escalations[s] \in Nat
      BY <1>1, <2>2
    <3> HIDE DEF s
    <3>2. CASE call[w].saw.what = "escalate"
      BY <1>1, <2>1, <2>2, <3>1, <3>2 DEF Told
    <3>3. CASE call[w].saw.what # "escalate"
      BY <1>1, <2>1, <2>2, <3>1, <3>3 DEF Told
    <3> QED
      BY <3>2, <3>3
  <2> HIDE DEF s
  <2>5. SlaTypeOK'
    BY <1>1, <2>1, <2>4 DEF SlaTypeOK
  <2>6. SlaCall(w)'
    BY <2>1, <2>2, <2>3, <2>4 DEF SlaCall, SlaCalls, s, Told
  <2>7. \A x \in StepOrders : /\ escalated'[x] => escalations'[x] > 0
                              /\ reminded'[x] => Told(x)' > 0
    BY <1>1, <2>1, <2>4 DEF StampsAreFounded, Told
  <2>8. \A x \in StepOrders : Told(x)' > 0 => Told(x) > 0 \/ current' >= x
    BY <1>1, <2>1, <2>2, <2>4 DEF Told
  <2> QED
    BY <1>1, <2>1, <2>3, <2>4, <2>5, <2>6, <2>7, <2>8, SlaFrame DEF StampsAreKept
<1>11. ASSUME NEW w \in Workers, SlaStamp(w) PROVE SlaInv' /\ StampsAreKept
  <2> DEFINE s == call[w].saw.step
  <2>1. /\ call[w].at = "stamp" /\ SlaCall(w) /\ Done(w)
        /\ UNCHANGED <<current, clock, waited, reminders, escalations>>
        /\ reminded' = [reminded EXCEPT ![s] = TRUE]
        /\ IF call[w].saw.what = "escalate"
             THEN escalated' = [escalated EXCEPT ![s] = TRUE]
             ELSE UNCHANGED escalated
    BY <1>11 DEF SlaStamp, In, SlaInv
  <2>2. s \in StepOrders /\ Told(s) > 0 /\ (call[w].saw.what = "escalate" => escalations[s] > 0)
    BY <2>1 DEF SlaCall
  <2>3. Sole(w) /\ UNCHANGED status /\ SlaCall(w)'
    BY <1>1, <2>1, Ends DEF SlaCall, SlaCalls
  <2>4. SlaTypeOK'
    BY <1>1, <2>1 DEF SlaTypeOK
  <2>5. \A x \in StepOrders : /\ escalated'[x] => escalations'[x] > 0
                              /\ reminded'[x] => Told(x)' > 0
    BY <1>1, <2>1, <2>2 DEF StampsAreFounded, Told
  <2>6. \A x \in StepOrders : /\ reminders[x] <= reminders'[x] /\ escalations[x] <= escalations'[x]
                              /\ Told(x)' = Told(x)
    BY <1>1, <2>1 DEF Told
  <2>7. StampsAreKept
    BY <1>1, <2>1 DEF StampsAreKept
  <2> QED
    BY <1>1, <2>1, <2>3, <2>4, <2>5, <2>6, <2>7, SlaFrame
<1>12. ASSUME NEW w \in Workers, call[w].at \in SlaCalls, Crash(w), UNCHANGED slaVars
      PROVE  SlaInv' /\ StampsAreKept
  <2>1. Sole(w) /\ UNCHANGED status /\ SlaCall(w)'
    BY <1>1, <1>12, Crashes DEF SlaCall, SlaCalls
  <2> QED
    BY <1>4, <1>12, <2>1
<1> QED
  BY <1>3, <1>5, <1>6, <1>7, <1>8, <1>9, <1>10, <1>11, <1>12 DEF SlaNext, SlaStep, SlaJobs

-----------------------------------------------------------------------------
(* Sessions. *)

SessionCalls == Refreshing \cup SigningOut \cup {"waiting"}

SessionsInv ==
    /\ Calls /\ MutexHolds
    /\ tokens \in Seq({"live", "revoked"})
    /\ lock \in Workers \cup {None} /\ waiters \in Seq(Workers)
    /\ \A w \in Workers : call[w].at \in SessionCalls \cup {"none"}

LEMMA SessionsStart == HandlersInit /\ SessionsInit => SessionsInv
BY CallsBegin DEF SessionsInit, SessionsInv, MutexHolds, ToSet

\* Of the mutex a handler changes its own hold and its own place in the queue.
LEMMA SessionsFrame ==
    ASSUME SessionsInv, NEW w \in Workers, Sole(w),
           tokens' \in Seq({"live", "revoked"}), waiters' \in Seq(Workers),
           call'[w].at \in SessionCalls \cup {"none"},
           \/ lock' = None
           \/ lock' = lock /\ (lock = w => InRefresh(w)')
           \/ lock' = w /\ InRefresh(w)',
           ToSet(waiters') \subseteq ToSet(waiters) \cup {w},
           w \in ToSet(waiters') => call'[w].at \in {"waiting", "logout", "retry"}
    PROVE  SessionsInv'
<1>1. \A v \in Workers \ {w} : call'[v] = call[v]
  BY DEF Sole
<1>2. lock' \in Workers \cup {None} /\ (lock' # None => InRefresh(lock)')
  BY <1>1 DEF SessionsInv, MutexHolds, InRefresh
<1>3. ASSUME NEW v \in ToSet(waiters')
      PROVE  call'[v].at \in {"waiting", "logout", "retry"}
  <2>1. v \in Workers
    BY DEF ToSet
  <2> QED
    BY <1>1, <2>1 DEF SessionsInv, MutexHolds
<1> QED
  BY <1>1, <1>2, <1>3 DEF SessionsInv, MutexHolds, Sole

LEMMA QueueOfWaiters ==
    ASSUME NEW q \in Seq(Workers), NEW r, NEW w \in Workers,
           r = q \/ r = Append(q, w) \/ (q # <<>> /\ r = Tail(q))
    PROVE  /\ r \in Seq(Workers) /\ ToSet(r) \subseteq ToSet(q) \cup {w}
           /\ r = q \/ (q # <<>> /\ r = Tail(q)) => ToSet(r) \subseteq ToSet(q)
<1>1. CASE r = q
  BY <1>1
<1>2. CASE r = Append(q, w)
  BY <1>2 DEF ToSet
<1>3. CASE q # <<>> /\ r = Tail(q)
  <2>1. /\ r \in Seq(Workers) /\ Len(r) = Len(q) - 1 /\ Len(q) \in Nat
        /\ \A i \in 1 .. Len(q) - 1 : r[i] = q[i + 1]
    BY <1>3
  <2> QED
    <3>1. DOMAIN r = 1 .. Len(q) - 1 /\ DOMAIN q = 1 .. Len(q)
      BY <2>1
    <3>2. \A i \in DOMAIN r : i + 1 \in DOMAIN q /\ r[i] = q[i + 1]
      BY <2>1, <3>1
    <3>3. ToSet(r) \subseteq ToSet(q)
      BY <3>2 DEF ToSet
    <3> QED
      BY <2>1, <3>3
<1> QED
  BY <1>1, <1>2, <1>3

\* The tokens that are revoked stay so, and those that are added are new.
LEMMA TokensChange ==
    ASSUME tokens \in Seq({"live", "revoked"}),
           UNCHANGED tokens \/ Issued \/ \E ts : Revoked(ts)
    PROVE  tokens' \in Seq({"live", "revoked"}) /\ RevokedForGood
<1>1. CASE UNCHANGED tokens
  BY <1>1 DEF RevokedForGood
<1>2. CASE Issued
  BY <1>2 DEF RevokedForGood, Issued
<1>3. ASSUME NEW ts, Revoked(ts)
      PROVE  tokens' \in Seq({"live", "revoked"}) /\ RevokedForGood
  <2>1. DOMAIN tokens = 1 .. Len(tokens) /\ Len(tokens) \in Nat
        /\ tokens' \in [DOMAIN tokens -> {"live", "revoked"}]
    BY <1>3 DEF Revoked
  <2> QED
    BY <1>3, <2>1 DEF RevokedForGood, Revoked
<1> QED
  BY <1>1, <1>2, <1>3

LEMMA SessionsGoOn == SessionsInv /\ SessionsNext => SessionsInv' /\ RevokedForGood
<1> SUFFICES ASSUME SessionsInv, NEW w \in Workers, SessionsStep(w)
             PROVE  SessionsInv' /\ RevokedForGood
  BY DEF SessionsNext
<1> DEFINE at == call[w].at
<1>1. /\ Calls /\ MutexHolds /\ tokens \in Seq({"live", "revoked"})
      /\ lock \in Workers \cup {None} /\ waiters \in Seq(Workers)
      /\ lock = w /\ w # None => InRefresh(w)
      /\ w \in ToSet(waiters) => at \in {"waiting", "logout", "retry"}
  BY DEF SessionsInv, MutexHolds
<1>2. UNCHANGED tokens \/ Issued \/ \E ts : Revoked(ts)
  BY DEF SessionsStep, Login, Logout, RevokeOnLogout, ForgetTokens, QueryRefused, QueryWaits, QueryGoesOn,
         DownloadRefused, RotateRead, RotateRefused, IssuePair, RevokeOld, TokensReceived, LoggedOut,
         RefreshLost, LogoutRefused, RetryRefused, LogoutLost, StartRefresh, sessionVars
<1>3. tokens' \in Seq({"live", "revoked"}) /\ RevokedForGood
  BY <1>1, <1>2, TokensChange
<1>4. CASE Login(w)
  <2>1. UNCHANGED <<call, overlapped, lock, waiters>>
    BY <1>4 DEF Login, handlerVars
  <2>2. Calls' /\ MutexHolds'
    BY <1>1, <2>1 DEF Calls, MutexHolds, InRefresh
  <2> QED
    <3>1. \A v \in Workers : call'[v].at \in SessionCalls \cup {"none"}
      BY <2>1 DEF SessionsInv
    <3> QED
      BY <1>1, <1>3, <2>1, <2>2, <3>1 DEF SessionsInv, SessionCalls, Refreshing, SigningOut
<1>5. CASE Logout(w)
  <2>1. /\ Sole(w) /\ at = "none" /\ call'[w].at = "logout" /\ UNCHANGED lock
        /\ waiters' = waiters \/ waiters' = Append(waiters, w)
    BY <1>1, <1>5, Begins DEF Logout, Wait
  <2>2. waiters' \in Seq(Workers) /\ ToSet(waiters') \subseteq ToSet(waiters) \cup {w}
    BY <1>1, <2>1, QueueOfWaiters
  <2> QED
    BY <1>1, <1>3, <2>1, <2>2, SessionsFrame DEF SessionCalls, SigningOut, InRefresh, Refreshing
<1>6. CASE QueryWaits(w)
  <2>1. /\ Sole(w) /\ at = "none" /\ call'[w].at = "waiting" /\ UNCHANGED lock /\ waiters' = Append(waiters, w)
    BY <1>1, <1>6, Begins DEF QueryWaits, Wait
  <2>2. waiters' \in Seq(Workers) /\ ToSet(waiters') \subseteq ToSet(waiters) \cup {w}
    BY <1>1, <2>1, QueueOfWaiters
  <2> QED
    BY <1>1, <1>3, <2>1, <2>2, SessionsFrame DEF SessionCalls, InRefresh, Refreshing
<1>7. CASE QueryRefused(w) \/ DownloadRefused(w)
  <2>1. /\ Sole(w) /\ at = "none" /\ call'[w].at = "rotate" /\ UNCHANGED waiters
        /\ UNCHANGED lock \/ lock' = w
    BY <1>1, <1>7, Begins DEF QueryRefused, DownloadRefused, StartRefresh
  <2>2. call'[w].at \in SessionCalls /\ InRefresh(w)'
    BY <2>1 DEF SessionCalls, InRefresh, Refreshing
  <2>3. w \notin ToSet(waiters')
    BY <1>1, <2>1
  <2> QED
    BY <1>1, <1>3, <2>1, <2>2, <2>3, SessionsFrame
<1>8. CASE RevokeOnLogout(w) \/ RetryRefused(w) \/ LogoutLost(w) \/ ForgetTokens(w) \/ QueryGoesOn(w)
  <2>1. /\ at \in {"logout", "retry", "forget", "waiting"} /\ UNCHANGED <<lock, waiters>>
        /\ w \notin ToSet(waiters)
        /\ \/ Step(w, "forget", call[w].saw) \/ Done(w)
           \/ Go(w, "forget", call[w].saw) /\ UNCHANGED <<outcomeVars, overlapped>>
    BY <1>1, <1>8 DEF RevokeOnLogout, RetryRefused, LogoutLost, ForgetTokens, QueryGoesOn, In, Woken, sessionVars
  <2>2. Sole(w) /\ call'[w].at \in {"forget", "none"}
    BY <1>1, <2>1, Steps, Ends DEF Calls, Go, Sole
  <2>3. lock = w => lock' = None
    BY <1>1, <2>1 DEF InRefresh, Refreshing
  <2> QED
    BY <1>1, <1>3, <2>1, <2>2, <2>3, SessionsFrame DEF SessionCalls, SigningOut
<1>9. CASE RotateRead(w) \/ RotateRefused(w) \/ IssuePair(w) \/ RevokeOld(w)
  <2>1. /\ at \in {"rotate", "issue", "revoke"} /\ UNCHANGED <<lock, waiters>>
        /\ \E to \in {"issue", "refused", "revoke", "received"} : \E saw : Step(w, to, saw)
    BY <1>9 DEF RotateRead, RotateRefused, IssuePair, RevokeOld, In
  <2>2. /\ Sole(w) /\ call'[w].at \in {"issue", "refused", "revoke", "received"}
    BY <1>1, <2>1, Steps
  <2>3. call'[w].at \in SessionCalls /\ InRefresh(w)' /\ w \notin ToSet(waiters)
    BY <1>1, <2>1, <2>2 DEF SessionCalls, InRefresh, Refreshing
  <2> QED
    BY <1>1, <1>3, <2>1, <2>2, <2>3, SessionsFrame
<1>10. CASE TokensReceived(w) \/ LoggedOut(w) \/ RefreshLost(w)
  <2>1. at \in Refreshing /\ Release(w) /\ (Done(w) \/ Crash(w) \/ \E saw : Step(w, "retry", saw))
    BY <1>10 DEF TokensReceived, LoggedOut, RefreshLost, In, InRefresh, Refreshing
  <2>2. Sole(w) /\ call'[w].at \in {"none", "retry"} /\ w \notin ToSet(waiters)
    BY <1>1, <2>1, Ends, Crashes, Steps DEF Refreshing
  <2>3. /\ lock' = None \/ (lock' = lock /\ lock # w)
        /\ waiters' = waiters \/ (waiters # <<>> /\ waiters' = Tail(waiters))
    BY <2>1 DEF Release
  <2>4. waiters' \in Seq(Workers) /\ ToSet(waiters') \subseteq ToSet(waiters)
    BY <1>1, <2>3, QueueOfWaiters
  <2> QED
    BY <1>1, <1>3, <2>2, <2>3, <2>4, SessionsFrame DEF SessionCalls, SigningOut
<1>11. CASE LogoutRefused(w)
  <2>1. /\ at = "logout" /\ w \notin ToSet(waiters)
        /\ \/ (\E saw : Step(w, "forget", saw)) /\ UNCHANGED <<lock, waiters>>
           \/ (\E saw : Step(w, "rotate", saw)) /\ lock' = w /\ UNCHANGED waiters
           \/ (\E saw : Step(w, "retry", saw)) /\ UNCHANGED lock /\ waiters' = Append(waiters, w)
    BY <1>11 DEF LogoutRefused, In, Woken, Wait
  <2>2. /\ Sole(w) /\ (lock = w => lock = None)
        /\ \/ call'[w].at = "forget" /\ UNCHANGED <<lock, waiters>>
           \/ call'[w].at = "rotate" /\ lock' = w /\ UNCHANGED waiters
           \/ call'[w].at = "retry" /\ UNCHANGED lock /\ waiters' = Append(waiters, w)
    BY <1>1, <2>1, Steps DEF InRefresh, Refreshing
  <2>3. waiters' \in Seq(Workers) /\ ToSet(waiters') \subseteq ToSet(waiters) \cup {w}
    BY <1>1, <2>2, QueueOfWaiters
  <2>4. call'[w].at \in SessionCalls /\ (lock' = w => lock' = None \/ InRefresh(w)')
    BY <2>2 DEF SessionCalls, SigningOut, InRefresh, Refreshing
  <2>5. w \in ToSet(waiters') => call'[w].at = "retry"
    BY <2>1, <2>2
  <2>6. lock' = None \/ lock' = lock \/ lock' = w
    BY <2>2
  <2> QED
    BY <1>1, <1>3, <2>2, <2>3, <2>4, <2>5, <2>6, SessionsFrame
<1> QED
  BY <1>4, <1>5, <1>6, <1>7, <1>8, <1>9, <1>10, <1>11 DEF SessionsStep

-----------------------------------------------------------------------------
(* The sales pipeline. *)

\* What a handler may write is what it read, unless another wrote since.
PipelineCall(w) ==
    LET at == call[w].at
        saw == call[w].saw
    IN  /\ at \in PipelineCalls \cup {"none"}
        /\ at = "move" => saw \in Stages /\ (~overlapped => May(STAGE_TRANSITIONS, stage, saw))
        /\ at = "status" => saw \in LeadStatuses /\ (~overlapped => May(STATUS_TRANSITIONS, lead, saw))
        /\ at \in {"make", "link"} => saw \in Targets
        /\ at = "link" => records[saw] > 0
        /\ at = "linkDeal" => deals > 0

PipelineInv ==
    /\ Calls /\ PipelineTypeOK /\ LinksAreFounded
    /\ \A w \in Workers : PipelineCall(w)

LEMMA PipelineStart == HandlersInit /\ PipelineInit => PipelineInv
<1> SUFFICES ASSUME HandlersInit, PipelineInit PROVE PipelineInv
  OBVIOUS
<1>1. Calls /\ \A w \in Workers : PipelineCall(w)
  BY CallsBegin DEF PipelineCall
<1>2. "NEW" \in LeadStatuses
  BY DEF LeadStatuses, STATUS_TRANSITIONS
<1> QED
  BY <1>1, <1>2 DEF PipelineInit, PipelineInv, PipelineTypeOK, LinksAreFounded

LEMMA PipelineFrame ==
    ASSUME PipelineInv, NEW w \in Workers, Sole(w), PipelineTypeOK', PipelineCall(w)',
           \A k \in Targets : records[k] <= records'[k], deals <= deals',
           LinksAreFounded'
    PROVE  PipelineInv'
<1>1. /\ \A k \in Targets : records[k] \in Nat /\ records'[k] \in Nat
      /\ deals \in Nat /\ deals' \in Nat
  BY DEF PipelineInv, PipelineTypeOK
<1>2. ASSUME NEW v \in Workers \ {w}
      PROVE  PipelineCall(v)'
  <2>1. call'[v] = call[v] /\ PipelineCall(v) /\ (call'[v].at # "none" => overlapped')
    BY DEF Sole, PipelineInv
  <2>2. call[v].at # "none" => overlapped'
    BY <2>1
  <2>3. call[v].at = "link" => call[v].saw \in Targets /\ records'[call[v].saw] > 0
    BY <1>1, <2>1 DEF PipelineCall
  <2>4. call[v].at = "linkDeal" => deals' > 0
    BY <1>1, <2>1 DEF PipelineCall
  <2>5. CASE call[v].at = "none"
    BY <2>1, <2>5 DEF PipelineCall, PipelineCalls
  <2>6. CASE overlapped'
    BY <2>1, <2>3, <2>4, <2>6 DEF PipelineCall
  <2> QED
    BY <2>2, <2>5, <2>6
<1> QED
  BY <1>2 DEF PipelineInv, Sole

LEMMA PipelineReads ==
    ASSUME PipelineInv, NEW w \in Workers, Sole(w), UNCHANGED pipelineVars, PipelineCall(w)'
    PROVE  PipelineInv' /\ PipelineKept
<1>1. PipelineTypeOK' /\ LinksAreFounded' /\ PipelineKept
  BY DEF PipelineInv, PipelineTypeOK, LinksAreFounded, PipelineKept, pipelineVars
<1>2. (\A k \in Targets : records[k] <= records'[k]) /\ deals <= deals'
  BY DEF PipelineInv, PipelineTypeOK, pipelineVars
<1> QED
  BY <1>1, <1>2, PipelineFrame

LEMMA PipelineGoesOn == PipelineInv /\ PipelineNext => PipelineInv' /\ PipelineKept
<1> SUFFICES ASSUME PipelineInv, NEW w \in Workers, PipelineStep(w)
             PROVE  PipelineInv' /\ PipelineKept
  BY DEF PipelineNext
<1> DEFINE at == call[w].at
           saw == call[w].saw
<1>1. /\ Calls /\ PipelineCall(w)
      /\ stage \in Stages /\ links \subseteq Targets /\ records \in [Targets -> Nat]
      /\ lead \in LeadStatuses /\ linked \in BOOLEAN /\ deals \in Nat
      /\ \A k \in links : records[k] > 0
      /\ linked => deals > 0
  BY DEF PipelineInv, PipelineTypeOK, LinksAreFounded
<1>2. /\ "WON" \in Stages /\ STAGE_TRANSITIONS["WON"] = {}
      /\ {"DEAD", "QUALIFIED"} \subseteq LeadStatuses
      /\ \A s \in LeadStatuses : "NEW" \notin STATUS_TRANSITIONS[s]
  BY DEF Stages, STAGE_TRANSITIONS, LeadStatuses, STATUS_TRANSITIONS
<1>3. ASSUME NEW s \in Stages, MoveRead(w, s) PROVE PipelineInv' /\ PipelineKept
  <2>1. Sole(w) /\ UNCHANGED pipelineVars /\ call'[w].at = "move" /\ call'[w].saw = s
    BY <1>1, <1>3, Begins DEF MoveRead
  <2>2. PipelineCall(w)'
    BY <1>3, <2>1 DEF MoveRead, PipelineCall, PipelineCalls, pipelineVars
  <2> QED
    BY <2>1, <2>2, PipelineReads
<1>4. ASSUME NEW k \in Targets, ConvertRead(w, k) PROVE PipelineInv' /\ PipelineKept
  <2>1. Sole(w) /\ UNCHANGED pipelineVars /\ call'[w].at = "make" /\ call'[w].saw = k
    BY <1>1, <1>4, Begins DEF ConvertRead
  <2>2. PipelineCall(w)'
    BY <2>1 DEF PipelineCall, PipelineCalls
  <2> QED
    BY <2>1, <2>2, PipelineReads
<1>5. ASSUME NEW s \in LeadStatuses, UpdateStatusRead(w, s) PROVE PipelineInv' /\ PipelineKept
  <2>1. Sole(w) /\ UNCHANGED pipelineVars /\ call'[w].at = "status" /\ call'[w].saw = s
    BY <1>1, <1>5, Begins DEF UpdateStatusRead
  <2>2. PipelineCall(w)'
    BY <1>5, <2>1 DEF UpdateStatusRead, PipelineCall, PipelineCalls, pipelineVars
  <2> QED
    BY <2>1, <2>2, PipelineReads
<1>6. CASE ConvertLeadRead(w)
  <2>1. Sole(w) /\ UNCHANGED pipelineVars /\ call'[w].at = "deal"
    BY <1>1, <1>6, Begins DEF ConvertLeadRead
  <2>2. PipelineCall(w)'
    BY <2>1 DEF PipelineCall, PipelineCalls
  <2> QED
    BY <2>1, <2>2, PipelineReads
<1>7. CASE MoveWrite(w)
  <2>1. at = "move" /\ stage' = saw /\ Done(w) /\ UNCHANGED <<links, records, lead, linked, deals>>
    BY <1>7 DEF MoveWrite, In
  <2>2. saw \in Stages /\ (~overlapped => May(STAGE_TRANSITIONS, stage, saw))
    BY <1>1, <2>1 DEF PipelineCall
  <2>3. Sole(w) /\ UNCHANGED overlapped /\ PipelineCall(w)'
    BY <1>1, <2>1, Ends DEF PipelineCall, PipelineCalls
  <2>4. PipelineTypeOK' /\ LinksAreFounded'
    BY <1>1, <2>1, <2>2 DEF PipelineTypeOK, LinksAreFounded
  <2>5. PipelineKept
    BY <1>2, <2>1, <2>2, <2>3 DEF PipelineKept, May
  <2> QED
    BY <1>1, <2>1, <2>3, <2>4, <2>5, PipelineFrame
<1>8. CASE UpdateStatusWrite(w)
  <2>1. at = "status" /\ lead' = saw /\ Done(w) /\ UNCHANGED <<stage, links, records, linked, deals>>
    BY <1>8 DEF UpdateStatusWrite, In
  <2>2. saw \in LeadStatuses /\ (~overlapped => May(STATUS_TRANSITIONS, lead, saw))
    BY <1>1, <2>1 DEF PipelineCall
  <2>3. Sole(w) /\ UNCHANGED overlapped /\ PipelineCall(w)'
    BY <1>1, <2>1, Ends DEF PipelineCall, PipelineCalls
  <2>4. PipelineTypeOK' /\ LinksAreFounded'
    BY <1>1, <2>1, <2>2 DEF PipelineTypeOK, LinksAreFounded
  <2>5. PipelineKept
    BY <1>1, <1>2, <2>1, <2>2, <2>3 DEF PipelineKept, May
  <2> QED
    BY <1>1, <2>1, <2>3, <2>4, <2>5, PipelineFrame
<1>9. CASE MakeRecord(w)
  <2>1. at = "make" /\ saw \in Targets /\ Step(w, "link", saw) /\ UNCHANGED <<stage, links, lead, linked, deals>>
        /\ records' = [records EXCEPT ![saw] = @ + 1]
    BY <1>1, <1>9 DEF MakeRecord, In, PipelineCall
  <2>2. Sole(w) /\ call'[w].at = "link" /\ call'[w].saw = saw
    BY <1>1, <2>1, Steps
  <2>3. /\ records' \in [Targets -> Nat] /\ records'[saw] > 0
        /\ \A k \in Targets : records[k] <= records'[k]
    BY <1>1, <2>1
  <2>4. PipelineCall(w)'
    BY <2>1, <2>2, <2>3 DEF PipelineCall, PipelineCalls
  <2>5. PipelineTypeOK' /\ LinksAreFounded' /\ PipelineKept
    BY <1>1, <2>1, <2>3 DEF PipelineTypeOK, LinksAreFounded, PipelineKept
  <2> QED
    BY <1>1, <2>1, <2>2, <2>3, <2>4, <2>5, PipelineFrame
<1>10. CASE LinkRecord(w)
  <2>1. /\ at = "link" /\ saw \in Targets /\ records[saw] > 0 /\ Done(w)
        /\ stage' = "WON" /\ links' = links \cup {saw} /\ UNCHANGED <<records, lead, linked, deals>>
    BY <1>1, <1>10 DEF LinkRecord, In, PipelineCall
  <2>2. Sole(w) /\ PipelineCall(w)'
    BY <1>1, <2>1, Ends DEF PipelineCall, PipelineCalls
  <2>3. PipelineTypeOK' /\ LinksAreFounded' /\ PipelineKept
    BY <1>1, <1>2, <2>1 DEF PipelineTypeOK, LinksAreFounded, PipelineKept
  <2> QED
    BY <1>1, <2>1, <2>2, <2>3, PipelineFrame
<1>11. CASE CreateDeal(w)
  <2>1. /\ at = "deal" /\ deals' = deals + 1 /\ Step(w, "linkDeal", saw)
        /\ UNCHANGED <<stage, links, records, lead, linked>>
    BY <1>11 DEF CreateDeal, In
  <2>2. Sole(w) /\ PipelineCall(w)'
    BY <1>1, <2>1, Steps DEF PipelineCall, PipelineCalls
  <2>3. PipelineTypeOK' /\ LinksAreFounded' /\ PipelineKept
    BY <1>1, <2>1 DEF PipelineTypeOK, LinksAreFounded, PipelineKept
  <2> QED
    BY <1>1, <2>1, <2>2, <2>3, PipelineFrame
<1>12. CASE LinkDeal(w)
  <2>1. /\ at = "linkDeal" /\ deals > 0 /\ Done(w)
        /\ linked' = TRUE /\ lead' \in {"DEAD", "QUALIFIED"} /\ UNCHANGED <<stage, links, records, deals>>
    BY <1>1, <1>12 DEF LinkDeal, In, PipelineCall
  <2>2. Sole(w) /\ PipelineCall(w)'
    BY <1>1, <2>1, Ends DEF PipelineCall, PipelineCalls
  <2>3. PipelineTypeOK' /\ LinksAreFounded' /\ PipelineKept
    BY <1>1, <1>2, <2>1 DEF PipelineTypeOK, LinksAreFounded, PipelineKept
  <2> QED
    BY <1>1, <2>1, <2>2, <2>3, PipelineFrame
<1>13. CASE at \in PipelineCalls /\ Crash(w) /\ UNCHANGED pipelineVars
  <2>1. Sole(w) /\ PipelineCall(w)'
    BY <1>1, <1>13, Crashes DEF PipelineCall, PipelineCalls
  <2> QED
    BY <1>13, <2>1, PipelineReads
<1> QED
  BY <1>3, <1>4, <1>5, <1>6, <1>7, <1>8, <1>9, <1>10, <1>11, <1>12, <1>13 DEF PipelineStep

-----------------------------------------------------------------------------
(* The work breakdown of a project. *)

Row(r) == DOMAIN r = {"parent", "weight", "pct"}

\* A node is written below another; what was read of the others still holds,
\* unless another handler wrote since.
WbsCall(w) ==
    LET at == call[w].at
        saw == call[w].saw
    IN  /\ at \in WbsCalls \cup {"none"}
        /\ at \in {"add", "update"} =>
               saw.node \in Nodes /\ Row(saw.row) /\ saw.row.parent # saw.node
        /\ ~overlapped =>
               /\ at = "add" => saw.node \notin Ids(nodes)
               /\ at = "completeParent" => ~Leaf(nodes, saw.above)
               /\ at = "rolled" => saw.nodes = nodes

WbsInv ==
    /\ Calls /\ NodesApart
    /\ Ids(nodes) \subseteq Nodes
    /\ \A n \in Ids(nodes) : Row(nodes[n])
    /\ \A w \in Workers : WbsCall(w)

LEMMA WbsStart == HandlersInit /\ WbsInit => WbsInv
<1> SUFFICES ASSUME HandlersInit, WbsInit PROVE WbsInv
  OBVIOUS
<1>1. Ids(nodes) = {}
  BY DEF WbsInit, Ids
<1> QED
  BY <1>1, CallsBegin DEF WbsInv, NodesApart, WbsCall

LEMMA WbsFrame ==
    ASSUME WbsInv, NEW w \in Workers, Sole(w), WbsCall(w)',
           Ids(nodes') \subseteq Nodes,
           \A n \in Ids(nodes') : Row(nodes'[n]) /\ nodes'[n].parent # n
    PROVE  WbsInv'
<1>1. ASSUME NEW v \in Workers \ {w}
      PROVE  WbsCall(v)'
  <2>1. call'[v] = call[v] /\ WbsCall(v) /\ (call[v].at # "none" => overlapped')
    BY DEF Sole, WbsInv
  <2>2. CASE call[v].at = "none"
    BY <2>1, <2>2 DEF WbsCall
  <2>3. CASE overlapped'
    BY <2>1, <2>3 DEF WbsCall
  <2> QED
    BY <2>1, <2>2, <2>3
<1> QED
  BY <1>1 DEF WbsInv, NodesApart, Sole

\* A row that is there is changed: its parent stays, or is another node.
LEMMA WbsWrites ==
    ASSUME WbsInv, NEW w \in Workers, Sole(w), WbsCall(w)',
           Ids(nodes') \subseteq Ids(nodes),
           \A n \in Ids(nodes') : /\ Row(nodes'[n])
                                  /\ nodes'[n].parent = nodes[n].parent \/ nodes'[n].parent # n
    PROVE  WbsInv'
<1>1. Ids(nodes') \subseteq Nodes
  BY DEF WbsInv
<1>2. \A n \in Ids(nodes') : nodes'[n].parent # n
  BY DEF WbsInv, NodesApart
<1> QED
  BY <1>1, <1>2, WbsFrame

LEMMA WbsReads ==
    ASSUME WbsInv, NEW w \in Workers, Sole(w), WbsCall(w)', UNCHANGED nodes
    PROVE  WbsInv' /\ LeavesKept
<1>1. Ids(nodes') = Ids(nodes) /\ LeavesKept
  BY DEF LeavesKept
<1>2. \A n \in Ids(nodes') : Row(nodes'[n]) /\ nodes'[n].parent = nodes[n].parent
  BY <1>1 DEF WbsInv
<1> QED
  BY <1>1, <1>2, WbsWrites

LEMMA WbsGoesOn == WbsInv /\ WbsNext => WbsInv' /\ LeavesKept
<1> SUFFICES ASSUME WbsInv, NEW w \in Workers, WbsStep(w)
             PROVE  WbsInv' /\ LeavesKept
  BY DEF WbsNext
<1> DEFINE at == call[w].at
           saw == call[w].saw
<1>1. /\ Calls /\ WbsCall(w) /\ Ids(nodes) \subseteq Nodes /\ None \notin Nodes
      /\ \A n \in Ids(nodes) : Row(nodes[n]) /\ nodes[n].parent # n
  BY WbsAssumption DEF WbsInv, NodesApart
<1>2. ASSUME NEW n \in Nodes, NEW p \in Nodes \cup {None}, NEW weight \in Weights,
             AddNodeRead(w, n, p, weight)
      PROVE  WbsInv' /\ LeavesKept
  <2> DEFINE row == [parent |-> p, weight |-> weight, pct |-> 0]
  <2>1. /\ Begin(w, "add", [node |-> n, row |-> row]) /\ UNCHANGED nodes
        /\ n \notin Ids(nodes) /\ p # n
    BY <1>1, <1>2 DEF AddNodeRead, wbsVars
  <2>2. Sole(w) /\ call'[w].at = "add" /\ call'[w].saw = [node |-> n, row |-> row]
    BY <1>1, <2>1, Begins
  <2>3. WbsCall(w)'
    BY <2>1, <2>2 DEF WbsCall, WbsCalls, Row
  <2> QED
    BY <2>1, <2>2, <2>3, WbsReads
<1>3. ASSUME NEW n \in Nodes, NEW p \in Nodes \cup {None}, NEW weight \in Weights,
             UpdateNodeRead(w, n, p, weight)
      PROVE  WbsInv' /\ LeavesKept
  <2> DEFINE row == [parent |-> p, weight |-> weight, pct |-> 0]
  <2>1. /\ Begin(w, "update", [node |-> n, row |-> row]) /\ UNCHANGED nodes
        /\ p # n
    BY <1>1, <1>3 DEF UpdateNodeRead, wbsVars
  <2>2. Sole(w) /\ call'[w].at = "update" /\ call'[w].saw = [node |-> n, row |-> row]
    BY <1>1, <2>1, Begins
  <2>3. WbsCall(w)'
    BY <2>1, <2>2 DEF WbsCall, WbsCalls, Row
  <2> QED
    BY <2>1, <2>2, <2>3, WbsReads
<1>4. ASSUME NEW n \in Nodes, DeleteNode(w, n)
      PROVE  WbsInv' /\ LeavesKept
  <2>1. /\ Begin(w, "recompute", Recompute)
        /\ nodes' = [m \in Ids(nodes) \ {n} |-> nodes[m]]
    BY <1>4 DEF DeleteNode
  <2>2. /\ Ids(nodes') = Ids(nodes) \ {n}
        /\ \A m \in Ids(nodes') : nodes'[m] = nodes[m]
    BY <2>1 DEF Ids
  <2>3. Sole(w) /\ WbsCall(w)'
    BY <1>1, <2>1, Begins DEF WbsCall, WbsCalls
  <2>4. LeavesKept
    BY <2>2 DEF LeavesKept
  <2> QED
    BY <1>1, <2>2, <2>3, <2>4, WbsWrites
<1>5. ASSUME NEW n \in Nodes, NEW complete, NEW pct, ProgressRead(w, n, complete, pct)
      PROVE  WbsInv' /\ LeavesKept
  <2>1. (\E saw1 : Begin(w, "progress", saw1)) /\ UNCHANGED nodes
    BY <1>5 DEF ProgressRead, wbsVars
  <2>2. Sole(w) /\ WbsCall(w)'
    BY <1>1, <2>1, Begins DEF WbsCall, WbsCalls
  <2> QED
    BY <2>1, <2>2, WbsReads
<1>6. CASE AddNodeWrite(w)
  <2> DEFINE n == saw.node
             row == saw.row
  <2>1. /\ at = "add" /\ Step(w, "recompute", Recompute)
        /\ nodes' = [m \in Ids(nodes) \cup {n} |-> IF m = n THEN row ELSE nodes[m]]
    BY <1>6 DEF AddNodeWrite, In
  <2>2. /\ n \in Nodes /\ Row(row) /\ row.parent # n
        /\ ~overlapped => n \notin Ids(nodes)
    BY <1>1, <2>1 DEF WbsCall
  <2>3. Sole(w) /\ WbsCall(w)' /\ UNCHANGED overlapped
    BY <1>1, <2>1, Steps DEF WbsCall, WbsCalls
  <2> HIDE DEF n, row
  <2>4. /\ Ids(nodes') = Ids(nodes) \cup {n} /\ nodes'[n] = row
        /\ \A m \in Ids(nodes) \ {n} : nodes'[m] = nodes[m]
    BY <2>1 DEF Ids
  <2>5. \A m \in Ids(nodes') : Row(nodes'[m]) /\ nodes'[m].parent # m
    BY <1>1, <2>2, <2>4
  <2>6. Ids(nodes') \subseteq Nodes
    BY <1>1, <2>2, <2>4
  <2>7. LeavesKept
    BY <2>2, <2>3, <2>4 DEF LeavesKept
  <2> QED
    BY <2>3, <2>5, <2>6, <2>7, WbsFrame
<1>7. CASE UpdateNodeWrite(w)
  <2> DEFINE n == saw.node
             row == saw.row
  <2>1. /\ at = "update"
        /\ IF n \in Ids(nodes)
             THEN /\ nodes' = [nodes EXCEPT ![n].parent = row.parent, ![n].weight = row.weight]
                  /\ Step(w, "recompute", Recompute)
             ELSE Done(w) /\ UNCHANGED nodes
    BY <1>7 DEF UpdateNodeWrite, In
  <2>2. Sole(w) /\ WbsCall(w)' /\ row.parent # n
    BY <1>1, <2>1, Steps, Ends DEF WbsCall, WbsCalls
  <2> HIDE DEF n, row
  <2>3. CASE n \notin Ids(nodes)
    BY <2>1, <2>2, <2>3, WbsReads
  <2>4. CASE n \in Ids(nodes)
    <3>1. /\ Ids(nodes') = Ids(nodes)
          /\ nodes'[n] = [nodes[n] EXCEPT !.parent = row.parent, !.weight = row.weight]
          /\ \A m \in Ids(nodes) \ {n} : nodes'[m] = nodes[m]
      BY <2>1, <2>4 DEF Ids
    <3>2. Row(nodes'[n]) /\ nodes'[n].parent = row.parent /\ nodes'[n].pct = nodes[n].pct
      BY <1>1, <2>4, <3>1 DEF Row
    <3>3. \A m \in Ids(nodes') : /\ Row(nodes'[m]) /\ nodes'[m].pct = nodes[m].pct
                                 /\ nodes'[m].parent = nodes[m].parent \/ nodes'[m].parent # m
      BY <1>1, <2>2, <3>1, <3>2
    <3>4. LeavesKept
      BY <3>3 DEF LeavesKept
    <3> QED
      BY <2>2, <3>1, <3>3, <3>4, WbsWrites
  <2> QED
    BY <2>3, <2>4
\* A percent is written.
<1>8. ASSUME NEW n, n \notin Ids(nodes) => UNCHANGED nodes, NEW pct,
             n \in Ids(nodes) => nodes' = [nodes EXCEPT ![n].pct = pct],
             Sole(w), WbsCall(w)', at = "progress" \/ (~overlapped' => ~Leaf(nodes, n))
      PROVE  WbsInv' /\ LeavesKept
  <2>1. CASE n \notin Ids(nodes)
    BY <1>8, <2>1, WbsReads
  <2>2. CASE n \in Ids(nodes)
    <3>1. /\ Ids(nodes') = Ids(nodes)
          /\ nodes'[n] = [nodes[n] EXCEPT !.pct = pct]
          /\ \A m \in Ids(nodes) \ {n} : nodes'[m] = nodes[m]
      BY <1>8, <2>2 DEF Ids
    <3>2. Row(nodes'[n]) /\ nodes'[n].parent = nodes[n].parent
      BY <1>1, <2>2, <3>1 DEF Row
    <3>3. \A m \in Ids(nodes') : Row(nodes'[m]) /\ nodes'[m].parent = nodes[m].parent
      BY <1>1, <3>1, <3>2
    <3>4. LeavesKept
      BY <1>8, <3>1 DEF LeavesKept, In
    <3> QED
      BY <1>8, <3>1, <3>3, <3>4, WbsWrites
  <2> QED
    BY <2>1, <2>2
<1>9. CASE ProgressWrite(w)
  <2>1. /\ at = "progress"
        /\ IF saw.node \notin Ids(nodes) THEN UNCHANGED nodes
           ELSE nodes' = [nodes EXCEPT ![saw.node].pct = saw.pct]
        /\ Done(w) \/ \E to \in {"cascade", "recompute"} : \E s : Step(w, to, s)
    BY <1>9 DEF ProgressWrite, In
  <2>2. Sole(w) /\ WbsCall(w)'
    BY <1>1, <2>1, Steps, Ends DEF WbsCall, WbsCalls
  <2> QED
    BY <1>8, <2>1, <2>2
<1>10. CASE CascadeRead(w)
  <2>1. /\ at = "cascade" /\ UNCHANGED nodes
        /\ \/ Step(w, "completeParent", saw) /\ ~Leaf(nodes, saw.above)
           \/ Step(w, "recompute", Recompute)
    BY <1>10 DEF CascadeRead, In, wbsVars
  <2>2. Sole(w) /\ WbsCall(w)'
    BY <1>1, <2>1, Steps DEF WbsCall, WbsCalls
  <2> QED
    BY <2>1, <2>2, WbsReads
<1>11. CASE CascadeWrite(w)
  <2>1. /\ at = "completeParent"
        /\ IF saw.above \notin Ids(nodes) THEN UNCHANGED nodes
           ELSE nodes' = [nodes EXCEPT ![saw.above].pct = Complete]
        /\ Done(w) \/ \E to \in {"cascade", "recompute"} : \E s : Step(w, to, s)
    BY <1>11 DEF CascadeWrite, In
  <2>2. Sole(w) /\ WbsCall(w)' /\ (~overlapped' => ~Leaf(nodes, saw.above))
    BY <1>1, <2>1, Steps, Ends DEF WbsCall, WbsCalls
  <2> QED
    BY <1>8, <2>1, <2>2
<1>12. CASE RecomputeRead(w)
  <2>1. /\ at = "recompute" /\ UNCHANGED nodes
        /\ Step(w, "rolled", [nodes |-> nodes]) \/ Done(w)
    BY <1>12 DEF RecomputeRead, In, wbsVars
  <2>2. Sole(w) /\ WbsCall(w)'
    BY <1>1, <2>1, Steps, Ends DEF WbsCall, WbsCalls
  <2> QED
    BY <2>1, <2>2, WbsReads
<1>13. CASE RollUpWrite(w)
  <2>1. at = "rolled" /\ (Step(w, "project", saw) \/ (Done(w) /\ UNCHANGED nodes))
    BY <1>13 DEF RollUpWrite, In
  <2>2. /\ Sole(w) /\ WbsCall(w)' /\ UNCHANGED overlapped
        /\ ~overlapped => saw.nodes = nodes
    BY <1>1, <2>1, Steps, Ends DEF WbsCall, WbsCalls
  <2>3. CASE UNCHANGED nodes
    BY <2>2, <2>3, WbsReads
  <2>4. ASSUME nodes' # nodes
        PROVE  WbsInv' /\ LeavesKept
    <3> DEFINE pct == rollUp(saw.nodes)
               changed == {n \in Ids(saw.nodes) : ~Leaf(saw.nodes, n) /\ saw.nodes[n].pct # pct[n]}
    <3>1. nodes' = [n \in Ids(nodes) |-> IF n \in changed THEN [nodes[n] EXCEPT !.pct = pct[n]] ELSE nodes[n]]
      BY <1>13, <2>4 DEF RollUpWrite
    <3>2. ~overlapped => \A n \in changed : ~Leaf(nodes, n)
      BY <2>2
    <3> HIDE DEF pct, changed
    <3>3. Ids(nodes') = Ids(nodes)
      BY <3>1 DEF Ids
    <3>4. ASSUME NEW n \in Ids(nodes)
          PROVE  /\ Row(nodes'[n]) /\ nodes'[n].parent = nodes[n].parent
                 /\ n \notin changed => nodes'[n].pct = nodes[n].pct
      BY <1>1, <3>1 DEF Row
    <3>5. LeavesKept
      BY <2>2, <3>2, <3>3, <3>4 DEF LeavesKept
    <3> QED
      BY <2>2, <3>3, <3>4, <3>5, WbsWrites
  <2> QED
    BY <2>3, <2>4
<1>14. CASE ProjectWrite(w)
  <2>1. at = "project" /\ UNCHANGED nodes /\ Done(w)
    BY <1>14 DEF ProjectWrite, In
  <2>2. Sole(w) /\ WbsCall(w)'
    BY <1>1, <2>1, Ends DEF WbsCall, WbsCalls
  <2> QED
    BY <2>1, <2>2, WbsReads
<1>15. CASE at \in WbsCalls /\ Crash(w) /\ UNCHANGED wbsVars
  <2>1. Sole(w) /\ WbsCall(w)' /\ UNCHANGED nodes
    BY <1>1, <1>15, Crashes DEF WbsCall, WbsCalls, wbsVars
  <2> QED
    BY <2>1, WbsReads
<1> QED
  BY <1>2, <1>3, <1>4, <1>5, <1>6, <1>7, <1>9, <1>10, <1>11, <1>12, <1>13, <1>14, <1>15 DEF WbsStep

-----------------------------------------------------------------------------
(* Boards. *)

\* A number that is bounded has a greatest of its kind, in particular Max.
LessThan == {p \in Nat \X Nat : p[1] < p[2]}

LEMMA Greatest ==
    ASSUME NEW S, S \subseteq Int, S # {}, NEW m \in Nat, \A x \in S : x <= m
    PROVE  Max(S) \in S /\ \A x \in S : x <= Max(S)
<1> DEFINE Below == {m - x : x \in S}
<1>1. IsWellFoundedOn(LessThan, Nat)
  BY NatLessThanWellFounded DEF OpToRel, LessThan
<1>2. Below \subseteq Nat /\ Below # {}
  <2>1. \A x \in S : m - x \in Nat
    OBVIOUS
  <2> QED
    BY <2>1
<1>3. PICK y \in Below : \A z \in Below : <<z, y>> \notin LessThan
  <2> HIDE DEF Below
  <2> QED
    BY <1>1, <1>2, WFMin
<1>4. PICK x \in S : y = m - x
  OBVIOUS
<1>5. ASSUME NEW z \in S
      PROVE  x >= z
  <2>1. m - z \in Below /\ m - z \in Nat /\ y \in Nat
    BY <1>2
  <2>2. ~(m - z < y)
    BY <1>3, <2>1 DEF LessThan
  <2> QED
    BY <1>4, <2>1, <2>2
<1> DEFINE P(a) == a \in S /\ \A b \in S : a >= b
<1>6. P(x)
  BY <1>5
<1>7. P(CHOOSE a \in S : \A b \in S : a >= b)
  BY <1>6
<1> QED
  BY <1>7 DEF Max

LEMMA CardsGoLast ==
    ASSUME BoardsTypeOK, NEW l
    PROVE  /\ NextCardPosition(l) \in Nat
           /\ \A c \in On(l) : cards[c].pos < NextCardPosition(l)
<1> DEFINE S == {cards[c].pos : c \in On(l)} \cup {-1}
<1>1. MaxPosition \in Nat /\ \A c \in On(l) : cards[c].pos \in 0 .. MaxPosition
  BY BoardsAssumption DEF BoardsTypeOK, On
<1>2. S \subseteq Int /\ S # {} /\ \A x \in S : x <= MaxPosition
  BY <1>1
<1>3. Max(S) \in S /\ \A x \in S : x <= Max(S)
  <2> HIDE DEF S
  <2> QED
    BY <1>1, <1>2, Greatest
<1>4. -1 \in S /\ \A c \in On(l) : cards[c].pos \in S
  OBVIOUS
<1>5. NextCardPosition(l) = Max(S) + 1
  BY DEF NextCardPosition
<1> HIDE DEF S
<1>6. Max(S) \in Int /\ -1 <= Max(S)
  BY <1>2, <1>3, <1>4
<1> QED
  BY <1>1, <1>2, <1>3, <1>4, <1>5, <1>6

Visibilities == {"TEAM", "DIRECTOR_CONFIDENTIAL"}
BoardRow == [visibility : Visibilities, members : SUBSET People]

\* A card is moved to a list of its own board, or to one that is gone by now.
\* That the user sees the board, and that the place is the last, was read.
BoardCall(w) ==
    LET at == call[w].at
        saw == call[w].saw
        do == saw.do
    IN  /\ at \in BoardCalls \cup {"none"}
        /\ at = "addMember" => do.user \in People
        /\ at = "reclassify" => saw.by \in Directors /\ do.visibility \in Visibilities
        /\ at = "addList" => do.list \in ListIds
        /\ at = "createCard" => do.card \in CardIds
        /\ at = "moveCard" => /\ do.card \in DOMAIN home \cap CardIds
                              /\ lists[do.list] \in {home[do.card], "gone"}
        /\ at \in {"createCard", "moveCard"} => do.list \in ListIds /\ do.pos \in 0 .. MaxPosition
        /\ ~overlapped =>
               /\ at \in BoardCalls \ {"reclassify"} => Sees(saw.by, saw.board)
               /\ at = "createCard" /\ do.asked = None => \A c \in On(do.list) : cards[c].pos < do.pos

BoardsInv ==
    /\ Calls /\ BoardsTypeOK /\ CardsStayHome
    /\ \A b \in DOMAIN boards : boards[b] \in BoardRow
    /\ DOMAIN cards \subseteq DOMAIN home
    /\ \A c \in DOMAIN home : home[c] \in BoardIds
    /\ \A w \in Workers : BoardCall(w)

LEMMA BoardsStart == HandlersInit /\ BoardsInit => BoardsInv
<1> SUFFICES ASSUME HandlersInit, BoardsInit PROVE BoardsInv
  OBVIOUS
<1>1. DOMAIN cards = {} /\ DOMAIN home = {}
  BY DEF BoardsInit
<1>2. BoardsTypeOK /\ CardsStayHome /\ \A b \in DOMAIN boards : boards[b] \in BoardRow
  BY <1>1, BoardsAssumption
     DEF BoardsInit, BoardsTypeOK, CardsStayHome, There, BoardRow, Visibilities
<1> QED
  BY <1>1, <1>2, CallsBegin DEF BoardsInv, BoardCall, BoardCalls

\* Lists come and go, and are never moved to another board.
LEMMA BoardsFrame ==
    ASSUME BoardsInv, NEW w \in Workers, Sole(w), BoardCall(w)',
           DOMAIN boards' \subseteq BoardIds,
           \A b \in DOMAIN boards' : boards'[b] \in BoardRow,
           lists' \in [ListIds -> BoardIds \cup {None, "gone"}],
           \A l \in ListIds : lists[l] # None => lists'[l] \in {lists[l], "gone"},
           \A l \in ListIds : lists'[l] \in BoardIds => lists'[l] \in DOMAIN boards',
           DOMAIN home \subseteq DOMAIN home',
           \A c \in DOMAIN home : home'[c] = home[c],
           \A c \in DOMAIN home' : home'[c] \in BoardIds,
           DOMAIN cards' \subseteq DOMAIN home' \cap CardIds,
           \A c \in DOMAIN cards' : /\ cards'[c].list \in ListIds /\ cards'[c].pos \in 0 .. MaxPosition
                                    /\ lists'[cards'[c].list] = home'[c]
    PROVE  BoardsInv'
<1>1. BoardsTypeOK'
  BY DEF BoardsTypeOK, BoardRow, Visibilities
<1>2. CardsStayHome'
  BY DEF CardsStayHome, Board, There
<1>3. ASSUME NEW v \in Workers \ {w}
      PROVE  BoardCall(v)'
  <2> DEFINE do == call[v].saw.do
  <2>1. call'[v] = call[v] /\ BoardCall(v) /\ (call[v].at # "none" => overlapped')
    BY DEF Sole, BoardsInv
  <2>2. CASE call[v].at = "none"
    BY <2>1, <2>2 DEF BoardCall, BoardCalls
  <2>3. CASE call[v].at = "moveCard"
    <3>1. /\ do.card \in DOMAIN home /\ do.card \in CardIds /\ do.list \in ListIds
          /\ lists[do.list] \in {home[do.card], "gone"} /\ do.pos \in 0 .. MaxPosition
      BY <2>1, <2>3 DEF BoardCall
    <3> HIDE DEF do
    <3>2. home[do.card] # None
      BY <3>1, BoardsAssumption DEF BoardsInv
    <3>3. lists[do.list] # None
      BY <3>1, <3>2, BoardsAssumption
    <3>4. lists'[do.list] \in {home'[do.card], "gone"} /\ do.card \in DOMAIN home'
      BY <3>1, <3>3
    <3> QED
      BY <2>1, <2>3, <3>1, <3>4 DEF BoardCall, do
  <2>4. CASE overlapped' /\ call[v].at # "moveCard"
    BY <2>1, <2>4 DEF BoardCall
  <2> QED
    BY <2>1, <2>2, <2>3, <2>4
<1> QED
  BY <1>1, <1>2, <1>3 DEF BoardsInv, Sole

\* What the invariant says of the rows.
LEMMA BoardsHold ==
    BoardsInv => /\ DOMAIN boards \subseteq BoardIds
                 /\ \A b \in DOMAIN boards : boards[b] \in BoardRow
                 /\ lists \in [ListIds -> BoardIds \cup {None, "gone"}]
                 /\ \A l \in ListIds : lists[l] \in BoardIds => lists[l] \in DOMAIN boards
                 /\ DOMAIN cards \subseteq DOMAIN home \cap CardIds
                 /\ \A c \in DOMAIN home : home[c] \in BoardIds
                 /\ \A c \in DOMAIN cards : /\ cards[c].list \in ListIds /\ cards[c].pos \in 0 .. MaxPosition
                                            /\ lists[cards[c].list] = home[c]
BY DEF BoardsInv, BoardsTypeOK, CardsStayHome, Board, There

\* Only boards are written, and none goes.
LEMMA BoardRowsChange ==
    ASSUME BoardsInv, NEW w \in Workers, Sole(w), BoardCall(w)', UNCHANGED <<lists, cards, home>>,
           DOMAIN boards' = DOMAIN boards,
           \A b \in DOMAIN boards : boards'[b] \in BoardRow
    PROVE  BoardsInv'
<1>1. \A l \in ListIds : lists'[l] \in BoardIds => lists'[l] \in DOMAIN boards'
  BY BoardsHold DEF There
<1> QED
  BY <1>1, BoardsHold, BoardsFrame

LEMMA BoardsRead ==
    ASSUME BoardsInv, NEW w \in Workers, Sole(w), BoardCall(w)', UNCHANGED boardVars
    PROVE  BoardsInv' /\ BoardsKept
<1>1. UNCHANGED <<boards, lists, cards, home>>
  BY DEF boardVars
<1>2. BoardsInv'
  BY <1>1, BoardsHold, BoardRowsChange
<1>3. BoardsKept
  BY <1>1 DEF BoardsKept
<1> QED
  BY <1>2, <1>3

\* Cards are written or go; the boards and the lists stay.
LEMMA CardsChange ==
    ASSUME BoardsInv, NEW w \in Workers, Sole(w), BoardCall(w)', UNCHANGED <<boards, lists>>,
           DOMAIN home \subseteq DOMAIN home',
           \A c \in DOMAIN home : home'[c] = home[c],
           \A c \in DOMAIN home' : home'[c] \in BoardIds,
           DOMAIN cards' \subseteq DOMAIN home' \cap CardIds,
           \A c \in DOMAIN cards' : /\ cards'[c].list \in ListIds /\ cards'[c].pos \in 0 .. MaxPosition
                                    /\ lists[cards'[c].list] = home'[c]
    PROVE  BoardsInv'
<1>1. \A l \in ListIds : lists'[l] \in BoardIds => lists'[l] \in DOMAIN boards'
  BY BoardsHold DEF There
<1> QED
  BY <1>1, BoardsHold, BoardsFrame

\* Lists go, with their cards and perhaps with boards.
LEMMA ListsGo ==
    ASSUME BoardsInv, NEW w \in Workers, Sole(w), BoardCall(w)', NEW gone, WithoutLists(gone),
           DOMAIN boards' \subseteq DOMAIN boards,
           \A b \in DOMAIN boards' : boards'[b] = boards[b],
           \A l \in ListIds : lists[l] \in DOMAIN boards \ DOMAIN boards' => l \in gone
    PROVE  BoardsInv'
<1>1. /\ lists' = [l \in ListIds |-> IF l \in gone THEN "gone" ELSE lists[l]]
      /\ DOMAIN cards' = {c \in DOMAIN cards : cards[c].list \notin gone}
      /\ \A c \in DOMAIN cards' : cards'[c] = cards[c]
      /\ home' = home
  BY DEF WithoutLists, Keep
<1>2. lists' \in [ListIds -> BoardIds \cup {None, "gone"}]
  BY <1>1, BoardsHold
<1>3. \A l \in ListIds : lists'[l] \in BoardIds => lists'[l] \in DOMAIN boards'
  BY <1>1, BoardsHold, BoardsAssumption DEF There
<1>4. \A c \in DOMAIN cards' : lists'[cards'[c].list] = home'[c]
  BY <1>1, BoardsHold DEF There
<1>5. /\ DOMAIN boards' \subseteq BoardIds /\ \A b \in DOMAIN boards' : boards'[b] \in BoardRow
  BY BoardsHold
<1>6. \A l \in ListIds : lists'[l] \in {lists[l], "gone"}
  BY <1>1
<1>7. /\ DOMAIN cards' \subseteq DOMAIN home' \cap CardIds
      /\ \A c \in DOMAIN cards' : cards'[c].list \in ListIds /\ cards'[c].pos \in 0 .. MaxPosition
  BY <1>1, BoardsHold
<1> QED
  BY <1>1, <1>2, <1>3, <1>4, <1>5, <1>6, <1>7, BoardsHold, BoardsFrame

\* One request at a time, and not one that reclassifies: it sees the board.
LEMMA BoardsKeptBySeeing ==
    ASSUME BoardsInv, NEW w \in Workers, UNCHANGED overlapped,
           call[w].at \in BoardCalls \ {"reclassify"},
           \A b \in DOMAIN boards \cap DOMAIN boards' : boards'[b].visibility = boards[b].visibility,
           ~overlapped => \A c \in DOMAIN cards' \ DOMAIN cards :
                              \/ In(w, "createCard") /\ Asked(w).asked # None
                              \/ \A d \in On(cards'[c].list) : cards[d].pos < cards'[c].pos
    PROVE  BoardsKept
<1>1. ~overlapped => Sees(call[w].saw.by, call[w].saw.board)
  BY DEF BoardsInv, BoardCall
<1> QED
  BY <1>1 DEF BoardsKept

\* requireVisibleBoard, requireVisibleList, requireVisibleCard: what is asked
\* for is allowed as it is read.
Allowed(u, b, do) ==
    /\ do.what \in BoardCalls
    /\ do.what = "addMember" => do.user \in People
    /\ do.what = "reclassify" => u \in Directors /\ do.visibility \in Visibilities
    /\ do.what = "addList" => do.list \in ListIds
    /\ do.what = "createCard" => do.card \in CardIds
    /\ do.what = "createCard" /\ do.asked = None => \A c \in On(do.list) : cards[c].pos < do.pos
    /\ do.what = "moveCard" => do.card \in DOMAIN home \cap CardIds /\ lists[do.list] = home[do.card]
    /\ do.what \in {"createCard", "moveCard"} => do.list \in ListIds /\ do.pos \in 0 .. MaxPosition
    /\ do.what # "reclassify" => Sees(u, b)

LEMMA ChecksAreRead ==
    ASSUME BoardsInv, NEW w \in Workers, NEW u, NEW b, NEW do, Check(w, u, b, do), Allowed(u, b, do)
    PROVE  BoardsInv' /\ BoardsKept
<1>1. Begin(w, do.what, [by |-> u, board |-> b, do |-> do]) /\ UNCHANGED <<boards, lists, cards, home>>
  BY DEF Check, boardVars
<1>2. Sole(w) /\ call'[w].at = do.what /\ call'[w].saw = [by |-> u, board |-> b, do |-> do]
  BY <1>1, Begins DEF BoardsInv
<1>3. call'[w].saw.by = u /\ call'[w].saw.board = b /\ call'[w].saw.do = do
  BY <1>2
<1>4. BoardCall(w)'
  <2>1. do.what \in BoardCalls \ {"reclassify"} => Sees(u, b)'
    BY <1>1 DEF Allowed, Sees
  <2>2. do.what = "createCard" /\ do.asked = None => \A c \in On(do.list)' : cards'[c].pos < do.pos
    BY <1>1 DEF Allowed, On
  <2> QED
    BY <1>1, <1>2, <1>3, <2>1, <2>2 DEF BoardCall, Allowed
<1> QED
  BY <1>1, <1>2, <1>4, BoardsRead DEF boardVars

LEMMA BoardsGoOn == BoardsInv /\ BoardsNext => BoardsInv' /\ BoardsKept
<1> SUFFICES ASSUME BoardsInv, NEW w \in Workers, BoardsStep(w)
             PROVE  BoardsInv' /\ BoardsKept
  BY DEF BoardsNext
<1> DEFINE at == call[w].at
           saw == call[w].saw
           do == call[w].saw.do
<1>1. Calls /\ BoardCall(w) /\ BoardsTypeOK
  BY DEF BoardsInv
<1>2. ASSUME NEW u \in People, NEW b \in BoardIds, CheckBoard(w, u, b)
      PROVE  BoardsInv' /\ BoardsKept
  <2>1. Sees(u, b)
    BY <1>2 DEF CheckBoard, VisibleBoard
  <2>2. ASSUME NEW v \in People, Check(w, u, b, [what |-> "addMember", user |-> v])
        PROVE  BoardsInv' /\ BoardsKept
    <3>1. Allowed(u, b, [what |-> "addMember", user |-> v])
      BY <2>1 DEF Allowed, BoardCalls
    <3> QED
      BY <2>2, <3>1, ChecksAreRead
  <2>3. ASSUME NEW v, Check(w, u, b, [what |-> "removeMember", user |-> v])
        PROVE  BoardsInv' /\ BoardsKept
    <3>1. Allowed(u, b, [what |-> "removeMember", user |-> v])
      BY <2>1 DEF Allowed, BoardCalls
    <3> QED
      BY <2>3, <3>1, ChecksAreRead
  <2>4. ASSUME NEW l \in ListIds, Check(w, u, b, [what |-> "addList", list |-> l])
        PROVE  BoardsInv' /\ BoardsKept
    <3>1. Allowed(u, b, [what |-> "addList", list |-> l])
      BY <2>1 DEF Allowed, BoardCalls
    <3> QED
      BY <2>4, <3>1, ChecksAreRead
  <2>5. CASE Check(w, u, b, [what |-> "deleteBoard"])
    <3>1. Allowed(u, b, [what |-> "deleteBoard"])
      BY <2>1 DEF Allowed, BoardCalls
    <3> QED
      BY <2>5, <3>1, ChecksAreRead
  <2> QED
    BY <1>2, <2>2, <2>3, <2>4, <2>5 DEF CheckBoard
<1>3. ASSUME NEW u \in People, NEW b \in BoardIds, CheckReclassify(w, u, b)
      PROVE  BoardsInv' /\ BoardsKept
  <2>1. PICK v \in Visibilities : Check(w, u, b, [what |-> "reclassify", visibility |-> v])
    BY <1>3 DEF CheckReclassify, Visibilities
  <2>2. Allowed(u, b, [what |-> "reclassify", visibility |-> v])
    BY <1>3 DEF CheckReclassify, Allowed, BoardCalls
  <2> QED
    BY <2>1, <2>2, ChecksAreRead
<1>4. ASSUME NEW u \in People, NEW l \in {m \in ListIds : There(m)}, CheckList(w, u, l)
      PROVE  BoardsInv' /\ BoardsKept
  <2> DEFINE p == NextCardPosition(l)
  <2>1. Sees(u, lists[l])
    BY <1>4 DEF CheckList, VisibleList
  <2>2. p \in Nat /\ \A d \in On(l) : cards[d].pos < p
    BY <1>1, CardsGoLast
  <2> HIDE DEF p
  <2>3. ASSUME NEW c \in CardIds, NEW wanted \in 0 .. MaxPosition \cup {None}, NEW pos,
               pos = IF wanted = None THEN p ELSE wanted, pos <= MaxPosition,
               Check(w, u, lists[l], [what |-> "createCard", card |-> c, list |-> l, asked |-> wanted, pos |-> pos])
        PROVE  BoardsInv' /\ BoardsKept
    <3>1. pos \in 0 .. MaxPosition
      BY <2>2, <2>3, BoardsAssumption
    <3>2. wanted = None => \A d \in On(l) : cards[d].pos < pos
      BY <2>2, <2>3
    <3>3. Allowed(u, lists[l], [what |-> "createCard", card |-> c, list |-> l, asked |-> wanted, pos |-> pos])
      BY <2>1, <3>1, <3>2 DEF Allowed, BoardCalls
    <3> QED
      BY <2>3, <3>3, ChecksAreRead
  <2>4. CASE Check(w, u, lists[l], [what |-> "deleteList", list |-> l])
    <3>1. Allowed(u, lists[l], [what |-> "deleteList", list |-> l])
      BY <2>1 DEF Allowed, BoardCalls
    <3> QED
      BY <2>4, <3>1, ChecksAreRead
  <2> QED
    BY <1>4, <2>3, <2>4 DEF CheckList, p
<1>5. ASSUME NEW u \in People, NEW c \in DOMAIN cards, CheckCard(w, u, c)
      PROVE  BoardsInv' /\ BoardsKept
  <2>1. Sees(u, Board(c)) /\ Board(c) = home[c] /\ c \in CardIds /\ c \in DOMAIN home
    BY <1>5, BoardsHold DEF CheckCard, VisibleCard, Board
  <2>2. ASSUME NEW l \in ListIds, NEW p \in 0 .. MaxPosition, lists[l] = Board(c),
               Check(w, u, lists[l], [what |-> "moveCard", card |-> c, list |-> l, pos |-> p])
        PROVE  BoardsInv' /\ BoardsKept
    <3>1. Allowed(u, lists[l], [what |-> "moveCard", card |-> c, list |-> l, pos |-> p])
      BY <2>1, <2>2 DEF Allowed, BoardCalls
    <3> QED
      BY <2>2, <3>1, ChecksAreRead
  <2>3. CASE Check(w, u, Board(c), [what |-> "deleteCard", card |-> c])
    <3>1. Allowed(u, Board(c), [what |-> "deleteCard", card |-> c])
      BY <2>1 DEF Allowed, BoardCalls
    <3> QED
      BY <2>3, <3>1, ChecksAreRead
  <2> QED
    BY <1>5, <2>2, <2>3 DEF CheckCard
\* The calls that write.
<1>6. ASSUME at \in BoardCalls, Done(w)
      PROVE  Sole(w) /\ UNCHANGED overlapped /\ BoardCall(w)'
  BY <1>1, <1>6, Ends DEF BoardCall, BoardCalls
\* One board is written.
<1>7. ASSUME at \in BoardCalls, Done(w), UNCHANGED <<lists, cards, home>>, NEW row,
             saw.board \in DOMAIN boards => row \in BoardRow,
             boards' = IF saw.board \in DOMAIN boards THEN [boards EXCEPT ![saw.board] = row] ELSE boards
      PROVE  /\ BoardsInv'
             /\ DOMAIN boards' = DOMAIN boards
             /\ \A b \in DOMAIN boards : b # saw.board => boards'[b] = boards[b]
             /\ saw.board \in DOMAIN boards => boards'[saw.board] = row
  <2>1. /\ DOMAIN boards' = DOMAIN boards
        /\ \A b \in DOMAIN boards : b # saw.board => boards'[b] = boards[b]
        /\ saw.board \in DOMAIN boards => boards'[saw.board] = row
    BY <1>7
  <2>2. \A b \in DOMAIN boards : boards'[b] \in BoardRow
    BY <1>7, <2>1, BoardsHold
  <2> QED
    BY <1>6, <1>7, <2>1, <2>2, BoardRowsChange
<1>8. CASE AddMember(w) \/ RemoveMember(w)
  <2> DEFINE b == saw.board
             m == IF at = "addMember" THEN boards[b].members \cup {do.user} ELSE boards[b].members \ {do.user}
             row == [boards[b] EXCEPT !.members = m]
  <2>1. /\ at \in BoardCalls \ {"reclassify"} /\ Done(w) /\ UNCHANGED <<lists, cards, home>>
        /\ boards' = IF b \in DOMAIN boards THEN [boards EXCEPT ![b] = row] ELSE boards
    <3>1. CASE AddMember(w)
      BY <3>1 DEF AddMember, SetMembers, Asked, In, BoardCalls
    <3>2. CASE RemoveMember(w)
      BY <3>2 DEF RemoveMember, SetMembers, Asked, In, BoardCalls
    <3> QED
      BY <1>8, <3>1, <3>2
  <2>2. b \in DOMAIN boards => boards[b] \in BoardRow /\ m \subseteq People
    BY <1>1, BoardsHold, <2>1, <1>8 DEF BoardCall, BoardRow
  <2> HIDE DEF m
  <2>3. b \in DOMAIN boards => row \in BoardRow /\ row.visibility = boards[b].visibility
    BY <2>2 DEF BoardRow
  <2> HIDE DEF row, b
  <2>4. /\ BoardsInv' /\ \A c \in DOMAIN boards \cap DOMAIN boards' : boards'[c].visibility = boards[c].visibility
    BY <1>7, <2>1, <2>3 DEF b
  <2> QED
    BY <1>6, <2>1, <2>4, BoardsKeptBySeeing
<1>9. CASE Reclassify(w)
  <2> DEFINE b == saw.board
             row == [boards[b] EXCEPT !.visibility = do.visibility]
  <2>1. /\ at = "reclassify" /\ Done(w) /\ UNCHANGED <<lists, cards, home>>
        /\ boards' = IF b \in DOMAIN boards THEN [boards EXCEPT ![b] = row] ELSE boards
    BY <1>9 DEF Reclassify, Asked, In
  <2>2. b \in DOMAIN boards => row \in BoardRow
    BY <1>1, <2>1, BoardsHold DEF BoardCall, BoardRow
  <2>3. saw.by \in Directors
    BY <1>1, <2>1 DEF BoardCall
  <2> HIDE DEF row, b
  <2>4. BoardsInv'
    BY <1>7, <2>1, <2>2 DEF b, BoardCalls
  <2>5. BoardsKept
    BY <2>1, <2>3 DEF BoardsKept, In
  <2> QED
    BY <2>4, <2>5
<1>10. CASE CreateList(w)
  <2> DEFINE b == saw.board
             l == do.list
  <2>1. /\ at = "addList" /\ Done(w) /\ UNCHANGED <<boards, cards, home>>
        /\ lists' = IF b \in DOMAIN boards /\ lists[l] = None THEN [lists EXCEPT ![l] = b] ELSE lists
    BY <1>10 DEF CreateList, Asked, In
  <2>2. l \in ListIds
    BY <1>1, <2>1 DEF BoardCall
  <2> HIDE DEF b, l
  <2>3. /\ lists' \in [ListIds -> BoardIds \cup {None, "gone"}]
        /\ \A k \in ListIds : lists[k] # None => lists'[k] = lists[k]
        /\ \A k \in ListIds : lists'[k] \in BoardIds => lists'[k] \in DOMAIN boards'
    BY <2>1, <2>2, BoardsHold
  <2>4. \A c \in DOMAIN cards : lists'[cards[c].list] = home[c]
    BY <2>3, BoardsHold, BoardsAssumption
  <2>5. BoardsInv'
    BY <1>6, <2>1, <2>3, <2>4, BoardsHold, BoardsFrame DEF BoardCalls
  <2>6. BoardsKept
    BY <1>6, <2>1, BoardsKeptBySeeing DEF BoardCalls
  <2> QED
    BY <2>5, <2>6
<1>11. CASE DeleteList(w)
  <2>1. /\ at = "deleteList" /\ Done(w) /\ UNCHANGED boards /\ WithoutLists({do.list})
    BY <1>11 DEF DeleteList, Asked, In
  <2>2. BoardsInv'
    BY <1>6, <2>1, ListsGo DEF BoardCalls
  <2>3. DOMAIN cards' \subseteq DOMAIN cards
    BY <2>1 DEF WithoutLists, Keep
  <2>4. BoardsKept
    BY <1>6, <2>1, <2>3, BoardsKeptBySeeing DEF BoardCalls
  <2> QED
    BY <2>2, <2>4
<1>12. CASE DeleteBoard(w)
  <2> DEFINE b == saw.board
  <2>1. /\ at = "deleteBoard" /\ Done(w) /\ WithoutLists(Lists(b))
        /\ boards' = [x \in DOMAIN boards \ {b} |-> boards[x]]
    BY <1>12 DEF DeleteBoard, Keep, In
  <2>2. /\ DOMAIN boards' = DOMAIN boards \ {b}
        /\ \A x \in DOMAIN boards' : boards'[x] = boards[x]
        /\ \A l \in ListIds : lists[l] = b => l \in Lists(b)
    BY <2>1 DEF Lists
  <2> HIDE DEF b
  <2>3. BoardsInv'
    BY <1>6, <2>1, <2>2, ListsGo DEF BoardCalls
  <2>4. DOMAIN cards' \subseteq DOMAIN cards
    BY <2>1 DEF WithoutLists, Keep
  <2>5. BoardsKept
    BY <1>6, <2>1, <2>2, <2>4, BoardsKeptBySeeing DEF BoardCalls
  <2> QED
    BY <2>3, <2>5
<1>13. CASE CreateCard(w)
  <2> DEFINE c == do.card
             l == do.list
  <2>1. at = "createCard" /\ Done(w) /\ UNCHANGED <<boards, lists>>
    BY <1>13 DEF CreateCard, In
  <2>2. /\ c \in CardIds /\ l \in ListIds /\ do.pos \in 0 .. MaxPosition
        /\ ~overlapped /\ do.asked = None => \A d \in On(l) : cards[d].pos < do.pos
    BY <1>1, <2>1 DEF BoardCall
  <2>3. CASE UNCHANGED <<cards, home>>
    BY <1>6, <2>1, <2>3, BoardsRead DEF BoardCalls, boardVars
  <2>4. CASE /\ There(l) /\ c \notin DOMAIN home /\ PutCard(w)
             /\ home' = [d \in DOMAIN home \cup {c} |-> IF d = c THEN lists[l] ELSE home[d]]
    <3>1. /\ cards' = [d \in DOMAIN cards \cup {c} |-> IF d = c THEN [list |-> l, pos |-> do.pos] ELSE cards[d]]
      BY <2>4 DEF PutCard, Asked
    <3>2. PICK p : p = do.pos
      OBVIOUS
    <3>3. home' = [d \in DOMAIN home \cup {c} |-> IF d = c THEN lists[l] ELSE home[d]]
      BY <2>4
    <3>4. /\ lists[l] \in BoardIds /\ c \notin DOMAIN home
      BY <2>4 DEF There
    <3> HIDE DEF c, l
    <3>5. /\ DOMAIN cards' = DOMAIN cards \cup {c} /\ cards'[c].list = l /\ cards'[c].pos = p
          /\ \A d \in DOMAIN cards \ {c} : cards'[d] = cards[d]
      BY <3>1, <3>2
    <3>6. /\ DOMAIN home' = DOMAIN home \cup {c} /\ home'[c] = lists[l]
          /\ \A d \in DOMAIN home : home'[d] = home[d]
      BY <3>3, <3>4
    <3>7. /\ DOMAIN cards' \subseteq DOMAIN home' \cap CardIds
          /\ \A d \in DOMAIN home' : home'[d] \in BoardIds
      BY <2>2, <3>4, <3>5, <3>6, BoardsHold
    <3>8. \A d \in DOMAIN cards' : /\ cards'[d].list \in ListIds /\ cards'[d].pos \in 0 .. MaxPosition
                                   /\ lists[cards'[d].list] = home'[d]
      BY <2>2, <3>2, <3>4, <3>5, <3>6, BoardsHold
    <3>9. BoardsInv'
      BY <1>6, <2>1, <3>6, <3>7, <3>8, CardsChange DEF BoardCalls
    <3>10. BoardsKept
      BY <1>6, <2>1, <2>2, <3>2, <3>5, BoardsKeptBySeeing DEF BoardCalls, In, Asked
    <3> QED
      BY <3>9, <3>10
  <2> QED
    BY <1>13, <2>3, <2>4 DEF CreateCard, Asked
<1>14. CASE MoveCard(w)
  <2> DEFINE c == do.card
             l == do.list
  <2>1. at = "moveCard" /\ Done(w) /\ UNCHANGED <<boards, lists, home>>
    BY <1>14 DEF MoveCard, In
  <2>2. /\ c \in CardIds /\ l \in ListIds /\ do.pos \in 0 .. MaxPosition
        /\ lists[l] \in {home[c], "gone"}
    BY <1>1, <2>1 DEF BoardCall
  <2>3. CASE UNCHANGED cards
    BY <1>6, <2>1, <2>3, BoardsRead DEF BoardCalls, boardVars
  <2>4. CASE There(l) /\ c \in DOMAIN cards /\ PutCard(w)
    <3>1. /\ cards' = [d \in DOMAIN cards \cup {c} |-> IF d = c THEN [list |-> l, pos |-> do.pos] ELSE cards[d]]
      BY <2>4 DEF PutCard, Asked
    <3>2. PICK p : p = do.pos
      OBVIOUS
    <3>3. lists[l] = home[c] /\ c \in DOMAIN cards
      BY <2>2, <2>4, BoardsAssumption DEF There
    <3> HIDE DEF c, l
    <3>4. /\ DOMAIN cards' = DOMAIN cards /\ cards'[c].list = l /\ cards'[c].pos = p
          /\ \A d \in DOMAIN cards \ {c} : cards'[d] = cards[d]
      BY <3>1, <3>2, <3>3
    <3>5. \A d \in DOMAIN cards' : /\ cards'[d].list \in ListIds /\ cards'[d].pos \in 0 .. MaxPosition
                                   /\ lists[cards'[d].list] = home'[d]
      BY <2>1, <2>2, <3>2, <3>3, <3>4, BoardsHold
    <3>6. BoardsInv'
      BY <1>6, <2>1, <3>4, <3>5, BoardsHold, CardsChange DEF BoardCalls
    <3>7. BoardsKept
      BY <1>6, <2>1, <3>4, BoardsKeptBySeeing DEF BoardCalls
    <3> QED
      BY <3>6, <3>7
  <2> QED
    BY <1>14, <2>3, <2>4 DEF MoveCard, Asked
<1>15. CASE DeleteCard(w)
  <2>1. /\ at = "deleteCard" /\ Done(w) /\ UNCHANGED <<boards, lists, home>>
        /\ cards' = [d \in DOMAIN cards \ {do.card} |-> cards[d]]
    BY <1>15 DEF DeleteCard, Keep, Asked, In
  <2>2. DOMAIN cards' \subseteq DOMAIN cards /\ \A d \in DOMAIN cards' : cards'[d] = cards[d]
    BY <2>1
  <2>3. BoardsInv'
    BY <1>6, <2>1, <2>2, BoardsHold, CardsChange DEF BoardCalls
  <2>4. BoardsKept
    BY <1>6, <2>1, <2>2, BoardsKeptBySeeing DEF BoardCalls
  <2> QED
    BY <2>3, <2>4
<1>16. CASE at \in BoardCalls /\ Crash(w) /\ UNCHANGED boardVars
  <2>1. Sole(w) /\ BoardCall(w)'
    BY <1>1, <1>16, Crashes DEF BoardCall, BoardCalls
  <2> QED
    BY <1>16, <2>1, BoardsRead
<1> QED
  BY <1>2, <1>3, <1>4, <1>5, <1>8, <1>9, <1>10, <1>11, <1>12, <1>13, <1>14, <1>15, <1>16 DEF BoardsStep

-----------------------------------------------------------------------------
(* Notifications. *)

NoticeRow == [notice : Notices, user : People, severity : DOMAIN channelsFor,
              read : BOOLEAN, wanted : SUBSET External]

Sought == [notice : Notices, severity : DOMAIN channelsFor, left : SUBSET People,
           user : People \cup {None}, channels : SUBSET External, use : External \cup {None}]

HasRow(n, u, s) == \E r \in rows : r.notice = n /\ r.user = u /\ r.severity = s

\* Channels are asked about for a recipient who has a row, and used if they are
\* among those of its severity.
NoticeCall(w) ==
    LET at == call[w].at
        saw == call[w].saw
    IN  /\ at \in NotificationCalls \cup {"none"}
        /\ at \in NotificationCalls => saw \in Sought /\ saw.left \subseteq asked[saw.notice]
        /\ at \in {"channel", "transport"} =>
               /\ HasRow(saw.notice, saw.user, saw.severity)
               /\ saw.channels \subseteq channelsFor[saw.severity]
        /\ at = "transport" => saw.use \in channelsFor[saw.severity]

NotificationsInv ==
    /\ Calls /\ SendsAreFounded
    /\ \E k \in Nat : Notices = 1 .. k
    /\ \A n \in Notices : asked[n] \subseteq People
    /\ rows \subseteq NoticeRow
    /\ \A w \in Workers : NoticeCall(w)

LEMMA NotificationsStart == HandlersInit /\ NotificationsInit => NotificationsInv
<1> SUFFICES ASSUME HandlersInit, NotificationsInit PROVE NotificationsInv
  OBVIOUS
<1>1. Notices = {} /\ Notices = 1 .. 0
  BY DEF NotificationsInit, Notices
<1> QED
  BY <1>1, CallsBegin DEF NotificationsInit, NotificationsInv, SendsAreFounded, NoticeCall, NotificationCalls

LEMMA NoticesFrame ==
    ASSUME NotificationsInv, NEW w \in Workers, Calls', \A v \in Workers \ {w} : call'[v] = call[v],
           NoticeCall(w)',
           \E k \in Nat : Notices' = 1 .. k,
           Notices \subseteq Notices',
           \A n \in Notices' : asked'[n] \subseteq People,
           \A n \in Notices : asked'[n] = asked[n],
           rows' \subseteq NoticeRow',
           \A r \in rows' : r.user \in asked'[r.notice],
           \A r \in rows : \E q \in rows' : q.notice = r.notice /\ q.user = r.user /\ q.severity = r.severity,
           \A x \in sends' \ sends : \E r \in rows' :
               r.notice = x[1] /\ r.user = x[2] /\ x[3] \in channelsFor[r.severity]
    PROVE  NotificationsInv'
<1>1. SendsAreFounded'
  <2>1. ASSUME NEW x \in sends
        PROVE  \E r \in rows' : r.notice = x[1] /\ r.user = x[2] /\ x[3] \in channelsFor[r.severity]
    <3>1. PICK r \in rows : r.notice = x[1] /\ r.user = x[2] /\ x[3] \in channelsFor[r.severity]
      BY DEF NotificationsInv, SendsAreFounded, Rows
    <3> QED
      BY <3>1
  <2> QED
    BY <2>1 DEF SendsAreFounded, Rows
<1>2. ASSUME NEW v \in Workers \ {w}
      PROVE  NoticeCall(v)'
  <2> DEFINE saw == call[v].saw
  <2>1. call'[v] = call[v] /\ NoticeCall(v)
    BY DEF NotificationsInv
  <2>2. saw \in Sought => saw \in Sought' /\ asked'[saw.notice] = asked[saw.notice]
    BY DEF Sought
  <2>3. HasRow(saw.notice, saw.user, saw.severity) =>
            \E r \in rows' : r.notice = saw.notice /\ r.user = saw.user /\ r.severity = saw.severity
    BY DEF HasRow
  <2> QED
    BY <2>1, <2>2, <2>3 DEF NoticeCall, HasRow
<1> QED
  BY <1>1, <1>2 DEF NotificationsInv

\* A handler that only goes on, or a change of preferences.
LEMMA NoticesRead ==
    ASSUME NotificationsInv, NEW w \in Workers, Calls', \A v \in Workers \ {w} : call'[v] = call[v],
           NoticeCall(w)', UNCHANGED <<rows, sends, asked>>
    PROVE  NotificationsInv' /\ ReadStays
<1>1. Notices' = Notices /\ NoticeRow' = NoticeRow
  BY DEF Notices, NoticeRow
<1>2. NotificationsInv'
  BY <1>1, NoticesFrame DEF NotificationsInv, SendsAreFounded
<1> QED
  BY <1>2 DEF ReadStays

\* Rows are read.
LEMMA NoticesAreRead ==
    ASSUME NotificationsInv, NEW w \in Workers, UNCHANGED <<handlerVars, sends, asked>>, NEW R \in SUBSET rows,
           rows' = (rows \ R) \cup {[r EXCEPT !.read = TRUE] : r \in R}
    PROVE  NotificationsInv' /\ \A r \in rows : r.read = TRUE => r \in rows'
<1>1. Notices' = Notices /\ NoticeRow' = NoticeRow /\ Sought' = Sought /\ UNCHANGED <<call, overlapped>>
  BY DEF Notices, NoticeRow, Sought, handlerVars
<1>2. ASSUME NEW r \in rows
      PROVE  LET q == [r EXCEPT !.read = TRUE]
             IN /\ q \in NoticeRow
                /\ q.notice = r.notice /\ q.user = r.user /\ q.severity = r.severity
                /\ r.read = TRUE => q = r
  <2> DEFINE q == [r EXCEPT !.read = TRUE]
  <2>1. r \in NoticeRow
    BY DEF NotificationsInv
  <2>2. q \in NoticeRow /\ q.notice = r.notice /\ q.user = r.user /\ q.severity = r.severity
    BY <2>1 DEF NoticeRow
  <2>3. r.read = TRUE => q = r
    BY <2>1 DEF NoticeRow
  <2> QED
    BY <2>2, <2>3
<1>3. rows' \subseteq NoticeRow' /\ \A r \in rows' : r.user \in asked'[r.notice]
  <2>1. ASSUME NEW q \in rows'
        PROVE  q \in NoticeRow /\ q.user \in asked[q.notice]
    <3>1. \E r \in rows : q = r \/ q = [r EXCEPT !.read = TRUE]
      OBVIOUS
    <3>2. PICK r \in rows : q = r \/ q = [r EXCEPT !.read = TRUE]
      BY <3>1
    <3>3. r \in NoticeRow /\ r.user \in asked[r.notice]
      BY DEF NotificationsInv, SendsAreFounded
    <3> QED
      BY <1>2, <3>2, <3>3
  <2> QED
    BY <1>1, <2>1
<1>4. \A r \in rows : \E q \in rows' : q.notice = r.notice /\ q.user = r.user /\ q.severity = r.severity
  BY <1>2
<1>5. \A r \in rows : r.read = TRUE => r \in rows'
  BY <1>2
<1>6. Calls'
  BY <1>1 DEF NotificationsInv, Calls
<1>7. NoticeCall(w)'
  <2>1. NoticeCall(w) /\ call'[w] = call[w]
    BY <1>1 DEF NotificationsInv
  <2>2. \A n, u, s : HasRow(n, u, s) => \E r \in rows' : r.notice = n /\ r.user = u /\ r.severity = s
    <3>1. ASSUME NEW n, NEW u, NEW s, HasRow(n, u, s)
          PROVE  \E r \in rows' : r.notice = n /\ r.user = u /\ r.severity = s
      <4>1. PICK r \in rows : r.notice = n /\ r.user = u /\ r.severity = s
        BY <3>1 DEF HasRow
      <4>2. PICK q \in rows' : q.notice = r.notice /\ q.user = r.user /\ q.severity = r.severity
        BY <1>4
      <4> QED
        BY <4>1, <4>2
    <3> QED
      BY <3>1
  <2> QED
    BY <1>1, <2>1, <2>2 DEF NoticeCall, HasRow
<1>8. NotificationsInv'
  BY <1>1, <1>3, <1>4, <1>6, <1>7, NoticesFrame DEF NotificationsInv
<1> QED
  BY <1>5, <1>8

LEMMA NotificationsGoOn == NotificationsInv /\ NotificationsNext => NotificationsInv' /\ ReadStays
<1> SUFFICES ASSUME NotificationsInv, NEW w \in Workers, NotificationsStep(w)
             PROVE  NotificationsInv' /\ ReadStays
  BY DEF NotificationsNext
<1> DEFINE at == call[w].at
           saw == call[w].saw
<1>1. /\ Calls /\ NoticeCall(w) /\ rows \subseteq NoticeRow
      /\ \A n \in Notices : asked[n] \subseteq People
      /\ \A r \in rows : r.user \in asked[r.notice]
      /\ \A s \in DOMAIN channelsFor : channelsFor[s] \subseteq External
  BY DEF NotificationsInv, SendsAreFounded, channelsFor, External
<1>2. \A r \in rows : r.read \in BOOLEAN
  BY <1>1 DEF NoticeRow
<1>3. ASSUME NEW users \in SUBSET People \ {{}}, NEW s \in DOMAIN channelsFor, Send(w, users, s)
      PROVE  NotificationsInv' /\ ReadStays
  <2>1. PICK k \in Nat : Notices = 1 .. k
    BY DEF NotificationsInv
  <2>2. Cardinality(Notices) = k
    BY <2>1, FS_Interval
  <2> DEFINE n == k + 1
             new == [notice |-> n, severity |-> s, left |-> users, user |-> None, channels |-> {}, use |-> None]
  <2>3. /\ asked' = [m \in Notices \cup {n} |-> IF m = n THEN users ELSE asked[m]]
        /\ Begin(w, "row", new) /\ UNCHANGED <<rows, sends>>
    BY <1>3, <2>2 DEF Send
  <2>4. Sole(w) /\ call'[w].at = "row" /\ call'[w].saw = new
    BY <1>1, <2>3, Begins
  <2>5. /\ Notices' = Notices \cup {n} /\ Notices' = 1 .. n /\ n \in Nat /\ n \notin Notices
        /\ asked'[n] = users /\ \A m \in Notices : asked'[m] = asked[m]
    BY <2>1, <2>3 DEF Notices
  <2>6. new \in Sought'
    BY <2>5 DEF Sought
  <2>7. NoticeCall(w)'
    BY <2>4, <2>5, <2>6 DEF NoticeCall, NotificationCalls
  <2>8. /\ rows' \subseteq NoticeRow' /\ \A r \in rows' : r.user \in asked'[r.notice]
    BY <1>1, <2>3, <2>5 DEF NoticeRow
  <2>9. \A m \in Notices' : asked'[m] \subseteq People
    BY <1>1, <2>5
  <2>10. NotificationsInv'
    BY <2>3, <2>4, <2>5, <2>7, <2>8, <2>9, NoticesFrame DEF Sole
  <2> QED
    BY <2>3, <2>10 DEF ReadStays
<1>4. CASE CreateRow(w)
  <2>1. /\ at = "row" /\ saw \in Sought /\ saw.left \subseteq asked[saw.notice]
        /\ UNCHANGED <<sends, asked, off>>
    BY <1>1, <1>4 DEF CreateRow, In, NoticeCall, NotificationCalls
  <2> DEFINE row(u) == [notice |-> saw.notice, user |-> u, severity |-> saw.severity, read |-> FALSE,
                        wanted |-> channelsFor[saw.severity] \ off[u]]
             next(u) == [saw EXCEPT !.left = @ \ {u}, !.user = u, !.channels = channelsFor[saw.severity]]
  <2>2. PICK u \in saw.left : rows' = rows \cup {row(u)} /\ Step(w, "channel", next(u))
    BY <1>4 DEF CreateRow
  <2>3. Sole(w) /\ call'[w].at = "channel" /\ call'[w].saw = next(u)
    BY <1>1, <2>1, <2>2, Steps
  <2>4. u \in People /\ u \in asked[saw.notice] /\ saw.notice \in Notices /\ saw.severity \in DOMAIN channelsFor
    BY <2>1 DEF Sought
  <2>5. row(u) \in NoticeRow
    BY <1>1, <2>4 DEF NoticeRow
  <2>6. /\ next(u) \in Sought /\ next(u).left \subseteq saw.left /\ next(u).notice = saw.notice
        /\ next(u).user = u /\ next(u).severity = saw.severity
        /\ next(u).channels = channelsFor[saw.severity]
    BY <1>1, <2>1, <2>4 DEF Sought
  <2>7. row(u).notice = saw.notice /\ row(u).user = u /\ row(u).severity = saw.severity
    OBVIOUS
  <2> HIDE DEF row, next
  <2>8. Notices' = Notices /\ NoticeRow' = NoticeRow /\ Sought' = Sought
    BY <2>1 DEF Notices, NoticeRow, Sought
  <2>9. NoticeCall(w)'
    <3>1. \E r \in rows' : r.notice = saw.notice /\ r.user = u /\ r.severity = saw.severity
      BY <2>2, <2>7
    <3> QED
      BY <2>1, <2>3, <2>6, <2>8, <3>1 DEF NoticeCall, NotificationCalls, HasRow
  <2>10. /\ rows' \subseteq NoticeRow' /\ rows \subseteq rows' /\ \A r \in rows' : r.user \in asked'[r.notice]
    BY <1>1, <2>1, <2>2, <2>4, <2>5, <2>7, <2>8
  <2>11. NotificationsInv'
    BY <1>1, <2>1, <2>3, <2>8, <2>9, <2>10, NoticesFrame DEF Sole, NotificationsInv
  <2> QED
    BY <2>10, <2>11 DEF ReadStays
<1>5. CASE AskChannel(w)
  <2>1. /\ at = "channel" /\ saw \in Sought /\ saw.left \subseteq asked[saw.notice]
        /\ HasRow(saw.notice, saw.user, saw.severity) /\ saw.channels \subseteq channelsFor[saw.severity]
        /\ UNCHANGED <<rows, sends, asked, off>>
    BY <1>1, <1>5 DEF AskChannel, In, NoticeCall, NotificationCalls, notificationVars
  <2> DEFINE skip(c) == [saw EXCEPT !.channels = @ \ {c}]
             use(c) == [saw EXCEPT !.channels = @ \ {c}, !.use = c]
  <2>2. PICK c \in saw.channels : Step(w, "channel", skip(c)) \/ Step(w, "transport", use(c))
    BY <1>5 DEF AskChannel
  <2>3. c \in channelsFor[saw.severity] /\ c \in External
    BY <1>1, <2>1 DEF Sought
  <2>4. \A x \in {skip(c), use(c)} :
            /\ x \in Sought /\ x.left = saw.left /\ x.notice = saw.notice
            /\ x.user = saw.user /\ x.severity = saw.severity /\ x.channels \subseteq saw.channels
    BY <2>1, <2>3 DEF Sought
  <2>5. use(c).use = c
    BY <2>1 DEF Sought
  <2> HIDE DEF skip, use
  <2>6. PICK x \in {skip(c), use(c)} :
            /\ Sole(w) /\ call'[w].saw = x /\ call'[w].at \in {"channel", "transport"}
            /\ call'[w].at = "transport" => x.use = c
    BY <1>1, <2>1, <2>2, <2>5, Steps
  <2>7. Sought' = Sought /\ HasRow(saw.notice, saw.user, saw.severity)
    BY <2>1 DEF Notices, Sought
  <2>8. \E r \in rows' : r.notice = x.notice /\ r.user = x.user /\ r.severity = x.severity
    BY <2>1, <2>4 DEF HasRow
  <2>9. NoticeCall(w)'
    BY <2>1, <2>3, <2>4, <2>6, <2>7, <2>8 DEF NoticeCall, NotificationCalls, HasRow
  <2> QED
    BY <2>1, <2>6, <2>9, NoticesRead DEF Sole
<1>6. CASE Transport(w)
  <2>1. /\ at = "transport" /\ Step(w, "channel", saw) /\ UNCHANGED <<rows, asked, off>>
        /\ sends' = sends \cup {<<saw.notice, saw.user, saw.use>>}
        /\ HasRow(saw.notice, saw.user, saw.severity) /\ saw.use \in channelsFor[saw.severity]
    BY <1>1, <1>6 DEF Transport, In, NoticeCall
  <2>2. Sole(w) /\ call'[w].at = "channel" /\ call'[w].saw = saw
    BY <1>1, <2>1, Steps
  <2>3. Notices' = Notices /\ NoticeRow' = NoticeRow /\ Sought' = Sought
    BY <2>1 DEF Notices, NoticeRow, Sought
  <2>4. PICK r \in rows : r.notice = saw.notice /\ r.user = saw.user /\ r.severity = saw.severity
    BY <2>1 DEF HasRow
  <2>5. NoticeCall(w)'
    <3>1. \E q \in rows' : q.notice = saw.notice /\ q.user = saw.user /\ q.severity = saw.severity
      BY <2>1, <2>4
    <3> QED
      BY <1>1, <2>1, <2>2, <2>3, <3>1 DEF NoticeCall, NotificationCalls, HasRow
  <2>6. \A x \in sends' \ sends : \E q \in rows' :
            q.notice = x[1] /\ q.user = x[2] /\ x[3] \in channelsFor[q.severity]
    BY <2>1, <2>4
  <2>7. NotificationsInv'
    BY <1>1, <2>1, <2>2, <2>3, <2>5, <2>6, NoticesFrame DEF Sole, NotificationsInv
  <2> QED
    BY <2>1, <2>7 DEF ReadStays
<1>7. CASE NextRecipient(w)
  <2>1. /\ at = "channel" /\ UNCHANGED <<rows, sends, asked, off>>
        /\ saw \in Sought /\ saw.left \subseteq asked[saw.notice]
        /\ Done(w) \/ Step(w, "row", saw)
    BY <1>1, <1>7 DEF NextRecipient, In, NoticeCall, NotificationCalls, notificationVars
  <2>2. Sole(w) /\ (call'[w].at = "none" \/ (call'[w].at = "row" /\ call'[w].saw = saw))
    BY <1>1, <2>1, Steps, Ends
  <2>3. Sought' = Sought
    BY <2>1 DEF Notices, Sought
  <2>4. NoticeCall(w)'
    BY <2>1, <2>2, <2>3 DEF NoticeCall, NotificationCalls
  <2> QED
    BY <2>1, <2>2, <2>4, NoticesRead DEF Sole
<1>8. ASSUME NEW u \in People, MarkRead(w, u)
      PROVE  NotificationsInv' /\ ReadStays
  <2>1. PICK r \in rows : ~r.read /\ rows' = (rows \ {r}) \cup {[r EXCEPT !.read = TRUE]}
    BY <1>8 DEF MarkRead
  <2>2. rows' = (rows \ {r}) \cup {[x EXCEPT !.read = TRUE] : x \in {r}}
    BY <2>1
  <2>3. UNCHANGED <<handlerVars, sends, asked>>
    BY <1>8 DEF MarkRead
  <2>4. \A x \in rows : x.read = TRUE => x \in rows'
    BY <2>1
  <2>5. NotificationsInv'
    BY <2>2, <2>3, NoticesAreRead
  <2> QED
    BY <1>2, <2>4, <2>5 DEF ReadStays
<1>9. ASSUME NEW u \in People, MarkAllRead(w, u)
      PROVE  NotificationsInv' /\ ReadStays
  <2> DEFINE R == {r \in rows : r.user = u}
  <2>1. /\ rows' = {IF r.user = u THEN [r EXCEPT !.read = TRUE] ELSE r : r \in rows}
        /\ UNCHANGED <<handlerVars, sends, asked>>
    BY <1>9 DEF MarkAllRead
  <2>2. rows' = (rows \ R) \cup {[r EXCEPT !.read = TRUE] : r \in R}
    BY <2>1
  <2>3. R \in SUBSET rows
    OBVIOUS
  <2> HIDE DEF R
  <2> QED
    BY <1>2, <2>1, <2>2, <2>3, NoticesAreRead DEF ReadStays
<1>10. ASSUME NEW u \in People, NEW c \in External, NEW enabled \in BOOLEAN, setPreference(w, u, c, enabled)
       PROVE  NotificationsInv' /\ ReadStays
  <2>1. UNCHANGED <<call, rows, sends, asked>> /\ (overlapped => overlapped')
    BY <1>10 DEF setPreference
  <2>2. Calls' /\ Sought' = Sought
    BY <1>1, <2>1 DEF Calls, Notices, Sought
  <2>3. NoticeCall(w)'
    BY <1>1, <2>1, <2>2 DEF NoticeCall, HasRow
  <2> QED
    BY <2>1, <2>2, <2>3, NoticesRead
<1>11. CASE at \in NotificationCalls /\ Crash(w) /\ UNCHANGED notificationVars
  <2>1. Sole(w) /\ call'[w].at = "none" /\ UNCHANGED <<rows, sends, asked>>
    BY <1>1, <1>11, Crashes DEF NotificationCalls, notificationVars
  <2>2. NoticeCall(w)'
    BY <2>1 DEF NoticeCall, NotificationCalls
  <2> QED
    BY <2>1, <2>2, NoticesRead DEF Sole
<1> QED
  BY <1>3, <1>4, <1>5, <1>6, <1>7, <1>8, <1>9, <1>10, <1>11 DEF NotificationsStep

-----------------------------------------------------------------------------
(* What the mobile app keeps until the server has it. *)

Distinct(s) == \A i, j \in 1 .. Len(s) : s[i] = s[j] => i = j

LEMMA Removed ==
    ASSUME NEW S, NEW q \in Seq(S), NEW e \in S, Distinct(q)
    PROVE  /\ RemoveFirst(q, e) \in Seq(S)
           /\ ToSet(RemoveFirst(q, e)) = ToSet(q) \ {e}
           /\ Distinct(RemoveFirst(q, e))
<1> USE DEF Distinct
<1>1. CASE ~ \E i \in 1 .. Len(q) : q[i] = e
  BY <1>1 DEF RemoveFirst, ToSet
<1>2. ASSUME NEW k \in 1 .. Len(q), q[k] = e
      PROVE  /\ RemoveFirst(q, e) \in Seq(S)
           /\ ToSet(RemoveFirst(q, e)) = ToSet(q) \ {e}
           /\ Distinct(RemoveFirst(q, e))
  <2>1. {i \in 1 .. Len(q) : q[i] = e} = {k}
    BY <1>2
  <2>2. Min({k}) = k
    BY DEF Min
  <2>3. SelectInSeq(q, LAMBDA v : v = e) = k
    BY <2>1, <2>2 DEF SelectInSeq
  <2>4. RemoveFirst(q, e) = RemoveAt(q, k)
    BY <1>2, <2>3 DEF RemoveFirst
  <2> DEFINE a == SubSeq(q, 1, k - 1)
             b == SubSeq(q, k + 1, Len(q))
  <2>5. a \in Seq(S) /\ Len(a) = k - 1 /\ \A i \in 1 .. k - 1 : a[i] = q[i]
    OBVIOUS
  <2>6. b \in Seq(S) /\ Len(b) = Len(q) - k /\ \A i \in 1 .. Len(q) - k : b[i] = q[k + i]
    OBVIOUS
  <2>7. RemoveFirst(q, e) = a \o b
    BY <2>4 DEF RemoveAt
  <2> HIDE DEF a, b
  <2> DEFINE r == a \o b
  <2>8. r \in Seq(S) /\ Len(r) = Len(q) - 1
    BY <2>5, <2>6
  <2>9. \A i \in 1 .. Len(r) : r[i] = IF i < k THEN q[i] ELSE q[i + 1]
    BY <2>5, <2>6, <2>8
  <2> HIDE DEF r
  <2>10. ToSet(r) = ToSet(q) \ {e}
    <3>1. Len(r) \in Nat /\ Len(q) \in Nat /\ DOMAIN r = 1 .. Len(r) /\ DOMAIN q = 1 .. Len(q)
      BY <2>8
    <3>2. ASSUME NEW i \in 1 .. Len(r)
          PROVE  r[i] \in ToSet(q) \ {e}
      <4>1. PICK j \in 1 .. Len(q) : r[i] = q[j] /\ j # k
        BY <2>8, <2>9, <3>1
      <4> QED
        BY <1>2, <3>1, <4>1 DEF ToSet
    <3>3. ASSUME NEW i \in 1 .. Len(q), q[i] # e
          PROVE  q[i] \in ToSet(r)
      <4>1. PICK j \in 1 .. Len(r) : r[j] = q[i]
        <5>1. CASE i < k
          BY <2>8, <2>9, <5>1
        <5>2. CASE i > k
          <6>1. i - 1 \in 1 .. Len(r) /\ ~ (i - 1 < k) /\ (i - 1) + 1 = i
            BY <2>8, <5>2
          <6> QED
            BY <2>9, <6>1
        <5> QED
          BY <1>2, <3>3, <5>1, <5>2
      <4> QED
        BY <3>1, <4>1 DEF ToSet
    <3> QED
      BY <3>1, <3>2, <3>3 DEF ToSet
  <2>11. Distinct(r)
    <3>1. \A i, j \in 1 .. Len(q) : q[i] = q[j] => i = j
      OBVIOUS
    <3>2. Len(q) \in Nat /\ k \in 1 .. Len(q)
      OBVIOUS
    <3> QED
      BY <2>8, <2>9, <3>1, <3>2
  <2>12. RemoveFirst(q, e) = r
    BY <2>7 DEF r
  <2> QED
    BY <2>8, <2>10, <2>11, <2>12, Zenon
<1> QED
  BY <1>1, <1>2

LEMMA Appended ==
    ASSUME NEW S, NEW q \in Seq(S), NEW e \in S, Distinct(q), e \notin ToSet(q)
    PROVE  /\ Append(q, e) \in Seq(S) /\ Distinct(Append(q, e))
           /\ ToSet(Append(q, e)) = ToSet(q) \cup {e}
<1> DEFINE r == Append(q, e)
<1>1. /\ r \in Seq(S) /\ Len(r) = Len(q) + 1 /\ Len(q) \in Nat
      /\ DOMAIN r = 1 .. Len(r) /\ DOMAIN q = 1 .. Len(q)
      /\ r[Len(r)] = e /\ \A i \in 1 .. Len(q) : r[i] = q[i]
  OBVIOUS
<1> HIDE DEF r
<1>2. \A i \in 1 .. Len(q) : q[i] # e
  BY <1>1 DEF ToSet
<1>3. Distinct(r)
  BY <1>1, <1>2 DEF Distinct
<1>4. ToSet(r) = ToSet(q) \cup {e}
  <2>1. \A i \in DOMAIN r : i \in DOMAIN q \/ i = Len(r)
    BY <1>1
  <2>2. DOMAIN q \subseteq DOMAIN r /\ Len(r) \in DOMAIN r
    BY <1>1
  <2> QED
    BY <1>1, <2>1, <2>2 DEF ToSet
<1> QED
  BY <1>1, <1>3, <1>4 DEF r

LEMMA HeadAndTail ==
    ASSUME NEW S, NEW q \in Seq(S), q # <<>>, Distinct(q)
    PROVE  /\ Tail(q) \in Seq(S) /\ Distinct(Tail(q))
           /\ Head(q) \in S /\ Head(q) \in ToSet(q)
           /\ ToSet(Tail(q)) = ToSet(q) \ {Head(q)}
<1> DEFINE t == Tail(q)
<1>1. /\ t \in Seq(S) /\ Len(t) = Len(q) - 1 /\ Len(q) \in Nat \ {0}
      /\ DOMAIN t = 1 .. Len(t) /\ DOMAIN q = 1 .. Len(q)
      /\ Head(q) = q[1] /\ q[1] \in S /\ \A i \in 1 .. Len(t) : t[i] = q[i + 1]
  OBVIOUS
<1> HIDE DEF t
<1>2. Distinct(t)
  BY <1>1 DEF Distinct
<1>3. Head(q) \in ToSet(q)
  BY <1>1 DEF ToSet
<1>4. ToSet(t) = ToSet(q) \ {Head(q)}
  <2>1. \A i \in DOMAIN t : i + 1 \in DOMAIN q /\ t[i] = q[i + 1] /\ q[i + 1] # q[1]
    BY <1>1 DEF Distinct
  <2>2. \A i \in DOMAIN q : i # 1 => i - 1 \in DOMAIN t /\ t[i - 1] = q[i]
    BY <1>1
  <2>3. ToSet(t) \subseteq ToSet(q) \ {Head(q)}
    BY <1>1, <2>1 DEF ToSet
  <2>4. ToSet(q) \ {Head(q)} \subseteq ToSet(t)
    BY <1>1, <2>2 DEF ToSet
  <2> QED
    BY <2>3, <2>4
<1> QED
  BY <1>1, <1>2, <1>3, <1>4 DEF t

Handling == {"submit", "remove", "drop"}
Working == Handling \cup {"send"}

\* Nothing was lost, and nothing ran side by side.
Clean == lost = 0 /\ failures = 0 /\ ~overlapped

\* Of what a flush took from the outbox the server has the first at most.
OutboxCall(w) ==
    LET at == call[w].at
        saw == call[w].saw
    IN  /\ at \in OutboxCalls \cup {"none"}
        /\ at \in Working => saw \in Seq(Items) /\ Distinct(saw)
        /\ at \in Handling => saw # <<>>
        /\ at = "submit" => created[Head(saw)] > 0
        /\ at = "remove" => HasIt(Head(saw))
        /\ Clean => /\ at = "send" => \A i \in ToSet(saw) : created[i] = 0
                    /\ at \in Handling => \A i \in ToSet(Tail(saw)) : created[i] = 0

Handled(i) == \E w \in Workers : call[w].at \in Handling /\ Head(call[w].saw) = i

OutboxRows ==
    /\ outbox \in Seq(Items) /\ Distinct(outbox)
    /\ created \in [Items -> Nat] /\ sentOn \subseteq Items
    /\ lost \in Nat /\ failures \in Nat
    /\ \A i \in sentOn : created[i] > 0

CreatedOnce ==
    Clean => \A i \in Items : /\ created[i] <= 1
                              /\ i \in ToSet(outbox) /\ created[i] > 0 => Handled(i)

OutboxInv ==
    /\ Calls /\ OutboxRows /\ CreatedOnce
    /\ \A w \in Workers : OutboxCall(w)

LEMMA OutboxStart == HandlersInit /\ SyncInit => OutboxInv
<1> SUFFICES ASSUME HandlersInit, SyncInit PROVE OutboxInv
  OBVIOUS
<1>1. /\ outbox = <<>> /\ Len(outbox) = 0 /\ created = [i \in Items |-> 0] /\ sentOn = {} /\ lost = 0
      /\ failures = 0
  BY DEF SyncInit, HandlersInit, RequestsInit
<1>2. OutboxRows
  BY <1>1 DEF OutboxRows, Distinct
<1>3. CreatedOnce
  BY <1>1 DEF CreatedOnce
<1> QED
  BY <1>2, <1>3, CallsBegin DEF OutboxInv, OutboxCall, Working, Handling

LEMMA OutboxIsKept == OutboxInv => NothingDropped
<1> SUFFICES ASSUME OutboxInv PROVE NothingDropped
  OBVIOUS
<1>1. \A w \in Workers : In(w, "remove") => HasIt(First(w))
  BY DEF OutboxInv, OutboxCall, In, First
<1>2. \A i \in Items : created[i] > 1 => lost > 0 \/ overlapped \/ failures > 0
  BY DEF OutboxInv, OutboxRows, CreatedOnce, Clean
<1> QED
  BY <1>1, <1>2 DEF NothingDropped, OutboxInv, OutboxRows

LEMMA OutboxFrame ==
    ASSUME OutboxInv, NEW w \in Workers, Sole(w), OutboxRows', OutboxCall(w)',
           \A i \in Items : created[i] <= created'[i], sentOn \subseteq sentOn',
           lost <= lost', failures <= failures',
           Clean' => \A i \in Items :
               /\ created'[i] <= 1
               /\ i \in ToSet(outbox') /\ created'[i] > 0 =>
                      call'[w].at \in Handling /\ Head(call'[w].saw) = i
    PROVE  OutboxInv'
<1>1. CreatedOnce'
  BY DEF CreatedOnce, Handled
<1>2. ASSUME NEW v \in Workers \ {w}
      PROVE  OutboxCall(v)'
  <2> DEFINE saw == call[v].saw
  <2>1. call'[v] = call[v] /\ OutboxCall(v) /\ (call[v].at # "none" => overlapped')
    BY DEF Sole, OutboxInv
  <2>2. saw \in Seq(Items) /\ saw # <<>> => Head(saw) \in Items
    OBVIOUS
  <2>3. \A i \in Items : /\ created[i] \in Nat /\ created'[i] \in Nat
                         /\ created[i] > 0 => created'[i] > 0
                         /\ HasIt(i) => created'[i] > 0 /\ (i \in SubmitAfter => i \in sentOn')
    BY DEF OutboxInv, OutboxRows, HasIt
  <2>4. call[v].at \in Handling => saw \in Seq(Items) /\ saw # <<>>
    BY <2>1 DEF OutboxCall, Working
  <2>5. /\ call[v].at = "submit" => created'[Head(saw)] > 0
        /\ call[v].at = "remove" => created'[Head(saw)] > 0 /\ (Head(saw) \in SubmitAfter => Head(saw) \in sentOn')
    BY <2>1, <2>2, <2>3, <2>4 DEF OutboxCall, Handling
  <2>6. Clean' => call[v].at = "none"
    BY <2>1 DEF Clean
  <2> QED
    BY <2>1, <2>5, <2>6 DEF OutboxCall, HasIt, Handling
<1> QED
  BY <1>1, <1>2 DEF OutboxInv, Sole

\* What holds of the rows for the only handler under way.
LEMMA OutboxAlone ==
    ASSUME OutboxInv, NEW w \in Workers, Sole(w), ~overlapped', lost = 0, failures = 0
    PROVE  /\ Clean
           /\ \A i \in Items : /\ created[i] <= 1
                               /\ i \in ToSet(outbox) /\ created[i] > 0 =>
                                      call[w].at \in Handling /\ Head(call[w].saw) = i
<1>1. Clean /\ \A v \in Workers : v # w => call[v].at = "none"
  BY DEF Sole, Clean
<1>2. "none" \notin Handling
  BY DEF Handling
<1> QED
  BY <1>1, <1>2, Zenon DEF OutboxInv, CreatedOnce, Handled

LEMMA OutboxReads ==
    ASSUME OutboxInv, NEW w \in Workers, Sole(w), UNCHANGED <<outbox, created, sentOn, failures>>,
           lost' \in Nat, lost <= lost', OutboxCall(w)',
           call[w].at \notin Handling \/ lost' > lost \/
               (call'[w].at \in Handling /\ Head(call'[w].saw) = Head(call[w].saw))
    PROVE  OutboxInv' /\ LeavesWithCause
<1>1. OutboxRows' /\ (\A i \in Items : created[i] <= created'[i]) /\ failures <= failures' /\ lost \in Nat
  BY DEF OutboxInv, OutboxRows
<1>2. Clean' => ~overlapped' /\ lost = 0 /\ failures = 0 /\ lost' = lost
  BY <1>1 DEF Clean
<1>3. Clean' => \A i \in Items :
               /\ created'[i] <= 1
               /\ i \in ToSet(outbox') /\ created'[i] > 0 =>
                      call'[w].at \in Handling /\ Head(call'[w].saw) = i
  <2> SUFFICES ASSUME Clean', NEW i \in Items
               PROVE  /\ created'[i] <= 1
                      /\ i \in ToSet(outbox') /\ created'[i] > 0 =>
                             call'[w].at \in Handling /\ Head(call'[w].saw) = i
    OBVIOUS
  <2>1. /\ created[i] <= 1
        /\ i \in ToSet(outbox) /\ created[i] > 0 => call[w].at \in Handling /\ Head(call[w].saw) = i
    BY <1>2, OutboxAlone
  <2>2. ToSet(outbox') = ToSet(outbox) /\ lost' = lost
    BY <1>2
  <2>3. ~(lost' > lost)
    BY <1>1, <2>2
  <2> QED
    BY <2>1, <2>2, <2>3
<1>4. LeavesWithCause
  BY DEF LeavesWithCause
<1> QED
  BY <1>1, <1>3, <1>4, OutboxFrame

LEMMA OutboxGoesOn == OutboxInv /\ OutboxNext => OutboxInv' /\ LeavesWithCause
<1> SUFFICES ASSUME OutboxInv, OutboxNext PROVE OutboxInv' /\ LeavesWithCause
  OBVIOUS
<1>1. /\ Calls /\ outbox \in Seq(Items) /\ Distinct(outbox)
      /\ created \in [Items -> Nat] /\ sentOn \subseteq Items /\ lost \in Nat /\ failures \in Nat
      /\ \A i \in sentOn : created[i] > 0
  BY DEF OutboxInv, OutboxRows
<1>2. ASSUME NEW i \in Items, Enqueue(i)
      PROVE  OutboxInv' /\ LeavesWithCause
  <2>1. /\ i \notin ToSet(outbox) /\ created[i] = 0 /\ outbox' = Append(outbox, i)
        /\ UNCHANGED <<call, failures, overlapped, created, sentOn, lost>>
    BY <1>2 DEF Enqueue, Queued, handlerVars
  <2>2. outbox' \in Seq(Items) /\ Distinct(outbox') /\ ToSet(outbox') = ToSet(outbox) \cup {i}
    BY <1>1, <2>1, Appended
  <2>3. OutboxRows'
    BY <1>1, <2>1, <2>2 DEF OutboxRows
  <2>4. CreatedOnce'
    BY <2>1, <2>2 DEF OutboxInv, CreatedOnce, Clean, Handled
  <2>5. Calls' /\ \A w \in Workers : OutboxCall(w)'
    BY <1>1, <2>1 DEF Calls, OutboxInv, OutboxCall, HasIt, Clean
  <2> QED
    BY <2>2, <2>3, <2>4, <2>5 DEF OutboxInv, LeavesWithCause
<1>3. CASE AppClosed
  <2>1. /\ failures' = failures + 1 /\ call' = [w \in Workers |-> NoCall]
        /\ UNCHANGED <<overlapped, outbox, created, sentOn, lost>>
    BY <1>3 DEF AppClosed
  <2>2. OutboxRows' /\ CreatedOnce'
    BY <1>1, <2>1 DEF OutboxRows, CreatedOnce, Clean
  <2>3. Calls' /\ \A w \in Workers : OutboxCall(w)'
    BY <1>1, <2>1 DEF Calls, OutboxCall, NoCall, Working, Handling
  <2> QED
    BY <2>1, <2>2, <2>3 DEF OutboxInv, LeavesWithCause
<1>4. ASSUME NEW w \in Workers, OutboxStep(w)
      PROVE  OutboxInv' /\ LeavesWithCause
  <2> DEFINE at == call[w].at
             saw == call[w].saw
             first == Head(saw)
             rest == Tail(saw)
  <2>1. /\ OutboxCall(w) /\ at \in OutboxCalls \cup {"none"}
        /\ at \in Working => saw \in Seq(Items) /\ Distinct(saw)
        /\ at \in Handling => saw # <<>>
        /\ Working = {"send", "submit", "remove", "drop"} /\ Handling = {"submit", "remove", "drop"}
        /\ OutboxCalls = {"online", "send", "submit", "remove", "drop"}
    BY DEF OutboxInv, OutboxCall, Working, Handling, OutboxCalls
  <2>2. ASSUME at \in Working, saw # <<>>
        PROVE  /\ rest \in Seq(Items) /\ Distinct(rest) /\ first \in Items /\ first \in ToSet(saw)
               /\ ToSet(rest) = ToSet(saw) \ {first}
    BY <2>1, <2>2, HeadAndTail
  <2>3. Clean => /\ at = "send" => \A i \in ToSet(saw) : created[i] = 0
                 /\ at \in Handling => \A i \in ToSet(rest) : created[i] = 0
    BY <2>1 DEF OutboxCall
  \* Steps that write nothing of the outbox.
  <2>4. CASE Flush(w)
    <3>1. Sole(w) /\ at = "none" /\ call'[w].at = "online" /\ UNCHANGED <<outbox, created, sentOn, lost, failures>>
      BY <1>1, <2>4, Begins DEF Flush, syncVars, outboxVars
    <3>2. OutboxCall(w)'
      BY <2>1, <3>1 DEF OutboxCall
    <3> QED
      BY <1>1, <2>1, <3>1, <3>2, OutboxReads
  <2>5. CASE StartFlush(w)
    <3>1. /\ at = "online" /\ Step(w, "send", outbox) /\ UNCHANGED <<outbox, created, sentOn, lost>>
      BY <2>5 DEF StartFlush, In
    <3>2. /\ Sole(w) /\ UNCHANGED <<failures, overlapped>> /\ call'[w].at = "send" /\ call'[w].saw = outbox
      BY <1>1, <3>1, Steps
    <3>3. Clean' => \A i \in ToSet(outbox) : created[i] = 0
      <4>1. \A i \in ToSet(outbox) : i \in Items /\ created[i] \in Nat
        BY <1>1 DEF ToSet
      <4>2. Clean' => \A i \in Items : i \in ToSet(outbox) => ~(created[i] > 0)
        BY <1>1, <2>1, <3>1, <3>2, OutboxAlone DEF Clean
      <4> QED
        BY <4>1, <4>2
    <3>4. OutboxCall(w)'
      BY <1>1, <2>1, <3>1, <3>2, <3>3 DEF OutboxCall
    <3> QED
      BY <1>1, <2>1, <3>1, <3>2, <3>4, OutboxReads
  <2>6. CASE EndFlush(w)
    <3>1. /\ at = "send" /\ Done(w) /\ UNCHANGED <<outbox, created, sentOn, lost>>
      BY <2>6 DEF EndFlush, In
    <3>2. Sole(w) /\ UNCHANGED <<failures, overlapped>> /\ call'[w].at = "none"
      BY <1>1, <3>1, Ends
    <3>3. OutboxCall(w)'
      BY <2>1, <3>2 DEF OutboxCall
    <3> QED
      BY <1>1, <2>1, <3>1, <3>2, <3>3, OutboxReads
  <2>7. CASE CreateAtServer(w)
    <3>1. at = "send" /\ saw # <<>> /\ UNCHANGED <<outbox, sentOn>>
      BY <2>7 DEF CreateAtServer, In
    <3>2. /\ saw \in Seq(Items) /\ Distinct(saw) /\ rest \in Seq(Items) /\ Distinct(rest)
          /\ first \in Items /\ first \in ToSet(saw) /\ ToSet(rest) = ToSet(saw) \ {first}
          /\ Clean => \A i \in ToSet(saw) : created[i] = 0
      BY <2>1, <2>2, <2>3, <3>1
    \* The server has it, and the app knows or not.
    <3>3. ASSUME created' = [created EXCEPT ![first] = @ + 1],
                 \/ /\ Step(w, IF first \in SubmitAfter THEN "submit" ELSE "remove", saw)
                    /\ UNCHANGED lost
                 \/ Fails /\ NextItem(w)
          PROVE  OutboxInv' /\ LeavesWithCause
      <4>1. /\ created' \in [Items -> Nat] /\ created'[first] = created[first] + 1 /\ created'[first] > 0
            /\ \A i \in Items : i # first => created'[i] = created[i]
            /\ \A i \in Items : created[i] <= created'[i] /\ created[i] \in Nat
        BY <1>1, <3>2, <3>3
      <4>2. /\ Sole(w) /\ UNCHANGED <<failures, overlapped>>
            /\ \/ /\ call'[w].at = IF first \in SubmitAfter THEN "submit" ELSE "remove"
                  /\ call'[w].saw = saw /\ lost' = lost
               \/ call'[w].at = "send" /\ call'[w].saw = rest /\ lost' = lost + 1
        BY <1>1, <3>1, <3>3, Steps DEF NextItem, Fails
      <4>3. OutboxRows'
        BY <1>1, <3>1, <4>1, <4>2 DEF OutboxRows
      <4>4. \A i \in ToSet(rest) : i \in Items /\ i \in ToSet(saw) /\ i # first
        BY <3>2 DEF ToSet
      <4>5. Clean' => Clean /\ lost' = lost /\ ~overlapped' /\ lost = 0 /\ failures = 0
        BY <1>1, <4>2 DEF Clean
      <4>6. OutboxCall(w)'
        <5>1. Clean' => \A i \in ToSet(rest) : created'[i] = 0
          BY <3>2, <4>1, <4>4, <4>5
        <5>2. CASE call'[w].at = "send" /\ call'[w].saw = rest /\ lost' = lost + 1
          BY <2>1, <3>2, <5>1, <5>2 DEF OutboxCall
        <5>3. CASE first \in SubmitAfter /\ call'[w].at = "submit" /\ call'[w].saw = saw
          BY <2>1, <3>1, <3>2, <4>1, <5>1, <5>3 DEF OutboxCall
        <5>4. CASE first \notin SubmitAfter /\ call'[w].at = "remove" /\ call'[w].saw = saw
          <6>1. HasIt(first)'
            BY <3>2, <4>1, <4>2, <5>4 DEF HasIt
          <6>2. created'[first] > 0 /\ (first \in SubmitAfter => first \in sentOn')
            BY <4>1, <5>4
          <6> QED
            BY <2>1, <3>1, <3>2, <5>1, <5>4, <6>2 DEF OutboxCall, HasIt
        <5> QED
          BY <4>2, <5>2, <5>3, <5>4
      <4>7. Clean' => \A i \in Items :
               /\ created'[i] <= 1
               /\ i \in ToSet(outbox') /\ created'[i] > 0 =>
                      call'[w].at \in Handling /\ Head(call'[w].saw) = i
        <5> SUFFICES ASSUME Clean', NEW i \in Items
                     PROVE  /\ created'[i] <= 1
                            /\ i \in ToSet(outbox') /\ created'[i] > 0 =>
                                   call'[w].at \in Handling /\ Head(call'[w].saw) = i
          OBVIOUS
        <5>1. /\ created[i] <= 1
              /\ i \in ToSet(outbox) => ~(created[i] > 0)
          BY <2>1, <3>1, <4>2, <4>5, OutboxAlone
        <5>2. created[first] = 0
          BY <3>2, <4>5
        <5>3. call'[w].at \in Handling /\ Head(call'[w].saw) = first
          <6>1. call'[w].saw = saw /\ call'[w].at \in {"submit", "remove"}
            BY <1>1, <4>2, <4>5
          <6> QED
            BY <2>1, <6>1
        <5> QED
          BY <3>1, <4>1, <5>1, <5>2, <5>3
      <4>8. LeavesWithCause
        BY <3>1 DEF LeavesWithCause
      <4> QED
        BY <1>1, <3>1, <4>1, <4>2, <4>3, <4>6, <4>7, <4>8, OutboxFrame
    <3>4. ASSUME UNCHANGED created, (Fails /\ NextItem(w)) \/ (Step(w, "drop", saw) /\ UNCHANGED lost)
          PROVE  OutboxInv' /\ LeavesWithCause
      <4>1. /\ Sole(w) /\ UNCHANGED <<failures, overlapped>>
            /\ \/ call'[w].at = "drop" /\ call'[w].saw = saw /\ lost' = lost
               \/ call'[w].at = "send" /\ call'[w].saw = rest /\ lost' = lost + 1
        BY <1>1, <3>1, <3>4, Steps DEF NextItem, Fails
      <4>2. Clean' => Clean
        BY <1>1, <4>1 DEF Clean
      <4>3. OutboxCall(w)'
        BY <2>1, <3>1, <3>2, <3>4, <4>1, <4>2 DEF OutboxCall
      <4> QED
        BY <1>1, <2>1, <3>1, <3>4, <4>1, <4>3, OutboxReads
    <3> QED
      BY <2>7, <3>3, <3>4 DEF CreateAtServer, First
  <2>8. CASE SubmitAtServer(w)
    <3>1. at = "submit" /\ saw # <<>> /\ UNCHANGED <<outbox, created>>
      BY <2>1, <2>8 DEF SubmitAtServer, In
    <3>2. /\ saw \in Seq(Items) /\ Distinct(saw) /\ rest \in Seq(Items) /\ Distinct(rest)
          /\ first \in Items /\ created[first] > 0
          /\ Clean => \A i \in ToSet(rest) : created[i] = 0
      BY <2>1, <2>2, <2>3, <3>1 DEF OutboxCall
    <3>3. CASE sentOn' = sentOn \cup {first} /\ Step(w, "remove", saw) /\ UNCHANGED lost
      <4>1. /\ Sole(w) /\ UNCHANGED <<failures, overlapped>> /\ call'[w].at = "remove" /\ call'[w].saw = saw
        BY <1>1, <3>1, <3>3, Steps
      <4>2. OutboxRows' /\ \A i \in Items : created[i] <= created'[i]
        BY <1>1, <3>1, <3>2, <3>3, <4>1 DEF OutboxRows
      <4>3. Clean' => Clean /\ ~overlapped' /\ lost = 0 /\ failures = 0
        BY <3>3, <4>1 DEF Clean
      <4>4. created'[first] > 0 /\ first \in sentOn'
        BY <3>1, <3>2, <3>3
      <4>5. OutboxCall(w)'
        BY <2>1, <3>1, <3>2, <4>1, <4>3, <4>4 DEF OutboxCall, HasIt
      <4>6. Clean' => \A i \in Items :
               /\ created'[i] <= 1
               /\ i \in ToSet(outbox') /\ created'[i] > 0 =>
                      call'[w].at \in Handling /\ Head(call'[w].saw) = i
        <5> SUFFICES ASSUME Clean', NEW i \in Items
                     PROVE  /\ created'[i] <= 1
                            /\ i \in ToSet(outbox') /\ created'[i] > 0 =>
                                   call'[w].at \in Handling /\ Head(call'[w].saw) = i
          OBVIOUS
        <5>1. /\ created[i] <= 1
              /\ i \in ToSet(outbox) /\ created[i] > 0 => first = i
          BY <4>1, <4>3, OutboxAlone
        <5> QED
          BY <2>1, <3>1, <4>1, <5>1
      <4>7. LeavesWithCause
        BY <3>1 DEF LeavesWithCause
      <4> QED
        BY <1>1, <3>3, <4>1, <4>2, <4>5, <4>6, <4>7, OutboxFrame
    <3>4. ASSUME UNCHANGED sentOn, (Fails /\ NextItem(w)) \/ (Step(w, "drop", saw) /\ UNCHANGED lost)
          PROVE  OutboxInv' /\ LeavesWithCause
      <4>1. /\ Sole(w) /\ UNCHANGED <<failures, overlapped>>
            /\ \/ call'[w].at = "drop" /\ call'[w].saw = saw /\ lost' = lost
               \/ call'[w].at = "send" /\ call'[w].saw = rest /\ lost' = lost + 1
        BY <1>1, <3>1, <3>4, Steps DEF NextItem, Fails
      <4>2. Clean' => Clean /\ lost' = lost
        BY <1>1, <4>1 DEF Clean
      <4>3. OutboxCall(w)'
        <5>1. Clean' => \A i \in ToSet(rest) : created'[i] = 0
          BY <3>1, <3>2, <4>2
        <5> QED
          BY <2>1, <3>1, <3>2, <4>1, <4>2, <5>1 DEF OutboxCall
      <4> QED
        BY <1>1, <2>1, <3>1, <3>4, <4>1, <4>3, OutboxReads
    <3> QED
      BY <2>8, <3>3, <3>4 DEF SubmitAtServer, First
  \* Steps that take the first of the flush from the outbox.
  <2>9. ASSUME at \in Handling, outbox' = RemoveFirst(outbox, first), NextItem(w),
               UNCHANGED <<created, sentOn, lost>>, HasIt(first) \/ first \in conflicts'
        PROVE  OutboxInv' /\ LeavesWithCause
    <3>1. /\ saw # <<>> /\ rest \in Seq(Items) /\ Distinct(rest) /\ first \in Items
          /\ Clean => \A i \in ToSet(rest) : created[i] = 0
      BY <2>1, <2>2, <2>3, <2>9
    <3>2. /\ outbox' \in Seq(Items) /\ Distinct(outbox') /\ ToSet(outbox') = ToSet(outbox) \ {first}
      <4> HIDE DEF first
      <4>1. Distinct(outbox) /\ outbox \in Seq(Items) /\ first \in Items
        BY <1>1, <3>1
      <4>2. /\ RemoveFirst(outbox, first) \in Seq(Items) /\ Distinct(RemoveFirst(outbox, first))
            /\ ToSet(RemoveFirst(outbox, first)) = ToSet(outbox) \ {first}
        BY <4>1, Removed
      <4> QED
        BY <2>9, <4>2, Zenon
    <3>3. /\ Sole(w) /\ UNCHANGED <<failures, overlapped>> /\ call'[w].at = "send" /\ call'[w].saw = rest
      BY <1>1, <2>1, <2>9, Steps DEF NextItem
    <3>4. OutboxRows' /\ \A i \in Items : created[i] <= created'[i]
      BY <1>1, <2>9, <3>2, <3>3 DEF OutboxRows
    <3>5. Clean' => Clean /\ ~overlapped' /\ lost = 0 /\ failures = 0
      BY <2>9, <3>3 DEF Clean
    <3>6. OutboxCall(w)'
      BY <2>1, <2>9, <3>1, <3>3, <3>5 DEF OutboxCall
    <3>7. Clean' => \A i \in Items :
             /\ created'[i] <= 1
             /\ i \in ToSet(outbox') /\ created'[i] > 0 =>
                    call'[w].at \in Handling /\ Head(call'[w].saw) = i
      <4> SUFFICES ASSUME Clean', NEW i \in Items
                   PROVE  created'[i] <= 1 /\ ~(i \in ToSet(outbox') /\ created'[i] > 0)
        OBVIOUS
      <4>1. /\ created[i] <= 1
            /\ i \in ToSet(outbox) /\ created[i] > 0 => first = i
        BY <3>3, <3>5, OutboxAlone
      <4> QED
        BY <2>9, <3>2, <4>1
    <3>8. LeavesWithCause
      BY <2>9, <3>2 DEF LeavesWithCause
    <3> QED
      <4>1. sentOn \subseteq sentOn' /\ lost <= lost' /\ failures <= failures'
        BY <1>1, <2>9, <3>3
      <4> QED
        BY <3>3, <3>4, <3>6, <3>7, <3>8, <4>1, OutboxFrame
  <2>10. CASE RemoveSent(w)
    <3>1. HasIt(first) /\ at \in Handling
      BY <2>1, <2>10 DEF RemoveSent, In, OutboxCall
    <3> QED
      BY <2>9, <2>10, <3>1 DEF RemoveSent, First
  <2>11. CASE DropRefused(w)
    <3>1. first \in conflicts' /\ at \in Handling
      BY <2>1, <2>11 DEF DropRefused, In, First
    <3> QED
      BY <2>9, <2>11, <3>1 DEF DropRefused, First
  <2> QED
    BY <1>4, <2>4, <2>5, <2>6, <2>7, <2>8, <2>10, <2>11 DEF OutboxStep
<1> QED
  BY <1>2, <1>3, <1>4 DEF OutboxNext

\* While drafts are sent the outbox stays as it began.
DraftsInv ==
    /\ Calls
    /\ outbox = <<>> /\ sentOn = {} /\ created = [i \in Items |-> 0]
    /\ \A w \in Workers : call[w].at \in DraftCalls \cup {"none"}

LEMMA DraftsStart == HandlersInit /\ SyncInit => DraftsInv
BY CallsBegin DEF SyncInit, DraftsInv

LEMMA DraftsGoOn == DraftsInv /\ DraftsNext => DraftsInv' /\ LeavesWithCause
<1> SUFFICES ASSUME DraftsInv, DraftsNext PROVE DraftsInv' /\ LeavesWithCause
  OBVIOUS
<1>1. Calls /\ \A w \in Workers : call[w].at \in DraftCalls \cup {"none"}
  BY DEF DraftsInv
<1>2. UNCHANGED <<outbox, sentOn, created>>
  BY DEF DraftsNext, DraftStep, EditCell, FlushDrafts, UpsertAtServer, ClearDrafts, AppClosed,
         outboxVars, syncVars
<1>3. CASE AppClosed
  BY <1>3 DEF AppClosed, DraftsInv, LeavesWithCause, Calls, NoCall
<1>4. ASSUME NEW w \in Workers, DraftStep(w)
      PROVE  Calls' /\ \A v \in Workers : call'[v].at \in DraftCalls \cup {"none"}
  <2>1. \/ \E saw : Begin(w, "upsert", saw)
        \/ call[w].at \in DraftCalls /\ (Done(w) \/ \E saw : Step(w, "clear", saw))
    BY <1>4 DEF DraftStep, EditCell, FlushDrafts, UpsertAtServer, ClearDrafts, In, DraftCalls
  <2>2. Sole(w) /\ call'[w].at \in DraftCalls \cup {"none"}
    BY <1>1, <2>1, Begins, Steps, Ends DEF DraftCalls
  <2> QED
    BY <1>1, <2>2 DEF Sole
<1> QED
  BY <1>2, <1>3, <1>4 DEF DraftsNext, DraftsInv, LeavesWithCause

-----------------------------------------------------------------------------
(* Alerts, one request at a time and none failed. *)

\* What the stored alerts lack, a handler is about to do.
OneActive == \A i, j \in DOMAIN alerts : Active(i) /\ Active(j) /\ alerts[i].rule = alerts[j].rule => i = j
EachSent == \A i \in DOMAIN alerts : alerts[i].sent > 0 \/ \E w \in Workers : i \in Sending(w)

Clearing(w, r) == call[w].at = "clearOverdue" \/ (call[w].at = "clearSoon" /\ r = "soon")
EachCleared ==
    \A i \in DOMAIN alerts :
        alerts[i].rule \in CalendarRules /\ remitted =>
            alerts[i].resolved \/ \E w \in Workers : Clearing(w, alerts[i].rule)

\* An alert that is about to be raised: its obligation is open, and it is the
\* only one of its rule when it is created.
FreshCall(w) ==
    /\ call[w].at \in {"find", "create"} /\ call[w].saw.rule \in CalendarRules => ~remitted
    /\ call[w].at = "create" => \A i \in DOMAIN alerts : Active(i) => alerts[i].rule # call[w].saw.rule

AlertsAlone ==
    /\ failures \in Nat
    /\ Orderly => OneActive /\ EachSent /\ EachCleared /\ \A w \in Workers : FreshCall(w)

LEMMA AlertsAloneStart == HandlersInit /\ AlertsInit => AlertsAlone
<1> SUFFICES ASSUME HandlersInit, AlertsInit PROVE AlertsAlone
  OBVIOUS
<1>1. DOMAIN alerts = {} /\ failures = 0 /\ \A w \in Workers : call[w].at = "none"
  BY CallsBegin DEF AlertsInit, HandlersInit, RequestsInit
<1> QED
  BY <1>1 DEF AlertsAlone, OneActive, EachSent, EachCleared, FreshCall

\* The rows as they are, a handler begins or goes on.
LEMMA AlertsAloneReads ==
    ASSUME AlertInv, AlertsAlone, NEW w \in Workers, Sole(w), Orderly, Orderly', UNCHANGED <<alerts, remitted>>,
           Sending(w) \subseteq Sending(w)', FreshCall(w)',
           \A r \in CalendarRules : Clearing(w, r) => Clearing(w, r)'
    PROVE  OneActive' /\ EachSent' /\ EachCleared' /\ \A v \in Workers : FreshCall(v)'
<1>1. \A v \in Workers \ {w} : call'[v] = call[v] /\ call[v].at = "none"
  BY DEF Sole, Orderly
<1>2. \A i \in DOMAIN alerts : Active(i)' = Active(i)
  BY DEF Active
<1>3. OneActive'
  BY <1>2 DEF AlertsAlone, OneActive
<1>4. EachSent'
  BY <1>1 DEF AlertsAlone, EachSent, Sending
<1>5. EachCleared'
  BY <1>1 DEF AlertsAlone, EachCleared, Clearing
<1>6. \A v \in Workers : FreshCall(v)'
  BY <1>1 DEF FreshCall
<1> QED
  BY <1>3, <1>4, <1>5, <1>6

\* The rows of a rule are resolved.
LEMMA AlertsAloneResolve ==
    ASSUME AlertInv, AlertsAlone, NEW w \in Workers, Sole(w), Orderly, Orderly', UNCHANGED remitted,
           NEW r \in AlertRules, ResolveRule(r), Sending(w) = {}, FreshCall(w)',
           \A q \in CalendarRules \ {r} : Clearing(w, q) => Clearing(w, q)'
    PROVE  OneActive' /\ EachSent' /\ EachCleared' /\ \A v \in Workers : FreshCall(v)'
<1>1. \A v \in Workers \ {w} : call'[v] = call[v] /\ call[v].at = "none"
  BY DEF Sole, Orderly
<1>2. ASSUME NEW i \in DOMAIN alerts
      PROVE  /\ alerts'[i].rule = alerts[i].rule /\ alerts'[i].sent = alerts[i].sent
             /\ alerts'[i].acked = alerts[i].acked
             /\ alerts'[i].resolved <=> alerts[i].resolved \/ alerts[i].rule = r
  <2>1. /\ alerts'[i] = IF alerts[i].rule = r THEN [alerts[i] EXCEPT !.resolved = TRUE] ELSE alerts[i]
        /\ alerts[i] \in Alert
    BY AlertRows DEF ResolveRule
  <2> QED
    BY <2>1 DEF Alert
<1>3. DOMAIN alerts' = DOMAIN alerts
  BY DEF ResolveRule
<1>4. \A i \in DOMAIN alerts : Active(i)' => Active(i)
  BY <1>2 DEF Active
<1>5. OneActive'
  BY <1>2, <1>3, <1>4 DEF AlertsAlone, OneActive
<1>6. EachSent'
  BY <1>1, <1>2, <1>3 DEF AlertsAlone, EachSent, Sending
<1>7. EachCleared'
  BY <1>1, <1>2, <1>3 DEF AlertsAlone, EachCleared, Clearing
<1>8. \A v \in Workers : FreshCall(v)'
  BY <1>1 DEF FreshCall
<1> QED
  BY <1>5, <1>6, <1>7, <1>8

\* What a step adds to the history.
Counted == (failures' = failures \/ failures' = failures + 1) /\ (~overlapped' => ~overlapped)

LEMMA HandlersCount ==
    ASSUME NEW w
    PROVE  /\ \A at, saw : Begin(w, at, saw) \/ Step(w, at, saw) => Counted
           /\ Done(w) \/ Crash(w) => Counted
<1>1. ASSUME NEW at, NEW saw, Begin(w, at, saw) PROVE Counted
  BY <1>1 DEF Counted, Begin
<1>2. ASSUME NEW at, NEW saw, Step(w, at, saw) PROVE Counted
  BY <1>2 DEF Counted, Step
<1>3. CASE Done(w)
  BY <1>3 DEF Counted, Done
<1>4. CASE Crash(w)
  BY <1>4 DEF Counted, Crash, Stop
<1> QED
  BY <1>1, <1>2, <1>3, <1>4

LEMMA AlertsCount == AlertsNext => Counted
<1>1. ASSUME NEW w \in Workers, AlertsStep(w) PROVE Counted
  <2>1. ASSUME NEW r \in EngineRules, Evaluate(w, r) PROVE Counted
    BY <2>1, HandlersCount DEF Evaluate
  <2>2. CASE CalendarSweep(w) \/ Remit(w) \/ ReNotify(w)
    BY <2>2, HandlersCount DEF CalendarSweep, Remit, ReNotify
  <2>3. ASSUME NEW u \in People, AckRead(w, u) PROVE Counted
    BY <2>3, HandlersCount DEF AckRead
  <2>4. CASE FindActive(w) \/ Refresh(w) \/ CreateAlert(w) \/ FanOut(w)
    BY <2>4, HandlersCount DEF FindActive, Refresh, CreateAlert, FanOut
  <2>5. CASE ResolveFigure(w) \/ ClearOverdue(w) \/ ClearSoon(w) \/ AckWrite(w)
    BY <2>5, HandlersCount DEF ResolveFigure, ClearOverdue, ClearSoon, AckWrite
  <2> QED
    BY <1>1, <2>1, <2>2, <2>3, <2>4, <2>5, HandlersCount DEF AlertsStep, AlertJobs
<1>2. CASE DueDateNears
  BY <1>2 DEF DueDateNears, handlerVars, Counted
<1> QED
  BY <1>1, <1>2 DEF AlertsNext

LEMMA AlertsAloneGoOn == AlertInv /\ AlertsAlone /\ AlertsNext => AlertsAlone'
<1>0. AlertInv /\ AlertsAlone /\ AlertsNext => failures' \in Nat /\ (Orderly' => Orderly)
  BY AlertsCount DEF AlertsAlone, Orderly, Counted
<1> SUFFICES ASSUME AlertInv, AlertsAlone, AlertsNext, Orderly, Orderly'
             PROVE  OneActive' /\ EachSent' /\ EachCleared' /\ \A v \in Workers : FreshCall(v)'
  BY <1>0 DEF AlertsAlone
<1>1. Calls /\ AlertRules = {"ratio", "subject", "overdue", "soon"} /\ CalendarRules = {"overdue", "soon"}
  BY DEF AlertInv, AlertRules, EngineRules, CalendarRules
<1>2. /\ remitted \in BOOLEAN /\ alerts \in Seq(Alert) /\ DOMAIN alerts = 1 .. Len(alerts)
      /\ \A i \in DOMAIN alerts : alerts[i] \in Alert /\ AlertSound(i)
  BY AlertRows DEF AlertInv, AlertsTypeOK, Alert
<1>3. OneActive /\ EachSent /\ EachCleared /\ \A w \in Workers : FreshCall(w)
  BY DEF AlertsAlone
<1>4. CASE DueDateNears
  BY <1>3, <1>4 DEF DueDateNears, handlerVars, OneActive, EachSent, EachCleared, FreshCall, Active, Sending, Clearing
<1>5. ASSUME NEW w \in Workers, NEW r \in EngineRules, Evaluate(w, r)
      PROVE  OneActive' /\ EachSent' /\ EachCleared' /\ \A v \in Workers : FreshCall(v)'
  <2>1. /\ UNCHANGED alertVars
        /\ \/ \E f \in Severities : Begin(w, "find", Raising(r, f))
           \/ Begin(w, "well", None)
    BY <1>5 DEF Evaluate, Findings, EngineRules, Severities
  <2>2. Sole(w) /\ FreshCall(w)' /\ call[w].at = "none"
    <3>1. ASSUME NEW f \in Severities, Begin(w, "find", Raising(r, f))
          PROVE  Sole(w) /\ FreshCall(w)' /\ call[w].at = "none"
      BY <1>1, <1>5, <3>1, Begins DEF FreshCall, Raising, EngineRules
    <3>2. CASE Begin(w, "well", None)
      BY <1>1, <3>2, Begins DEF FreshCall
    <3> QED
      BY <2>1, <3>1, <3>2
  <2> QED
    BY <2>1, <2>2, AlertsAloneReads DEF alertVars, Sending, Clearing
<1>6. ASSUME NEW w \in Workers, CalendarSweep(w)
      PROVE  OneActive' /\ EachSent' /\ EachCleared' /\ \A v \in Workers : FreshCall(v)'
  <2>1. /\ UNCHANGED alertVars /\ ~remitted
        /\ \E r \in CalendarRules, f \in Severities : Begin(w, "find", Raising(r, f))
    BY <1>6 DEF CalendarSweep, CalendarRules, Severities
  <2>2. Sole(w) /\ FreshCall(w)' /\ call[w].at = "none"
    BY <1>1, <2>1, Begins DEF FreshCall, Raising, alertVars
  <2> QED
    BY <2>1, <2>2, AlertsAloneReads DEF alertVars, Sending, Clearing
<1>7. ASSUME NEW w \in Workers, Remit(w)
      PROVE  OneActive' /\ EachSent' /\ EachCleared' /\ \A v \in Workers : FreshCall(v)'
  <2>1. /\ Sole(w) /\ call[w].at = "none" /\ call'[w].at = "clearOverdue" /\ UNCHANGED <<alerts, due>> /\ remitted'
    BY <1>1, <1>7, Begins DEF Remit
  <2>2. \A v \in Workers \ {w} : call'[v] = call[v] /\ call[v].at = "none"
    BY <2>1 DEF Sole, Orderly
  <2>3. OneActive' /\ EachSent'
    BY <1>3, <2>1, <2>2 DEF OneActive, EachSent, Active, Sending
  <2>4. EachCleared' /\ \A v \in Workers : FreshCall(v)'
    BY <2>1, <2>2 DEF EachCleared, Clearing, FreshCall
  <2> QED
    BY <2>3, <2>4
<1>8. ASSUME NEW w \in Workers, ReNotify(w)
      PROVE  OneActive' /\ EachSent' /\ EachCleared' /\ \A v \in Workers : FreshCall(v)'
  <2>1. FreshCall(w)' /\ Sole(w) /\ call[w].at = "none" /\ UNCHANGED alertVars
    BY <1>1, <1>8, Begins DEF ReNotify, FreshCall
  <2> QED
    BY <2>1, AlertsAloneReads DEF alertVars, Sending, Clearing
<1>9. ASSUME NEW w \in Workers, NEW u \in People, AckRead(w, u)
      PROVE  OneActive' /\ EachSent' /\ EachCleared' /\ \A v \in Workers : FreshCall(v)'
  <2>1. FreshCall(w)' /\ Sole(w) /\ call[w].at = "none" /\ UNCHANGED alertVars
    BY <1>1, <1>9, Begins DEF AckRead, FreshCall
  <2> QED
    BY <2>1, AlertsAloneReads DEF alertVars, Sending, Clearing
<1>10. ASSUME NEW w \in Workers, FindActive(w)
       PROVE  OneActive' /\ EachSent' /\ EachCleared' /\ \A v \in Workers : FreshCall(v)'
  <2> DEFINE found == {i \in DOMAIN alerts : Active(i) /\ alerts[i].rule = call[w].saw.rule}
  <2>1. FreshCall(w) /\ call[w].at = "find" /\ UNCHANGED alertVars
    BY <1>3, <1>10 DEF FindActive, In
  <2>2. CASE found = {} /\ Step(w, "create", call[w].saw)
    <3>1. Sole(w) /\ call'[w].at = "create" /\ call'[w].saw = call[w].saw
      BY <1>1, <2>1, <2>2, Steps
    <3>2. FreshCall(w)'
      BY <2>1, <2>2, <3>1 DEF FreshCall, alertVars, Active
    <3> QED
      BY <2>1, <3>1, <3>2, AlertsAloneReads DEF alertVars, Sending, Clearing
  <2>3. ASSUME NEW i \in found, Step(w, "refresh", [id |-> i, severity |-> call[w].saw.severity])
        PROVE  OneActive' /\ EachSent' /\ EachCleared' /\ \A v \in Workers : FreshCall(v)'
    <3>1. Sole(w) /\ call'[w].at = "refresh"
      BY <1>1, <2>1, <2>3, Steps
    <3> QED
      BY <2>1, <3>1, AlertsAloneReads DEF alertVars, Sending, Clearing, FreshCall
  <2> QED
    BY <1>10, <2>2, <2>3 DEF FindActive
<1>11. ASSUME NEW w \in Workers, Refresh(w)
       PROVE  OneActive' /\ EachSent' /\ EachCleared' /\ \A v \in Workers : FreshCall(v)'
  <2>1. call[w].at = "refresh" /\ UNCHANGED remitted /\ Sole(w) /\ call'[w].at = "none"
    BY <1>1, <1>11, Ends DEF Refresh, In
  <2>0. alerts' = [alerts EXCEPT ![call[w].saw.id].severity = call[w].saw.severity,
                                ![call[w].saw.id].grave = @ \/ call[w].saw.severity = "DANGER"]
    BY <1>11 DEF Refresh
  <2>2. \A v \in Workers \ {w} : call'[v] = call[v] /\ call[v].at = "none"
    BY <2>1 DEF Sole, Orderly
  <2>3. /\ DOMAIN alerts' = DOMAIN alerts
        /\ \A i \in DOMAIN alerts :
               /\ alerts'[i].rule = alerts[i].rule /\ alerts'[i].acked = alerts[i].acked
               /\ alerts'[i].resolved = alerts[i].resolved /\ alerts'[i].sent = alerts[i].sent
    BY <1>2, <2>0 DEF Alert
  <2>4. OneActive' /\ EachSent'
    BY <1>3, <2>1, <2>2, <2>3 DEF OneActive, EachSent, Active, Sending
  <2>5. EachCleared' /\ \A v \in Workers : FreshCall(v)'
    BY <1>3, <2>1, <2>2, <2>3 DEF EachCleared, Clearing, FreshCall
  <2> QED
    BY <2>4, <2>5
<1>12. ASSUME NEW w \in Workers, CreateAlert(w)
       PROVE  OneActive' /\ EachSent' /\ EachCleared' /\ \A v \in Workers : FreshCall(v)'
  <2> DEFINE s == call[w].saw.severity
             r == call[w].saw.rule
             new == [rule |-> r, severity |-> s, acked |-> None,
                     resolved |-> FALSE, sent |-> 0, grave |-> s = "DANGER"]
  <2>1. call[w].at = "create" /\ UNCHANGED remitted /\ FreshCall(w)
    BY <1>3, <1>12 DEF CreateAlert, In
  <2>2. CASE Done(w) /\ UNCHANGED alerts
    <3>1. Sole(w) /\ call'[w].at = "none"
      BY <1>1, <2>1, <2>2, Ends
    <3> QED
      BY <2>1, <2>2, <3>1, AlertsAloneReads DEF Sending, Clearing, FreshCall
  <2>3. CASE alerts' = Append(alerts, new) /\ Step(w, "fanOut", [ids |-> {Len(alerts) + 1}])
    <3>0. PICK n : n = Len(alerts) + 1
      OBVIOUS
    <3>1. AlertCall(w)
      BY DEF AlertInv
    <3>2. /\ DOMAIN alerts' = DOMAIN alerts \cup {n} /\ n \notin DOMAIN alerts
          /\ alerts'[n] = new /\ \A i \in DOMAIN alerts : alerts'[i] = alerts[i]
      BY <1>2, <2>3, <3>0
    <3>3. Sole(w) /\ call'[w].at = "fanOut" /\ call'[w].saw = [ids |-> {n}]
      BY <1>1, <2>1, <2>3, <3>0, Steps
    <3>4. \A v \in Workers \ {w} : call'[v] = call[v] /\ call[v].at = "none"
      BY <3>3 DEF Sole, Orderly
    <3>5. \A i \in DOMAIN alerts : Active(i) => alerts[i].rule # r
      BY <2>1 DEF FreshCall
    <3>6. \A i \in DOMAIN alerts : Active(i)' = Active(i)
      BY <3>2 DEF Active
    <3>7. new.rule = r
      BY Zenon
    <3> HIDE DEF new
    <3>8. OneActive'
      BY <1>3, <3>2, <3>5, <3>6, <3>7 DEF OneActive
    <3>9. n \in Sending(w)' /\ Sending(w) = {}
      BY <2>1, <3>3 DEF Sending
    <3>10. EachSent'
      BY <1>3, <3>2, <3>4, <3>9 DEF EachSent, Sending
    <3>11. r \in CalendarRules => ~remitted
      BY <2>1 DEF FreshCall
    <3>12. EachCleared'
      BY <1>3, <2>1, <3>2, <3>4, <3>7, <3>11 DEF EachCleared, Clearing
    <3>13. \A v \in Workers : FreshCall(v)'
      BY <3>3, <3>4 DEF FreshCall
    <3> QED
      BY <3>8, <3>10, <3>12, <3>13
  <2> QED
    BY <1>12, <2>2, <2>3 DEF CreateAlert
<1>13. ASSUME NEW w \in Workers, FanOut(w)
       PROVE  OneActive' /\ EachSent' /\ EachCleared' /\ \A v \in Workers : FreshCall(v)'
  <2> DEFINE ids == call[w].saw.ids
  <2>1. AlertCall(w) /\ call[w].at = "fanOut" /\ UNCHANGED remitted
    BY <1>13 DEF FanOut, In, AlertInv
  <2>2. PICK i \in ids :
           /\ alerts' = [alerts EXCEPT ![i].sent = IF @ < Often THEN @ + 1 ELSE @]
           /\ IF ids = {i} THEN Done(w) ELSE Step(w, "fanOut", [ids |-> ids \ {i}])
    BY <1>13 DEF FanOut
  <2>3. /\ i \in DOMAIN alerts /\ ids = Sending(w)
    BY <2>1 DEF AlertCall, Sending
  <2>4. /\ DOMAIN alerts' = DOMAIN alerts
        /\ \A j \in DOMAIN alerts : UNCHANGED <<alerts[j].rule, alerts[j].acked, alerts[j].resolved>>
        /\ \A j \in DOMAIN alerts \ {i} : alerts'[j] = alerts[j]
        /\ alerts'[i].sent = IF alerts[i].sent < 2 THEN alerts[i].sent + 1 ELSE alerts[i].sent
        /\ alerts[i].sent \in 0 .. 2
    BY <1>2, <2>2, <2>3 DEF Alert, Often
  <2>5. /\ Sole(w) /\ \/ call'[w].at = "none" /\ ids = {i}
                      \/ call'[w].at = "fanOut" /\ call'[w].saw = [ids |-> ids \ {i}]
    BY <1>1, <2>1, <2>2, Steps, Ends
  <2>6. \A v \in Workers \ {w} : call'[v] = call[v] /\ call[v].at = "none"
    BY <2>5 DEF Sole, Orderly
  <2>7. OneActive'
    BY <1>3, <2>4 DEF OneActive, Active
  <2>8. alerts'[i].sent > 0 /\ \A j \in ids \ {i} : j \in Sending(w)'
    BY <2>4, <2>5 DEF Sending
  <2>9. EachSent'
    BY <1>3, <2>3, <2>4, <2>6, <2>8 DEF EachSent, Sending
  <2>10. EachCleared' /\ \A v \in Workers : FreshCall(v)'
    BY <1>3, <2>1, <2>4, <2>5, <2>6 DEF EachCleared, Clearing, FreshCall
  <2> QED
    BY <2>7, <2>9, <2>10
<1>14. ASSUME NEW w \in Workers, ResolveFigure(w)
       PROVE  OneActive' /\ EachSent' /\ EachCleared' /\ \A v \in Workers : FreshCall(v)'
  <2>1. Sole(w) /\ call[w].at = "well" /\ call'[w].at = "none" /\ ResolveRule("ratio") /\ UNCHANGED remitted
    BY <1>1, <1>14, Ends DEF ResolveFigure, In
  <2> QED
    BY <1>1, <2>1, AlertsAloneResolve DEF Sending, FreshCall, Clearing
<1>15. ASSUME NEW w \in Workers, ClearOverdue(w)
       PROVE  OneActive' /\ EachSent' /\ EachCleared' /\ \A v \in Workers : FreshCall(v)'
  <2>1. /\ Sole(w) /\ call[w].at = "clearOverdue" /\ call'[w].at = "clearSoon"
        /\ ResolveRule("overdue") /\ UNCHANGED remitted
    BY <1>1, <1>15, Steps DEF ClearOverdue, In
  <2> QED
    BY <1>1, <2>1, AlertsAloneResolve DEF Sending, FreshCall, Clearing
<1>16. ASSUME NEW w \in Workers, ClearSoon(w)
       PROVE  OneActive' /\ EachSent' /\ EachCleared' /\ \A v \in Workers : FreshCall(v)'
  <2>1. Sole(w) /\ call[w].at = "clearSoon" /\ call'[w].at = "none" /\ ResolveRule("soon") /\ UNCHANGED remitted
    BY <1>1, <1>16, Ends DEF ClearSoon, In
  <2> QED
    BY <1>1, <2>1, AlertsAloneResolve DEF Sending, FreshCall, Clearing
<1>17. ASSUME NEW w \in Workers, AckWrite(w)
       PROVE  OneActive' /\ EachSent' /\ EachCleared' /\ \A v \in Workers : FreshCall(v)'
  <2> DEFINE i == call[w].saw.id
             u == call[w].saw.by
  <2>1. /\ AlertCall(w) /\ call[w].at = "ack" /\ UNCHANGED remitted /\ Sole(w) /\ call'[w].at = "none"
        /\ alerts' = [alerts EXCEPT ![i].acked = u]
    BY <1>1, <1>17, Ends DEF AckWrite, In, AlertInv
  <2>2. \A v \in Workers \ {w} : call'[v] = call[v] /\ call[v].at = "none"
    BY <2>1 DEF Sole, Orderly
  <2>3. i \in DOMAIN alerts /\ (alerts[i].acked # None => u = alerts[i].acked)
    BY <2>1 DEF AlertCall, Orderly
  <2> HIDE DEF i, u
  <2>4. /\ DOMAIN alerts' = DOMAIN alerts
        /\ \A j \in DOMAIN alerts : UNCHANGED <<alerts[j].rule, alerts[j].resolved, alerts[j].sent>>
        /\ \A j \in DOMAIN alerts : alerts'[j].acked = None => alerts[j].acked = None
    BY <1>2, <2>1, <2>3 DEF Alert
  <2>5. \A j \in DOMAIN alerts : Active(j)' => Active(j)
    BY <2>4 DEF Active
  <2>6. OneActive' /\ EachSent'
    BY <1>3, <2>1, <2>2, <2>4, <2>5 DEF OneActive, EachSent, Sending
  <2>7. EachCleared' /\ \A v \in Workers : FreshCall(v)'
    BY <1>3, <2>1, <2>2, <2>4 DEF EachCleared, Clearing, FreshCall
  <2> QED
    BY <2>6, <2>7
<1>18. ASSUME NEW w \in Workers, Crash(w) PROVE FALSE
  BY <1>18 DEF Crash, Stop, Orderly
<1> QED
  BY <1>4, <1>5, <1>6, <1>7, <1>8, <1>9, <1>10, <1>11, <1>12, <1>13, <1>14, <1>15, <1>16, <1>17, <1>18
     DEF AlertsNext, AlertsStep, AlertJobs

LEMMA AlertsDoAgree == AlertsAlone => AlertsAgree
<1> SUFFICES ASSUME AlertsAlone PROVE AlertsAgree
  OBVIOUS
<1>1. AllFree => \A w \in Workers : call[w].at = "none"
  BY DEF AllFree, Free
<1> QED
  BY <1>1 DEF AlertsAlone, AlertsAgree, AtRest, OneActive, EachSent, EachCleared, Sending, Clearing

-----------------------------------------------------------------------------
(* The reminders, one request at a time and none failed. *)

StampingFor(s, what) ==
    \E w \in Workers : call[w].at = "stamp" /\ call[w].saw.step = s /\ call[w].saw.what = what

\* A notice has its stamp, or the handler that sent it is about to set it.
NoticesStamped ==
    \A s \in StepOrders :
        /\ reminders[s] <= 1 /\ escalations[s] <= 1
        /\ reminders[s] > 0 => waited[s] >= T1 /\ (reminded[s] \/ StampingFor(s, "remind"))
        /\ escalations[s] > 0 => waited[s] >= T2 /\ (escalated[s] \/ StampingFor(s, "escalate"))

\* The clock of the current step is no older than its wait, unless it is about
\* to be started.
ClocksStarted ==
    /\ current < 2 => clock[1] <= waited[1]
    /\ current = 2 => clock[2] <= waited[2] \/ \E w \in Workers : call[w].at = "clock"

\* A notice that is about to be sent is due, and the first.
NoticeIsDue(w) ==
    LET s == call[w].saw.step
    IN  /\ call[w].at \in {"notice", "stamp"} => call[w].saw.what \in {"escalate", "remind"}
        /\ call[w].at = "notice" => IF call[w].saw.what = "escalate"
                                      THEN waited[s] >= T2 /\ escalations[s] = 0
                                      ELSE waited[s] >= T1 /\ reminders[s] = 0

SlaAlone ==
    /\ failures \in Nat
    /\ Orderly => NoticesStamped /\ ClocksStarted /\ \A w \in Workers : NoticeIsDue(w)

LEMMA SlaAloneStart == HandlersInit /\ SlaInit => SlaAlone
<1> SUFFICES ASSUME HandlersInit, SlaInit PROVE SlaAlone
  OBVIOUS
<1>1. failures = 0 /\ \A w \in Workers : call[w].at = "none"
  BY CallsBegin DEF HandlersInit, RequestsInit
<1> QED
  BY <1>1 DEF SlaInit, SlaAlone, NoticesStamped, ClocksStarted, NoticeIsDue, StepOrders

LEMMA SlaCount == SlaNext => Counted
<1>1. ASSUME NEW w \in Workers, SlaStep(w) PROVE Counted
  <2>1. CASE SlaSubmit(w)
    BY <2>1 DEF SlaSubmit, Counted
  <2>2. CASE AdvanceStep(w) \/ SlaSweep(w)
    BY <2>2, HandlersCount DEF AdvanceStep, SlaSweep
  <2>3. CASE DecideLast(w)
    BY <2>3 DEF DecideLast, DecideChain, Counted
  <2>4. CASE StartClock(w) \/ SlaNotice(w) \/ SlaStamp(w)
    BY <2>4, HandlersCount DEF StartClock, SlaNotice, SlaStamp
  <2> QED
    BY <1>1, <2>1, <2>2, <2>3, <2>4, HandlersCount DEF SlaStep, SlaJobs
<1>2. CASE HoursPass
  BY <1>2 DEF HoursPass, handlerVars, Counted
<1> QED
  BY <1>1, <1>2 DEF SlaNext

LEMMA SlaAloneGoOn == SlaInv /\ SlaAlone /\ SlaNext => SlaAlone'
<1>0. SlaInv /\ SlaAlone /\ SlaNext => failures' \in Nat /\ (Orderly' => Orderly)
  BY SlaCount DEF SlaAlone, Orderly, Counted
<1> SUFFICES ASSUME SlaInv, SlaAlone, SlaNext, Orderly, Orderly'
             PROVE  NoticesStamped' /\ ClocksStarted' /\ \A v \in Workers : NoticeIsDue(v)'
  BY <1>0 DEF SlaAlone
<1>1. /\ Calls /\ current \in 0 .. 2
      /\ clock \in [StepOrders -> 0 .. 2] /\ waited \in [StepOrders -> 0 .. 2]
      /\ reminded \in [StepOrders -> BOOLEAN] /\ escalated \in [StepOrders -> BOOLEAN]
      /\ reminders \in [StepOrders -> Nat] /\ escalations \in [StepOrders -> Nat]
      /\ StepOrders = {1, 2} /\ T2 = 2 /\ T1 = 1
      /\ status[TheChain] = "NONE" <=> current = 0
      /\ \A w \in Workers : SlaCall(w)
  BY DEF SlaInv, SlaTypeOK, StepOrders, T2, T1
<1>2. NoticesStamped /\ ClocksStarted /\ \A w \in Workers : NoticeIsDue(w)
  BY DEF SlaAlone
<1>3. CASE HoursPass
  <2>1. /\ UNCHANGED <<call, current, reminded, escalated, reminders, escalations>>
        /\ clock' = [s \in StepOrders |-> IF clock[s] < 2 THEN clock[s] + 1 ELSE 2]
        /\ waited' = [waited EXCEPT ![current] = IF @ < 2 THEN @ + 1 ELSE 2]
        /\ current # 0
    BY <1>1, <1>3 DEF HoursPass, handlerVars, Pending
  <2>2. /\ \A s \in StepOrders : waited[s] <= waited'[s]
        /\ waited'[current] = IF waited[current] < 2 THEN waited[current] + 1 ELSE 2
        /\ current \in StepOrders /\ waited'[current] \in 0 .. 2
        /\ \A s \in StepOrders : waited'[s] \in 0 .. 2 /\ waited[s] \in 0 .. 2
    BY <1>1, <2>1
  <2>3. NoticesStamped'
    BY <1>1, <1>2, <2>1, <2>2 DEF NoticesStamped, StampingFor
  <2>4. ClocksStarted'
    BY <1>1, <1>2, <2>1, <2>2 DEF ClocksStarted
  <2>5. ASSUME NEW v \in Workers
        PROVE  NoticeIsDue(v)'
    <3>1. SlaCall(v) /\ NoticeIsDue(v) /\ call'[v] = call[v]
      BY <1>1, <1>2, <2>1
    <3>2. call[v].at = "notice" => waited[call[v].saw.step] <= waited'[call[v].saw.step]
                                   /\ waited[call[v].saw.step] \in 0 .. 2
                                   /\ waited'[call[v].saw.step] \in 0 .. 2
      BY <2>2, <3>1 DEF SlaCall
    <3> QED
      BY <1>1, <2>1, <3>1, <3>2 DEF NoticeIsDue
  <2> QED
    BY <2>3, <2>4, <2>5
<1>4. ASSUME NEW w \in Workers, SlaSubmit(w)
      PROVE  NoticesStamped' /\ ClocksStarted' /\ \A v \in Workers : NoticeIsDue(v)'
  <2>1. /\ current = 0 /\ current' = 1
        /\ UNCHANGED <<call, reminded, escalated, reminders, escalations, clock, waited>>
    BY <1>1, <1>4 DEF SlaSubmit, Open
  <2> QED
    BY <1>2, <2>1 DEF NoticesStamped, StampingFor, ClocksStarted, NoticeIsDue
<1>5. ASSUME NEW w \in Workers, AdvanceStep(w)
      PROVE  NoticesStamped' /\ ClocksStarted' /\ \A v \in Workers : NoticeIsDue(v)'
  <2>1. /\ current = 1 /\ current' = 2
        /\ UNCHANGED <<clock, waited, reminded, escalated, reminders, escalations>>
        /\ Sole(w) /\ call'[w].at = "clock" /\ call[w].at = "none"
    BY <1>1, <1>5, Begins DEF AdvanceStep
  <2>2. \A v \in Workers \ {w} : call'[v] = call[v] /\ call[v].at = "none"
    BY <2>1 DEF Sole, Orderly
  <2> QED
    BY <1>2, <2>1, <2>2 DEF NoticesStamped, StampingFor, ClocksStarted, NoticeIsDue
<1>6. ASSUME NEW w \in Workers, StartClock(w)
      PROVE  NoticesStamped' /\ ClocksStarted' /\ \A v \in Workers : NoticeIsDue(v)'
  <2>1. /\ call[w].at = "clock" /\ clock' = [clock EXCEPT ![2] = 0]
        /\ UNCHANGED <<current, waited, reminded, escalated, reminders, escalations>>
        /\ Sole(w) /\ call'[w].at = "none"
    BY <1>1, <1>6, Ends DEF StartClock, In
  <2>2. \A v \in Workers \ {w} : call'[v] = call[v] /\ call[v].at = "none"
    BY <2>1 DEF Sole, Orderly
  <2>3. clock'[1] = clock[1] /\ clock'[2] = 0 /\ waited[2] \in 0 .. 2
    BY <1>1, <2>1
  <2> QED
    BY <1>2, <2>1, <2>2, <2>3 DEF NoticesStamped, StampingFor, ClocksStarted, NoticeIsDue
<1>7. ASSUME NEW w \in Workers, DecideLast(w)
      PROVE  NoticesStamped' /\ ClocksStarted' /\ \A v \in Workers : NoticeIsDue(v)'
  <2>1. UNCHANGED <<call, slaVars>>
    BY <1>7 DEF DecideLast, DecideChain
  <2> QED
    BY <1>2, <2>1 DEF NoticesStamped, StampingFor, ClocksStarted, NoticeIsDue, slaVars
<1>8. ASSUME NEW w \in Workers, SlaSweep(w)
      PROVE  NoticesStamped' /\ ClocksStarted' /\ \A v \in Workers : NoticeIsDue(v)'
  <2>1. PICK what \in {"escalate", "remind"} :
           /\ Begin(w, "notice", [step |-> current, what |-> what])
           /\ IF what = "escalate" THEN clock[current] >= T2 /\ ~escalated[current]
                                   ELSE clock[current] >= T1 /\ ~reminded[current]
    BY <1>8 DEF SlaSweep
  <2>2. /\ UNCHANGED slaVars /\ current \in StepOrders
    BY <1>1, <1>8 DEF SlaSweep, Pending
  <2>3. /\ Sole(w) /\ call[w].at = "none" /\ call'[w].at = "notice"
        /\ call'[w].saw = [step |-> current, what |-> what]
    BY <1>1, <2>1, Begins
  <2>4. \A v \in Workers \ {w} : call'[v] = call[v] /\ call[v].at = "none"
    BY <2>3 DEF Sole, Orderly
  <2>5. \A v \in Workers : call[v].at = "none"
    BY <2>3, <2>4
  <2>6. clock[current] <= waited[current]
    BY <1>1, <1>2, <2>2, <2>5 DEF ClocksStarted
  <2>7. ~StampingFor(current, what)
    BY <2>5 DEF StampingFor
  <2>8. IF what = "escalate" THEN waited[current] >= T2 /\ escalations[current] = 0
                             ELSE waited[current] >= T1 /\ reminders[current] = 0
    BY <1>1, <1>2, <2>1, <2>2, <2>6, <2>7 DEF NoticesStamped
  <2>9. \A v \in Workers : NoticeIsDue(v)'
    BY <2>2, <2>3, <2>4, <2>8 DEF NoticeIsDue, slaVars
  <2>10. NoticesStamped'
    BY <1>2, <2>2, <2>5 DEF NoticesStamped, StampingFor, slaVars
  <2>11. ClocksStarted'
    BY <1>2, <2>2, <2>5 DEF ClocksStarted, slaVars
  <2> QED
    BY <2>9, <2>10, <2>11
<1>9. ASSUME NEW w \in Workers, SlaNotice(w)
      PROVE  NoticesStamped' /\ ClocksStarted' /\ \A v \in Workers : NoticeIsDue(v)'
  <2> DEFINE s == call[w].saw.step
  <2>1. /\ call[w].at = "notice" /\ SlaCall(w) /\ NoticeIsDue(w)
        /\ UNCHANGED <<current, clock, waited, reminded, escalated>>
        /\ IF call[w].saw.what = "escalate"
             THEN escalations' = [escalations EXCEPT ![s] = @ + 1] /\ UNCHANGED reminders
             ELSE reminders' = [reminders EXCEPT ![s] = @ + 1] /\ UNCHANGED escalations
    BY <1>1, <1>2, <1>9 DEF SlaNotice, In
  <2>2. Sole(w) /\ call'[w].at = "stamp" /\ call'[w].saw = call[w].saw
    BY <1>1, <1>9, <2>1, Steps DEF SlaNotice
  <2>3. \A v \in Workers \ {w} : call'[v] = call[v] /\ call[v].at = "none"
    BY <2>2 DEF Sole, Orderly
  <2>4. s \in StepOrders /\ call[w].saw.what \in {"escalate", "remind"}
    BY <2>1 DEF SlaCall, NoticeIsDue
  <2>5. \A x \in StepOrders : \A what : ~StampingFor(x, what)
    BY <2>1, <2>3 DEF StampingFor
  <2>6. call'[w].at = "stamp" /\ call'[w].saw.step = s /\ call'[w].saw.what = call[w].saw.what
    BY <2>2
  <2>7. \A v \in Workers : NoticeIsDue(v)'
    BY <2>2, <2>3, <2>4 DEF NoticeIsDue
  <2>8. ClocksStarted'
    BY <1>2, <2>1, <2>3 DEF ClocksStarted
  <2>9. NoticesStamped'
    <3>1. CASE call[w].saw.what = "escalate"
      <4>1. escalations'[s] = 1 /\ waited[s] >= T2 /\ UNCHANGED reminders
            /\ \A x \in StepOrders \ {s} : escalations'[x] = escalations[x]
        BY <1>1, <2>1, <2>4, <3>1 DEF NoticeIsDue
      <4> HIDE DEF s
      <4> QED
        BY <1>2, <2>1, <2>4, <2>5, <2>6, <3>1, <4>1 DEF NoticesStamped, StampingFor
    <3>2. CASE call[w].saw.what = "remind"
      <4>1. reminders'[s] = 1 /\ waited[s] >= T1 /\ UNCHANGED escalations
            /\ \A x \in StepOrders \ {s} : reminders'[x] = reminders[x]
        BY <1>1, <2>1, <2>4, <3>2 DEF NoticeIsDue
      <4> HIDE DEF s
      <4> QED
        BY <1>2, <2>1, <2>4, <2>5, <2>6, <3>2, <4>1 DEF NoticesStamped, StampingFor
    <3> QED
      BY <2>4, <3>1, <3>2
  <2> QED
    BY <2>7, <2>8, <2>9
<1>10. ASSUME NEW w \in Workers, SlaStamp(w)
       PROVE  NoticesStamped' /\ ClocksStarted' /\ \A v \in Workers : NoticeIsDue(v)'
  <2> DEFINE s == call[w].saw.step
  <2>1. /\ call[w].at = "stamp" /\ SlaCall(w) /\ NoticeIsDue(w)
        /\ UNCHANGED <<current, clock, waited, reminders, escalations>>
        /\ reminded' = [reminded EXCEPT ![s] = TRUE]
        /\ IF call[w].saw.what = "escalate"
             THEN escalated' = [escalated EXCEPT ![s] = TRUE]
             ELSE UNCHANGED escalated
    BY <1>1, <1>2, <1>10 DEF SlaStamp, In
  <2>2. Sole(w) /\ call'[w].at = "none"
    BY <1>1, <1>10, <2>1, Ends DEF SlaStamp
  <2>3. \A v \in Workers \ {w} : call'[v] = call[v] /\ call[v].at = "none"
    BY <2>2 DEF Sole, Orderly
  <2>4. s \in StepOrders
    BY <2>1 DEF SlaCall
  <2>5. \A x \in StepOrders : \A what : StampingFor(x, what) => x = s /\ what = call[w].saw.what
    BY <2>3 DEF StampingFor
  <2>6. \A v \in Workers : NoticeIsDue(v)'
    BY <2>2, <2>3, <2>4 DEF NoticeIsDue
  <2>7. ClocksStarted'
    BY <1>2, <2>1, <2>3 DEF ClocksStarted
  <2>8. /\ \A x \in StepOrders : reminded[x] \/ x = s => reminded'[x]
        /\ \A x \in StepOrders : escalated[x] \/ (x = s /\ call[w].saw.what = "escalate") => escalated'[x]
    BY <1>1, <2>1, <2>4
  <2> HIDE DEF s
  <2>9. NoticesStamped'
    BY <1>2, <2>1, <2>5, <2>8 DEF NoticesStamped
  <2> QED
    BY <2>6, <2>7, <2>9
<1>11. ASSUME NEW w \in Workers, Crash(w) PROVE FALSE
  BY <1>11 DEF Crash, Stop, Orderly
<1> QED
  BY <1>3, <1>4, <1>5, <1>6, <1>7, <1>8, <1>9, <1>10, <1>11 DEF SlaNext, SlaStep, SlaJobs

LEMMA TimersDoFireOnce == SlaAlone => TimersFireOnce
BY DEF SlaAlone, TimersFireOnce, NoticesStamped

-----------------------------------------------------------------------------
(* The pipeline, one request at a time and none failed. *)

\* The records that were created, linked or about to be.
Made == links \cup {k \in Targets : \E w \in Workers : call[w].at = "link" /\ call[w].saw = k}
DealMade == linked \/ \E w \in Workers : call[w].at = "linkDeal"

PipelineAlone ==
    /\ failures \in Nat
    /\ Orderly =>
           /\ \A k \in Targets : records[k] = IF k \in Made THEN 1 ELSE 0
           /\ \A j, k \in Made : j = k
           /\ links # {} => stage = "WON"
           /\ deals = IF DealMade THEN 1 ELSE 0
           /\ \A w \in Workers : /\ call[w].at = "make" => links = {}
                                 /\ call[w].at = "deal" => ~linked

LEMMA PipelineAloneStart == HandlersInit /\ PipelineInit => PipelineAlone
<1> SUFFICES ASSUME HandlersInit, PipelineInit PROVE PipelineAlone
  OBVIOUS
<1>1. failures = 0 /\ \A w \in Workers : call[w].at = "none"
  BY CallsBegin DEF HandlersInit, RequestsInit
<1> QED
  BY <1>1 DEF PipelineInit, PipelineAlone, Made, DealMade

LEMMA PipelineCount == PipelineNext => Counted
<1> SUFFICES ASSUME NEW w \in Workers, PipelineStep(w) PROVE Counted
  BY DEF PipelineNext
<1>1. ASSUME NEW s, MoveRead(w, s) \/ ConvertRead(w, s) \/ UpdateStatusRead(w, s) PROVE Counted
  BY <1>1, HandlersCount DEF MoveRead, ConvertRead, UpdateStatusRead
<1>2. CASE ConvertLeadRead(w) \/ MoveWrite(w) \/ MakeRecord(w) \/ LinkRecord(w)
  BY <1>2, HandlersCount DEF ConvertLeadRead, MoveWrite, MakeRecord, LinkRecord
<1>3. CASE UpdateStatusWrite(w) \/ CreateDeal(w) \/ LinkDeal(w)
  BY <1>3, HandlersCount DEF UpdateStatusWrite, CreateDeal, LinkDeal
<1> QED
  BY <1>1, <1>2, <1>3, HandlersCount DEF PipelineStep

LEMMA PipelineAloneGoOn == PipelineInv /\ PipelineAlone /\ PipelineNext => PipelineAlone'
<1>0. PipelineInv /\ PipelineAlone /\ PipelineNext => failures' \in Nat /\ (Orderly' => Orderly)
  BY PipelineCount DEF PipelineAlone, Orderly, Counted
<1> DEFINE Agree == /\ \A k \in Targets : records[k] = IF k \in Made THEN 1 ELSE 0
                    /\ \A j, k \in Made : j = k
                    /\ links # {} => stage = "WON"
                    /\ deals = IF DealMade THEN 1 ELSE 0
                    /\ \A v \in Workers : /\ call[v].at = "make" => links = {}
                                          /\ call[v].at = "deal" => ~linked
<1> SUFFICES ASSUME PipelineInv, PipelineAlone, NEW w \in Workers, PipelineStep(w), Orderly, Orderly', PipelineKept
             PROVE  Agree'
  BY <1>0, PipelineGoesOn DEF PipelineAlone, PipelineNext
<1> DEFINE at == call[w].at
           saw == call[w].saw
<1>1. /\ Calls /\ PipelineCall(w) /\ links \subseteq Targets /\ records \in [Targets -> Nat] /\ deals \in Nat
      /\ Agree
  BY DEF PipelineInv, PipelineTypeOK, PipelineAlone
\* A handler that wrote nothing of what is said here.
<1>2. ASSUME UNCHANGED <<links, records, linked, deals>>, Sole(w), links # {} => stage' = "WON",
             at \notin {"link", "linkDeal"}, call'[w].at \notin {"link", "linkDeal"},
             call'[w].at = "make" => links = {}, call'[w].at = "deal" => ~linked
      PROVE  Agree'
  <2>1. \A v \in Workers \ {w} : call'[v] = call[v] /\ call[v].at = "none"
    BY <1>2 DEF Sole, Orderly
  <2>2. Made' = Made /\ DealMade' = DealMade
    BY <1>2, <2>1 DEF Made, DealMade
  <2> QED
    BY <1>1, <1>2, <2>1, <2>2
<1>3. ASSUME NEW s, MoveRead(w, s) \/ UpdateStatusRead(w, s) PROVE Agree'
  <2>1. Sole(w) /\ at = "none" /\ UNCHANGED pipelineVars /\ call'[w].at \in {"move", "status"}
    BY <1>1, <1>3, Begins DEF MoveRead, UpdateStatusRead
  <2> QED
    BY <1>1, <1>2, <2>1 DEF pipelineVars
<1>4. ASSUME NEW k, ConvertRead(w, k) PROVE Agree'
  <2>1. Sole(w) /\ at = "none" /\ UNCHANGED pipelineVars /\ call'[w].at = "make" /\ links = {}
    BY <1>1, <1>4, Begins DEF ConvertRead
  <2> QED
    BY <1>1, <1>2, <2>1 DEF pipelineVars
<1>5. CASE ConvertLeadRead(w)
  <2>1. Sole(w) /\ at = "none" /\ UNCHANGED pipelineVars /\ call'[w].at = "deal" /\ ~linked
    BY <1>1, <1>5, Begins DEF ConvertLeadRead
  <2> QED
    BY <1>1, <1>2, <2>1 DEF pipelineVars
<1>6. CASE MoveWrite(w) \/ UpdateStatusWrite(w)
  <2>1. /\ at \in {"move", "status"} /\ UNCHANGED <<links, records, linked, deals>>
        /\ Done(w)
        /\ stage = "WON" => stage' = "WON"
    BY <1>6 DEF MoveWrite, UpdateStatusWrite, In, PipelineKept, Orderly
  <2>2. Sole(w) /\ call'[w].at = "none"
    BY <1>1, <2>1, Ends
  <2> QED
    BY <1>1, <1>2, <2>1, <2>2
<1>7. CASE MakeRecord(w)
  <2>1. at = "make" /\ saw \in Targets /\ links = {} /\ UNCHANGED <<stage, links, linked, deals>>
        /\ records' = [records EXCEPT ![saw] = @ + 1]
    BY <1>1, <1>7 DEF MakeRecord, In, PipelineCall
  <2>2. Sole(w) /\ call'[w].at = "link" /\ call'[w].saw = saw
    BY <1>1, <1>7, <2>1, Steps DEF MakeRecord
  <2>3. \A v \in Workers \ {w} : call'[v] = call[v] /\ call[v].at = "none"
    BY <2>2 DEF Sole, Orderly
  <2>4. Made = {} /\ Made' = {saw} /\ DealMade' = DealMade
    BY <2>1, <2>2, <2>3 DEF Made, DealMade
  <2>5. \A k \in Targets : records'[k] = IF k = saw THEN 1 ELSE 0
    BY <1>1, <2>1, <2>4
  <2> QED
    BY <1>1, <2>1, <2>2, <2>3, <2>4, <2>5
<1>8. CASE LinkRecord(w)
  <2>1. /\ at = "link" /\ saw \in Targets /\ UNCHANGED <<records, linked, deals>>
        /\ stage' = "WON" /\ links' = links \cup {saw}
    BY <1>1, <1>8 DEF LinkRecord, In, PipelineCall
  <2>2. Sole(w) /\ call'[w].at = "none"
    BY <1>1, <1>8, <2>1, Ends DEF LinkRecord
  <2>3. \A v \in Workers \ {w} : call'[v] = call[v] /\ call[v].at = "none"
    BY <2>2 DEF Sole, Orderly
  <2>4. Made' = Made /\ DealMade' = DealMade
    BY <2>1, <2>2, <2>3 DEF Made, DealMade
  <2> QED
    BY <1>1, <2>1, <2>2, <2>3, <2>4
<1>9. CASE CreateDeal(w)
  <2>1. /\ at = "deal" /\ ~linked /\ deals' = deals + 1 /\ UNCHANGED <<stage, links, records, linked>>
    BY <1>1, <1>9 DEF CreateDeal, In
  <2>2. Sole(w) /\ call'[w].at = "linkDeal"
    BY <1>1, <1>9, <2>1, Steps DEF CreateDeal
  <2>3. \A v \in Workers \ {w} : call'[v] = call[v] /\ call[v].at = "none"
    BY <2>2 DEF Sole, Orderly
  <2>4. Made' = Made /\ ~DealMade /\ DealMade'
    BY <2>1, <2>2, <2>3 DEF Made, DealMade
  <2> QED
    BY <1>1, <2>1, <2>2, <2>3, <2>4
<1>10. CASE LinkDeal(w)
  <2>1. /\ at = "linkDeal" /\ linked' = TRUE /\ UNCHANGED <<stage, links, records, deals>>
    BY <1>1, <1>10 DEF LinkDeal, In
  <2>2. Sole(w) /\ call'[w].at = "none"
    BY <1>1, <1>10, <2>1, Ends DEF LinkDeal
  <2>3. \A v \in Workers \ {w} : call'[v] = call[v] /\ call[v].at = "none"
    BY <2>2 DEF Sole, Orderly
  <2>4. Made' = Made /\ DealMade /\ DealMade'
    BY <2>1, <2>2, <2>3 DEF Made, DealMade
  <2> QED
    BY <1>1, <2>1, <2>2, <2>3, <2>4
<1>11. CASE Crash(w)
  BY <1>11 DEF Crash, Stop, Orderly
<1> QED
  BY <1>3, <1>4, <1>5, <1>6, <1>7, <1>8, <1>9, <1>10, <1>11 DEF PipelineStep

LEMMA PipelineDoesAgree == PipelineInv /\ PipelineAlone => PipelineAgrees
<1> SUFFICES ASSUME PipelineInv, PipelineAlone, AtRest
             PROVE  /\ records["ORDER"] + records["CONTRACT"] = Cardinality(links)
                    /\ Cardinality(links) <= 1
                    /\ links # {} => stage = "WON"
                    /\ deals = IF linked THEN 1 ELSE 0
  BY DEF PipelineAgrees
<1>1. \A w \in Workers : call[w].at = "none"
  BY DEF AtRest, AllFree, Free
<1>2. Made = links /\ (DealMade <=> linked)
  BY <1>1 DEF Made, DealMade
<1>3. /\ \A k \in Targets : records[k] = IF k \in links THEN 1 ELSE 0
      /\ \A j, k \in links : j = k
      /\ links # {} => stage = "WON"
      /\ deals = IF linked THEN 1 ELSE 0
      /\ links \subseteq {"ORDER", "CONTRACT"} /\ Targets = {"ORDER", "CONTRACT"}
  BY <1>2 DEF PipelineAlone, AtRest, PipelineInv, PipelineTypeOK, Targets
<1>4. CASE links = {}
  BY <1>3, <1>4, FS_EmptySet
<1>5. CASE links # {}
  <2>1. PICK k \in links : links = {k}
    BY <1>3, <1>5
  <2>2. Cardinality(links) = 1
    BY <2>1, FS_Singleton
  <2>3. records["ORDER"] + records["CONTRACT"] = 1
    BY <1>3, <2>1
  <2> QED
    BY <1>3, <2>2, <2>3
<1> QED
  BY <1>4, <1>5

-----------------------------------------------------------------------------
(* Sessions, while no refresh or sign-out ran beside another. *)

Live == {t \in DOMAIN tokens : tokens[t] = "live"}

\* The live tokens the client did not let go of.
Own == Live \ strays

Tokens == 1 .. Len(tokens)

\* What a request keeps are tokens that were issued.
SawTokens(w) ==
    LET at == call[w].at
        saw == call[w].saw
    IN  /\ Changing(w) =>
               saw \in [old : Tokens, new : Tokens \cup {None}, out : Tokens \cup {None}]
        /\ at \in {"revoke", "received"} => saw.new \in Tokens

\* How far the tokens are when a request is in the middle of changing them.
TokensAt(w) ==
    LET at == call[w].at
        saw == call[w].saw
    IN  /\ at \in {"rotate", "issue", "logout"} =>
               held # None /\ saw.old = held /\ saw.new = None /\ saw.out \in {None, held} /\ Own = {held}
        /\ at = "revoke" => /\ held # None /\ saw.old = held /\ saw.out \in {None, held}
                            /\ saw.new # held /\ Own = {held, saw.new}
        /\ at = "received" => held # None /\ saw.out # saw.new /\ Own = {saw.new}
        /\ at = "retry" => held # None /\ saw.old # held /\ saw.new = held /\ Own = {held}
        /\ at = "forget" => held # None /\ Own = {saw.new} \ {None}
        /\ at = "refused" => held # None /\ tokens[saw.old] = "live" /\ Own = {}

SessionsTyped ==
    /\ failures \in Nat /\ Len(tokens) <= MaxTokens
    /\ held \in Tokens \cup {None} /\ strays \subseteq Tokens /\ beside \in BOOLEAN
    /\ \A w \in Workers : SawTokens(w)

TokensKept ==
    /\ \A v, w \in Workers : Changing(v) /\ Changing(w) => v = w
    /\ (\A w \in Workers : ~Changing(w)) => Own = {held} \ {None}
    /\ \A w \in Workers : Changing(w) => TokensAt(w)

SessionsAlone == SessionsTyped /\ (~beside /\ failures = 0 => TokensKept)

LEMMA SessionsAloneStart == HandlersInit /\ SessionsInit => SessionsAlone
<1> SUFFICES ASSUME HandlersInit, SessionsInit PROVE SessionsAlone
  OBVIOUS
<1>1. failures = 0 /\ \A w \in Workers : call[w].at = "none"
  BY CallsBegin DEF HandlersInit, RequestsInit
<1>2. /\ Len(tokens) = 0 /\ DOMAIN tokens = {} /\ held = None /\ strays = {} /\ beside = FALSE
      /\ MaxTokens \in Nat
  BY SessionsAssumption DEF SessionsInit
<1>3. Own = {held} \ {None}
  BY <1>2 DEF Live, Own
<1>4. \A w \in Workers : ~Changing(w)
  BY <1>1 DEF Changing, Refreshing, SigningOut
<1>5. \A w \in Workers : SawTokens(w)
  BY <1>1, <1>4 DEF SawTokens
<1>6. failures \in Nat /\ Len(tokens) <= MaxTokens
  BY <1>1, <1>2
<1>7. SessionsTyped
  <2>1. beside \in BOOLEAN
    BY DEF SessionsInit
  <2> QED
    BY <1>2, <1>5, <1>6, <2>1 DEF SessionsTyped
<1> QED
  BY <1>3, <1>4, <1>7 DEF SessionsAlone, TokensKept

LEMMA SessionsCount == SessionsNext => Counted
<1> SUFFICES ASSUME NEW w \in Workers, SessionsStep(w) PROVE Counted
  BY DEF SessionsNext
<1>1. CASE Login(w)
  BY <1>1 DEF Login, handlerVars, Counted
<1>2. CASE Logout(w) \/ RevokeOnLogout(w) \/ ForgetTokens(w) \/ QueryRefused(w) \/ QueryWaits(w) \/ QueryGoesOn(w)
  BY <1>2, HandlersCount DEF Logout, RevokeOnLogout, ForgetTokens, QueryRefused, QueryWaits, QueryGoesOn, StartRefresh
<1>3. CASE DownloadRefused(w) \/ RotateRead(w) \/ RotateRefused(w) \/ IssuePair(w) \/ RevokeOld(w)
  BY <1>3, HandlersCount DEF DownloadRefused, RotateRead, RotateRefused, IssuePair, RevokeOld, StartRefresh
<1>4. CASE TokensReceived(w) \/ LoggedOut(w) \/ RefreshLost(w)
  BY <1>4, HandlersCount DEF TokensReceived, LoggedOut, RefreshLost
<1>5. CASE LogoutRefused(w) \/ RetryRefused(w)
  BY <1>5, HandlersCount DEF LogoutRefused, RetryRefused
<1>6. CASE LogoutLost(w)
  BY <1>6 DEF LogoutLost, Counted
<1> QED
  BY <1>1, <1>2, <1>3, <1>4, <1>5, <1>6 DEF SessionsStep

LEMMA TokensLive ==
    ASSUME tokens \in Seq({"live", "revoked"})
    PROVE  /\ Issued => /\ Live' = Live \cup {Len(tokens) + 1} /\ Len(tokens) + 1 \notin Live
                        /\ Len(tokens') = Len(tokens) + 1
           /\ \A ts : Revoked(ts) => Live' = Live \ ts /\ Len(tokens') = Len(tokens)
<1>1. Len(tokens) \in Nat /\ DOMAIN tokens = 1 .. Len(tokens)
  OBVIOUS
<1>2. ASSUME Issued
      PROVE  /\ Live' = Live \cup {Len(tokens) + 1} /\ Len(tokens) + 1 \notin Live
             /\ Len(tokens') = Len(tokens) + 1
  <2>1. /\ DOMAIN tokens' = DOMAIN tokens \cup {Len(tokens) + 1}
        /\ tokens'[Len(tokens) + 1] = "live" /\ Len(tokens') = Len(tokens) + 1
        /\ \A t \in DOMAIN tokens : tokens'[t] = tokens[t]
    BY <1>1, <1>2 DEF Issued
  <2> QED
    BY <1>1, <2>1 DEF Live
<1>3. ASSUME NEW ts, Revoked(ts)
      PROVE  Live' = Live \ ts /\ Len(tokens') = Len(tokens)
  <2>1. /\ DOMAIN tokens' = DOMAIN tokens /\ tokens' \in Seq({"live", "revoked"})
        /\ \A t \in DOMAIN tokens : tokens'[t] = IF t \in ts THEN "revoked" ELSE tokens[t]
    BY <1>3, TokensChange DEF Revoked
  <2>2. Len(tokens') = Len(tokens)
    BY <1>1, <2>1
  <2> QED
    BY <2>1, <2>2 DEF Live
<1> QED
  BY <1>2, <1>3

\* A step that takes no token away keeps what the other requests know.
LEMMA SessionsFrameAlone ==
    ASSUME SessionsInv, SessionsTyped, NEW w \in Workers,
           \A v \in Workers \ {w} : call'[v] = call[v],
           Len(tokens') \in Nat, Len(tokens) <= Len(tokens'), Len(tokens') <= MaxTokens,
           held' \in Tokens' \cup {None}, strays' \subseteq Tokens', beside' \in BOOLEAN, failures' \in Nat,
           SawTokens(w)'
    PROVE  SessionsTyped'
<1>1. Len(tokens) \in Nat /\ Tokens \subseteq Tokens'
  BY DEF SessionsInv, Tokens
<1>2. ASSUME NEW v \in Workers \ {w} PROVE SawTokens(v)'
  <2>1. SawTokens(v) /\ call'[v] = call[v] /\ (Changing(v)' <=> Changing(v))
    BY DEF SessionsTyped, Changing
  <2> QED
    BY <1>1, <2>1 DEF SawTokens
<1> QED
  BY <1>2 DEF SessionsTyped

\* The one that changes the tokens goes on, or ends.
LEMMA TokensGoOn ==
    ASSUME TokensKept, NEW w \in Workers, Changing(w), \A v \in Workers \ {w} : call'[v] = call[v],
           IF Changing(w)' THEN TokensAt(w)' ELSE Own' = {held'} \ {None}
    PROVE  TokensKept'
<1>1. \A v \in Workers \ {w} : ~Changing(v) /\ ~Changing(v)'
  BY DEF Changing, TokensKept
<1> QED
  BY <1>1 DEF TokensKept

LEMMA SessionsAloneGoOn == SessionsInv /\ SessionsAlone /\ SessionsNext => SessionsAlone'
<1> SUFFICES ASSUME SessionsInv, SessionsAlone, NEW w \in Workers, SessionsStep(w) PROVE SessionsAlone'
  BY DEF SessionsNext
<1> DEFINE at == call[w].at
           saw == call[w].saw
           n == Len(tokens) + 1
           Quiet == ~beside /\ ~beside' /\ failures = 0 /\ failures' = 0 /\ TokensKept
<1>1. /\ Calls /\ tokens \in Seq({"live", "revoked"}) /\ MaxTokens \in Nat /\ None \notin Nat
      /\ Len(tokens) \in Nat /\ Len(tokens) <= MaxTokens
      /\ held \in Tokens \cup {None} /\ strays \subseteq Tokens /\ beside \in BOOLEAN /\ failures \in Nat
      /\ SawTokens(w) /\ SessionsTyped
      /\ Live \subseteq Tokens
  BY SessionsAssumption DEF SessionsInv, SessionsAlone, SessionsTyped, Live, Tokens
<1>2. failures' \in Nat /\ (failures' = 0 => failures = 0)
  BY <1>1, SessionsCount DEF Counted, SessionsNext
\* What every action has to show of the types, and of the tokens when nothing ran beside.
<1>3. ASSUME Len(tokens') \in {Len(tokens), n}, Len(tokens') <= MaxTokens,
             held' \in Tokens' \cup {None}, strays' \subseteq Tokens',
             beside' \in BOOLEAN, beside => beside', \A v \in Workers \ {w} : call'[v] = call[v], SawTokens(w)',
             Quiet => TokensKept'
      PROVE  SessionsAlone'
  <2>1. SessionsTyped'
    BY <1>1, <1>2, <1>3, SessionsFrameAlone
  <2> QED
    BY <1>1, <1>2, <1>3, <2>1 DEF SessionsAlone
<1> HIDE DEF Quiet
<1>5. CASE Login(w)
  <2>1. /\ Issued /\ held = None /\ held' = n /\ Len(tokens) < MaxTokens /\ at = "none"
        /\ UNCHANGED <<call, failures, strays, beside>>
    BY <1>5 DEF Login, handlerVars, Free
  <2>2. Live' = Live \cup {n} /\ Len(tokens') = n
    BY <1>1, <2>1, TokensLive
  <2>3. Tokens' = Tokens \cup {n} /\ n \notin Tokens /\ n # None
    BY <1>1, <2>2 DEF Tokens
  <2>4. SawTokens(w)'
    BY <2>1 DEF SawTokens, Changing, Refreshing, SigningOut
  <2>5. ASSUME TokensKept PROVE TokensKept'
    <3>1. \A v \in Workers : ~Changing(v)
      BY <2>1, <2>5 DEF TokensKept, TokensAt, Changing, Refreshing, SigningOut
    <3>2. \A v \in Workers : ~Changing(v)'
      BY <2>1, <3>1 DEF Changing
    <3>3. Own = {}
      BY <2>1, <2>5, <3>1 DEF TokensKept
    <3>4. Own' = {held'} \ {None}
      BY <1>1, <2>1, <2>2, <2>3, <3>3 DEF Own
    <3> QED
      BY <3>2, <3>4 DEF TokensKept
  <2> QED
    BY <1>1, <1>3, <2>1, <2>2, <2>3, <2>4, <2>5 DEF Quiet
<1>6. CASE Logout(w) \/ QueryRefused(w) \/ DownloadRefused(w)
  <2>1. PICK to \in {"logout", "rotate"} : Begin(w, to, Attempt(held, None))
    BY <1>6 DEF Logout, QueryRefused, DownloadRefused, StartRefresh
  <2>2. /\ held # None /\ UNCHANGED <<tokens, held, strays>>
        /\ beside' = (beside \/ \E v \in Workers : Changing(v))
    BY <1>6 DEF Logout, QueryRefused, DownloadRefused, StartRefresh
  <2>3. /\ call'[w].at = to /\ call'[w].saw = [old |-> held, new |-> None, out |-> None]
        /\ \A v \in Workers \ {w} : call'[v] = call[v]
    BY <1>1, <2>1, Begins DEF Sole, Attempt
  <2>4. Tokens' = Tokens /\ SawTokens(w)'
    BY <1>1, <2>2, <2>3 DEF SawTokens, Tokens
  <2>5. ASSUME Quiet PROVE TokensKept'
    <3>1. (\A v \in Workers : ~Changing(v)) /\ TokensKept
      BY <2>2, <2>5 DEF Quiet
    <3>2. Own = {held} /\ Own' = Own
      BY <2>2, <3>1 DEF TokensKept, Own, Live
    <3>3. TokensAt(w)'
      BY <2>2, <2>3, <3>2 DEF TokensAt
    <3>4. \A v \in Workers \ {w} : ~Changing(v)'
      BY <2>3, <3>1 DEF Changing
    <3>5. Changing(w)'
      BY <2>3 DEF Changing, Refreshing, SigningOut
    <3> QED
      BY <3>3, <3>4, <3>5 DEF TokensKept
  <2> QED
    BY <1>1, <1>3, <2>2, <2>3, <2>4, <2>5
<1>7. CASE QueryWaits(w) \/ QueryGoesOn(w)
  <2>1. /\ UNCHANGED <<tokens, held, strays, beside>> /\ at \in {"none", "waiting"}
        /\ call'[w].at \in {"none", "waiting"} /\ \A v \in Workers \ {w} : call'[v] = call[v]
    BY <1>1, <1>7, Begins, Ends DEF QueryWaits, QueryGoesOn, In, Sole, sessionVars
  <2>2. SawTokens(w)' /\ Tokens' = Tokens
    BY <2>1 DEF SawTokens, Changing, Refreshing, SigningOut, Tokens
  <2>3. ASSUME TokensKept PROVE TokensKept'
    <3>1. Own' = Own /\ \A v \in Workers : Changing(v)' = Changing(v)
      BY <2>1 DEF Changing, Refreshing, SigningOut, Live, Own
    <3>2. \A v \in Workers : Changing(v) => call'[v] = call[v]
      BY <2>1 DEF Changing, Refreshing, SigningOut
    <3> QED
      BY <2>1, <2>3, <3>1, <3>2 DEF TokensKept, TokensAt
  <2> QED
    BY <1>1, <1>3, <2>1, <2>2, <2>3 DEF Quiet
\* A call of a request that changes tokens.
<1>8. ASSUME Changing(w), NEW to \in Refreshing \cup SigningOut, NEW new, Step(w, to, new),
             Len(tokens') = Len(tokens), UNCHANGED <<held, strays, beside>>,
             new \in [old : Tokens, new : Tokens \cup {None}, out : Tokens \cup {None}],
             to \in {"revoke", "received"} => new.new \in Tokens,
             TokensKept /\ TokensAt(w) /\ call'[w].at = to /\ call'[w].saw = new => TokensAt(w)'
      PROVE  SessionsAlone'
  <2>1. at # "none"
    BY <1>8 DEF Changing, Refreshing, SigningOut
  <2>2. /\ call'[w].at = to /\ call'[w].saw = new /\ \A v \in Workers \ {w} : call'[v] = call[v]
    BY <1>1, <1>8, <2>1, Steps DEF Sole
  <2>3. Tokens' = Tokens
    BY <1>8 DEF Tokens
  <2>4. Changing(w)' /\ SawTokens(w)'
    BY <1>8, <2>2, <2>3 DEF Changing, SawTokens
  <2>5. ASSUME TokensKept PROVE TokensKept'
    <3>1. TokensAt(w)'
      BY <1>8, <2>2, <2>5 DEF TokensKept
    <3> QED
      BY <1>8, <2>2, <2>4, <2>5, <3>1, TokensGoOn
  <2> QED
    BY <1>1, <1>3, <1>8, <2>2, <2>3, <2>4, <2>5 DEF Quiet
<1>9. CASE RevokeOnLogout(w)
  <2>1. /\ at \in {"logout", "retry"} /\ Revoked({saw.old}) /\ Step(w, "forget", saw)
        /\ UNCHANGED <<held, strays, beside>>
    BY <1>9 DEF RevokeOnLogout, In
  <2>2. Live' = Live \ {saw.old} /\ Len(tokens') = Len(tokens)
    BY <1>1, <2>1, TokensLive
  <2>3. Changing(w) /\ "forget" \in SigningOut
    BY <2>1 DEF Changing, SigningOut
  <2>4. ASSUME TokensAt(w), call'[w].at = "forget", call'[w].saw = saw PROVE TokensAt(w)'
    BY <1>1, <2>1, <2>2, <2>4 DEF TokensAt, Own, Tokens
  <2> QED
    BY <1>1, <1>8, <2>1, <2>2, <2>3, <2>4 DEF SawTokens
<1>10. CASE RetryRefused(w)
  <2>1. at = "retry" /\ Step(w, "forget", saw) /\ UNCHANGED <<tokens, held, strays, beside>>
    BY <1>10 DEF RetryRefused, In, sessionVars
  <2>2. Changing(w) /\ "forget" \in SigningOut
    BY <2>1 DEF Changing, SigningOut
  <2>3. ASSUME TokensAt(w), call'[w].at = "forget", call'[w].saw = saw PROVE TokensAt(w)'
    BY <2>1, <2>3 DEF TokensAt, Own, Live
  <2> QED
    BY <1>1, <1>8, <2>1, <2>2, <2>3 DEF SawTokens
<1>11. CASE LogoutRefused(w)
  <2>1. /\ at = "logout" /\ Changing(w) /\ UNCHANGED <<tokens, held, strays, beside>>
        /\ saw \in [old : Tokens, new : Tokens \cup {None}, out : Tokens \cup {None}]
    BY <1>1, <1>11 DEF LogoutRefused, In, Changing, SigningOut, SawTokens
  <2>2. CASE held = None /\ Step(w, "forget", saw)
    <3>1. ASSUME TokensAt(w) PROVE FALSE
      BY <2>1, <2>2, <3>1 DEF TokensAt
    <3>2. "forget" \in SigningOut
      BY DEF SigningOut
    <3> QED
      BY <1>8, <2>1, <2>2, <3>1, <3>2
  <2>3. CASE held # None /\ Step(w, "rotate", Attempt(held, saw.old))
    <3> DEFINE next == Attempt(held, saw.old)
    <3>1. next = [old |-> held, new |-> None, out |-> saw.old]
      BY DEF Attempt
    <3>2. "rotate" \in Refreshing
      BY DEF Refreshing
    <3>3. next \in [old : Tokens, new : Tokens \cup {None}, out : Tokens \cup {None}]
      BY <1>1, <2>1, <2>3, <3>1
    <3>4. ASSUME TokensAt(w), call'[w].at = "rotate", call'[w].saw = next PROVE TokensAt(w)'
      BY <2>1, <2>3, <3>1, <3>4 DEF TokensAt, Own, Live
    <3> HIDE DEF next
    <3>5. Step(w, "rotate", next)
      BY <2>3 DEF next
    <3> QED
      BY <1>8, <2>1, <3>2, <3>3, <3>4, <3>5
  <2>4. CASE lock # None /\ Step(w, "retry", saw)
    <3>1. lock \in Workers /\ Changing(lock) /\ lock # w
      BY <2>1, <2>4 DEF SessionsInv, MutexHolds, InRefresh, Changing, Refreshing
    <3>2. ~TokensKept
      BY <2>1, <3>1 DEF TokensKept
    <3>3. "retry" \in SigningOut
      BY DEF SigningOut
    <3> QED
      BY <1>8, <2>1, <2>4, <3>2, <3>3
  <2> QED
    BY <1>11, <2>2, <2>3, <2>4 DEF LogoutRefused
<1>12. CASE LogoutLost(w)
  <2>1. /\ at \in {"logout", "retry"} /\ Go(w, "forget", saw) /\ failures' = failures + 1
        /\ UNCHANGED <<tokens, held, strays, beside>>
    BY <1>12 DEF LogoutLost, In, sessionVars
  <2>2. /\ call'[w].at = "forget" /\ call'[w].saw = saw /\ \A v \in Workers \ {w} : call'[v] = call[v]
    BY <1>1, <2>1 DEF Go, Calls
  <2>3. Changing(w) /\ Tokens' = Tokens
    BY <2>1 DEF Changing, SigningOut, Tokens
  <2>4. SawTokens(w)'
    BY <1>1, <2>2, <2>3 DEF SawTokens
  <2> QED
    BY <1>1, <1>3, <2>1, <2>2, <2>3, <2>4 DEF Quiet
<1>13. CASE ForgetTokens(w)
  <2>1. /\ at = "forget" /\ held' = None /\ Done(w) /\ strays' = strays \cup ({saw.new} \ {None})
        /\ UNCHANGED <<tokens, beside>>
    BY <1>13 DEF ForgetTokens, In
  <2>2. call'[w].at = "none" /\ \A v \in Workers \ {w} : call'[v] = call[v]
    BY <1>1, <2>1, Ends DEF Sole
  <2>3. Changing(w) /\ ~Changing(w)' /\ Tokens' = Tokens
    BY <2>1, <2>2 DEF Changing, SigningOut, Refreshing, Tokens
  <2>4. SawTokens(w)' /\ saw.new \in Tokens \cup {None}
    BY <1>1, <2>2, <2>3 DEF SawTokens
  <2>5. ASSUME TokensKept PROVE TokensKept'
    <3>1. Own = {saw.new} \ {None}
      BY <2>1, <2>3, <2>5 DEF TokensKept, TokensAt
    <3>2. Own' = {held'} \ {None}
      BY <2>1, <3>1 DEF Own, Live
    <3> QED
      BY <2>2, <2>3, <2>5, <3>2, TokensGoOn
  <2> QED
    BY <1>1, <1>3, <2>1, <2>2, <2>3, <2>4, <2>5 DEF Quiet
<1>14. CASE RotateRead(w)
  <2>1. at = "rotate" /\ UNCHANGED <<held, strays, beside>> /\ Changing(w) /\ saw.old \in Tokens
    BY <1>1, <1>14 DEF RotateRead, In, Changing, Refreshing, SawTokens
  <2>2. CASE tokens[saw.old] = "live" /\ Step(w, "issue", saw) /\ UNCHANGED tokens
    <3>1. ASSUME TokensAt(w), call'[w].at = "issue", call'[w].saw = saw PROVE TokensAt(w)'
      BY <2>1, <2>2, <3>1 DEF TokensAt, Own, Live
    <3>2. "issue" \in Refreshing
      BY DEF Refreshing
    <3> QED
      BY <1>1, <1>8, <2>1, <2>2, <3>1, <3>2 DEF SawTokens
  <2>3. CASE tokens[saw.old] # "live" /\ Step(w, "refused", saw) /\ Revoked(DOMAIN tokens)
    <3>1. Len(tokens') = Len(tokens)
      BY <1>1, <2>3, TokensLive
    <3>2. ASSUME TokensAt(w) PROVE FALSE
      BY <2>1, <2>3, <3>2 DEF TokensAt, Own, Live
    <3>3. "refused" \in Refreshing
      BY DEF Refreshing
    <3> QED
      BY <1>1, <1>8, <2>1, <2>3, <3>1, <3>2, <3>3 DEF SawTokens
  <2> QED
    BY <1>14, <2>2, <2>3 DEF RotateRead
<1>15. CASE RotateRefused(w)
  <2>1. /\ at = "rotate" /\ tokens[saw.old] = "live" /\ Step(w, "refused", saw)
        /\ strays' = strays \cup {saw.old} /\ UNCHANGED <<tokens, held, beside>>
    BY <1>15 DEF RotateRefused, In
  <2>2. /\ call'[w].at = "refused" /\ call'[w].saw = saw /\ \A v \in Workers \ {w} : call'[v] = call[v]
    BY <1>1, <2>1, Steps DEF Sole
  <2>3. Changing(w) /\ Changing(w)' /\ Tokens' = Tokens
    BY <2>1, <2>2 DEF Changing, Refreshing, Tokens
  <2>4. SawTokens(w)' /\ saw.old \in Tokens
    BY <1>1, <2>2, <2>3 DEF SawTokens
  <2>5. ASSUME TokensKept PROVE TokensKept'
    <3>1. TokensAt(w)
      BY <2>3, <2>5 DEF TokensKept
    <3>2. TokensAt(w)'
      BY <2>1, <2>2, <3>1 DEF TokensAt, Own, Live
    <3> QED
      BY <2>2, <2>3, <2>5, <3>2, TokensGoOn
  <2> QED
    BY <1>1, <1>3, <2>1, <2>2, <2>3, <2>4, <2>5 DEF Quiet
<1>16. CASE IssuePair(w)
  <2> DEFINE new == [saw EXCEPT !.new = n]
  <2>1. /\ at = "issue" /\ Issued /\ Len(tokens) < MaxTokens /\ UNCHANGED <<held, strays, beside>>
        /\ Step(w, "revoke", new)
    BY <1>16 DEF IssuePair, In
  <2>2. /\ call'[w].at = "revoke" /\ call'[w].saw = new /\ \A v \in Workers \ {w} : call'[v] = call[v]
    BY <1>1, <2>1, Steps DEF Sole
  <2>3. Live' = Live \cup {n} /\ n \notin Live /\ Len(tokens') = n
    BY <1>1, <2>1, TokensLive
  <2>4. Changing(w) /\ Changing(w)'
    BY <2>1, <2>2 DEF Changing, Refreshing
  <2>5. Tokens' = Tokens \cup {n} /\ n \notin Tokens
    BY <1>1, <2>3 DEF Tokens
  <2>6. saw \in [old : Tokens, new : Tokens \cup {None}, out : Tokens \cup {None}]
    BY <1>1, <2>4 DEF SawTokens
  <2>7. new.old = saw.old /\ new.new = n /\ new.out = saw.out
        /\ new \in [old : Tokens', new : Tokens' \cup {None}, out : Tokens' \cup {None}]
    BY <2>5, <2>6
  <2> HIDE DEF new
  <2>8. SawTokens(w)'
    BY <2>2, <2>5, <2>7 DEF SawTokens
  <2>9. ASSUME TokensKept PROVE TokensKept'
    <3>1. TokensAt(w)
      BY <2>4, <2>9 DEF TokensKept
    <3>2. TokensAt(w)'
      BY <1>1, <2>1, <2>2, <2>3, <2>5, <2>7, <3>1 DEF TokensAt, Own
    <3> QED
      BY <2>2, <2>4, <2>9, <3>2, TokensGoOn
  <2> QED
    BY <1>1, <1>3, <2>1, <2>2, <2>3, <2>5, <2>8, <2>9 DEF Quiet
<1>17. CASE RevokeOld(w)
  <2>1. at = "revoke" /\ Revoked({saw.old}) /\ Step(w, "received", saw) /\ UNCHANGED <<held, strays, beside>>
    BY <1>17 DEF RevokeOld, In
  <2>2. Live' = Live \ {saw.old} /\ Len(tokens') = Len(tokens)
    BY <1>1, <2>1, TokensLive
  <2>3. Changing(w) /\ "received" \in Refreshing
    BY <2>1 DEF Changing, Refreshing
  <2>4. ASSUME TokensAt(w), call'[w].at = "received", call'[w].saw = saw PROVE TokensAt(w)'
    <3>1. saw.new \in Tokens
      BY <1>1, <2>1 DEF SawTokens
    <3> QED
      BY <1>1, <2>1, <2>2, <2>4, <3>1 DEF TokensAt, Own, Tokens
  <2> QED
    BY <1>1, <1>8, <2>1, <2>2, <2>3, <2>4 DEF SawTokens
<1>18. CASE TokensReceived(w)
  <2> DEFINE new == [saw EXCEPT !.old = saw.out]
  <2>1. /\ at = "received" /\ held' = saw.new /\ UNCHANGED <<tokens, strays, beside>>
        /\ IF saw.out = None THEN Done(w) ELSE Step(w, "retry", new)
    BY <1>18 DEF TokensReceived, In
  <2>2. Changing(w) /\ Tokens' = Tokens
    BY <2>1 DEF Changing, Refreshing, Tokens
  <2>3. saw \in [old : Tokens, new : Tokens \cup {None}, out : Tokens \cup {None}] /\ saw.new \in Tokens
    BY <1>1, <2>1, <2>2 DEF SawTokens
  <2>4. CASE saw.out = None
    <3>1. call'[w].at = "none" /\ \A v \in Workers \ {w} : call'[v] = call[v]
      BY <1>1, <2>1, <2>4, Ends DEF Sole
    <3>2. ~Changing(w)' /\ SawTokens(w)'
      BY <3>1 DEF Changing, SigningOut, Refreshing, SawTokens
    <3>3. ASSUME TokensKept PROVE TokensKept'
      <4>1. Own = {saw.new}
        BY <2>1, <2>2, <3>3 DEF TokensKept, TokensAt
      <4>2. Own' = {held'} \ {None}
        BY <1>1, <2>1, <2>3, <4>1 DEF Own, Live, Tokens
      <4> QED
        BY <2>2, <3>1, <3>2, <3>3, <4>2, TokensGoOn
    <3> QED
      BY <1>1, <1>3, <2>1, <2>2, <2>3, <3>1, <3>2, <3>3 DEF Quiet
  <2>5. CASE saw.out # None
    <3>1. /\ call'[w].at = "retry" /\ call'[w].saw = new /\ \A v \in Workers \ {w} : call'[v] = call[v]
      BY <1>1, <2>1, <2>5, Steps DEF Sole
    <3>2. /\ new.old = saw.out /\ new.new = saw.new
          /\ new \in [old : Tokens, new : Tokens \cup {None}, out : Tokens \cup {None}]
      BY <2>3, <2>5
    <3> HIDE DEF new
    <3>3. Changing(w)' /\ SawTokens(w)'
      BY <2>2, <3>1, <3>2 DEF Changing, SigningOut, Refreshing, SawTokens
    <3>4. ASSUME TokensKept PROVE TokensKept'
      <4>1. TokensAt(w)
        BY <2>2, <3>4 DEF TokensKept
      <4>2. saw.new # None /\ Own' = Own
        BY <1>1, <2>1, <2>3 DEF Own, Live, Tokens
      <4>3. TokensAt(w)'
        BY <2>1, <3>1, <3>2, <4>1, <4>2 DEF TokensAt
      <4> QED
        BY <2>2, <3>1, <3>3, <3>4, <4>3, TokensGoOn
    <3> QED
      BY <1>1, <1>3, <2>1, <2>2, <2>3, <3>1, <3>3, <3>4 DEF Quiet
  <2> QED
    BY <2>4, <2>5
<1>19. CASE LoggedOut(w)
  <2>1. at = "refused" /\ held' = None /\ Done(w) /\ UNCHANGED <<tokens, strays, beside>>
    BY <1>19 DEF LoggedOut, In
  <2>2. call'[w].at = "none" /\ \A v \in Workers \ {w} : call'[v] = call[v]
    BY <1>1, <2>1, Ends DEF Sole
  <2>3. Changing(w) /\ ~Changing(w)' /\ Tokens' = Tokens
    BY <2>1, <2>2 DEF Changing, SigningOut, Refreshing, Tokens
  <2>4. SawTokens(w)'
    BY <2>2, <2>3 DEF SawTokens
  <2>5. ASSUME TokensKept PROVE TokensKept'
    <3>1. Own = {}
      BY <2>1, <2>3, <2>5 DEF TokensKept, TokensAt
    <3>2. Own' = {held'} \ {None}
      BY <2>1, <3>1 DEF Own, Live
    <3> QED
      BY <2>2, <2>3, <2>5, <3>2, TokensGoOn
  <2> QED
    BY <1>1, <1>3, <2>1, <2>2, <2>3, <2>4, <2>5 DEF Quiet
<1>20. CASE RefreshLost(w)
  <2>1. /\ at # "none" /\ Crash(w) /\ held' \in {None, held} /\ UNCHANGED <<tokens, strays, beside>>
        /\ failures' = failures + 1
    BY <1>20 DEF RefreshLost, InRefresh, Refreshing, Crash, Stop
  <2>2. call'[w].at = "none" /\ \A v \in Workers \ {w} : call'[v] = call[v]
    BY <1>1, <2>1, Crashes DEF Sole
  <2>3. SawTokens(w)' /\ Tokens' = Tokens
    BY <2>1, <2>2 DEF SawTokens, Changing, SigningOut, Refreshing, Tokens
  <2> QED
    BY <1>1, <1>3, <2>1, <2>2, <2>3 DEF Quiet
<1> QED
  BY <1>5, <1>6, <1>7, <1>9, <1>10, <1>11, <1>12, <1>13, <1>14, <1>15, <1>16, <1>17, <1>18, <1>19, <1>20
     DEF SessionsStep

LEMMA SessionIsKept == SessionsInv /\ SessionsAlone => SessionKept /\ SessionsTypeOK
<1> SUFFICES ASSUME SessionsInv, SessionsAlone PROVE SessionKept /\ SessionsTypeOK
  OBVIOUS
<1>1. SessionsTypeOK
  <2>1. Tokens \subseteq 1 .. MaxTokens
    BY SessionsAssumption DEF SessionsInv, SessionsAlone, SessionsTyped, Tokens
  <2> QED
    BY <2>1 DEF SessionsInv, SessionsAlone, SessionsTyped, SessionsTypeOK
<1>2. ASSUME TokensKept, NEW w \in Workers, In(w, "refused") PROVE tokens[call[w].saw.old] = "live"
  BY <1>2 DEF In, Changing, Refreshing, TokensAt, TokensKept
<1>3. ASSUME TokensKept, AllFree PROVE Own = {held} \ {None}
  BY <1>3 DEF AllFree, Free, Changing, Refreshing, SigningOut, TokensKept
<1> QED
  BY <1>1, <1>2, <1>3 DEF SessionsAlone, SessionKept, Live, Own

-----------------------------------------------------------------------------
(* Notifications, one request at a time and none failed. *)

For(r, n, u) == r.notice = n /\ r.user = u
Used(n, u) == {c \in External : <<n, u, c>> \in sends}

OneRow == \A r, q \in rows : For(r, q.notice, q.user) => r = q

\* Who was asked for has a row, or is still to get one.
EachRow ==
    \A n \in Notices : \A u \in asked[n] :
        \/ \E r \in rows : For(r, n, u)
        \/ \E w \in Workers : /\ call[w].at \in NotificationCalls
                              /\ call[w].saw.notice = n /\ u \in call[w].saw.left

\* Who has a row was told on the channels that were on, or is just being told.
EachTold ==
    \A r \in rows :
        \/ Used(r.notice, r.user) = r.wanted
        \/ \E w \in Workers : /\ call[w].at \in {"channel", "transport"}
                              /\ For(r, call[w].saw.notice, call[w].saw.user)

\* The channels that a handler has still to ask about, or to use.
StillOpen(w) == call[w].saw.channels \cup (IF call[w].at = "transport" THEN {call[w].saw.use} ELSE {})

Telling(w) ==
    LET at == call[w].at
        saw == call[w].saw
    IN  /\ at \in NotificationCalls =>
               \A u \in saw.left : \A r \in rows : ~For(r, saw.notice, u)
        /\ at \in {"channel", "transport"} =>
               \A r \in rows : For(r, saw.notice, saw.user) =>
                   /\ r.wanted = channelsFor[saw.severity] \ off[saw.user]
                   /\ Used(saw.notice, saw.user) = r.wanted \ StillOpen(w)
        /\ at = "transport" => saw.use \notin off[saw.user] /\ saw.use \notin saw.channels

NotificationsAlone ==
    /\ failures \in Nat /\ off \in [People -> SUBSET External]
    /\ Orderly => OneRow /\ EachRow /\ EachTold /\ \A w \in Workers : Telling(w)

LEMMA NotificationsAloneStart == HandlersInit /\ NotificationsInit => NotificationsAlone
<1> SUFFICES ASSUME HandlersInit, NotificationsInit PROVE NotificationsAlone
  OBVIOUS
<1>1. failures = 0 /\ Notices = {} /\ rows = {} /\ \A w \in Workers : call[w].at = "none"
  BY CallsBegin DEF HandlersInit, RequestsInit, NotificationsInit, Notices
<1>2. off \in [People -> SUBSET External]
  BY DEF NotificationsInit
<1> QED
  BY <1>1, <1>2 DEF NotificationsAlone, OneRow, EachRow, EachTold, Telling, NotificationCalls

LEMMA NotificationsCount == NotificationsNext => Counted
<1> SUFFICES ASSUME NEW w \in Workers, NotificationsStep(w) PROVE Counted
  BY DEF NotificationsNext
<1>1. ASSUME NEW users, NEW s, Send(w, users, s) PROVE Counted
  BY <1>1, HandlersCount DEF Send
<1>2. CASE CreateRow(w) \/ AskChannel(w) \/ Transport(w) \/ NextRecipient(w)
  BY <1>2, HandlersCount DEF CreateRow, AskChannel, Transport, NextRecipient
<1>3. ASSUME NEW u, MarkRead(w, u) \/ MarkAllRead(w, u) PROVE Counted
  BY <1>3 DEF MarkRead, MarkAllRead, handlerVars, Counted
<1>4. ASSUME NEW u, NEW c, NEW enabled, setPreference(w, u, c, enabled) PROVE Counted
  BY <1>4 DEF setPreference, Counted
<1> QED
  BY <1>1, <1>2, <1>3, <1>4, HandlersCount DEF NotificationsStep

\* The rows that R names are marked as read.
LEMMA NoticesAloneMarked ==
    ASSUME NotificationsInv, NotificationsAlone, Orderly, UNCHANGED <<call, sends, asked, off>>, NEW R,
           rows' = {IF r \in R THEN [r EXCEPT !.read = TRUE] ELSE r : r \in rows}
    PROVE  OneRow' /\ EachRow' /\ EachTold' /\ \A v \in Workers : Telling(v)'
<1> DEFINE mark(r) == IF r \in R THEN [r EXCEPT !.read = TRUE] ELSE r
<1>1. /\ OneRow /\ EachRow /\ EachTold /\ rows \subseteq NoticeRow
      /\ \A w \in Workers : Telling(w)
  BY DEF NotificationsAlone, NotificationsInv
<1>2. ASSUME NEW r \in rows
      PROVE  /\ mark(r) \in rows'
             /\ mark(r).notice = r.notice /\ mark(r).user = r.user /\ mark(r).wanted = r.wanted
  BY <1>1 DEF NoticeRow
<1>3. \A q \in rows' : \E r \in rows : q = mark(r)
  OBVIOUS
<1>4. Notices' = Notices /\ (\A n, u : Used(n, u)' = Used(n, u)) /\ \A w \in Workers : StillOpen(w)' = StillOpen(w)
  BY DEF Notices, Used, StillOpen
<1> HIDE DEF mark
<1>5. \A q \in rows' : \E r \in rows : q = mark(r) /\ q.notice = r.notice /\ q.user = r.user /\ q.wanted = r.wanted
  BY <1>2, <1>3
<1>6. OneRow'
  <2>1. ASSUME NEW q \in rows', NEW p \in rows', For(q, p.notice, p.user) PROVE q = p
    <3>1. PICK r \in rows : q = mark(r) /\ q.notice = r.notice /\ q.user = r.user
      BY <1>5
    <3>2. PICK s \in rows : p = mark(s) /\ p.notice = s.notice /\ p.user = s.user
      BY <1>5
    <3>3. r = s
      BY <1>1, <2>1, <3>1, <3>2 DEF OneRow, For
    <3> QED
      BY <3>1, <3>2, <3>3
  <2> QED
    BY <2>1 DEF OneRow
<1>7. EachRow'
  <2>1. \A n, u : (\E r \in rows : For(r, n, u)) => \E q \in rows' : For(q, n, u)
    BY <1>2 DEF For
  <2> QED
    BY <1>1, <1>4, <2>1 DEF EachRow, For
<1>8. EachTold'
  <2>1. ASSUME NEW q \in rows'
        PROVE  \/ Used(q.notice, q.user)' = q.wanted
               \/ \E w \in Workers : /\ call'[w].at \in {"channel", "transport"}
                                     /\ For(q, call'[w].saw.notice, call'[w].saw.user)
    <3>1. PICK r \in rows : q.notice = r.notice /\ q.user = r.user /\ q.wanted = r.wanted
      BY <1>5
    <3> QED
      BY <1>1, <1>4, <3>1 DEF EachTold, For
  <2> QED
    BY <2>1 DEF EachTold, For
<1>9. ASSUME NEW v \in Workers
      PROVE  Telling(v)'
  <2> DEFINE n == call[v].saw.notice
             u == call[v].saw.user
  <2>1. Telling(v) /\ call'[v] = call[v]
    BY <1>1
  <2>2. call[v].at \in NotificationCalls => \A x \in call[v].saw.left : \A q \in rows' : ~For(q, n, x)
    BY <1>5, <2>1 DEF Telling, For
  <2>3. call[v].at \in {"channel", "transport"} =>
            \A q \in rows' : For(q, n, u) =>
                /\ q.wanted = channelsFor[call[v].saw.severity] \ off[u]
                /\ Used(n, u) = q.wanted \ StillOpen(v)
    BY <1>5, <2>1 DEF Telling, For
  <2>4. Used(n, u)' = Used(n, u) /\ StillOpen(v)' = StillOpen(v)
    BY <1>4
  <2> HIDE DEF n, u
  <2> QED
    BY <2>1, <2>2, <2>3, <2>4 DEF Telling, For, n, u
<1> QED
  BY <1>6, <1>7, <1>8, <1>9

LEMMA NotificationsAloneGoOn == NotificationsInv /\ NotificationsAlone /\ NotificationsNext => NotificationsAlone'
<1>0. NotificationsInv /\ NotificationsAlone /\ NotificationsNext =>
          failures' \in Nat /\ (Orderly' => Orderly) /\ off' \in [People -> SUBSET External]
  <2>1. NotificationsAlone /\ NotificationsNext => off' \in [People -> SUBSET External]
    <3>1. ASSUME NEW w \in Workers, NEW u \in People, NEW c \in External, NEW enabled \in BOOLEAN,
                 NotificationsAlone, setPreference(w, u, c, enabled)
          PROVE  off' \in [People -> SUBSET External]
      BY <3>1 DEF setPreference, NotificationsAlone
    <3>2. ASSUME NEW w \in Workers, NotificationsAlone, NotificationsStep(w),
                 ~\E u \in People, c \in External, enabled \in BOOLEAN : setPreference(w, u, c, enabled)
          PROVE  UNCHANGED off
      BY <3>2 DEF NotificationsStep, Send, CreateRow, AskChannel, Transport, NextRecipient, MarkRead, MarkAllRead,
                  notificationVars
    <3> QED
      BY <3>1, <3>2 DEF NotificationsNext, NotificationsAlone
  <2> QED
    BY <2>1, NotificationsCount DEF NotificationsAlone, Orderly, Counted
<1> SUFFICES ASSUME NotificationsInv, NotificationsAlone, NEW w \in Workers, NotificationsStep(w), Orderly, Orderly'
             PROVE  OneRow' /\ EachRow' /\ EachTold' /\ \A v \in Workers : Telling(v)'
  BY <1>0 DEF NotificationsAlone, NotificationsNext
<1> DEFINE at == call[w].at
           saw == call[w].saw
<1>1. /\ Calls /\ NoticeCall(w) /\ rows \subseteq NoticeRow
      /\ OneRow /\ EachRow /\ EachTold /\ Telling(w)
      /\ \A s \in DOMAIN channelsFor : channelsFor[s] \subseteq External
      /\ SendsAreFounded /\ \A v \in Workers : Telling(v)
  BY DEF NotificationsInv, NotificationsAlone, channelsFor, External
<1>2. Sole(w) => \A v \in Workers \ {w} : call'[v] = call[v] /\ call[v].at = "none" /\ call'[v].at = "none"
  BY DEF Sole, Orderly
<1>3. ASSUME NEW v \in Workers, call'[v].at = "none" PROVE Telling(v)'
  BY <1>3 DEF Telling, NotificationCalls
<1>4. ASSUME NEW users \in SUBSET People \ {{}}, NEW s \in DOMAIN channelsFor, Send(w, users, s)
      PROVE  OneRow' /\ EachRow' /\ EachTold' /\ \A v \in Workers : Telling(v)'
  <2>1. PICK k \in Nat : Notices = 1 .. k
    BY DEF NotificationsInv
  <2>2. Cardinality(Notices) = k
    BY <2>1, FS_Interval
  <2> DEFINE n == k + 1
             new == [notice |-> n, severity |-> s, left |-> users, user |-> None, channels |-> {}, use |-> None]
  <2>3. /\ asked' = [m \in Notices \cup {n} |-> IF m = n THEN users ELSE asked[m]]
        /\ Begin(w, "row", new) /\ UNCHANGED <<rows, sends, off>>
    BY <1>4, <2>2 DEF Send
  <2>4. Sole(w) /\ at = "none" /\ call'[w].at = "row" /\ call'[w].saw = new
    BY <1>1, <2>3, Begins
  <2>5. /\ Notices' = Notices \cup {n} /\ n \notin Notices
        /\ asked'[n] = users /\ \A m \in Notices : asked'[m] = asked[m]
    BY <2>1, <2>3 DEF Notices
  <2>6. \A r \in rows : r.notice # n
    BY <1>1, <2>5 DEF NoticeRow
  <2>7. \A v \in Workers : call[v].at = "none"
    BY <1>2, <2>4
  <2>8. OneRow'
    BY <1>1, <2>3 DEF OneRow, For
  <2>9. \A m \in Notices : \A u \in asked[m] : \E r \in rows : For(r, m, u)
    BY <1>1, <2>7 DEF EachRow, NotificationCalls
  <2>10. new.notice = n /\ new.left = users
    OBVIOUS
  <2> HIDE DEF n, new
  <2>11. EachRow'
    <3>1. ASSUME NEW m \in Notices', NEW u \in asked'[m]
          PROVE  \/ \E r \in rows : For(r, m, u)
                 \/ \E v \in Workers : /\ call'[v].at \in NotificationCalls
                                       /\ call'[v].saw.notice = m /\ u \in call'[v].saw.left
      <4>1. CASE m = n
        <5>1. call'[w].at \in NotificationCalls /\ call'[w].saw.notice = n /\ u \in call'[w].saw.left
          BY <2>4, <2>5, <2>10, <4>1 DEF NotificationCalls
        <5> QED
          BY <4>1, <5>1
      <4>2. CASE m # n
        BY <2>5, <2>9, <4>2
      <4> QED
        BY <4>1, <4>2
    <3> QED
      BY <2>3, <3>1 DEF EachRow, For
  <2>12. EachTold'
    BY <1>1, <2>3, <2>7 DEF EachTold, For, Used
  <2>13. Telling(w)'
    BY <2>3, <2>4, <2>6, <2>10 DEF Telling, For
  <2> QED
    BY <1>2, <1>3, <2>4, <2>8, <2>11, <2>12, <2>13
<1>5. CASE CreateRow(w)
  <2>1. /\ at = "row" /\ saw \in Sought /\ saw.left \subseteq asked[saw.notice]
        /\ UNCHANGED <<sends, asked, off>>
    BY <1>1, <1>5 DEF CreateRow, In, NoticeCall, NotificationCalls
  <2> DEFINE row(u) == [notice |-> saw.notice, user |-> u, severity |-> saw.severity, read |-> FALSE,
                        wanted |-> channelsFor[saw.severity] \ off[u]]
             next(u) == [saw EXCEPT !.left = @ \ {u}, !.user = u, !.channels = channelsFor[saw.severity]]
  <2>2. PICK u \in saw.left : rows' = rows \cup {row(u)} /\ Step(w, "channel", next(u))
    BY <1>5 DEF CreateRow
  <2>3. Sole(w) /\ call'[w].at = "channel" /\ call'[w].saw = next(u)
    BY <1>1, <2>1, <2>2, Steps
  <2>4. /\ next(u).left = saw.left \ {u} /\ next(u).notice = saw.notice
        /\ next(u).user = u /\ next(u).severity = saw.severity
        /\ next(u).channels = channelsFor[saw.severity]
    BY <1>1, <2>1 DEF Sought
  <2>5. row(u).notice = saw.notice /\ row(u).user = u /\ row(u).wanted = channelsFor[saw.severity] \ off[u]
    OBVIOUS
  <2> HIDE DEF row, next
  <2>6. \A x \in saw.left : \A r \in rows : ~For(r, saw.notice, x)
    BY <1>1, <2>1 DEF Telling, NotificationCalls
  <2>7. Used(saw.notice, u) = {}
    <3>1. \A x \in sends : ~(x[1] = saw.notice /\ x[2] = u)
      BY <1>1, <2>6 DEF SendsAreFounded, Rows, For
    <3> QED
      BY <3>1 DEF Used
  <2>8. Notices' = Notices /\ \A n, x : Used(n, x)' = Used(n, x)
    BY <2>1 DEF Notices, Used
  <2>9. OneRow'
    BY <1>1, <2>2, <2>5, <2>6 DEF OneRow, For
  <2>10. EachRow'
    <3>1. ASSUME NEW n \in Notices, NEW x \in asked[n]
          PROVE  \/ \E r \in rows' : For(r, n, x)
                 \/ \E v \in Workers : /\ call'[v].at \in NotificationCalls
                                       /\ call'[v].saw.notice = n /\ x \in call'[v].saw.left
      <4>1. CASE n = saw.notice /\ x = u
        BY <2>2, <2>5, <4>1 DEF For
      <4>2. CASE \E r \in rows : For(r, n, x)
        BY <2>2, <4>2
      <4>3. CASE n = saw.notice /\ x \in saw.left /\ x # u
        BY <2>3, <2>4, <4>3 DEF NotificationCalls
      <4>4. \A v \in Workers \ {w} : call[v].at \notin NotificationCalls
        BY <1>2, <2>3 DEF NotificationCalls
      <4> QED
        BY <1>1, <4>1, <4>2, <4>3, <4>4 DEF EachRow
    <3> QED
      BY <2>1, <2>8, <3>1 DEF EachRow, For
  <2>11. EachTold'
    <3>1. ASSUME NEW r \in rows'
          PROVE  \/ Used(r.notice, r.user) = r.wanted
                 \/ /\ call'[w].at \in {"channel", "transport"}
                    /\ For(r, call'[w].saw.notice, call'[w].saw.user)
      <4>1. CASE r \in rows
        <5>1. \A v \in Workers : call[v].at \notin {"channel", "transport"}
          BY <1>2, <2>1, <2>3
        <5> QED
          BY <1>1, <4>1, <5>1 DEF EachTold
      <4>2. CASE r = row(u)
        BY <2>3, <2>4, <2>5, <4>2 DEF For
      <4> QED
        BY <2>2, <4>1, <4>2
    <3> QED
      BY <2>8, <3>1 DEF EachTold, For
  <2>12. Telling(w)'
    <3>1. \A x \in next(u).left : \A r \in rows' : ~For(r, saw.notice, x)
      BY <2>2, <2>4, <2>5, <2>6 DEF For
    <3>2. ASSUME NEW r \in rows', For(r, saw.notice, u)
          PROVE  r.wanted = channelsFor[saw.severity] \ off[u]
      BY <2>2, <2>5, <2>6, <3>2
    <3>3. StillOpen(w)' = channelsFor[saw.severity]
      BY <2>3, <2>4 DEF StillOpen
    <3>4. {c \in External : <<saw.notice, u, c>> \in sends'} = {}
      BY <2>1, <2>7 DEF Used
    <3>5. /\ call'[w].saw.notice = saw.notice /\ call'[w].saw.user = u
          /\ call'[w].saw.severity = saw.severity /\ off' = off
      BY <2>1, <2>3, <2>4
    <3>6. \A x \in call'[w].saw.left : \A r \in rows' : ~For(r, call'[w].saw.notice, x)
      BY <2>3, <3>1, <3>5
    <3>7. ASSUME NEW r \in rows', For(r, saw.notice, u)
          PROVE  /\ r.wanted = channelsFor[saw.severity] \ off[u]
                 /\ {} = r.wanted \ channelsFor[saw.severity]
      BY <3>2, <3>7
    <3>8. Used(call[w].saw.notice, call[w].saw.user)' = {}
      BY <3>4, <3>5 DEF Used
    <3> QED
      BY <2>3, <3>3, <3>5, <3>6, <3>7, <3>8 DEF Telling, For
  <2> QED
    BY <1>2, <1>3, <2>3, <2>9, <2>10, <2>11, <2>12
\* A handler that goes on with the channels of the same recipient.
<1>6. ASSUME at \in {"channel", "transport"}, UNCHANGED <<rows, asked, off>>, Sole(w),
             call'[w].at \in {"channel", "transport"},
             call'[w].saw.notice = saw.notice, call'[w].saw.left = saw.left,
             call'[w].saw.user = saw.user, call'[w].saw.severity = saw.severity,
             \A n, u : n # saw.notice \/ u # saw.user => Used(n, u)' = Used(n, u),
             \A r \in rows : For(r, saw.notice, saw.user) => Used(saw.notice, saw.user)' = r.wanted \ StillOpen(w)',
             call'[w].at = "transport" =>
                 call'[w].saw.use \notin off[saw.user] /\ call'[w].saw.use \notin call'[w].saw.channels
      PROVE  OneRow' /\ EachRow' /\ EachTold' /\ \A v \in Workers : Telling(v)'
  <2>1. Notices' = Notices
    BY <1>6 DEF Notices
  <2>2. OneRow'
    BY <1>1, <1>6 DEF OneRow, For
  <2>3. \A v \in Workers \ {w} : call[v].at \notin NotificationCalls /\ call'[v].at = "none"
    BY <1>2, <1>6 DEF NotificationCalls
  <2>4. EachRow'
    <3>1. call'[w].at \in NotificationCalls
      BY <1>6 DEF NotificationCalls
    <3>2. ASSUME NEW n \in Notices, NEW u \in asked[n]
          PROVE  \/ \E r \in rows : For(r, n, u)
                 \/ call'[w].saw.notice = n /\ u \in call'[w].saw.left
      BY <1>1, <1>6, <2>3 DEF EachRow
    <3> QED
      BY <1>6, <2>1, <3>1, <3>2 DEF EachRow, For
  <2>5. EachTold'
    <3>1. ASSUME NEW r \in rows
          PROVE  \/ Used(r.notice, r.user)' = r.wanted
                 \/ For(r, call'[w].saw.notice, call'[w].saw.user)
      <4>1. CASE For(r, saw.notice, saw.user)
        BY <1>6, <4>1
      <4>2. CASE ~For(r, saw.notice, saw.user)
        <5>1. \A v \in Workers : ~(call[v].at \in {"channel", "transport"} /\ For(r, call[v].saw.notice, call[v].saw.user))
          BY <2>3, <4>2 DEF NotificationCalls
        <5>2. Used(r.notice, r.user) = r.wanted
          BY <1>1, <5>1 DEF EachTold
        <5> QED
          BY <1>6, <4>2, <5>2 DEF For
      <4> QED
        BY <4>1, <4>2
    <3> QED
      BY <1>6, <3>1 DEF EachTold, For, Used
  <2>6. Telling(w)'
    <3>1. /\ \A u \in saw.left : \A r \in rows : ~For(r, saw.notice, u)
          /\ \A r \in rows : For(r, saw.notice, saw.user) => r.wanted = channelsFor[saw.severity] \ off[saw.user]
      BY <1>1, <1>6 DEF Telling, NotificationCalls
    <3> QED
      BY <1>6, <3>1 DEF Telling, For, Used
  <2> QED
    BY <1>3, <2>2, <2>3, <2>4, <2>5, <2>6
<1>7. CASE AskChannel(w)
  <2>1. at = "channel" /\ saw \in Sought /\ UNCHANGED <<rows, sends, asked, off>>
    BY <1>1, <1>7 DEF AskChannel, In, NoticeCall, NotificationCalls, notificationVars
  <2> DEFINE skip(c) == [saw EXCEPT !.channels = @ \ {c}]
             use(c) == [saw EXCEPT !.channels = @ \ {c}, !.use = c]
  <2>2. PICK c \in saw.channels : IF c \in off[saw.user] THEN Step(w, "channel", skip(c))
                                                         ELSE Step(w, "transport", use(c))
    BY <1>7 DEF AskChannel
  <2>3. \A x \in {skip(c), use(c)} :
            /\ x.left = saw.left /\ x.notice = saw.notice
            /\ x.user = saw.user /\ x.severity = saw.severity /\ x.channels = saw.channels \ {c}
    BY <2>1 DEF Sought
  <2>4. use(c).use = c
    BY <2>1 DEF Sought
  <2> HIDE DEF skip, use
  <2>5. Sole(w) /\ IF c \in off[saw.user] THEN call'[w].at = "channel" /\ call'[w].saw = skip(c)
                                          ELSE call'[w].at = "transport" /\ call'[w].saw = use(c)
    BY <1>1, <2>1, <2>2, Steps
  <2>6. \A n, u : Used(n, u)' = Used(n, u)
    BY <2>1 DEF Used
  <2>7. StillOpen(w) = saw.channels /\ StillOpen(w)' = IF c \in off[saw.user] THEN saw.channels \ {c} ELSE saw.channels
    BY <2>1, <2>2, <2>3, <2>4, <2>5 DEF StillOpen
  <2>8. \A r \in rows : For(r, saw.notice, saw.user) => Used(saw.notice, saw.user) = r.wanted \ StillOpen(w)'
    <3>1. \A r \in rows : For(r, saw.notice, saw.user) =>
              /\ r.wanted = channelsFor[saw.severity] \ off[saw.user]
              /\ Used(saw.notice, saw.user) = r.wanted \ StillOpen(w)
      BY <1>1, <2>1 DEF Telling
    <3> QED
      BY <2>7, <3>1
  <2>9. \A r \in rows : For(r, saw.notice, saw.user) => Used(saw.notice, saw.user)' = r.wanted \ StillOpen(w)'
    <3>1. call'[w].saw.notice = saw.notice /\ call'[w].saw.user = saw.user
      BY <2>3, <2>5
    <3>2. Used(saw.notice, saw.user)' = Used(saw.notice, saw.user)
      BY <2>1, <3>1 DEF Used
    <3> QED
      BY <2>8, <3>2
  <2> QED
    BY <1>6, <2>1, <2>2, <2>3, <2>4, <2>5, <2>6, <2>9
<1>8. CASE Transport(w)
  <2>1. /\ at = "transport" /\ UNCHANGED <<rows, asked, off>>
        /\ sends' = sends \cup {<<saw.notice, saw.user, saw.use>>} /\ saw \in Sought
        /\ saw.use \in channelsFor[saw.severity] /\ saw.severity \in DOMAIN channelsFor
    BY <1>1, <1>8 DEF Transport, In, NoticeCall, NotificationCalls, Sought
  <2>2. Sole(w) /\ call'[w].at = "channel" /\ call'[w].saw = saw
    BY <1>1, <1>8, <2>1, Steps DEF Transport
  <2>3. /\ \A n, u : n # saw.notice \/ u # saw.user => Used(n, u)' = Used(n, u)
        /\ saw.use \in External
    BY <1>1, <2>1 DEF Used
  <2>4. {c \in External : <<saw.notice, saw.user, c>> \in sends'} = Used(saw.notice, saw.user) \cup {saw.use}
    BY <2>1, <2>3 DEF Used
  <2>5. StillOpen(w) = saw.channels \cup {saw.use} /\ StillOpen(w)' = saw.channels
    BY <2>1, <2>2 DEF StillOpen
  <2>6. ASSUME NEW r \in rows, For(r, saw.notice, saw.user)
        PROVE  Used(saw.notice, saw.user)' = r.wanted \ StillOpen(w)'
    <3>1. /\ r.wanted = channelsFor[saw.severity] \ off[saw.user]
          /\ Used(saw.notice, saw.user) = r.wanted \ StillOpen(w)
          /\ saw.use \notin off[saw.user] /\ saw.use \notin saw.channels
      BY <1>1, <2>1, <2>6 DEF Telling
    <3>2. Used(saw.notice, saw.user) \cup {saw.use} = r.wanted \ saw.channels
      BY <2>1, <2>5, <3>1
    <3>3. Used(saw.notice, saw.user)' = {c \in External : <<saw.notice, saw.user, c>> \in sends'}
      BY <2>2 DEF Used
    <3> QED
      BY <2>4, <2>5, <3>2, <3>3
  <2> QED
    BY <1>6, <2>1, <2>2, <2>3, <2>6
<1>9. CASE NextRecipient(w)
  <2>1. /\ at = "channel" /\ UNCHANGED <<rows, sends, asked, off>> /\ saw.channels = {}
        /\ IF saw.left = {} THEN Done(w) ELSE Step(w, "row", saw)
    BY <1>9 DEF NextRecipient, In, notificationVars
  <2>2. Sole(w) /\ IF saw.left = {} THEN call'[w].at = "none" ELSE call'[w].at = "row" /\ call'[w].saw = saw
    BY <1>1, <2>1, Steps, Ends
  <2>3. Notices' = Notices /\ \A n, u : Used(n, u)' = Used(n, u)
    BY <2>1 DEF Notices, Used
  <2>4. \A v \in Workers \ {w} : call[v].at \notin NotificationCalls /\ call'[v].at = "none"
    BY <1>2, <2>2 DEF NotificationCalls
  <2>5. OneRow'
    BY <1>1, <2>1 DEF OneRow, For
  <2>6. EachRow'
    <3>1. ASSUME NEW n \in Notices, NEW u \in asked[n]
          PROVE  \/ \E r \in rows : For(r, n, u)
                 \/ /\ call'[w].at \in NotificationCalls
                    /\ call'[w].saw.notice = n /\ u \in call'[w].saw.left
      BY <1>1, <2>2, <2>4 DEF EachRow, NotificationCalls
    <3> QED
      BY <2>1, <2>3, <3>1 DEF EachRow, For
  <2>7. EachTold'
    <3>1. ASSUME NEW r \in rows
          PROVE  Used(r.notice, r.user) = r.wanted
      <4>1. CASE For(r, saw.notice, saw.user)
        <5>1. StillOpen(w) = {}
          BY <2>1 DEF StillOpen
        <5>2. Used(saw.notice, saw.user) = r.wanted \ StillOpen(w)
          BY <1>1, <2>1, <4>1 DEF Telling
        <5>3. Used(saw.notice, saw.user) = r.wanted
          BY <5>1, <5>2
        <5> QED
          BY <4>1, <5>3 DEF For
      <4>2. CASE ~For(r, saw.notice, saw.user)
        <5>1. \A v \in Workers : ~(call[v].at \in {"channel", "transport"} /\ For(r, call[v].saw.notice, call[v].saw.user))
          BY <2>4, <4>2 DEF NotificationCalls
        <5> QED
          BY <1>1, <5>1 DEF EachTold
      <4> QED
        BY <4>1, <4>2
    <3> QED
      BY <2>1, <2>3, <3>1 DEF EachTold
  <2>8. Telling(w)'
    <3>1. \A u \in saw.left : \A r \in rows : ~For(r, saw.notice, u)
      BY <1>1, <2>1 DEF Telling, NotificationCalls
    <3> QED
      BY <2>1, <2>2, <3>1 DEF Telling, For, NotificationCalls
  <2> QED
    BY <1>3, <2>4, <2>5, <2>6, <2>7, <2>8
<1>10. ASSUME NEW u \in People, MarkRead(w, u)
       PROVE  OneRow' /\ EachRow' /\ EachTold' /\ \A v \in Workers : Telling(v)'
  <2>1. PICK r \in rows : rows' = (rows \ {r}) \cup {[r EXCEPT !.read = TRUE]}
    BY <1>10 DEF MarkRead
  <2>2. rows' = {IF x \in {r} THEN [x EXCEPT !.read = TRUE] ELSE x : x \in rows}
    BY <2>1
  <2>3. UNCHANGED <<call, sends, asked, off>>
    BY <1>10 DEF MarkRead, handlerVars
  <2> QED
    BY <2>2, <2>3, NoticesAloneMarked
<1>11. ASSUME NEW u \in People, MarkAllRead(w, u)
       PROVE  OneRow' /\ EachRow' /\ EachTold' /\ \A v \in Workers : Telling(v)'
  <2>1. rows' = {IF x \in {r \in rows : r.user = u} THEN [x EXCEPT !.read = TRUE] ELSE x : x \in rows}
    BY <1>11 DEF MarkAllRead
  <2>2. UNCHANGED <<call, sends, asked, off>>
    BY <1>11 DEF MarkAllRead, handlerVars
  <2> QED
    BY <2>1, <2>2, NoticesAloneMarked
<1>12. ASSUME NEW u \in People, NEW c \in External, NEW enabled \in BOOLEAN, setPreference(w, u, c, enabled)
       PROVE  OneRow' /\ EachRow' /\ EachTold' /\ \A v \in Workers : Telling(v)'
  <2>1. /\ UNCHANGED <<call, rows, sends, asked>>
        /\ call[w].at = "none" /\ \A v \in Workers \ {w} : call[v].at = "none"
    BY <1>12 DEF setPreference, Free, Alone, Orderly
  <2>2. \A v \in Workers : call'[v].at = "none"
    BY <2>1
  <2>3. OneRow' /\ EachRow' /\ EachTold'
    BY <1>1, <2>1 DEF OneRow, EachRow, EachTold, For, Used, Notices
  <2> QED
    BY <1>3, <2>2, <2>3
<1>13. CASE Crash(w)
  BY <1>13 DEF Crash, Stop, Orderly
<1> QED
  BY <1>4, <1>5, <1>7, <1>8, <1>9, <1>10, <1>11, <1>12, <1>13 DEF NotificationsStep

LEMMA EverybodyIsTold == NotificationsInv /\ NotificationsAlone => EverybodyTold /\ NotificationsTypeOK
<1> SUFFICES ASSUME NotificationsInv, NotificationsAlone PROVE EverybodyTold /\ NotificationsTypeOK
  OBVIOUS
<1>1. NotificationsTypeOK
  <2>1. PICK k \in Nat : Notices = 1 .. k
    BY DEF NotificationsInv
  <2> QED
    BY <2>1 DEF NotificationsInv, NotificationsAlone, NotificationsTypeOK, NoticeRow
<1>2. ASSUME AtRest, NEW n \in Notices, NEW u \in asked[n]
      PROVE  LET mine == {r \in Rows(n) : r.user = u}
             IN /\ Cardinality(mine) = 1
                /\ \A r \in mine : {c \in External : <<n, u, c>> \in sends} = r.wanted
  <2> DEFINE mine == {r \in Rows(n) : r.user = u}
  <2>1. \A w \in Workers : call[w].at = "none"
    BY <1>2 DEF AtRest, AllFree, Free
  <2>2. OneRow /\ EachRow /\ EachTold
    BY <1>2 DEF AtRest, NotificationsAlone
  <2>3. PICK r \in rows : For(r, n, u)
    BY <2>1, <2>2 DEF EachRow, NotificationCalls
  <2>4. mine = {r}
    BY <2>2, <2>3 DEF OneRow, For, Rows
  <2>5. Used(r.notice, r.user) = r.wanted
    BY <2>1, <2>2 DEF EachTold
  <2>6. {c \in External : <<n, u, c>> \in sends} = r.wanted
    BY <2>3, <2>5 DEF For, Used
  <2>7. Cardinality(mine) = 1
    BY <2>4, FS_Singleton
  <2> QED
    BY <2>4, <2>6, <2>7
<1> QED
  BY <1>1, <1>2 DEF EverybodyTold

-----------------------------------------------------------------------------
(* The device, one function of the app at a time. *)

Kept == [Cells -> 0 .. MaxEdits]

\* The drafts lie still while requests are sent.
OutboxTyped ==
    /\ conflicts \subseteq Items /\ flushing \in BOOLEAN /\ lost \in 0 .. MaxLost
    /\ edits = [c \in Cells |-> 0] /\ drafts = edits /\ stored = edits

LEMMA OutboxTypedStart == SyncInit => OutboxTyped
<1> SUFFICES ASSUME SyncInit PROVE OutboxTyped
  OBVIOUS
<1>1. conflicts = {} /\ flushing = FALSE /\ lost = 0
  BY DEF SyncInit
<1>2. edits = [c \in Cells |-> 0] /\ drafts = edits /\ stored = edits
  BY DEF SyncInit
<1>3. lost \in 0 .. MaxLost
  BY <1>1, SyncAssumption
<1> QED
  BY <1>1, <1>2, <1>3 DEF OutboxTyped

LEMMA OutboxStaysTyped == OutboxInv /\ OutboxTyped /\ OutboxNext => OutboxTyped'
<1> SUFFICES ASSUME OutboxInv, OutboxTyped, OutboxNext PROVE OutboxTyped'
  OBVIOUS
<1>1. UNCHANGED draftVars
  BY DEF OutboxNext, OutboxStep, Flush, StartFlush, EndFlush, CreateAtServer, SubmitAtServer, RemoveSent,
         DropRefused, Enqueue, AppClosed, syncVars
<1>2. lost' \in 0 .. MaxLost
  BY SyncAssumption
     DEF OutboxNext, OutboxStep, Flush, StartFlush, EndFlush, CreateAtServer, SubmitAtServer, RemoveSent,
         DropRefused, Enqueue, AppClosed, syncVars, Fails, OutboxTyped
<1>3. flushing' \in BOOLEAN
  BY DEF OutboxNext, OutboxStep, Flush, StartFlush, EndFlush, CreateAtServer, SubmitAtServer, RemoveSent,
         DropRefused, Enqueue, AppClosed, syncVars, outboxVars, NextItem, OutboxTyped
<1>4. conflicts' \subseteq Items
  <2>1. ASSUME NEW w \in Workers, DropRefused(w) PROVE conflicts' \subseteq Items
    <3>1. call[w].saw \in Seq(Items) /\ call[w].saw # <<>>
      BY <2>1 DEF DropRefused, In, OutboxInv, OutboxCall, Working, Handling
    <3> QED
      BY <2>1, <3>1 DEF DropRefused, First, OutboxTyped
  <2>2. ASSUME ~\E w \in Workers : DropRefused(w) PROVE conflicts' = conflicts
    BY <2>2 DEF OutboxNext, OutboxStep, Flush, StartFlush, EndFlush, CreateAtServer, SubmitAtServer, RemoveSent,
         Enqueue, AppClosed, syncVars, outboxVars
  <2> QED
    BY <2>1, <2>2 DEF OutboxTyped
<1> QED
  BY <1>1, <1>2, <1>3, <1>4 DEF OutboxTyped, draftVars

LEMMA OutboxIsTyped == OutboxInv /\ OutboxTyped => EditsAreKept /\ SyncTypeOK
<1> SUFFICES ASSUME OutboxInv, OutboxTyped PROVE EditsAreKept /\ SyncTypeOK
  OBVIOUS
<1>1. ToSet(outbox) \subseteq Items
  BY DEF OutboxInv, OutboxRows, ToSet
<1>2. edits \in Kept
  BY SyncAssumption DEF OutboxTyped, Kept
<1> QED
  BY <1>1, <1>2 DEF OutboxTyped, OutboxInv, OutboxRows, SyncTypeOK, EditsAreKept, Kept

\* The last edit of a cell is at the server or was reported as refused.
Settled(c) == edits[c] \in {0, stored[c]} \/ <<c, edits[c]>> \in refused

\* What is sent are last edits, all the drafts when all are to be cleared, and
\* they are cleared once they are settled.
Sends(w) ==
    LET saw == call[w].saw
    IN  /\ call[w].at \in DraftCalls =>
               /\ \A e \in saw.edits : e[2] = edits[e[1]]
               /\ saw.all => \A c \in Cells : drafts[c] > 0 => <<c, drafts[c]>> \in saw.edits
        /\ call[w].at = "clear" => \A e \in saw.edits : Settled(e[1])

DraftsAlone ==
    /\ edits \in Kept /\ drafts \in Kept /\ stored \in Kept /\ lost \in 0 .. MaxLost
    /\ conflicts = {} /\ flushing = FALSE
    /\ \A w \in Workers : call[w].at \in DraftCalls => call[w].saw.edits \subseteq Cells \X (0 .. MaxEdits)
    /\ ~overlapped => /\ \A c \in Cells : drafts[c] = edits[c] \/ (drafts[c] = 0 /\ Settled(c))
                      /\ \A w \in Workers : Sends(w)

LEMMA DraftsAloneStart == HandlersInit /\ SyncInit => DraftsAlone
<1> SUFFICES ASSUME HandlersInit, SyncInit PROVE DraftsAlone
  OBVIOUS
<1>1. \A w \in Workers : call[w].at = "none"
  BY CallsBegin
<1>2. edits = [c \in Cells |-> 0] /\ drafts = edits /\ stored = edits
  BY DEF SyncInit
<1>3. edits \in Kept /\ drafts \in Kept /\ stored \in Kept
  BY <1>2, SyncAssumption DEF Kept
<1>4. conflicts = {} /\ flushing = FALSE /\ lost \in 0 .. MaxLost
  BY SyncAssumption DEF SyncInit
<1> QED
  BY <1>1, <1>2, <1>3, <1>4 DEF DraftsAlone, Sends, DraftCalls

\* A step of the only function under way leaves it to be said of that one.
LEMMA DraftsFrame ==
    ASSUME DraftsInv, DraftsAlone, NEW w \in Workers, Sole(w),
           edits' \in Kept, drafts' \in Kept, stored' \in Kept, lost' \in 0 .. MaxLost,
           UNCHANGED outboxVars,
           call'[w].at \in DraftCalls => call'[w].saw.edits \subseteq Cells \X (0 .. MaxEdits),
           ~overlapped' => /\ \A c \in Cells : drafts'[c] = edits'[c] \/ (drafts'[c] = 0 /\ Settled(c)')
                           /\ Sends(w)'
    PROVE  DraftsAlone'
<1>1. \A v \in Workers \ {w} : call'[v] = call[v] /\ (~overlapped' => call'[v].at = "none")
  BY DEF Sole
<1>2. \A v \in Workers : call'[v].at \in DraftCalls => call'[v].saw.edits \subseteq Cells \X (0 .. MaxEdits)
  BY <1>1 DEF DraftsAlone
<1>3. ~overlapped' => \A v \in Workers : Sends(v)'
  BY <1>1 DEF Sends, DraftCalls
<1>4. conflicts' = {} /\ flushing' = FALSE
  BY DEF DraftsAlone, outboxVars
<1> QED
  BY <1>2, <1>3, <1>4 DEF DraftsAlone

LEMMA DraftsAloneGoOn == DraftsInv /\ DraftsAlone /\ DraftsNext => DraftsAlone'
<1> SUFFICES ASSUME DraftsInv, DraftsAlone, DraftsNext PROVE DraftsAlone'
  OBVIOUS
<1>1. /\ Calls /\ edits \in Kept /\ drafts \in Kept /\ stored \in Kept /\ lost \in 0 .. MaxLost
      /\ MaxEdits \in Nat /\ MaxLost \in Nat
  BY SyncAssumption DEF DraftsInv, DraftsAlone
<1>2. CASE AppClosed
  <2>1. /\ \A w \in Workers : call'[w].at = "none"
        /\ UNCHANGED <<overlapped, conflicts, draftVars, lost>> /\ flushing' = FALSE
    BY <1>2 DEF AppClosed, NoCall
  <2> QED
    BY <2>1 DEF DraftsAlone, draftVars, Settled, Sends, DraftCalls
<1>3. ASSUME NEW w \in Workers, NEW c \in Cells, EditCell(w, c) PROVE DraftsAlone'
  <2> DEFINE n == edits[c] + 1
             saw == [edits |-> {<<c, n>>}, all |-> FALSE]
  <2>1. /\ n \in 0 .. MaxEdits /\ edits' = [edits EXCEPT ![c] = n] /\ drafts' = [drafts EXCEPT ![c] = n]
        /\ edits'[c] = n
    BY <1>1, <1>3 DEF EditCell, Kept
  <2>2. Begin(w, "upsert", saw) /\ UNCHANGED <<stored, refused, outboxVars, lost>>
    BY <1>3, <2>1 DEF EditCell
  <2>3. Sole(w) /\ call'[w].at = "upsert" /\ call'[w].saw = saw
    BY <1>1, <2>2, Begins
  <2>4. saw.edits = {<<c, n>>} /\ saw.all = FALSE
    OBVIOUS
  <2> HIDE DEF saw
  <2>5. edits' \in Kept /\ drafts' \in Kept
    BY <1>1, <2>1 DEF Kept
  <2>6. ~overlapped' => \A d \in Cells : drafts'[d] = edits'[d] \/ (drafts'[d] = 0 /\ Settled(d)')
    <3>1. ASSUME ~overlapped', NEW d \in Cells, d # c
          PROVE  drafts'[d] = edits'[d] \/ (drafts'[d] = 0 /\ Settled(d)')
      <4>1. drafts[d] = edits[d] \/ (drafts[d] = 0 /\ Settled(d))
        BY <2>3, <3>1 DEF Sole, DraftsAlone
      <4>2. drafts'[d] = drafts[d] /\ edits'[d] = edits[d] /\ stored' = stored /\ refused' = refused
        BY <1>1, <2>1, <2>2, <3>1 DEF Kept
      <4> QED
        BY <4>1, <4>2 DEF Settled
    <3>2. drafts'[c] = edits'[c]
      BY <1>1, <2>1 DEF Kept
    <3> QED
      BY <3>1, <3>2
  <2>7. Sends(w)'
    <3>1. call'[w].saw.edits = {<<c, n>>} /\ ~call'[w].saw.all /\ call'[w].at # "clear"
      BY <2>3, <2>4
    <3> HIDE DEF n
    <3> QED
      BY <2>1, <3>1 DEF Sends
  <2>8. call'[w].saw.edits \subseteq Cells \X (0 .. MaxEdits)
    BY <2>1, <2>3, <2>4
  <2> QED
    BY <1>1, <2>2, <2>3, <2>5, <2>6, <2>7, <2>8, DraftsFrame
<1>4. ASSUME NEW w \in Workers, FlushDrafts(w) PROVE DraftsAlone'
  <2> DEFINE saw == [edits |-> Drafted, all |-> TRUE]
  <2>1. Begin(w, "upsert", saw) /\ UNCHANGED syncVars
    BY <1>4 DEF FlushDrafts
  <2>2. Sole(w) /\ call'[w].at = "upsert" /\ call'[w].saw = saw
    BY <1>1, <2>1, Begins
  <2>3. saw.edits = Drafted /\ saw.all = TRUE
    OBVIOUS
  <2> HIDE DEF saw
  <2>4. UNCHANGED <<edits, drafts, stored, refused, lost>> /\ UNCHANGED outboxVars
    BY <2>1 DEF syncVars, draftVars
  <2>5. Drafted \subseteq Cells \X (0 .. MaxEdits)
    BY <1>1 DEF Drafted, Kept
  <2>6. ~overlapped' => \A d \in Cells : drafts'[d] = edits'[d] \/ (drafts'[d] = 0 /\ Settled(d)')
    BY <2>2, <2>4 DEF Sole, DraftsAlone, Settled
  <2>7. ~overlapped' => \A e \in Drafted : e[2] = edits[e[1]]
    <3>1. ASSUME ~overlapped', NEW d \in Cells, drafts[d] > 0 PROVE drafts[d] = edits[d]
      BY <2>2, <3>1 DEF Sole, DraftsAlone
    <3> QED
      BY <3>1 DEF Drafted
  <2>8. ~overlapped' => Sends(w)'
    <3>1. \A d \in Cells : drafts[d] > 0 => <<d, drafts[d]>> \in Drafted
      BY DEF Drafted
    <3> QED
      BY <2>2, <2>3, <2>4, <2>7, <3>1 DEF Sends
  <2> QED
    BY <1>1, <2>2, <2>3, <2>4, <2>5, <2>6, <2>8, DraftsFrame
<1>5. ASSUME NEW w \in Workers, UpsertAtServer(w) PROVE DraftsAlone'
  <2> DEFINE saw == call[w].saw
  <2>1. /\ call[w].at = "upsert" /\ UNCHANGED <<edits, drafts>> /\ UNCHANGED outboxVars
        /\ lost' \in 0 .. MaxLost /\ saw.edits \subseteq Cells \X (0 .. MaxEdits)
        /\ stored' = stored \/ StoreEdits(w)
        /\ refused' = refused \/ refused' = refused \cup saw.edits
        /\ Done(w) \/ (Step(w, "clear", saw) /\ (StoreEdits(w) \/ refused' = refused \cup saw.edits))
    BY <1>1, <1>5 DEF UpsertAtServer, In, Fails, DraftsAlone, DraftCalls
  <2>2. Sole(w) /\ (call'[w].at = "none" \/ (call'[w].at = "clear" /\ call'[w].saw = saw))
    BY <1>1, <2>1, Steps, Ends
  <2>3. ASSUME StoreEdits(w)
        PROVE  /\ stored' \in Kept
               /\ ~overlapped' => \A c \in Cells :
                      stored'[c] = IF \E e \in saw.edits : e[1] = c THEN edits[c] ELSE stored[c]
    <3>1. \A c \in Cells :
             stored'[c] = IF {e \in saw.edits : e[1] = c} = {} THEN stored[c]
                          ELSE (CHOOSE e \in {e \in saw.edits : e[1] = c} : TRUE)[2]
      BY <2>3 DEF StoreEdits
    <3>2. ASSUME NEW c \in Cells, NEW mine, mine = {e \in saw.edits : e[1] = c}, mine # {}
          PROVE  /\ (CHOOSE e \in mine : TRUE) \in saw.edits
                 /\ (CHOOSE e \in mine : TRUE)[1] = c
      BY <3>2
    <3>3. ~overlapped' => \A e \in saw.edits : e[2] = edits[e[1]]
      BY <2>1, <2>2 DEF Sole, DraftsAlone, Sends, DraftCalls
    <3>4. ASSUME NEW c \in Cells
          PROVE  /\ stored'[c] \in 0 .. MaxEdits
                 /\ ~overlapped' => stored'[c] = IF \E e \in saw.edits : e[1] = c THEN edits[c] ELSE stored[c]
      <4> DEFINE mine == {e \in saw.edits : e[1] = c}
                 one == CHOOSE e \in mine : TRUE
      <4>1. CASE mine = {}
        BY <1>1, <3>1, <4>1 DEF Kept
      <4>2. CASE mine # {}
        <5>1. stored'[c] = one[2]
          BY <3>1, <4>2
        <5>2. one \in saw.edits /\ one[1] = c
          BY <3>2, <4>2
        <5> HIDE DEF one, mine
        <5>3. one[2] \in 0 .. MaxEdits
          BY <2>1, <5>2
        <5> QED
          BY <3>3, <5>1, <5>2, <5>3
      <4> QED
        BY <4>1, <4>2
    <3>5. stored' = [c \in Cells |-> stored'[c]]
      BY <2>3 DEF StoreEdits
    <3>6. \A c \in Cells : stored'[c] \in 0 .. MaxEdits
      BY <3>4
    <3>7. stored' \in Kept
      BY <3>5, <3>6 DEF Kept
    <3> QED
      BY <3>4, <3>7
  <2>4. stored' \in Kept
    BY <1>1, <2>1, <2>3
  <2>5. ~overlapped' => \A c \in Cells : Settled(c) => Settled(c)'
    BY <2>1, <2>3 DEF Settled
  <2>6. ~overlapped' => \A c \in Cells : drafts'[c] = edits'[c] \/ (drafts'[c] = 0 /\ Settled(c)')
    BY <2>1, <2>2, <2>5 DEF Sole, DraftsAlone
  <2>7. ~overlapped' => Sends(w)'
    <3> SUFFICES ASSUME ~overlapped', call'[w].at = "clear" PROVE Sends(w)'
      BY <2>2 DEF Sends, DraftCalls
    <3>1. /\ \A e \in saw.edits : e[2] = edits[e[1]]
          /\ saw.all => \A c \in Cells : drafts[c] > 0 => <<c, drafts[c]>> \in saw.edits
      BY <2>1, <2>2 DEF Sole, DraftsAlone, Sends, DraftCalls
    <3>2. StoreEdits(w) \/ refused' = refused \cup saw.edits
      BY <2>1, <2>2, Ends, <1>1
    <3>3. ASSUME NEW e \in saw.edits PROVE Settled(e[1])'
      <4>1. e[1] \in Cells /\ e = <<e[1], edits[e[1]]>>
        BY <2>1, <3>1
      <4>2. CASE StoreEdits(w)
        BY <2>1, <2>3, <4>1, <4>2 DEF Settled
      <4>3. CASE refused' = refused \cup saw.edits
        BY <2>1, <4>1, <4>3 DEF Settled
      <4> QED
        BY <3>2, <4>2, <4>3
    <3>4. call'[w].saw = saw
      BY <2>2
    <3> QED
      BY <2>1, <3>1, <3>3, <3>4 DEF Sends
  <2>8. /\ edits' \in Kept /\ drafts' \in Kept
        /\ call'[w].at \in DraftCalls => call'[w].saw.edits \subseteq Cells \X (0 .. MaxEdits)
    BY <1>1, <2>1, <2>2 DEF DraftCalls
  <2> QED
    BY <2>1, <2>2, <2>4, <2>6, <2>7, <2>8, DraftsFrame
<1>6. ASSUME NEW w \in Workers, ClearDrafts(w) PROVE DraftsAlone'
  <2> DEFINE saw == call[w].saw
             cleared == IF saw.all THEN Cells ELSE {e[1] : e \in saw.edits}
  <2>1. /\ call[w].at = "clear" /\ Done(w) /\ UNCHANGED <<edits, stored, refused, lost>> /\ UNCHANGED outboxVars
        /\ drafts' = [c \in Cells |-> IF c \in cleared THEN 0 ELSE drafts[c]]
    BY <1>6 DEF ClearDrafts, In
  <2>2. Sole(w) /\ call'[w].at = "none"
    BY <1>1, <2>1, Ends
  <2>3. drafts' \in Kept
    BY <1>1, <2>1 DEF Kept
  <2>4. ASSUME ~overlapped', NEW c \in Cells
        PROVE  drafts'[c] = edits'[c] \/ (drafts'[c] = 0 /\ Settled(c)')
    <3>1. /\ drafts[c] = edits[c] \/ (drafts[c] = 0 /\ Settled(c))
          /\ \A e \in saw.edits : Settled(e[1])
          /\ saw.all => (drafts[c] > 0 => <<c, drafts[c]>> \in saw.edits)
      BY <2>1, <2>2, <2>4 DEF Sole, DraftsAlone, Sends, DraftCalls
    <3>2. Settled(c) => Settled(c)'
      BY <2>1 DEF Settled
    <3>3. c \in cleared => Settled(c)
      <4>1. drafts[c] \in Nat /\ edits[c] \in Nat
        BY <1>1 DEF Kept
      <4>2. CASE saw.all /\ drafts[c] > 0
        <5>1. <<c, drafts[c]>> \in saw.edits
          BY <3>1, <4>2
        <5> QED
          BY <3>1, <5>1
      <4>3. CASE saw.all /\ drafts[c] = 0
        BY <3>1, <4>3 DEF Settled
      <4>4. CASE ~saw.all
        BY <3>1, <4>4
      <4> QED
        BY <4>1, <4>2, <4>3, <4>4
    <3>4. c \notin cleared => drafts'[c] = drafts[c]
      BY <2>1
    <3>5. c \in cleared => drafts'[c] = 0
      BY <2>1
    <3> HIDE DEF cleared
    <3> QED
      BY <2>1, <3>1, <3>2, <3>3, <3>4, <3>5
  <2>5. Sends(w)'
    BY <2>2 DEF Sends, DraftCalls
  <2> QED
    BY <1>1, <2>1, <2>2, <2>3, <2>4, <2>5, DraftsFrame DEF DraftCalls
<1> QED
  BY <1>2, <1>3, <1>4, <1>5, <1>6 DEF DraftsNext, DraftStep

LEMMA DraftsAreKept == DraftsInv /\ DraftsAlone => EditsAreKept /\ SyncTypeOK
<1> SUFFICES ASSUME DraftsInv, DraftsAlone PROVE EditsAreKept /\ SyncTypeOK
  OBVIOUS
<1>1. ToSet(outbox) \subseteq Items /\ created \in [Items -> Nat]
  BY DEF DraftsInv, ToSet
<1>2. EditsAreKept
  BY DEF DraftsAlone, EditsAreKept, Settled
<1>3. flushing \in BOOLEAN
  BY DEF DraftsAlone
<1> QED
  BY <1>1, <1>2, <1>3 DEF DraftsAlone, DraftsInv, SyncTypeOK, Kept

-----------------------------------------------------------------------------
(* Sums of natural numbers, and the averages that are made of them. *)

LEMMA NatInduces == ASSUME NEW S, 0 \in S, \A n \in Nat : n \in S => n + 1 \in S PROVE Nat \subseteq S
<1> DEFINE T == Nat \ S
           R == OpToRel(<, Nat)
<1> SUFFICES ASSUME T # {} PROVE FALSE
  OBVIOUS
<1>1. IsWellFoundedOn(R, Nat)
  BY NatLessThanWellFounded
<1>2. PICK x \in T : \A y \in T : ~(<<y, x>> \in R)
  <2> HIDE DEF R
  <2>1. T \subseteq Nat
    OBVIOUS
  <2> HIDE DEF T
  <2> QED
    BY <1>1, <2>1, WFMin
<1>3. \A y \in T : ~(y < x)
  BY <1>2 DEF OpToRel
<1>4. x # 0 /\ x - 1 \in Nat /\ x - 1 < x
  OBVIOUS
<1> QED
  BY <1>3, <1>4

SumStep(f, g, s) == IF s = {} THEN 0 ELSE LET x == CHOOSE x \in s : TRUE IN f[x] + g[s \ {x}]

\* The sum of a function, element by element.
LEMMA SumUnfolds ==
    ASSUME NEW f, NEW S, S = DOMAIN f, IsFiniteSet(S)
    PROVE  \E g : /\ \A s \in SUBSET S : g[s] = SumStep(f, g, s)
                  /\ SumFunction(f) = g[S]
<1> DEFINE Upto(n) == \E g : DOMAIN g = SUBSET S /\ \A s \in SUBSET S : Cardinality(s) <= n => g[s] = SumStep(f, g, s)
           N == {n \in Nat : Upto(n)}
<1>1. \A s \in SUBSET S : IsFiniteSet(s) /\ Cardinality(s) \in Nat /\ (Cardinality(s) = 0 <=> s = {})
  BY FS_Subset, FS_CardinalityType, FS_EmptySet
<1>2. \A s \in SUBSET S : s # {} =>
        LET x == CHOOSE x \in s : TRUE
        IN  s \ {x} \in SUBSET S /\ Cardinality(s \ {x}) = Cardinality(s) - 1
  <2> TAKE s \in SUBSET S
  <2> HAVE s # {}
  <2> DEFINE x == CHOOSE x \in s : TRUE
  <2>1. x \in s
    OBVIOUS
  <2> HIDE DEF x
  <2> QED
    BY <1>1, <2>1, FS_RemoveElement DEF x
<1>3. Upto(0)
  <2> DEFINE g == [s \in SUBSET S |-> 0]
  <2>1. \A s \in SUBSET S : Cardinality(s) <= 0 => g[s] = SumStep(f, g, s)
    BY <1>1 DEF SumStep
  <2> QED
    BY <2>1
<1>4. ASSUME NEW n \in Nat, Upto(n) PROVE Upto(n + 1)
  <2>1. PICK g : DOMAIN g = SUBSET S /\ \A s \in SUBSET S : Cardinality(s) <= n => g[s] = SumStep(f, g, s)
    BY <1>4
  <2> DEFINE h == [s \in SUBSET S |-> IF Cardinality(s) <= n THEN g[s] ELSE SumStep(f, g, s)]
  <2>2. \A s \in SUBSET S : Cardinality(s) <= n + 1 => h[s] = SumStep(f, h, s)
    <3> TAKE s \in SUBSET S
    <3> HAVE Cardinality(s) <= n + 1
    <3>1. h[s] = SumStep(f, g, s)
      BY <2>1
    <3>2. SumStep(f, g, s) = SumStep(f, h, s)
      <4> DEFINE x == CHOOSE x \in s : TRUE
      <4>1. s # {} => s \ {x} \in SUBSET S /\ Cardinality(s \ {x}) <= n
        BY <1>1, <1>2
      <4>2. s # {} => h[s \ {x}] = g[s \ {x}]
        BY <4>1
      <4> HIDE DEF h
      <4> QED
        BY <4>2 DEF SumStep
    <3> QED
      BY <3>1, <3>2
  <2>3. DOMAIN h = SUBSET S
    OBVIOUS
  <2> HIDE DEF h
  <2> QED
    BY <2>2, <2>3
<1>5. Cardinality(S) \in N
  <2>1. 0 \in N
    BY <1>3
  <2>2. \A n \in Nat : n \in N => n + 1 \in N
    <3> HIDE DEF Upto
    <3> QED
      BY <1>4
  <2> HIDE DEF N
  <2> QED
    BY <1>1, <2>1, <2>2, NatInduces
<1>6. PICK g : DOMAIN g = SUBSET S /\ \A s \in SUBSET S : Cardinality(s) <= Cardinality(S) => g[s] = SumStep(f, g, s)
  BY <1>5
<1>7. \A s \in SUBSET S : Cardinality(s) <= Cardinality(S)
  BY FS_Subset
<1> DEFINE P(h) == h = [s \in SUBSET S |-> SumStep(f, h, s)]
           sum == CHOOSE h : P(h)
<1>8. \E h : P(h)
  <2> DEFINE h == [s \in SUBSET S |-> g[s]]
  <2>1. \A s \in SUBSET S : h[s] = SumStep(f, h, s)
    <3> TAKE s \in SUBSET S
    <3>1. g[s] = SumStep(f, g, s)
      BY <1>6, <1>7
    <3>2. SumStep(f, g, s) = SumStep(f, h, s)
      BY <1>2 DEF SumStep
    <3> QED
      BY <3>1, <3>2
  <2>2. h = [s \in SUBSET S |-> h[s]]
    OBVIOUS
  <2> HIDE DEF h
  <2>3. P(h)
    BY <2>1, <2>2
  <2> QED
    BY <2>3
<1>9. P(sum)
  <2> HIDE DEF P
  <2> QED
    BY <1>8
<1>10. SumFunction(f) = sum[S]
  BY DEF SumFunction, SumFunctionOnSet, FoldFunctionOnSet, MapThenFoldSet, SumStep
<1>11. \A s \in SUBSET S : sum[s] = SumStep(f, sum, s)
  <2> HIDE DEF sum
  <2> QED
    BY <1>9
<1> HIDE DEF sum
<1> QED
  BY <1>10, <1>11

LEMMA CompleteIsNat == Complete \in Nat
BY DEF Complete

LEMMA BoundsAdd ==
    ASSUME NEW a \in Nat, NEW b \in Nat, NEW c \in Nat, NEW d \in Nat, NEW m \in Nat, b <= m * a, d <= m * c
    PROVE  b + d <= m * (a + c)
OBVIOUS

\* A sum of natural numbers is one, vanishes only with them, and is at most c
\* times another where they are.
LEMMA SumsCompare ==
    ASSUME NEW S, IsFiniteSet(S), NEW f \in [S -> Nat], NEW h \in [S -> Nat],
           \A x \in S : h[x] <= Complete * f[x]
    PROVE  /\ SumFunction(f) \in Nat /\ SumFunction(h) \in Nat
           /\ SumFunction(h) <= Complete * SumFunction(f)
           /\ SumFunction(f) = 0 <=> \A x \in S : f[x] = 0
<1>1. PICK g : (\A s \in SUBSET S : g[s] = SumStep(f, g, s)) /\ SumFunction(f) = g[S]
  BY SumUnfolds
<1>2. PICK k : (\A s \in SUBSET S : k[s] = SumStep(h, k, s)) /\ SumFunction(h) = k[S]
  BY SumUnfolds
<1> DEFINE Good(s) == /\ g[s] \in Nat /\ k[s] \in Nat /\ k[s] <= Complete * g[s]
                      /\ g[s] = 0 <=> \A x \in s : f[x] = 0
           T == {s \in SUBSET S : ~Good(s)}
           R == StrictSubsetOrdering(S)
<1>3. T = {}
  <2> SUFFICES ASSUME T # {} PROVE FALSE
    OBVIOUS
  <2>1. IsWellFoundedOn(R, SUBSET S)
    BY FS_StrictSubsetOrderingWellFounded, FS_FiniteSubsetsOfFinite
  <2>2. PICK s \in T : \A t \in T : ~(<<t, s>> \in R)
    <3>1. T \subseteq SUBSET S
      OBVIOUS
    <3> HIDE DEF T, R
    <3> QED
      BY <2>1, <3>1, WFMin
  <2>3. s # {}
    <3>1. {} \in SUBSET S /\ SumStep(f, g, {}) = 0 /\ SumStep(h, k, {}) = 0
      BY DEF SumStep
    <3>2. g[{}] = 0 /\ k[{}] = 0
      BY <1>1, <1>2, <3>1
    <3>3. Good({})
      BY <3>2, CompleteIsNat
    <3> QED
      BY <3>3
  <2> DEFINE x == CHOOSE x \in s : TRUE
             t == s \ {x}
  <2>4. x \in s /\ x \in S
    BY <2>3
  <2>5. g[s] = f[x] + g[t] /\ k[s] = h[x] + k[t]
    BY <1>1, <1>2, <2>3 DEF SumStep
  <2> HIDE DEF x
  <2>6. t \in SUBSET S /\ t \subseteq s /\ t # s
    BY <2>4
  <2>7. Good(t)
    BY <2>2, <2>6 DEF StrictSubsetOrdering
  <2>8. f[x] \in Nat /\ h[x] \in Nat /\ h[x] <= Complete * f[x]
    BY <2>4
  <2>9. g[s] \in Nat /\ k[s] \in Nat /\ k[s] <= Complete * g[s]
    <3>1. h[x] + k[t] <= Complete * (f[x] + g[t])
      BY <2>7, <2>8, CompleteIsNat, BoundsAdd
    <3> QED
      BY <2>5, <2>7, <2>8, <3>1
  <2>10. g[s] = 0 <=> f[x] = 0 /\ \A y \in t : f[y] = 0
    BY <2>5, <2>7, <2>8
  <2>11. g[s] = 0 <=> \A y \in s : f[y] = 0
    BY <2>4, <2>10
  <2>12. Good(s)
    BY <2>9, <2>11
  <2> QED
    BY <2>12
<1>4. Good(S)
  BY <1>3
<1> QED
  BY <1>1, <1>2, <1>4

\* A quotient, rounded to the nearest, is not above the bound of the quotient.
LEMMA RoundedQuotient ==
    ASSUME NEW a \in Nat, NEW b \in Nat \ {0}, a <= Complete * b, Complete \in Nat
    PROVE  (2 * a + b) \div (2 * b) \in 0 .. Complete
<1> DEFINE x == 2 * a + b
           y == 2 * b
           q == x \div y
<1>1. x \in Nat /\ y \in Nat \ {0}
  OBVIOUS
<1>2. q \in Int /\ y * q <= x /\ x < y * q + y
  <2> HIDE DEF x, y
  <2> QED
    BY <1>1
<1> HIDE DEF q
<1>3. 2 * b * q <= 2 * a + b /\ 2 * a + b < 2 * b * q + 2 * b
  BY <1>2
<1>4. q \in 0 .. Complete
  BY <1>2, <1>3
<1> QED
  BY <1>4 DEF q

LEMMA ShareFits == ASSUME NEW p \in Nat, p <= Complete, Complete \in Nat, NEW c \in Nat PROVE p * c \in Nat /\ p * c <= Complete * c
OBVIOUS

\* The average of percents is a percent.
LEMMA AverageFits ==
    ASSUME NEW ns, NEW of, IsFiniteSet(of), of # {}, NEW pct,
           \A n \in of : ns[n].weight \in Nat /\ pct[n] \in 0 .. Complete
    PROVE  Average(ns, of, pct) \in 0 .. Complete
<1> DEFINE weights == [n \in of |-> ns[n].weight]
           weight == SumFunction(weights)
           counts == [n \in of |-> IF weight > 0 THEN ns[n].weight ELSE 1]
           shares == [n \in of |-> pct[n] * counts[n]]
           total == SumFunction(shares)
           by == SumFunction(counts)
<1>1. weights \in [of -> Nat] /\ counts \in [of -> Nat]
  OBVIOUS
<1>2. weight \in Nat /\ (weight = 0 <=> \A n \in of : weights[n] = 0)
  <2> HIDE DEF weights
  <2>1. \A n \in of : weights[n] <= Complete * weights[n]
    BY <1>1 DEF Complete
  <2> QED
    BY <1>1, <2>1, SumsCompare
<1>3. \E n \in of : counts[n] # 0
  <2> HIDE DEF weight
  <2>1. CASE weight = 0
    BY <1>2, <2>1
  <2>2. CASE weight > 0
    <3>1. \A n \in of : counts[n] = weights[n]
      BY <2>2
    <3> QED
      BY <1>2, <2>2
  <2> QED
    BY <1>2, <2>1, <2>2
<1>5. \A n \in of : shares[n] \in Nat /\ shares[n] <= Complete * counts[n]
  <2> TAKE n \in of
  <2> DEFINE p == pct[n]
             c == counts[n]
  <2>1. p \in Nat /\ p <= Complete
    BY CompleteIsNat
  <2>2. c \in Nat
    <3> HIDE DEF counts
    <3> QED
      BY <1>1
  <2>3. shares[n] = p * c
    <3> HIDE DEF counts
    <3> QED
      OBVIOUS
  <2> HIDE DEF p, shares, counts
  <2>4. p * c \in Nat /\ p * c <= Complete * c
    BY <2>1, <2>2, ShareFits, CompleteIsNat
  <2> QED
    BY <2>3, <2>4
<1>6. shares \in [of -> Nat]
  BY <1>5
<1>7. total \in Nat /\ by \in Nat /\ total <= Complete * by /\ by # 0
  <2> HIDE DEF shares, counts
  <2> QED
    BY <1>1, <1>3, <1>5, <1>6, SumsCompare
<1>8. Average(ns, of, pct) = (2 * total + by) \div (2 * by)
  BY DEF Average
<1> HIDE DEF total, by, shares, counts, weight, weights
<1>9. total \in Nat /\ by \in Nat \ {0} /\ total <= Complete * by
  BY <1>7
<1>10. (2 * total + by) \div (2 * by) \in 0 .. Complete
  BY <1>9, RoundedQuotient, CompleteIsNat
<1> QED
  BY <1>8, <1>10

\* An average depends on what it is of.
LEMMA AverageSame ==
    ASSUME NEW ns, NEW ms, NEW of, NEW p, NEW q,
           \A n \in of : ns[n].weight = ms[n].weight /\ p[n] = q[n]
    PROVE  Average(ns, of, p) = Average(ms, of, q)
<1>1. [n \in of |-> ns[n].weight] = [n \in of |-> ms[n].weight]
  OBVIOUS
<1> DEFINE weight == SumFunction([n \in of |-> ms[n].weight])
           counts(x) == [n \in of |-> IF weight > 0 THEN x[n].weight ELSE 1]
<1>2. counts(ns) = counts(ms)
  <2> HIDE DEF weight
  <2> QED
    OBVIOUS
<1>3. [n \in of |-> p[n] * counts(ms)[n]] = [n \in of |-> q[n] * counts(ms)[n]]
  <2> HIDE DEF counts
  <2> QED
    OBVIOUS
<1> HIDE DEF counts, weight
<1> QED
  BY <1>1, <1>2, <1>3 DEF Average, counts, weight

-----------------------------------------------------------------------------
(* What rollUp computes for nodes that form no circle. *)

\* A set of nodes with all that is below them.
Branches(ns) == {D \in SUBSET Ids(ns) : \A n \in D : Kids(ns, n) \subseteq D}

\* The percent of a node, from those f gives its children.
Percent(ns, f, n) == IF Leaf(ns, n) THEN ns[n].pct ELSE Average(ns, Kids(ns, n), f)

\* What holds of the empty branch, and of a branch if it does without its top,
\* holds of all the nodes.
LEMMA FromTheLeaves ==
    ASSUME NEW ns, IsFiniteSet(Ids(ns)), Acyclic(ns), NEW X, {} \in X,
           \A D \in Branches(ns) : \A n \in D : ns[n].parent \notin D /\ D \ {n} \in X => D \in X
    PROVE  Ids(ns) \in X
<1> DEFINE T == {D \in Branches(ns) : D \notin X}
           R == StrictSubsetOrdering(Ids(ns))
<1>1. Ids(ns) \in Branches(ns)
  BY DEF Branches, Kids
<1>2. T = {}
  <2> SUFFICES ASSUME T # {} PROVE FALSE
    OBVIOUS
  <2>1. IsWellFoundedOn(R, SUBSET Ids(ns))
    BY FS_StrictSubsetOrderingWellFounded, FS_FiniteSubsetsOfFinite
  <2>2. PICK D \in T : \A E \in T : ~(<<E, D>> \in R)
    <3>1. T \subseteq SUBSET Ids(ns)
      BY DEF Branches
    <3> HIDE DEF T, R
    <3> QED
      BY <2>1, <3>1, WFMin
  <2>3. D \in Branches(ns) /\ D \notin X /\ D \subseteq Ids(ns) /\ D # {}
    BY DEF Branches
  <2>4. PICK n \in D : ns[n].parent \notin D
    BY <2>3 DEF Acyclic
  <2>5. D \ {n} \in Branches(ns)
    <3>1. ASSUME NEW m \in D, m # n, NEW k \in Kids(ns, m) PROVE k \in D /\ k # n
      BY <2>3, <2>4, <3>1 DEF Branches, Kids
    <3> QED
      BY <2>3, <3>1 DEF Branches
  <2>6. <<D \ {n}, D>> \in R
    BY <2>3 DEF StrictSubsetOrdering
  <2>7. D \ {n} \in X
    BY <2>2, <2>5, <2>6
  <2> QED
    BY <2>3, <2>4, <2>7
<1> QED
  BY <1>1, <1>2

\* The children of the top of a branch are in it, and below it; nobody in the
\* branch has it as a child.
LEMMA BelowTheTop ==
    ASSUME NEW ns, NEW D \in Branches(ns), NEW n \in D, ns[n].parent \notin D, NEW m \in D
    PROVE  Kids(ns, m) \subseteq D \ {n}
BY DEF Branches, Kids

LEMMA PercentSame ==
    ASSUME NEW ns, NEW f, NEW g, NEW n, \A k \in Kids(ns, n) : f[k] = g[k]
    PROVE  Percent(ns, f, n) = Percent(ns, g, n)
<1>1. Average(ns, Kids(ns, n), f) = Average(ns, Kids(ns, n), g)
  BY AverageSame
<1> QED
  BY <1>1 DEF Percent

LEMMA RollUpUnfolds ==
    ASSUME NEW ns, IsFiniteSet(Ids(ns)), Acyclic(ns)
    PROVE  /\ DOMAIN rollUp(ns) = Ids(ns)
           /\ \A n \in Ids(ns) : rollUp(ns)[n] = Percent(ns, rollUp(ns), n)
<1> DEFINE Works(f, D) == DOMAIN f = Ids(ns) /\ \A n \in D : f[n] = Percent(ns, f, n)
           X == {D \in SUBSET Ids(ns) : \E f : Works(f, D)}
<1>1. {} \in X
  <2> DEFINE f == [n \in Ids(ns) |-> 0]
  <2>1. Works(f, {})
    OBVIOUS
  <2> HIDE DEF Works, f
  <2> QED
    BY <2>1
<1>2. ASSUME NEW D \in Branches(ns), NEW n \in D, ns[n].parent \notin D, D \ {n} \in X
      PROVE  D \in X
  <2>1. D \in SUBSET Ids(ns) /\ n \in Ids(ns)
    BY DEF Branches
  <2>2. PICK f : Works(f, D \ {n})
    BY <1>2
  <2> DEFINE g == [f EXCEPT ![n] = Percent(ns, f, n)]
  <2>3. DOMAIN g = Ids(ns) /\ g[n] = Percent(ns, f, n) /\ \A m \in Ids(ns) \ {n} : g[m] = f[m]
    BY <2>1, <2>2
  <2> HIDE DEF g
  <2>4. ASSUME NEW m \in D PROVE g[m] = Percent(ns, g, m)
    <3>1. \A k \in Kids(ns, m) : f[k] = g[k]
      BY <1>2, <2>1, <2>3, BelowTheTop
    <3>2. Percent(ns, f, m) = Percent(ns, g, m)
      BY <3>1, PercentSame
    <3>3. g[m] = Percent(ns, f, m)
      BY <2>1, <2>2, <2>3
    <3> QED
      BY <3>2, <3>3
  <2>5. Works(g, D)
    BY <2>3, <2>4
  <2> HIDE DEF Works
  <2> QED
    BY <2>1, <2>5
<1>3. Ids(ns) \in X
  <2> HIDE DEF X
  <2> QED
    BY <1>1, <1>2, FromTheLeaves
<1> DEFINE P(f) == f = [n \in Ids(ns) |-> Percent(ns, f, n)]
           pct == CHOOSE f : P(f)
<1>4. \E f : P(f)
  <2>1. PICK f : Works(f, Ids(ns))
    BY <1>3
  <2> DEFINE g == [n \in Ids(ns) |-> f[n]]
  <2>2. DOMAIN g = Ids(ns) /\ \A n \in Ids(ns) : g[n] = f[n]
    OBVIOUS
  <2>3. g = [n \in Ids(ns) |-> g[n]]
    OBVIOUS
  <2> HIDE DEF g
  <2>4. \A n \in Ids(ns) : g[n] = Percent(ns, g, n)
    <3> TAKE n \in Ids(ns)
    <3>1. \A k \in Kids(ns, n) : f[k] = g[k]
      BY <2>2 DEF Kids
    <3>2. Percent(ns, f, n) = Percent(ns, g, n)
      BY <3>1, PercentSame
    <3> QED
      BY <2>1, <2>2, <3>2
  <2>5. P(g)
    BY <2>3, <2>4
  <2> QED
    BY <2>5
<1>5. P(pct)
  <2> HIDE DEF P
  <2> QED
    BY <1>4
<1>6. rollUp(ns) = pct
  BY DEF rollUp, Percent
<1>7. DOMAIN pct = Ids(ns) /\ \A n \in Ids(ns) : pct[n] = Percent(ns, pct, n)
  <2> HIDE DEF pct
  <2> QED
    BY <1>5
<1> HIDE DEF pct
<1> QED
  BY <1>6, <1>7

\* Nothing else gives each node its percent.
LEMMA RollUpIsTheOnly ==
    ASSUME NEW ns, IsFiniteSet(Ids(ns)), Acyclic(ns),
           NEW f, \A n \in Ids(ns) : f[n] = Percent(ns, f, n)
    PROVE  \A n \in Ids(ns) : rollUp(ns)[n] = f[n]
<1> DEFINE g == rollUp(ns)
           X == {D \in SUBSET Ids(ns) : \A n \in D : g[n] = f[n]}
<1>1. \A n \in Ids(ns) : g[n] = Percent(ns, g, n)
  BY RollUpUnfolds
<1> HIDE DEF g
<1>2. {} \in X
  OBVIOUS
<1>3. ASSUME NEW D \in Branches(ns), NEW n \in D, ns[n].parent \notin D, D \ {n} \in X
      PROVE  D \in X
  <2>1. D \in SUBSET Ids(ns)
    BY DEF Branches
  <2>2. \A k \in Kids(ns, n) : g[k] = f[k]
    BY <1>3, BelowTheTop
  <2>3. Percent(ns, g, n) = Percent(ns, f, n)
    BY <2>2, PercentSame
  <2>4. g[n] = f[n]
    BY <1>1, <2>1, <2>3
  <2> QED
    BY <1>3, <2>1, <2>4
<1>4. Ids(ns) \in X
  <2> HIDE DEF X
  <2> QED
    BY <1>2, <1>3, FromTheLeaves
<1> QED
  BY <1>4 DEF g

\* Whose leaves have percents has percents everywhere.
LEMMA RollUpFits ==
    ASSUME NEW ns, IsFiniteSet(Ids(ns)), Acyclic(ns),
           \A n \in Ids(ns) : ns[n].weight \in Nat /\ ns[n].pct \in 0 .. Complete
    PROVE  \A n \in Ids(ns) : rollUp(ns)[n] \in 0 .. Complete
<1> DEFINE g == rollUp(ns)
           X == {D \in SUBSET Ids(ns) : \A n \in D : g[n] \in 0 .. Complete}
<1>1. \A n \in Ids(ns) : g[n] = Percent(ns, g, n)
  BY RollUpUnfolds
<1> HIDE DEF g
<1>2. {} \in X
  OBVIOUS
<1>3. ASSUME NEW D \in Branches(ns), NEW n \in D, ns[n].parent \notin D, D \ {n} \in X
      PROVE  D \in X
  <2>1. D \in SUBSET Ids(ns) /\ n \in Ids(ns)
    BY DEF Branches
  <2>2. \A k \in Kids(ns, n) : g[k] \in 0 .. Complete /\ ns[k].weight \in Nat
    BY <1>3, BelowTheTop DEF Kids
  <2>3. ~Leaf(ns, n) => Average(ns, Kids(ns, n), g) \in 0 .. Complete
    <3>1. IsFiniteSet(Kids(ns, n))
      BY FS_Subset DEF Kids
    <3> QED
      BY <2>2, <3>1, AverageFits DEF Leaf
  <2>4. g[n] \in 0 .. Complete
    BY <1>1, <2>1, <2>3 DEF Percent
  <2> QED
    BY <1>3, <2>1, <2>4
<1>4. Ids(ns) \in X
  <2> HIDE DEF X
  <2> QED
    BY <1>2, <1>3, FromTheLeaves
<1> QED
  BY <1>4 DEF g

LEMMA ProjectFits ==
    ASSUME NEW ns, IsFiniteSet(Ids(ns)), Acyclic(ns),
           \A n \in Ids(ns) : ns[n].weight \in Nat /\ ns[n].pct \in 0 .. Complete
    PROVE  projectPercent(ns, rollUp(ns)) \in 0 .. Complete
<1> DEFINE roots == {n \in Ids(ns) : ns[n].parent = None}
<1>1. IsFiniteSet(roots)
  BY FS_Subset
<1>2. \A n \in roots : ns[n].weight \in Nat /\ rollUp(ns)[n] \in 0 .. Complete
  BY RollUpFits
<1>3. roots # {} => Average(ns, roots, rollUp(ns)) \in 0 .. Complete
  <2> HIDE DEF roots
  <2> QED
    BY <1>1, <1>2, AverageFits
<1>4. 0 \in 0 .. Complete
  BY CompleteIsNat
<1> QED
  BY <1>3, <1>4 DEF projectPercent

\* Nodes that differ from others in the percents of parents only roll up alike.
LEMMA RollUpSame ==
    ASSUME NEW ns, NEW ms, IsFiniteSet(Ids(ns)), Acyclic(ns), Ids(ms) = Ids(ns),
           \A n \in Ids(ns) : /\ ms[n].parent = ns[n].parent /\ ms[n].weight = ns[n].weight
                              /\ Leaf(ns, n) => ms[n].pct = ns[n].pct
    PROVE  /\ Acyclic(ms) /\ \A n : Leaf(ms, n) <=> Leaf(ns, n)
           /\ \A n \in Ids(ns) : rollUp(ms)[n] = rollUp(ns)[n]
           /\ projectPercent(ms, rollUp(ms)) = projectPercent(ns, rollUp(ns))
<1>1. \A n : Kids(ms, n) = Kids(ns, n)
  BY DEF Kids
<1>2. \A n : Leaf(ms, n) <=> Leaf(ns, n)
  BY <1>1 DEF Leaf
<1>3. Acyclic(ms)
  BY DEF Acyclic
<1> DEFINE f == rollUp(ns)
<1>4. \A n \in Ids(ns) : f[n] = Percent(ns, f, n)
  BY RollUpUnfolds
<1> HIDE DEF f
<1>5. ASSUME NEW n \in Ids(ns) PROVE Percent(ms, f, n) = Percent(ns, f, n)
  <2>1. \A k \in Kids(ns, n) : ms[k].weight = ns[k].weight
    BY DEF Kids
  <2>2. Average(ms, Kids(ns, n), f) = Average(ns, Kids(ns, n), f)
    BY <2>1, AverageSame
  <2>3. Average(ms, Kids(ms, n), f) = Average(ns, Kids(ns, n), f)
    BY <1>1, <2>2
  <2> QED
    BY <1>2, <2>3 DEF Percent
<1>6. \A n \in Ids(ms) : rollUp(ms)[n] = f[n]
  <2>1. \A n \in Ids(ms) : f[n] = Percent(ms, f, n)
    BY <1>4, <1>5
  <2> QED
    BY <1>3, <2>1, RollUpIsTheOnly
<1>7. projectPercent(ms, rollUp(ms)) = projectPercent(ns, f)
  <2> DEFINE roots == {n \in Ids(ns) : ns[n].parent = None}
  <2>1. roots = {n \in Ids(ms) : ms[n].parent = None}
    OBVIOUS
  <2>2. \A n \in roots : ms[n].weight = ns[n].weight /\ rollUp(ms)[n] = f[n]
    BY <1>6
  <2>3. Average(ms, roots, rollUp(ms)) = Average(ns, roots, f)
    <3> HIDE DEF roots
    <3> QED
      BY <2>2, AverageSame
  <2> QED
    BY <2>1, <2>3 DEF projectPercent
<1> QED
  BY <1>2, <1>3, <1>6, <1>7 DEF f

-----------------------------------------------------------------------------
(* The work breakdown: its percents, and one request at a time. *)

NodeRow == [parent : Nodes \cup {None}, weight : Weights, pct : 0 .. Complete]
Tree(ns) == IsFiniteSet(Ids(ns)) /\ Ids(ns) \subseteq Nodes /\ \A n \in Ids(ns) : ns[n] \in NodeRow

WbsSaw(w) ==
    LET at == call[w].at
        saw == call[w].saw
    IN  /\ at \in {"add", "update"} => saw.node \in Nodes /\ saw.row \in NodeRow
        /\ at = "progress" => saw.pct \in 0 .. Complete
        /\ at \in {"rolled", "project"} => Tree(saw.nodes) /\ Acyclic(saw.nodes)

WbsTyped == Tree(nodes) /\ projectPct \in 0 .. Complete /\ \A w \in Workers : WbsSaw(w)

\* What the rows say is what the leaves add up to.
Balanced(ns) == \A n \in Ids(ns) : ns[n].pct = rollUp(ns)[n]
Rolled == WellFormed(nodes) => Balanced(nodes) /\ projectPct = projectPercent(nodes, rollUp(nodes))

\* The calls of a handler between its write and the roll-up.
Unrolled == {"cascade", "completeParent", "recompute", "rolled", "project"}

Rolling(w) ==
    LET at == call[w].at
        saw == call[w].saw
    IN  /\ at \in {"cascade", "completeParent"} =>
               saw.above # None /\ \E n \in Ids(nodes) : nodes[n].parent = saw.above
        /\ at = "progress" /\ saw.node \in Ids(nodes) => saw.above = nodes[saw.node].parent
        /\ at = "rolled" => saw.nodes = nodes
        /\ at = "project" =>
               /\ Balanced(nodes)
               /\ projectPercent(saw.nodes, rollUp(saw.nodes)) = projectPercent(nodes, rollUp(nodes))

WbsAlone ==
    /\ WbsTyped /\ failures \in Nat
    /\ Orderly => /\ Rolled \/ \E w \in Workers : call[w].at \in Unrolled
                  /\ \A w \in Workers : Rolling(w)

\* Without nodes there is nothing to add up.
LEMMA NothingToRollUp == WbsInit => Tree(nodes) /\ Ids(nodes) = {} /\ projectPct \in 0 .. Complete /\ Rolled
<1> SUFFICES ASSUME WbsInit PROVE Tree(nodes) /\ Ids(nodes) = {} /\ projectPct \in 0 .. Complete /\ Rolled
  OBVIOUS
<1>1. Ids(nodes) = {} /\ projectPct = 0
  BY DEF WbsInit, Ids
<1>2. Tree(nodes)
  BY <1>1, FS_EmptySet DEF Tree
<1>3. Rolled
  BY <1>1 DEF Rolled, Balanced, projectPercent
<1>4. projectPct \in 0 .. Complete
  BY <1>1, CompleteIsNat
<1> QED
  BY <1>1, <1>2, <1>3, <1>4

LEMMA WbsAloneStart == HandlersInit /\ WbsInit => WbsAlone
<1> SUFFICES ASSUME HandlersInit, WbsInit PROVE WbsAlone
  OBVIOUS
<1>1. failures = 0 /\ \A w \in Workers : call[w].at = "none"
  BY CallsBegin DEF HandlersInit, RequestsInit
<1> QED
  BY <1>1, NothingToRollUp DEF WbsAlone, WbsTyped, WbsSaw, Rolling

LEMMA WbsCount == WbsNext => Counted
<1> SUFFICES ASSUME NEW w \in Workers, WbsStep(w) PROVE Counted
  BY DEF WbsNext
<1>1. ASSUME NEW n, NEW p, NEW weight, AddNodeRead(w, n, p, weight) \/ UpdateNodeRead(w, n, p, weight)
      PROVE  Counted
  BY <1>1, HandlersCount DEF AddNodeRead, UpdateNodeRead
<1>2. ASSUME NEW n, DeleteNode(w, n) PROVE Counted
  BY <1>2, HandlersCount DEF DeleteNode
<1>3. ASSUME NEW n, NEW complete, NEW pct, ProgressRead(w, n, complete, pct) PROVE Counted
  BY <1>3, HandlersCount DEF ProgressRead
<1>4. CASE AddNodeWrite(w) \/ UpdateNodeWrite(w) \/ RollUpWrite(w) \/ ProjectWrite(w)
  BY <1>4, HandlersCount DEF AddNodeWrite, UpdateNodeWrite, RollUpWrite, ProjectWrite
<1>5. CASE ProgressWrite(w)
  BY <1>5, HandlersCount DEF ProgressWrite
<1>6. CASE CascadeRead(w) \/ CascadeWrite(w) \/ RecomputeRead(w)
  BY <1>6, HandlersCount DEF CascadeRead, CascadeWrite, RecomputeRead
<1> QED
  BY <1>1, <1>2, <1>3, <1>4, <1>5, <1>6, HandlersCount DEF WbsStep

\* The only handler under way: the rows are rolled up unless it is to do that.
LEMMA WbsOne ==
    ASSUME WbsAlone, NEW w \in Workers, Sole(w), Counted, Orderly'
    PROVE  /\ \A v \in Workers \ {w} : call[v].at = "none" /\ call'[v].at = "none"
           /\ Rolling(w) /\ (call[w].at \notin Unrolled => Rolled)
<1>1. Orderly /\ \A v \in Workers \ {w} : call[v].at = "none" /\ call'[v].at = "none"
  BY DEF WbsAlone, Orderly, Counted, Sole
<1>2. \A v \in Workers \ {w} : call[v].at \notin Unrolled
  BY <1>1 DEF Unrolled
<1> QED
  BY <1>1, <1>2 DEF WbsAlone

LEMMA WbsAloneFrame ==
    ASSUME WbsAlone, NEW w \in Workers, Sole(w), Counted,
           Tree(nodes'), projectPct' \in 0 .. Complete, WbsSaw(w)',
           Orderly' => (Rolled' \/ call'[w].at \in Unrolled) /\ Rolling(w)'
    PROVE  WbsAlone'
<1>1. \A v \in Workers \ {w} : WbsSaw(v)'
  BY DEF Sole, WbsAlone, WbsTyped, WbsSaw
<1>2. WbsTyped'
  BY <1>1 DEF WbsTyped
<1>3. Orderly' => \A v \in Workers : Rolling(v)'
  <2>1. ASSUME Orderly', NEW v \in Workers \ {w} PROVE Rolling(v)'
    BY <2>1, WbsOne DEF Rolling
  <2> QED
    BY <2>1
<1>4. failures' \in Nat
  BY DEF WbsAlone, Counted
<1> QED
  BY <1>2, <1>3, <1>4 DEF WbsAlone

\* A handler that read, or that failed at writing.
LEMMA WbsAloneReads ==
    ASSUME WbsAlone, NEW w \in Workers, Sole(w), Counted, UNCHANGED wbsVars, WbsSaw(w)',
           Orderly' => Rolling(w)',
           Orderly' => call[w].at \notin Unrolled \/ call'[w].at \in Unrolled \/ ~WellFormed(nodes)
    PROVE  WbsAlone'
<1>1. nodes' = nodes /\ projectPct' = projectPct
  BY DEF wbsVars
<1>2. Rolled => Rolled'
  BY <1>1 DEF Rolled
<1>3. ~WellFormed(nodes) => Rolled'
  BY <1>1 DEF Rolled
<1>4. Orderly' => Rolled' \/ call'[w].at \in Unrolled
  BY <1>2, <1>3, WbsOne
<1>5. Tree(nodes') /\ projectPct' \in 0 .. Complete
  BY <1>1 DEF WbsAlone, WbsTyped
<1> QED
  BY <1>4, <1>5, WbsAloneFrame

\* A percent is written, and the handler goes on to the parent or to the roll-up.
LEMMA PercentWritten ==
    ASSUME WbsAlone, NEW w \in Workers, Sole(w), Counted, NEW n \in Ids(nodes), NEW pct \in 0 .. Complete,
           nodes' = [nodes EXCEPT ![n].pct = pct], UNCHANGED projectPct,
           \/ call'[w].at = "recompute"
           \/ /\ call'[w].at = "cascade"
              /\ Orderly' => call'[w].saw.above = nodes[n].parent /\ nodes[n].parent # None
    PROVE  WbsAlone'
<1>1. Tree(nodes) /\ projectPct' \in 0 .. Complete
  BY DEF WbsAlone, WbsTyped
<1>2. /\ Ids(nodes') = Ids(nodes) /\ nodes'[n] = [nodes[n] EXCEPT !.pct = pct]
      /\ \A m \in Ids(nodes) \ {n} : nodes'[m] = nodes[m]
  BY DEF Ids
<1>3. nodes'[n] \in NodeRow /\ nodes'[n].parent = nodes[n].parent
  BY <1>1, <1>2 DEF Tree, NodeRow
<1>4. Tree(nodes')
  BY <1>1, <1>2, <1>3 DEF Tree
<1>5. WbsSaw(w)' /\ (Orderly' => Rolling(w)') /\ call'[w].at \in Unrolled
  BY <1>2, <1>3 DEF WbsSaw, Rolling, Unrolled
<1> QED
  BY <1>1, <1>4, <1>5, WbsAloneFrame

LEMMA WbsAloneGoesOn == WbsInv /\ WbsAlone /\ WbsNext => WbsAlone'
<1> SUFFICES ASSUME WbsInv, WbsAlone, NEW w \in Workers, WbsStep(w), Counted PROVE WbsAlone'
  BY WbsCount DEF WbsNext
<1> DEFINE at == call[w].at
           saw == call[w].saw
<1>1. /\ Calls /\ Tree(nodes) /\ projectPct \in 0 .. Complete /\ WbsSaw(w) /\ 0 \in 0 .. Complete
      /\ Complete \in 0 .. Complete
  BY CompleteIsNat DEF WbsInv, WbsAlone, WbsTyped
<1>2. ASSUME NEW n \in Nodes, NEW p \in Nodes \cup {None}, NEW weight \in Weights,
             AddNodeRead(w, n, p, weight) \/ UpdateNodeRead(w, n, p, weight)
      PROVE  WbsAlone'
  <2> DEFINE row == [parent |-> p, weight |-> weight, pct |-> 0]
             new == [node |-> n, row |-> row]
  <2>1. UNCHANGED wbsVars /\ \E to \in {"add", "update"} : Begin(w, to, new)
    BY <1>2 DEF AddNodeRead, UpdateNodeRead
  <2>2. Sole(w) /\ at = "none" /\ call'[w].at \in {"add", "update"} /\ call'[w].saw = new
    BY <1>1, <2>1, Begins
  <2>3. row \in NodeRow /\ new.node = n /\ new.row = row
    BY <1>1 DEF NodeRow
  <2> HIDE DEF row, new
  <2>4. WbsSaw(w)' /\ Rolling(w)'
    BY <2>2, <2>3 DEF WbsSaw, Rolling
  <2> QED
    BY <2>1, <2>2, <2>4, WbsAloneReads DEF Unrolled
<1>3. ASSUME NEW n \in Nodes, DeleteNode(w, n) PROVE WbsAlone'
  <2>1. /\ Begin(w, "recompute", Recompute) /\ UNCHANGED projectPct
        /\ nodes' = [m \in Ids(nodes) \ {n} |-> nodes[m]]
    BY <1>3 DEF DeleteNode
  <2>2. Ids(nodes') = Ids(nodes) \ {n} /\ \A m \in Ids(nodes') : nodes'[m] = nodes[m]
    BY <2>1 DEF Ids
  <2>3. Sole(w) /\ call'[w].at = "recompute"
    BY <1>1, <2>1, Begins
  <2>4. Tree(nodes')
    <3>1. IsFiniteSet(Ids(nodes'))
      BY <1>1, <2>2, FS_Subset DEF Tree
    <3> QED
      BY <1>1, <2>2, <3>1 DEF Tree
  <2>5. WbsSaw(w)' /\ Rolling(w)' /\ call'[w].at \in Unrolled
    BY <2>3 DEF WbsSaw, Rolling, Unrolled
  <2> QED
    BY <1>1, <2>1, <2>3, <2>4, <2>5, WbsAloneFrame
<1>4. ASSUME NEW n \in Nodes, NEW complete \in BOOLEAN, NEW wanted \in Reports \cup {None},
             ProgressRead(w, n, complete, wanted)
      PROVE  WbsAlone'
  <2> DEFINE pct == CASE complete -> Complete [] ~complete /\ wanted = None -> nodes[n].pct [] OTHER -> wanted
             new == [node |-> n, above |-> nodes[n].parent, complete |-> complete, pct |-> pct]
  <2>1. Begin(w, "progress", new) /\ UNCHANGED wbsVars /\ n \in Ids(nodes)
    BY <1>4 DEF ProgressRead
  <2>2. Sole(w) /\ at = "none" /\ call'[w].at = "progress" /\ call'[w].saw = new
    BY <1>1, <2>1, Begins
  <2>3. new.node = n /\ new.above = nodes[n].parent /\ new.pct = pct
    OBVIOUS
  <2>4. pct \in 0 .. Complete
    <3>1. nodes[n].pct \in 0 .. Complete
      BY <1>1, <2>1 DEF Tree, NodeRow
    <3> QED
      BY <1>1, <1>4, <3>1, WbsAssumption
  <2> HIDE DEF pct, new
  <2>5. WbsSaw(w)' /\ Rolling(w)'
    BY <2>1, <2>2, <2>3, <2>4 DEF WbsSaw, Rolling, wbsVars, Ids
  <2> QED
    BY <2>1, <2>2, <2>5, WbsAloneReads DEF Unrolled
<1>5. CASE AddNodeWrite(w)
  <2> DEFINE n == saw.node
             row == saw.row
  <2>1. /\ at = "add" /\ Step(w, "recompute", Recompute) /\ UNCHANGED projectPct
        /\ nodes' = [m \in Ids(nodes) \cup {n} |-> IF m = n THEN row ELSE nodes[m]]
    BY <1>5 DEF AddNodeWrite, In
  <2>2. n \in Nodes /\ row \in NodeRow
    BY <1>1, <2>1 DEF WbsSaw
  <2>3. Sole(w) /\ call'[w].at = "recompute"
    BY <1>1, <2>1, Steps
  <2> HIDE DEF n, row
  <2>4. /\ Ids(nodes') = Ids(nodes) \cup {n} /\ nodes'[n] = row
        /\ \A m \in Ids(nodes) \ {n} : nodes'[m] = nodes[m]
    BY <2>1 DEF Ids
  <2>5. Tree(nodes')
    <3>1. IsFiniteSet(Ids(nodes) \cup {n})
      BY <1>1, FS_AddElement DEF Tree
    <3> QED
      BY <1>1, <2>2, <2>4, <3>1 DEF Tree
  <2>6. WbsSaw(w)' /\ Rolling(w)' /\ call'[w].at \in Unrolled
    BY <2>3 DEF WbsSaw, Rolling, Unrolled
  <2> QED
    BY <1>1, <2>1, <2>3, <2>5, <2>6, WbsAloneFrame
<1>6. CASE UpdateNodeWrite(w)
  <2> DEFINE n == saw.node
             row == saw.row
  <2>1. /\ at = "update" /\ UNCHANGED projectPct
        /\ IF n \in Ids(nodes)
             THEN /\ nodes' = [nodes EXCEPT ![n].parent = row.parent, ![n].weight = row.weight]
                  /\ Step(w, "recompute", Recompute)
             ELSE Done(w) /\ UNCHANGED nodes
    BY <1>6 DEF UpdateNodeWrite, In
  <2>2. n \in Nodes /\ row \in NodeRow
    BY <1>1, <2>1 DEF WbsSaw
  <2>3. Sole(w) /\ call'[w].at = IF n \in Ids(nodes) THEN "recompute" ELSE "none"
    BY <1>1, <2>1, Steps, Ends
  <2>4. WbsSaw(w)' /\ Rolling(w)'
    BY <2>3 DEF WbsSaw, Rolling
  <2> HIDE DEF n, row
  <2>5. CASE n \notin Ids(nodes)
    BY <2>1, <2>3, <2>4, <2>5, WbsAloneReads DEF wbsVars, Unrolled
  <2>6. CASE n \in Ids(nodes)
    <3>1. /\ Ids(nodes') = Ids(nodes)
          /\ nodes'[n] = [nodes[n] EXCEPT !.parent = row.parent, !.weight = row.weight]
          /\ \A m \in Ids(nodes) \ {n} : nodes'[m] = nodes[m]
      BY <2>1, <2>6 DEF Ids
    <3>2. nodes'[n] \in NodeRow
      BY <1>1, <2>2, <2>6, <3>1 DEF Tree, NodeRow
    <3>3. Tree(nodes') /\ call'[w].at \in Unrolled
      BY <1>1, <2>3, <2>6, <3>1, <3>2 DEF Tree, Unrolled
    <3> QED
      BY <1>1, <2>1, <2>3, <2>4, <3>3, WbsAloneFrame
  <2> QED
    BY <2>5, <2>6
<1>7. CASE ProgressWrite(w)
  <2> DEFINE n == saw.node
             pct == saw.pct
             above == saw.above
  <2>1. /\ at = "progress" /\ UNCHANGED projectPct
        /\ IF n \notin Ids(nodes)
             THEN Done(w) /\ UNCHANGED nodes
             ELSE /\ nodes' = [nodes EXCEPT ![n].pct = pct]
                  /\ \/ Step(w, "cascade", [above |-> above]) /\ above # None
                     \/ Step(w, "recompute", Recompute)
    BY <1>7 DEF ProgressWrite, In
  <2>2. pct \in 0 .. Complete
    BY <1>1, <2>1 DEF WbsSaw
  <2>3. Sole(w) /\ (Orderly' => (n \in Ids(nodes) => above = nodes[n].parent))
    <3>1. Sole(w)
      BY <1>1, <2>1, Ends, Steps
    <3> QED
      BY <2>1, <3>1, WbsOne DEF Rolling
  <2> HIDE DEF n, pct, above
  <2>4. CASE n \notin Ids(nodes)
    <3>1. call'[w].at = "none"
      BY <1>1, <2>1, <2>4, Ends
    <3> QED
      BY <2>1, <2>3, <2>4, <3>1, WbsAloneReads DEF wbsVars, Unrolled, WbsSaw, Rolling
  <2>5. CASE n \in Ids(nodes)
    <3>1. \/ call'[w].at = "recompute"
          \/ call'[w].at = "cascade" /\ call'[w].saw.above = above /\ above # None
      BY <1>1, <2>1, <2>5, Steps
    <3>2. \/ call'[w].at = "recompute"
          \/ /\ call'[w].at = "cascade"
             /\ Orderly' => call'[w].saw.above = nodes[n].parent /\ nodes[n].parent # None
      BY <2>3, <2>5, <3>1
    <3> QED
      BY <2>1, <2>2, <2>3, <2>5, <3>2, PercentWritten
  <2> QED
    BY <2>4, <2>5
<1>8. CASE CascadeRead(w)
  <2>1. /\ at = "cascade" /\ UNCHANGED wbsVars
        /\ Step(w, "completeParent", saw) \/ Step(w, "recompute", Recompute)
    BY <1>8 DEF CascadeRead, In
  <2>2. Sole(w) /\ (call'[w].at = "recompute" \/ (call'[w].at = "completeParent" /\ call'[w].saw = saw))
    BY <1>1, <2>1, Steps
  <2>3. Orderly' => Rolling(w)'
    <3>1. Orderly' => saw.above # None /\ \E n \in Ids(nodes) : nodes[n].parent = saw.above
      BY <2>1, <2>2, WbsOne DEF Rolling
    <3> QED
      BY <2>1, <2>2, <3>1 DEF Rolling, wbsVars
  <2> QED
    BY <2>1, <2>2, <2>3, WbsAloneReads DEF WbsSaw, Unrolled
<1>9. CASE CascadeWrite(w)
  <2> DEFINE p == saw.above
  <2>1. /\ at = "completeParent" /\ UNCHANGED projectPct
        /\ IF p \notin Ids(nodes)
             THEN Done(w) /\ UNCHANGED nodes
             ELSE /\ nodes' = [nodes EXCEPT ![p].pct = Complete]
                  /\ \/ Step(w, "cascade", [above |-> nodes[p].parent]) /\ nodes[p].parent # None
                     \/ Step(w, "recompute", Recompute)
    BY <1>9 DEF CascadeWrite, In
  <2>2. CASE p \notin Ids(nodes)
    <3>1. Sole(w) /\ call'[w].at = "none"
      BY <1>1, <2>1, <2>2, Ends
    <3>2. Orderly' => p # None /\ \E n \in Ids(nodes) : nodes[n].parent = p
      BY <2>1, <3>1, WbsOne DEF Rolling
    <3>3. Orderly' => ~WellFormed(nodes)
      BY <2>2, <3>2 DEF WellFormed
    <3> QED
      BY <2>1, <2>2, <3>1, <3>3, WbsAloneReads DEF wbsVars, WbsSaw, Rolling
  <2>3. CASE p \in Ids(nodes)
    <3> HIDE DEF p
    <3>1. /\ Sole(w)
          /\ \/ call'[w].at = "recompute"
             \/ /\ call'[w].at = "cascade" /\ call'[w].saw.above = nodes[p].parent /\ nodes[p].parent # None
      BY <1>1, <2>1, <2>3, Steps
    <3> QED
      BY <1>1, <2>1, <2>3, <3>1, PercentWritten
  <2> QED
    BY <2>2, <2>3
<1>10. CASE RecomputeRead(w)
  <2> DEFINE new == [nodes |-> nodes]
  <2>1. /\ at = "recompute" /\ UNCHANGED wbsVars
        /\ IF Acyclic(nodes) THEN Step(w, "rolled", new) ELSE Done(w)
    BY <1>10 DEF RecomputeRead, In
  <2>2. new.nodes = nodes
    OBVIOUS
  <2> HIDE DEF new
  <2>3. CASE Acyclic(nodes)
    <3>1. Sole(w) /\ call'[w].at = "rolled" /\ call'[w].saw.nodes = nodes
      BY <1>1, <2>1, <2>2, <2>3, Steps
    <3>2. WbsSaw(w)' /\ Rolling(w)'
      BY <1>1, <2>1, <2>3, <3>1 DEF WbsSaw, Rolling, wbsVars
    <3> QED
      BY <2>1, <3>1, <3>2, WbsAloneReads DEF Unrolled
  <2>4. CASE ~Acyclic(nodes)
    <3>1. Sole(w) /\ call'[w].at = "none"
      BY <1>1, <2>1, <2>4, Ends
    <3> QED
      BY <2>1, <2>4, <3>1, WbsAloneReads DEF WellFormed, WbsSaw, Rolling
  <2> QED
    BY <2>3, <2>4
<1>11. CASE RollUpWrite(w)
  <2> DEFINE ns == saw.nodes
             pct == rollUp(ns)
             changed == {n \in Ids(ns) : ~Leaf(ns, n) /\ ns[n].pct # pct[n]}
  <2>1. /\ at = "rolled" /\ UNCHANGED projectPct
        /\ IF changed \subseteq Ids(nodes)
             THEN /\ nodes' = [n \in Ids(nodes) |->
                         IF n \in changed THEN [nodes[n] EXCEPT !.pct = pct[n]] ELSE nodes[n]]
                  /\ Step(w, "project", saw)
             ELSE Done(w) /\ UNCHANGED nodes
    BY <1>11 DEF RollUpWrite, In
  <2>2. Tree(ns) /\ Acyclic(ns)
    BY <1>1, <2>1 DEF WbsSaw
  <2>3. changed \subseteq Ids(ns) /\ \A n \in Ids(ns) : n \in changed <=> ~Leaf(ns, n) /\ ns[n].pct # pct[n]
    OBVIOUS
  <2>4. \A n \in Ids(ns) : pct[n] \in 0 .. Complete
    BY <2>2, RollUpFits, WbsAssumption DEF Tree, NodeRow
  <2>5. \A n \in Ids(ns) : Leaf(ns, n) => pct[n] = ns[n].pct
    BY <2>2, RollUpUnfolds DEF Tree, Percent
  <2>6. Sole(w)
    BY <1>1, <2>1, Steps, Ends
  <2>7. Orderly' => ns = nodes
    BY <2>1, <2>6, WbsOne DEF Rolling
  <2>8. CASE ~(changed \subseteq Ids(nodes))
    <3>1. Sole(w) /\ call'[w].at = "none"
      BY <1>1, <2>1, <2>8, Ends
    <3>2. ~Orderly'
      BY <2>3, <2>7, <2>8
    <3>3. UNCHANGED wbsVars
      BY <2>1, <2>8 DEF wbsVars
    <3> HIDE DEF changed, pct, ns
    <3> QED
      BY <3>1, <3>2, <3>3, WbsAloneReads DEF WbsSaw
  <2>9. CASE changed \subseteq Ids(nodes)
    <3>1. call'[w].at = "project" /\ call'[w].saw = saw
      BY <1>1, <2>1, <2>9, Steps
    <3>2. nodes' = [n \in Ids(nodes) |-> IF n \in changed THEN [nodes[n] EXCEPT !.pct = pct[n]] ELSE nodes[n]]
      BY <2>1, <2>9
    <3> HIDE DEF changed
    <3>3. Ids(nodes') = Ids(nodes)
      BY <3>2 DEF Ids
    <3>4. ASSUME NEW n \in Ids(nodes)
          PROVE  /\ nodes'[n] \in NodeRow
                 /\ nodes'[n].parent = nodes[n].parent /\ nodes'[n].weight = nodes[n].weight
                 /\ nodes'[n].pct = IF n \in changed THEN pct[n] ELSE nodes[n].pct
      <4>1. nodes[n] \in NodeRow /\ (n \in changed => pct[n] \in 0 .. Complete)
        BY <1>1, <2>3, <2>4 DEF Tree
      <4>2. nodes'[n] = IF n \in changed THEN [nodes[n] EXCEPT !.pct = pct[n]] ELSE nodes[n]
        BY <3>2
      <4> HIDE DEF pct
      <4> QED
        BY <4>1, <4>2 DEF NodeRow
    <3>5. Tree(nodes')
      BY <1>1, <3>3, <3>4 DEF Tree
    <3>6. WbsSaw(w)' /\ call'[w].at \in Unrolled
      BY <2>2, <3>1 DEF WbsSaw, Unrolled
    <3>7. Orderly' => Rolling(w)'
      <4> SUFFICES ASSUME Orderly' PROVE Rolling(w)'
        OBVIOUS
      <4>1. ns = nodes
        BY <2>7
      <4>2. \A n \in Ids(nodes) : /\ nodes'[n].parent = nodes[n].parent /\ nodes'[n].weight = nodes[n].weight
                                  /\ Leaf(nodes, n) => nodes'[n].pct = nodes[n].pct
        BY <2>3, <3>4, <4>1
      <4>3. /\ \A n \in Ids(nodes) : rollUp(nodes')[n] = rollUp(nodes)[n]
            /\ projectPercent(nodes', rollUp(nodes')) = projectPercent(nodes, rollUp(nodes))
        BY <1>1, <2>2, <3>3, <4>1, <4>2, RollUpSame DEF Tree
      <4>4. \A n \in Ids(nodes) : nodes'[n].pct = pct[n]
        BY <2>3, <2>5, <3>4, <4>1
      <4>5. Balanced(nodes')
        BY <3>3, <4>1, <4>3, <4>4 DEF Balanced
      <4>6. projectPercent(saw.nodes, rollUp(saw.nodes)) = projectPercent(nodes', rollUp(nodes'))
        BY <4>1, <4>3
      <4> QED
        BY <3>1, <4>5, <4>6 DEF Rolling
    <3> QED
      BY <1>1, <2>1, <2>6, <3>5, <3>6, <3>7, WbsAloneFrame
  <2> QED
    BY <2>8, <2>9
<1>12. CASE ProjectWrite(w)
  <2> DEFINE ns == saw.nodes
  <2>1. /\ at = "project" /\ UNCHANGED nodes /\ Done(w)
        /\ projectPct' = projectPercent(ns, rollUp(ns))
    BY <1>12 DEF ProjectWrite, In
  <2>2. Tree(ns) /\ Acyclic(ns)
    BY <1>1, <2>1 DEF WbsSaw
  <2>3. projectPct' \in 0 .. Complete
    BY <2>1, <2>2, ProjectFits, WbsAssumption DEF Tree, NodeRow
  <2>4. Sole(w) /\ call'[w].at = "none"
    BY <1>1, <2>1, Ends
  <2>5. Orderly' => Rolled'
    <3>1. Orderly' => /\ Balanced(nodes)
                      /\ projectPercent(ns, rollUp(ns)) = projectPercent(nodes, rollUp(nodes))
      BY <2>1, <2>4, WbsOne DEF Rolling
    <3> QED
      BY <2>1, <3>1 DEF Rolled
  <2>6. WbsSaw(w)' /\ Rolling(w)'
    BY <2>4 DEF WbsSaw, Rolling
  <2> QED
    BY <1>1, <2>1, <2>3, <2>4, <2>5, <2>6, WbsAloneFrame
<1>13. CASE at \in WbsCalls /\ Crash(w) /\ UNCHANGED wbsVars
  <2>1. Sole(w) /\ call'[w].at = "none"
    BY <1>1, <1>13, Crashes DEF WbsCalls
  <2>2. ~Orderly'
    BY <1>13 DEF Crash, Stop, Orderly, WbsAlone
  <2> QED
    BY <1>13, <2>1, <2>2, WbsAloneReads DEF WbsSaw
<1> QED
  BY <1>2, <1>3, <1>4, <1>5, <1>6, <1>7, <1>8, <1>9, <1>10, <1>11, <1>12, <1>13 DEF WbsStep

LEMMA WbsIsRolledUp == WbsAlone => RolledUp /\ WbsTypeOK
<1> SUFFICES ASSUME WbsAlone PROVE RolledUp /\ WbsTypeOK
  OBVIOUS
<1>1. WbsTypeOK
  BY DEF WbsAlone, WbsTyped, Tree, NodeRow, WbsTypeOK
<1>2. ASSUME AtRest PROVE Rolled
  <2>1. Orderly /\ \A w \in Workers : call[w].at \notin Unrolled
    BY <1>2 DEF AtRest, AllFree, Free, Unrolled
  <2> QED
    BY <2>1 DEF WbsAlone
<1> QED
  BY <1>1, <1>2 DEF RolledUp, Rolled, Balanced

-----------------------------------------------------------------------------
(* The parts together. *)

\* A part at work has its invariant; an idle one is as it began.
PlatformInv ==
    /\ IF part = "alerts" THEN AlertInv ELSE AlertsInit
    /\ IF part = "sla" THEN SlaInv ELSE SlaInit
    /\ IF part = "sessions" THEN SessionsInv ELSE SessionsInit
    /\ IF part = "pipeline" THEN PipelineInv ELSE PipelineInit
    /\ IF part = "wbs" THEN WbsInv ELSE WbsInit
    /\ IF part = "boards" THEN BoardsInv ELSE BoardsInit
    /\ IF part = "notifications" THEN NotificationsInv ELSE NotificationsInit
    /\ CASE part = "outbox" -> OutboxInv [] part = "drafts" -> DraftsInv [] OTHER -> SyncInit
    /\ part # "outbox" => \A w \in Workers : call[w].at # "remove"

\* No part has begun, and the one at work may be any.
LEMMA PlatformStart == PlatformInit => PlatformInv
<1> SUFFICES ASSUME PlatformInit PROVE PlatformInv
  OBVIOUS
<1>1. \A w \in Workers : call[w].at # "remove"
  BY CallsBegin DEF PlatformInit
<1> QED
  BY <1>1, AlertsStart, SlaStart, SessionsStart, PipelineStart, WbsStart, BoardsStart,
     NotificationsStart, OutboxStart, DraftsStart DEF PlatformInit, PlatformInv

\* The tables of an idle part are as they began.
LEMMA IdlePartsStay ==
    /\ AlertsInit /\ UNCHANGED alertVars => AlertsInit'
    /\ SlaInit /\ UNCHANGED slaVars => SlaInit'
    /\ SessionsInit /\ UNCHANGED sessionVars => SessionsInit'
    /\ PipelineInit /\ UNCHANGED pipelineVars => PipelineInit'
    /\ WbsInit /\ UNCHANGED wbsVars => WbsInit'
    /\ BoardsInit /\ UNCHANGED boardVars => BoardsInit'
    /\ NotificationsInit /\ UNCHANGED notificationVars => NotificationsInit'
    /\ SyncInit /\ UNCHANGED syncVars => SyncInit'
<1>1. AlertsInit /\ UNCHANGED alertVars => AlertsInit'
  BY DEF AlertsInit, alertVars
<1>2. SlaInit /\ UNCHANGED slaVars => SlaInit'
  BY DEF SlaInit, slaVars
<1>3. SessionsInit /\ UNCHANGED sessionVars => SessionsInit'
  BY DEF SessionsInit, sessionVars
<1>4. PipelineInit /\ UNCHANGED pipelineVars => PipelineInit'
  BY DEF PipelineInit, pipelineVars
<1>5. WbsInit /\ UNCHANGED wbsVars => WbsInit'
  BY DEF WbsInit, wbsVars
<1>6. BoardsInit /\ UNCHANGED boardVars => BoardsInit'
  BY DEF BoardsInit, boardVars
<1>7. NotificationsInit /\ UNCHANGED notificationVars => NotificationsInit'
  BY DEF NotificationsInit, notificationVars
<1>8. SyncInit /\ UNCHANGED syncVars => SyncInit'
  BY DEF SyncInit, syncVars, outboxVars, draftVars
<1> QED
  BY <1>1, <1>2, <1>3, <1>4, <1>5, <1>6, <1>7, <1>8

\* Nor does anything become of a part while nothing happens.
LEMMA PlatformRests == PlatformInv /\ UNCHANGED vars => PlatformInv'
<1> SUFFICES ASSUME PlatformInv, UNCHANGED vars PROVE PlatformInv'
  OBVIOUS
<1> USE DEF handlerVars, outcomeVars
<1>1. /\ UNCHANGED <<part, handlerVars>>
      /\ UNCHANGED <<alertVars, slaVars, sessionVars, pipelineVars, wbsVars, boardVars, notificationVars, syncVars>>
  BY DEF vars
<1>2. UNCHANGED <<call, overlapped, failures, status>>
  BY <1>1
<1>3. Calls => Calls'
  BY <1>2 DEF Calls
<1>4. AlertInv => AlertInv'
  BY <1>1, <1>2, <1>3
     DEF AlertInv, AlertsTypeOK, AlertSound, AlertCall, OneSender, Sending, alertVars
<1>5. SlaInv => SlaInv'
  BY <1>1, <1>2, <1>3 DEF SlaInv, SlaTypeOK, StampsAreFounded, SlaCall, Told, slaVars
<1>6. SessionsInv => SessionsInv'
  BY <1>1, <1>2, <1>3 DEF SessionsInv, MutexHolds, InRefresh, sessionVars
<1>7. PipelineInv => PipelineInv'
  BY <1>1, <1>2, <1>3 DEF PipelineInv, PipelineTypeOK, LinksAreFounded, PipelineCall, pipelineVars
<1>8. WbsInv => WbsInv'
  BY <1>1, <1>2, <1>3 DEF WbsInv, NodesApart, WbsCall, Leaf, wbsVars
<1>9. BoardsInv => BoardsInv'
  BY <1>1, <1>2, <1>3
     DEF BoardsInv, BoardsTypeOK, CardsStayHome, BoardCall, There, Board, Sees, On, boardVars
<1>10. NotificationsInv => NotificationsInv'
  BY <1>1, <1>2, <1>3
     DEF NotificationsInv, SendsAreFounded, Notices, Rows, NoticeRow, NoticeCall, Sought, HasRow, notificationVars
<1>11. OutboxInv => OutboxInv'
  BY <1>1, <1>2, <1>3
     DEF OutboxInv, OutboxRows, CreatedOnce, Clean, Handled, OutboxCall, HasIt, syncVars, outboxVars
<1>12. DraftsInv => DraftsInv'
  BY <1>1, <1>2, <1>3 DEF DraftsInv, syncVars, outboxVars
<1> QED
  BY <1>1, <1>2, <1>4, <1>5, <1>6, <1>7, <1>8, <1>9, <1>10, <1>11, <1>12, IdlePartsStay DEF PlatformInv

\* A step of a part keeps its invariant, and leaves the other parts alone.
LEMMA PlatformGoesOn == PlatformInv /\ PlatformNext => PlatformInv'
<1> SUFFICES ASSUME PlatformInv, PlatformNext PROVE PlatformInv'
  OBVIOUS
<1> USE IdlePartsStay DEF PlatformInv
<1>1. CASE AlertsPart
  <2>1. /\ AlertInv' /\ part' = part /\ part = "alerts"
        /\ UNCHANGED <<slaVars, sessionVars, pipelineVars, wbsVars, boardVars, notificationVars, syncVars>>
    BY <1>1, AlertsGoOn DEF AlertsPart
  <2>2. \A w \in Workers : call'[w].at # "remove"
    BY <2>1 DEF AlertInv, AlertCall, AlertCalls
  <2> QED
    BY <2>1, <2>2
<1>2. CASE SlaPart
  <2>1. /\ SlaInv' /\ part' = part /\ part = "sla"
        /\ UNCHANGED <<alertVars, sessionVars, pipelineVars, wbsVars, boardVars, notificationVars, syncVars>>
    BY <1>2, SlaGoesOn DEF SlaPart
  <2>2. \A w \in Workers : call'[w].at # "remove"
    BY <2>1 DEF SlaInv, SlaCall, SlaCalls
  <2> QED
    BY <2>1, <2>2
<1>3. CASE SessionsPart
  <2>1. /\ SessionsInv' /\ part' = part /\ part = "sessions"
        /\ UNCHANGED <<alertVars, slaVars, pipelineVars, wbsVars, boardVars, notificationVars, syncVars>>
    BY <1>3, SessionsGoOn DEF SessionsPart
  <2>2. \A w \in Workers : call'[w].at # "remove"
    BY <2>1 DEF SessionsInv, SessionCalls, Refreshing, SigningOut
  <2> QED
    BY <2>1, <2>2
<1>4. CASE PipelinePart
  <2>1. /\ PipelineInv' /\ part' = part /\ part = "pipeline"
        /\ UNCHANGED <<alertVars, slaVars, sessionVars, wbsVars, boardVars, notificationVars, syncVars>>
    BY <1>4, PipelineGoesOn DEF PipelinePart
  <2>2. \A w \in Workers : call'[w].at # "remove"
    BY <2>1 DEF PipelineInv, PipelineCall, PipelineCalls
  <2> QED
    BY <2>1, <2>2
<1>5. CASE WbsPart
  <2>1. /\ WbsInv' /\ part' = part /\ part = "wbs"
        /\ UNCHANGED <<alertVars, slaVars, sessionVars, pipelineVars, boardVars, notificationVars, syncVars>>
    BY <1>5, WbsGoesOn DEF WbsPart
  <2>2. \A w \in Workers : call'[w].at # "remove"
    BY <2>1 DEF WbsInv, WbsCall, WbsCalls
  <2> QED
    BY <2>1, <2>2
<1>6. CASE BoardsPart
  <2>1. /\ BoardsInv' /\ part' = part /\ part = "boards"
        /\ UNCHANGED <<alertVars, slaVars, sessionVars, pipelineVars, wbsVars, notificationVars, syncVars>>
    BY <1>6, BoardsGoOn DEF BoardsPart
  <2>2. \A w \in Workers : call'[w].at # "remove"
    BY <2>1 DEF BoardsInv, BoardCall, BoardCalls
  <2> QED
    BY <2>1, <2>2
<1>7. CASE NotificationsPart
  <2>1. /\ NotificationsInv' /\ part' = part /\ part = "notifications"
        /\ UNCHANGED <<alertVars, slaVars, sessionVars, pipelineVars, wbsVars, boardVars, syncVars>>
    BY <1>7, NotificationsGoOn DEF NotificationsPart
  <2>2. \A w \in Workers : call'[w].at # "remove"
    BY <2>1 DEF NotificationsInv, NoticeCall, NotificationCalls
  <2> QED
    BY <2>1, <2>2
<1>8. CASE OutboxPart
  <2>1. /\ OutboxInv' /\ part' = part /\ part = "outbox"
        /\ UNCHANGED <<alertVars, slaVars, sessionVars, pipelineVars, wbsVars, boardVars, notificationVars>>
    BY <1>8, OutboxGoesOn DEF OutboxPart
  <2> QED
    BY <2>1
<1>9. CASE DraftsPart
  <2>1. /\ DraftsInv' /\ part' = part /\ part = "drafts"
        /\ UNCHANGED <<alertVars, slaVars, sessionVars, pipelineVars, wbsVars, boardVars, notificationVars>>
    BY <1>9, DraftsGoOn DEF DraftsPart
  <2>2. \A w \in Workers : call'[w].at # "remove"
    BY <2>1 DEF DraftsInv, DraftCalls
  <2> QED
    BY <2>1, <2>2
<1> QED
  BY <1>1, <1>2, <1>3, <1>4, <1>5, <1>6, <1>7, <1>8, <1>9 DEF PlatformNext

LEMMA PlatformIsSound == PlatformInv => PlatformAuthorised
<1> SUFFICES ASSUME PlatformInv PROVE PlatformAuthorised
  OBVIOUS
<1> USE DEF PlatformInv
<1>1. AlertsAuthorised
  BY DEF AlertInv, AlertSound, AlertsInit, AlertsAuthorised
<1>2. StampsAreFounded
  BY DEF SlaInv, SlaInit, StampsAreFounded
<1>3. MutexHolds
  BY DEF SessionsInv, SessionsInit, MutexHolds, ToSet
<1>4. LinksAreFounded
  BY DEF PipelineInv, PipelineInit, LinksAreFounded
<1>5. NodesApart
  BY DEF WbsInv, WbsInit, NodesApart, Ids
<1>6. CardsStayHome
  BY BoardsAssumption DEF BoardsInv, BoardsInit, CardsStayHome, There
<1>7. SendsAreFounded
  BY DEF NotificationsInv, NotificationsInit, SendsAreFounded
<1>8. NothingDropped
  <2>1. CASE part = "outbox"
    BY <2>1, OutboxIsKept
  <2>2. CASE part # "outbox"
    <3>1. sentOn = {} /\ created = [i \in Items |-> 0]
      BY <2>2 DEF DraftsInv, SyncInit
    <3> QED
      BY <2>2, <3>1 DEF NothingDropped, In
  <2> QED
    BY <2>1, <2>2
<1> QED
  BY <1>1, <1>2, <1>3, <1>4, <1>5, <1>6, <1>7, <1>8 DEF PlatformAuthorised

LEMMA PlatformUndoesNothing ==
    PlatformInv /\ PlatformNext =>
        /\ AlertsKept /\ StampsAreKept /\ RevokedForGood /\ PipelineKept
        /\ LeavesKept /\ BoardsKept /\ ReadStays /\ LeavesWithCause
<1> SUFFICES ASSUME PlatformInv, PlatformNext
             PROVE  /\ AlertsKept /\ StampsAreKept /\ RevokedForGood /\ PipelineKept
                    /\ LeavesKept /\ BoardsKept /\ ReadStays /\ LeavesWithCause
  OBVIOUS
<1>1. AlertsPart \/ UNCHANGED alertVars
  BY DEF PlatformNext, SlaPart, SessionsPart, PipelinePart, WbsPart, BoardsPart, NotificationsPart,
         OutboxPart, DraftsPart
<1>2. SlaPart \/ UNCHANGED slaVars
  BY DEF PlatformNext, AlertsPart, SessionsPart, PipelinePart, WbsPart, BoardsPart, NotificationsPart,
         OutboxPart, DraftsPart
<1>3. SessionsPart \/ UNCHANGED sessionVars
  BY DEF PlatformNext, AlertsPart, SlaPart, PipelinePart, WbsPart, BoardsPart, NotificationsPart,
         OutboxPart, DraftsPart
<1>4. PipelinePart \/ UNCHANGED pipelineVars
  BY DEF PlatformNext, AlertsPart, SlaPart, SessionsPart, WbsPart, BoardsPart, NotificationsPart,
         OutboxPart, DraftsPart
<1>5. WbsPart \/ UNCHANGED wbsVars
  BY DEF PlatformNext, AlertsPart, SlaPart, SessionsPart, PipelinePart, BoardsPart, NotificationsPart,
         OutboxPart, DraftsPart
<1>6. BoardsPart \/ UNCHANGED boardVars
  BY DEF PlatformNext, AlertsPart, SlaPart, SessionsPart, PipelinePart, WbsPart, NotificationsPart,
         OutboxPart, DraftsPart
<1>7. NotificationsPart \/ UNCHANGED notificationVars
  BY DEF PlatformNext, AlertsPart, SlaPart, SessionsPart, PipelinePart, WbsPart, BoardsPart,
         OutboxPart, DraftsPart
<1>8. OutboxPart \/ DraftsPart \/ UNCHANGED syncVars
  BY DEF PlatformNext, AlertsPart, SlaPart, SessionsPart, PipelinePart, WbsPart, BoardsPart,
         NotificationsPart
<1> USE DEF PlatformInv
<1>11. AlertsKept
  BY <1>1, AlertsAreKept DEF AlertsPart, AlertsKept, alertVars
<1>12. StampsAreKept
  BY <1>2, SlaGoesOn DEF SlaPart, StampsAreKept, slaVars
<1>13. RevokedForGood
  BY <1>3, SessionsGoOn DEF SessionsPart, RevokedForGood, sessionVars
<1>14. PipelineKept
  BY <1>4, PipelineGoesOn DEF PipelinePart, PipelineKept, pipelineVars
<1>15. LeavesKept
  BY <1>5, WbsGoesOn DEF WbsPart, LeavesKept, wbsVars
<1>16. BoardsKept
  BY <1>6, BoardsGoOn DEF BoardsPart, BoardsKept, boardVars
<1>17. ReadStays
  BY <1>7, NotificationsGoOn DEF NotificationsPart, ReadStays, notificationVars
<1>18. LeavesWithCause
  <2>1. CASE UNCHANGED syncVars
    BY <2>1 DEF LeavesWithCause, syncVars, outboxVars
  <2> QED
    BY <2>1, <1>8, OutboxGoesOn, DraftsGoOn DEF OutboxPart, DraftsPart
<1> QED
  BY <1>11, <1>12, <1>13, <1>14, <1>15, <1>16, <1>17, <1>18

\* The invariant, in every state of every behaviour.
LEMMA PlatformIsInvariant == Spec => []PlatformInv
<1>1. PlatformInv /\ [PlatformNext]_vars => PlatformInv'
  BY PlatformGoesOn, PlatformRests
<1> QED
  BY <1>1, PlatformStart, PTL DEF Spec

\* However requests overlap and fail, what the services store has its cause:
\* nobody is told twice of an alert that was never grave, no stamp is set
\* without its notice, the client's mutex is held by a refresh that goes on, a
\* link has its record, no node is its own parent, a card stays on its board,
\* nobody is told outside the app of what is not in it, and a queued request is
\* removed only when the server has all of it (PlatformAuthorised).
THEOREM PlatformIsAuthorised == Spec => []PlatformAuthorised
BY PlatformIsInvariant, PlatformIsSound, PTL

\* No step undoes what is final (an acknowledgement, a stamp, a revoked token, a
\* deal that is won, what was read), or does what nobody was allowed to ask for
\* (PlatformKept).
THEOREM PlatformKeeps == Spec => PlatformKept
BY PlatformIsInvariant, PlatformUndoesNothing, PTL DEF Spec, PlatformKept

-----------------------------------------------------------------------------
(* The parts together, one request at a time and none failed. *)

\* A part at work has what it promises then as well; what an idle one promises
\* follows from how it began.
PlatformAlone ==
    /\ part \in Parts
    /\ part = "alerts" => AlertsAlone
    /\ part = "sla" => SlaAlone
    /\ part = "sessions" => SessionsAlone
    /\ part = "pipeline" => PipelineAlone
    /\ part = "wbs" => WbsAlone
    /\ part = "notifications" => NotificationsAlone
    /\ part = "outbox" => OutboxTyped
    /\ part = "drafts" => DraftsAlone
    /\ part # "sessions" => \A w \in Workers : call[w].at # "refused"

LEMMA PlatformAloneStart == PlatformInit => PlatformAlone
<1> SUFFICES ASSUME PlatformInit PROVE PlatformAlone
  OBVIOUS
<1>1. \A w \in Workers : call[w].at # "refused"
  BY CallsBegin DEF PlatformInit
<1> QED
  BY <1>1, AlertsAloneStart, SlaAloneStart, SessionsAloneStart, PipelineAloneStart, WbsAloneStart,
     NotificationsAloneStart, OutboxTypedStart, DraftsAloneStart DEF PlatformInit, PlatformAlone

LEMMA PlatformAloneRests == PlatformAlone /\ UNCHANGED vars => PlatformAlone'
<1> SUFFICES ASSUME PlatformAlone, UNCHANGED vars PROVE PlatformAlone'
  OBVIOUS
<1> USE DEF handlerVars, outcomeVars
<1>1. /\ UNCHANGED <<part, handlerVars>>
      /\ UNCHANGED <<alertVars, slaVars, sessionVars, pipelineVars, wbsVars, boardVars, notificationVars, syncVars>>
  BY DEF vars
<1>2. UNCHANGED <<call, overlapped, failures>> /\ Orderly' = Orderly
  BY <1>1 DEF Orderly
<1>3. AlertsAlone => AlertsAlone'
  BY <1>1, <1>2
     DEF AlertsAlone, OneActive, EachSent, EachCleared, FreshCall, Clearing, Sending, Active, alertVars
<1>4. SlaAlone => SlaAlone'
  BY <1>1, <1>2 DEF SlaAlone, NoticesStamped, ClocksStarted, NoticeIsDue, StampingFor, slaVars
<1>5. SessionsAlone => SessionsAlone'
  BY <1>1, <1>2 DEF SessionsAlone, SessionsTyped, TokensKept, SawTokens, Tokens, Own, Live, TokensAt, Changing, sessionVars
<1>6. PipelineAlone => PipelineAlone'
  BY <1>1, <1>2 DEF PipelineAlone, Made, DealMade, pipelineVars
<1>7. WbsAlone => WbsAlone'
  <2>1. UNCHANGED <<nodes, projectPct>>
    BY <1>1 DEF wbsVars
  <2>2. WbsTyped => WbsTyped'
    BY <1>2, <2>1 DEF WbsTyped, WbsSaw, Tree, Ids
  <2>3. Rolled => Rolled'
    BY <1>2, <2>1 DEF Rolled, Balanced, Ids
  <2>4. ASSUME NEW w \in Workers, Rolling(w) PROVE Rolling(w)'
    BY <1>2, <2>1, <2>4 DEF Rolling, Balanced, Ids
  <2> QED
    BY <1>2, <2>2, <2>3, <2>4 DEF WbsAlone
<1>8. NotificationsAlone => NotificationsAlone'
  BY <1>1, <1>2
     DEF NotificationsAlone, OneRow, EachRow, EachTold, Telling, StillOpen, For, Used, Notices, notificationVars
<1>9. OutboxTyped => OutboxTyped'
  BY <1>1, <1>2 DEF OutboxTyped, syncVars, outboxVars, draftVars
<1>10. DraftsAlone => DraftsAlone'
  BY <1>1, <1>2 DEF DraftsAlone, Settled, Sends, syncVars, outboxVars, draftVars
<1> QED
  BY <1>1, <1>2, <1>3, <1>4, <1>5, <1>6, <1>7, <1>8, <1>9, <1>10 DEF PlatformAlone

\* A step is one of the part at work, and only a request of the client is ever
\* at "refused".
LEMMA PlatformAloneGoesOn == PlatformInv /\ PlatformAlone /\ PlatformNext => PlatformAlone'
<1> SUFFICES ASSUME PlatformInv, PlatformAlone, PlatformNext PROVE PlatformAlone'
  OBVIOUS
<1> USE DEF PlatformInv, PlatformAlone
<1>1. CASE AlertsPart
  <2>1. AlertsAlone' /\ AlertInv' /\ part' = part /\ part = "alerts"
    BY <1>1, AlertsAloneGoOn, AlertsGoOn DEF AlertsPart
  <2>2. \A w \in Workers : call'[w].at # "refused"
    BY <2>1 DEF AlertInv, AlertCall, AlertCalls
  <2> QED
    BY <2>1, <2>2
<1>2. CASE SlaPart
  <2>1. SlaAlone' /\ SlaInv' /\ part' = part /\ part = "sla"
    BY <1>2, SlaAloneGoOn, SlaGoesOn DEF SlaPart
  <2>2. \A w \in Workers : call'[w].at # "refused"
    BY <2>1 DEF SlaInv, SlaCall, SlaCalls
  <2> QED
    BY <2>1, <2>2
<1>3. CASE SessionsPart
  <2>1. SessionsAlone' /\ part' = part /\ part = "sessions"
    BY <1>3, SessionsAloneGoOn DEF SessionsPart
  <2> QED
    BY <2>1
<1>4. CASE PipelinePart
  <2>1. PipelineAlone' /\ PipelineInv' /\ part' = part /\ part = "pipeline"
    BY <1>4, PipelineAloneGoOn, PipelineGoesOn DEF PipelinePart
  <2>2. \A w \in Workers : call'[w].at # "refused"
    BY <2>1 DEF PipelineInv, PipelineCall, PipelineCalls
  <2> QED
    BY <2>1, <2>2
<1>5. CASE WbsPart
  <2>1. WbsAlone' /\ WbsInv' /\ part' = part /\ part = "wbs"
    BY <1>5, WbsAloneGoesOn, WbsGoesOn DEF WbsPart
  <2>2. \A w \in Workers : call'[w].at # "refused"
    BY <2>1 DEF WbsInv, WbsCall, WbsCalls
  <2> QED
    BY <2>1, <2>2
<1>6. CASE BoardsPart
  <2>1. BoardsInv' /\ part' = part /\ part = "boards"
    BY <1>6, BoardsGoOn DEF BoardsPart
  <2>2. \A w \in Workers : call'[w].at # "refused"
    BY <2>1 DEF BoardsInv, BoardCall, BoardCalls
  <2> QED
    BY <2>1, <2>2
<1>7. CASE NotificationsPart
  <2>1. NotificationsAlone' /\ NotificationsInv' /\ part' = part /\ part = "notifications"
    BY <1>7, NotificationsAloneGoOn, NotificationsGoOn DEF NotificationsPart
  <2>2. \A w \in Workers : call'[w].at # "refused"
    BY <2>1 DEF NotificationsInv, NoticeCall, NotificationCalls
  <2> QED
    BY <2>1, <2>2
<1>8. CASE OutboxPart
  <2>1. OutboxTyped' /\ OutboxInv' /\ part' = part /\ part = "outbox"
    BY <1>8, OutboxStaysTyped, OutboxGoesOn DEF OutboxPart
  <2>2. \A w \in Workers : call'[w].at # "refused"
    BY <2>1 DEF OutboxInv, OutboxCall, OutboxCalls
  <2> QED
    BY <2>1, <2>2
<1>9. CASE DraftsPart
  <2>1. DraftsAlone' /\ DraftsInv' /\ part' = part /\ part = "drafts"
    BY <1>9, DraftsAloneGoOn, DraftsGoOn DEF DraftsPart
  <2>2. \A w \in Workers : call'[w].at # "refused"
    BY <2>1 DEF DraftsInv, DraftCalls
  <2> QED
    BY <2>1, <2>2
<1> QED
  BY <1>1, <1>2, <1>3, <1>4, <1>5, <1>6, <1>7, <1>8, <1>9 DEF PlatformNext

\* What two places say agrees, in the part at work and in the idle ones.
LEMMA PlatformDoesAgree == PlatformInv /\ PlatformAlone => PlatformAgrees
<1> SUFFICES ASSUME PlatformInv, PlatformAlone PROVE PlatformAgrees
  OBVIOUS
<1> USE DEF PlatformInv, PlatformAlone
<1>1. AlertsAgree
  BY AlertsDoAgree DEF AlertsInit, AlertsAgree
<1>2. TimersFireOnce
  BY TimersDoFireOnce DEF SlaInit, TimersFireOnce
<1>3. SessionKept
  <2>1. CASE part # "sessions"
    <3>1. {t \in DOMAIN tokens : tokens[t] = "live"} = {} /\ held = None
      BY <2>1 DEF SessionsInit
    <3> QED
      BY <2>1, <3>1 DEF SessionKept, In
  <2> QED
    BY <2>1, SessionIsKept
<1>4. PipelineAgrees
  <2>1. CASE part # "pipeline"
    <3>1. /\ links = {} /\ linked = FALSE /\ deals = 0
          /\ records["ORDER"] = 0 /\ records["CONTRACT"] = 0
      BY <2>1 DEF PipelineInit, Targets
    <3> QED
      BY <3>1, FS_EmptySet DEF PipelineAgrees
  <2> QED
    BY <2>1, PipelineDoesAgree
<1>5. RolledUp
  BY WbsIsRolledUp, NothingToRollUp DEF RolledUp, Rolled, Balanced
<1>6. EverybodyTold
  <2>1. CASE part # "notifications"
    <3>1. Notices = {}
      BY <2>1 DEF NotificationsInit, Notices
    <3> QED
      BY <3>1 DEF EverybodyTold
  <2> QED
    BY <2>1, EverybodyIsTold
<1>7. EditsAreKept
  <2>1. CASE part \notin {"outbox", "drafts"}
    BY <2>1 DEF SyncInit, EditsAreKept
  <2> QED
    BY <2>1, OutboxIsTyped, DraftsAreKept
<1> QED
  BY <1>1, <1>2, <1>3, <1>4, <1>5, <1>6, <1>7 DEF PlatformAgrees

LEMMA PlatformIsTyped == PlatformInv /\ PlatformAlone => PlatformTypeOK
<1> SUFFICES ASSUME PlatformInv, PlatformAlone PROVE PlatformTypeOK
  OBVIOUS
<1> USE DEF PlatformInv, PlatformAlone
<1>1. AlertsTypeOK
  <2>1. ASSUME AlertsInit PROVE AlertsTypeOK
    <3>1. \A S : alerts \in Seq(S)
      BY <2>1 DEF AlertsInit
    <3> QED
      BY <2>1, <3>1, Zenon DEF AlertsInit, AlertsTypeOK
  <2> QED
    BY <2>1 DEF AlertInv
<1>2. SlaTypeOK
  <2>1. SlaInit => SlaTypeOK
    BY DEF SlaInit, SlaTypeOK, T2
  <2> QED
    BY <2>1 DEF SlaInv
<1>3. SessionsTypeOK
  <2>1. ASSUME SessionsInit PROVE SessionsTypeOK
    <3>1. \A S : tokens \in Seq(S) /\ waiters \in Seq(S)
      BY <2>1 DEF SessionsInit
    <3> QED
      BY <2>1, <3>1, Zenon DEF SessionsInit, SessionsTypeOK
  <2> QED
    BY <2>1, SessionIsKept
<1>4. PipelineTypeOK
  <2>1. ASSUME PipelineInit PROVE PipelineTypeOK
    <3>1. "NEW" \in LeadStatuses
      BY DEF LeadStatuses, STATUS_TRANSITIONS
    <3> QED
      BY <2>1, <3>1 DEF PipelineInit, PipelineTypeOK
  <2> QED
    BY <2>1 DEF PipelineInv
<1>5. WbsTypeOK
  BY WbsIsRolledUp, NothingToRollUp DEF WbsTypeOK
<1>6. BoardsTypeOK
  BY BoardsAssumption DEF BoardsInv, BoardsInit, BoardsTypeOK
<1>7. NotificationsTypeOK
  BY EverybodyIsTold DEF NotificationsInit, NotificationsTypeOK, Notices
<1>8. SyncTypeOK
  <2>1. ASSUME SyncInit PROVE SyncTypeOK
    <3>1. ToSet(outbox) = {}
      BY <2>1 DEF SyncInit, ToSet
    <3>2. edits \in Kept
      BY <2>1, SyncAssumption DEF SyncInit, Kept
    <3>3. created \in [Items -> Nat] /\ sentOn = {}
      BY <2>1 DEF SyncInit
    <3> QED
      BY <2>1, <3>1, <3>2, <3>3, OutboxTypedStart DEF OutboxTyped, SyncTypeOK, Kept
  <2> QED
    BY <2>1, OutboxIsTyped, DraftsAreKept
<1> QED
  BY <1>1, <1>2, <1>3, <1>4, <1>5, <1>6, <1>7, <1>8 DEF PlatformTypeOK, PlatformAlone

LEMMA PlatformAloneIsInvariant == Spec => [](PlatformInv /\ PlatformAlone)
<1>1. PlatformInit => PlatformInv /\ PlatformAlone
  BY PlatformStart, PlatformAloneStart
<1>2. PlatformInv /\ PlatformAlone /\ [PlatformNext]_vars => PlatformInv' /\ PlatformAlone'
  BY PlatformGoesOn, PlatformRests, PlatformAloneGoesOn, PlatformAloneRests
<1> QED
  BY <1>1, <1>2, PTL DEF Spec

\* Every variable of the services keeps its type (PlatformTypeOK).
THEOREM PlatformTypeCorrect == Spec => []PlatformTypeOK
BY PlatformAloneIsInvariant, PlatformIsTyped, PTL

\* While requests come one at a time and none fails, what is said in two places
\* agrees: an alert has one active row and is sent, a reminder goes out once and
\* when it is due, a won deal has one record, the percents of a project are what
\* its leaves add up to, and everybody a notice is for has it once, on the
\* channels they want.  While no refresh or sign-out runs beside another, no
\* refresh is refused and the stored token is the only live one.  And an edit on
\* the device is stored, still a draft or refused, even if answers are lost
\* (PlatformAgrees).
THEOREM PlatformAgreesAlone == Spec => []PlatformAgrees
BY PlatformAloneIsInvariant, PlatformDoesAgree, PTL

=============================================================================
