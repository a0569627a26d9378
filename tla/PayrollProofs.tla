--------------------------- MODULE PayrollProofs ---------------------------
(***************************************************************************)
(* Proofs about Payroll, for any number of workers, chains, extra earnings *)
(* and failures: its invariant IInv is inductive.  What a handler checked  *)
(* stays true because approvals are never taken back, a chain never        *)
(* changes what it is about, and a run and its lines never go away; so it  *)
(* is enough to look at the worker that moves.  Served one request at a    *)
(* time, SerialInv is inductive too: a handler then finds the period and   *)
(* the run as it checked them, and the ledger lacks only what the callback *)
(* has still to post.                                                      *)
(***************************************************************************)
EXTENDS Payroll, TLAPS

\* All that a step of a timesheet handler cannot touch.
payrollRest == <<failures, postable, PayrollRest>>

\* Only w moved, and what the others rely on did not go away.
OnlyWorker(w) ==
    /\ Granted("period") => Granted("period")'
    /\ Granted("run") => Granted("run")'
    /\ entries' >= entries
    /\ run # "NONE" => run' # "NONE"
    /\ Computed => Computed'
    /\ \A c \in Chains : subject[c] # "none" => subject'[c] # "none"
    /\ \A x \in Workers \ {w} : UNCHANGED <<call[x], task[x]>>

LEMMA FoundedByWorker ==
    ASSUME IInv, NEW w \in Workers, OnlyWorker(w), entries' \in Nat, HandlerFounded(w)'
    PROVE  HandlersFounded'
<1> SUFFICES ASSUME NEW x \in Workers \ {w} PROVE HandlerFounded(x)'
  BY DEF HandlersFounded
<1>1. HandlerFounded(x) /\ entries \in Nat
  BY DEF IInv, HandlersFounded, TypeOK
<1>2. UNCHANGED <<call[x], task[x]>>
  BY DEF OnlyWorker
<1>3. 1 .. entries \subseteq 1 .. entries'
  BY <1>1 DEF OnlyWorker
<1>4. entries > 0 => entries' > 0
  BY <1>1 DEF OnlyWorker
<1>5. Founded(call[x].at, call[x].saw)'
  BY <1>1, <1>2, <1>3, <1>4 DEF HandlerFounded, OnlyWorker, Founded
<1> QED
  BY <1>1, <1>2, <1>5 DEF HandlerFounded, OnlyWorker

\* A step that moves w's handler to another place.
LEMMA CallMoves ==
    ASSUME TypeOK, NEW w \in Workers, NEW p, NEW s, Go(w, p, s)
    PROVE  /\ DOMAIN call' = Workers
           /\ call'[w] = [at |-> p, saw |-> s]
           /\ \A x \in Workers \ {w} : call'[x] = call[x]
  BY DEF TypeOK, Go

-----------------------------------------------------------------------------
(* Steps that only look at the database. *)

LEMMA LookKeeps ==
    ASSUME IInv, NEW w \in Workers, NEW p, NEW s, Go(w, p, s), Founded(p, s),
           UNCHANGED <<outcomeVars, timesheetVars, payrollVars, failures, postable>>
    PROVE  IInv'
<1> USE DEF outcomeVars, timesheetVars, payrollVars
<1>1. /\ DOMAIN call' = Workers
      /\ call'[w] = [at |-> p, saw |-> s]
      /\ \A x \in Workers \ {w} : call'[x] = call[x]
  BY CallMoves DEF IInv
<1>2. TypeOK'
  BY <1>1 DEF IInv, TypeOK
<1>3. WagesAreFounded' /\ ExtrasAreTaken'
  BY DEF IInv, WagesAreFounded, ExtrasAreTaken, Granted, Asked, Computed
<1>4. OnlyWorker(w) /\ entries' \in Nat
  BY <1>1 DEF IInv, TypeOK, OnlyWorker, Granted, Computed
<1>5. HandlerFounded(w)'
  BY <1>1 DEF IInv, HandlersFounded, HandlerFounded, Founded, Granted, Computed
<1> QED
  BY <1>2, <1>3, <1>4, <1>5, FoundedByWorker DEF IInv

LEMMA TimesheetLooks ==
    ASSUME IInv, NEW w \in Workers, UNCHANGED payrollRest,
           \/ UpsertRead(w) \/ SubmitPeriodRead(w) \/ MarkRead(w) \/ LockRead(w)
           \/ (\E force \in BOOLEAN : ReopenRead(w, force)) \/ ReopenCheck(w)
    PROVE  IInv'
<1>1. PICK p \in {"none", "upsert", "askSite", "siteWrite", "lock", "reopen", "reopenForced", "unlock"} :
         /\ Go(w, p, None)
         /\ p = "askSite" => entries > 0
         /\ p \in {"siteWrite", "lock", "reopen", "reopenForced", "unlock"} => Granted("period")
  BY DEF UpsertRead, SubmitPeriodRead, MarkRead, LockRead, ReopenRead, ReopenCheck, In, Leave, Go,
         NoCall, Consumable, IInv, WagesAreFounded, HandlersFounded, HandlerFounded, Founded
<1>2. UNCHANGED <<outcomeVars, timesheetVars, payrollVars, failures, postable>>
  BY DEF UpsertRead, SubmitPeriodRead, MarkRead, LockRead, ReopenRead, ReopenCheck, payrollVars,
         payrollRest, PayrollRest
<1>3. Founded(p, None)
  BY <1>1 DEF Founded
<1> QED
  BY <1>1, <1>2, <1>3, LookKeeps

LEMMA PayrollLooks ==
    ASSUME IInv, NEW w \in Workers, UNCHANGED <<failures, postable>>,
           \/ OpenRead(w) \/ ComputeRead(w) \/ ComputePeriod(w) \/ ComputeEarnings(w)
           \/ SubmitRunRead(w) \/ ApproveRead(w) \/ PostCost(w)
    PROVE  IInv'
<1>1. UNCHANGED <<outcomeVars, timesheetVars, payrollVars>>
  BY DEF OpenRead, ComputeRead, ComputePeriod, ComputeEarnings, SubmitRunRead, ApproveRead, PostCost
<1>2. Founded(call[w].at, call[w].saw)
  BY DEF IInv, HandlersFounded, HandlerFounded
<1>3. Founded("none", None)
  BY DEF Founded
<1>4. CASE OpenRead(w)
  BY <1>1, <1>4, LookKeeps DEF OpenRead, Founded, Consumable, IInv, WagesAreFounded
<1>5. CASE ComputeRead(w)
  BY <1>1, <1>5, LookKeeps DEF ComputeRead, Founded
<1>6. CASE ComputePeriod(w)
  <2>1. CASE period \in Consumable
    <3> DEFINE s == [hours |-> entries, extras |-> {}]
    <3>1. Go(w, "earnings", s) /\ run # "NONE"
      BY <1>2, <1>6, <2>1 DEF ComputePeriod, In, Founded
    <3>2. entries \in Nat /\ entries > 0
      BY <2>1 DEF IInv, TypeOK, WagesAreFounded, Granted, Asked, Consumable
    <3>3. s \in Lines /\ s.hours \in 1 .. entries
      BY <3>2 DEF Lines
    <3> HIDE DEF s
    <3>4. Founded("earnings", s)
      BY <3>1, <3>3 DEF Founded
    <3> QED
      BY <1>1, <3>1, <3>4, LookKeeps
  <2>2. CASE period \notin Consumable
    BY <1>1, <1>3, <1>6, <2>2, LookKeeps DEF ComputePeriod, Leave, Go, NoCall
  <2> QED
    BY <2>1, <2>2
<1>7. CASE ComputeEarnings(w)
  <2> DEFINE s == [call[w].saw EXCEPT !.extras = {x \in Extras : extra[x] = "due"}]
  <2>1. Go(w, "lines", s) /\ run # "NONE"
    BY <1>2, <1>7 DEF ComputeEarnings, In, Founded
  <2>2. s \in Lines /\ s.hours \in 1 .. entries
    BY <1>2, <1>7 DEF ComputeEarnings, In, Founded, Lines
  <2> HIDE DEF s
  <2>3. Founded("lines", s)
    BY <2>1, <2>2 DEF Founded
  <2> QED
    BY <1>1, <2>1, <2>3, LookKeeps
<1>8. CASE SubmitRunRead(w)
  BY <1>1, <1>8, LookKeeps DEF SubmitRunRead, Founded, IInv, WagesAreFounded
<1>9. CASE ApproveRead(w)
  <2>1. PICK p \in {"runWrite", "none"} : Go(w, p, None)
    BY <1>9 DEF ApproveRead, Leave, Go, NoCall
  <2> QED
    BY <1>1, <1>2, <1>9, <2>1, LookKeeps DEF ApproveRead, Founded, In
<1>10. CASE PostCost(w)
  <2>1. lines \in Lines
    BY DEF IInv, TypeOK
  <2> QED
    BY <1>1, <1>2, <1>10, <2>1, LookKeeps DEF PostCost, Founded, In
<1> QED
  BY <1>4, <1>5, <1>6, <1>7, <1>8, <1>9, <1>10

-----------------------------------------------------------------------------
(* Steps that write to the period, the run, or what hangs on them.         *)

\* A handler that writes neither to a chain nor to an outcome.
LEMMA WriteKeeps ==
    ASSUME IInv, NEW w \in Workers, NEW p, NEW s, Go(w, p, s), Founded(p, s)',
           UNCHANGED <<outcomeVars, subject, failures, postable>>,
           period' \in {"OPEN"} \cup Consumable, entries' \in Nat, entries' >= entries,
           granted' \subseteq Nat, run' \in {"NONE", "DRAFT", "CHECKED", "APPROVED"},
           run # "NONE" => run' # "NONE", lines' \in Lines, obliged' \in Lines,
           Computed => Computed', extra' \in [Extras -> {"none", "due", "taken"}],
           posted' \in [Currencies -> Seq(Lines)], WagesAreFounded', ExtrasAreTaken'
    PROVE  IInv'
<1> USE DEF outcomeVars
<1>1. /\ DOMAIN call' = Workers
      /\ call'[w] = [at |-> p, saw |-> s]
      /\ \A x \in Workers \ {w} : call'[x] = call[x]
  BY CallMoves DEF IInv
<1>2. TypeOK'
  BY <1>1 DEF IInv, TypeOK
<1>3. OnlyWorker(w)
  BY <1>1 DEF OnlyWorker, Granted
<1>4. HandlerFounded(w)'
  BY <1>1 DEF IInv, HandlersFounded, HandlerFounded
<1> QED
  BY <1>2, <1>3, <1>4, FoundedByWorker DEF IInv

LEMMA TimesheetWrites ==
    ASSUME IInv, NEW w \in Workers, UNCHANGED payrollRest,
           UpsertWrite(w) \/ MarkWrite(w) \/ LockWrite(w) \/ ReopenWrite(w)
    PROVE  IInv'
<1>1. /\ Go(w, "none", None)
      /\ UNCHANGED <<outcomeVars, subject, failures, postable, run, lines, obliged, extra, posted>>
  BY DEF UpsertWrite, MarkWrite, LockWrite, ReopenWrite, Leave, Go, NoCall, payrollRest, PayrollRest
<1>2. /\ entries \in Nat /\ entries' \in Nat /\ entries' >= entries
      /\ granted' \subseteq Nat
      /\ period' \in {"OPEN"} \cup Consumable
      /\ period' # "OPEN" => Granted("period")
  <2> USE DEF IInv, TypeOK, WagesAreFounded, HandlersFounded, HandlerFounded, Founded
  <2>1. CASE UpsertWrite(w)
    BY <2>1 DEF UpsertWrite
  <2>2. CASE MarkWrite(w)
    BY <2>2 DEF MarkWrite, In, Consumable
  <2>3. CASE LockWrite(w)
    BY <2>3 DEF LockWrite, In, Consumable
  <2>4. CASE ReopenWrite(w)
    BY <2>4 DEF ReopenWrite, In
  <2> QED
    BY <2>1, <2>2, <2>3, <2>4
<1>3. WagesAreFounded' /\ ExtrasAreTaken'
  <2>1. UNCHANGED <<Granted("period"), Granted("run"), Asked("period"), Asked("run"), Computed>>
    BY <1>1 DEF Granted, Asked, Computed, outcomeVars
  <2>2. lines.hours <= entries => lines.hours <= entries'
    BY <1>2 DEF IInv, TypeOK, Lines
  <2>3. entries > 0 => entries' > 0
    BY <1>2
  <2> QED
    BY <1>1, <1>2, <2>1, <2>2, <2>3 DEF IInv, WagesAreFounded, ExtrasAreTaken
<1>4. Founded("none", None)'
  BY DEF Founded
<1> QED
  BY <1>1, <1>2, <1>3, <1>4, WriteKeeps DEF IInv, TypeOK, Computed

LEMMA RunWrites ==
    ASSUME IInv, NEW w \in Workers, UNCHANGED <<failures, postable>>,
           OpenWrite(w) \/ ComputeWrite(w) \/ ApproveWrite(w)
    PROVE  IInv'
<1>1. PICK p \in {"none", "cost"} : Go(w, p, None) /\ (p = "cost" => ApproveWrite(w))
  BY DEF OpenWrite, ComputeWrite, ApproveWrite, Leave, Go, NoCall
<1>2. UNCHANGED <<outcomeVars, timesheetVars, posted, obliged>>
  BY DEF OpenWrite, ComputeWrite, ApproveWrite
<1>3. Founded(call[w].at, call[w].saw) /\ entries \in Nat
  BY DEF IInv, HandlersFounded, HandlerFounded, TypeOK
<1>4. /\ lines' \in Lines
      /\ lines' = lines \/ (run # "NONE" /\ lines'.hours \in 1 .. entries /\ run' # "NONE")
      /\ extra' \in [Extras -> {"none", "due", "taken"}]
      /\ ExtrasAreTaken'
  <2>1. CASE ComputeWrite(w)
    BY <1>3, <2>1 DEF ComputeWrite, In, Founded, Lines, IInv, TypeOK, ExtrasAreTaken
  <2>2. CASE OpenWrite(w) \/ ApproveWrite(w)
    BY <2>2 DEF OpenWrite, ApproveWrite, IInv, TypeOK, ExtrasAreTaken
  <2> QED
    BY <2>1, <2>2
<1>5. Computed => Computed'
  BY <1>3, <1>4 DEF Computed
<1>6. /\ run' \in {"NONE", "DRAFT", "CHECKED", "APPROVED"}
      /\ run # "NONE" => run' # "NONE"
      /\ run = "NONE" /\ run' # "NONE" => Granted("period")
      /\ run' = "CHECKED" /\ run # "CHECKED" => lines'.hours \in 1 .. entries
      /\ run' = "APPROVED" => Granted("run")
  <2> USE DEF Founded, In, IInv, TypeOK, WagesAreFounded
  <2>1. CASE OpenWrite(w)
    BY <1>3, <2>1 DEF OpenWrite
  <2>2. CASE ComputeWrite(w)
    BY <1>3, <2>2 DEF ComputeWrite
  <2>3. CASE ApproveWrite(w)
    <3>1. run # "NONE" /\ Granted("run")
      BY <1>3, <2>3 DEF ApproveWrite, Granted, Asked
    <3> QED
      BY <2>3, <3>1 DEF ApproveWrite
  <2> QED
    BY <2>1, <2>2, <2>3
<1>7. WagesAreFounded'
  <2>1. UNCHANGED <<Granted("period"), Granted("run"), Asked("period"), Asked("run")>>
    BY <1>2 DEF Granted, Asked, outcomeVars, timesheetVars
  <2>2. Granted("period") \/ run = "NONE"
    BY DEF IInv, WagesAreFounded
  <2>3. Computed' => run' # "NONE" /\ lines'.hours <= entries
    BY <1>3, <1>4, <1>6 DEF IInv, WagesAreFounded, Computed
  <2>4. Asked("run") \/ run' = "CHECKED" => Computed'
    BY <1>3, <1>5, <1>6 DEF IInv, WagesAreFounded, Computed
  <2> QED
    BY <1>2, <1>6, <2>1, <2>2, <2>3, <2>4 DEF IInv, WagesAreFounded, timesheetVars
<1>8. Founded(p, None)'
  BY <1>1, <1>2, <1>3 DEF Founded, ApproveWrite, In, Granted, outcomeVars, timesheetVars
<1>9. /\ UNCHANGED <<outcomeVars, subject, failures, postable>>
      /\ period' \in {"OPEN"} \cup Consumable /\ entries' \in Nat /\ entries' >= entries
      /\ granted' \subseteq Nat /\ obliged' \in Lines /\ posted' \in [Currencies -> Seq(Lines)]
  BY <1>2 DEF IInv, TypeOK, timesheetVars
<1> QED
  BY <1>1, <1>4, <1>5, <1>6, <1>7, <1>8, <1>9, WriteKeeps

LEMMA LegKeeps ==
    ASSUME IInv, NEW w \in Workers, NEW cur \in Currencies, NEW next \in {"ZWG", "oblige"},
           PostLeg(w, cur, next), UNCHANGED <<failures, postable>>
    PROVE  IInv'
<1>0. PICK s : s = call[w].saw
  OBVIOUS
<1>1. /\ Go(w, next, s)
      /\ UNCHANGED <<outcomeVars, timesheetVars, run, lines, extra, obliged, failures, postable>>
  BY <1>0 DEF PostLeg
<1>2. s \in Lines /\ Granted("run")
  BY <1>0 DEF PostLeg, In, Currencies, IInv, HandlersFounded, HandlerFounded, Founded
<1>3. posted' \in [Currencies -> Seq(Lines)]
  <2>1. posted[cur] \in Seq(Lines) /\ posted \in [Currencies -> Seq(Lines)]
    BY DEF IInv, TypeOK
  <2> HIDE DEF Lines
  <2>2. Append(posted[cur], s) \in Seq(Lines)
    BY <1>2, <2>1
  <2>3. posted' = posted \/ posted' = [posted EXCEPT ![cur] = Append(posted[cur], s)]
    BY <1>0, <2>1 DEF PostLeg
  <2> QED
    BY <2>1, <2>2, <2>3
<1>4. WagesAreFounded' /\ ExtrasAreTaken'
  BY <1>1, <1>2 DEF IInv, WagesAreFounded, ExtrasAreTaken, Granted, Asked, Computed,
                    outcomeVars, timesheetVars
<1>5. Founded(next, s)'
  BY <1>1, <1>2 DEF Founded, Granted, outcomeVars, timesheetVars
<1>6. /\ UNCHANGED <<outcomeVars, subject, failures, postable, run, Computed>>
      /\ period' \in {"OPEN"} \cup Consumable /\ entries' \in Nat /\ entries' >= entries
      /\ granted' \subseteq Nat /\ run' \in {"NONE", "DRAFT", "CHECKED", "APPROVED"}
      /\ lines' \in Lines /\ obliged' \in Lines /\ extra' \in [Extras -> {"none", "due", "taken"}]
  BY <1>1 DEF IInv, TypeOK, timesheetVars, Computed
<1> QED
  BY <1>1, <1>3, <1>4, <1>5, <1>6, WriteKeeps

LEMMA ObligeKeeps ==
    ASSUME IInv, NEW w \in Workers, Oblige(w), UNCHANGED <<failures, postable>>
    PROVE  IInv'
<1>1. Go(w, "none", None) /\ Founded("none", None)'
  BY DEF Oblige, Leave, Go, NoCall, Founded
<1>2. WagesAreFounded' /\ ExtrasAreTaken'
  BY DEF Oblige, IInv, WagesAreFounded, ExtrasAreTaken, Granted, Asked, Computed, outcomeVars,
         timesheetVars
<1> QED
  BY <1>1, <1>2, WriteKeeps DEF Oblige, IInv, TypeOK, timesheetVars, Computed

\* A back-pay batch is approved, or an acting allowance raised.
LEMMA EarningKeeps ==
    ASSUME IInv, NEW w \in Workers, NEW x \in Extras, UNCHANGED <<failures, postable>>,
           BackPay(w, x) \/ \E named \in BOOLEAN : ActingAllowance(w, x, named)
    PROVE  IInv'
<1>1. /\ extra[x] = "none"
      /\ \E e \in {"due", "taken"} : extra' = [extra EXCEPT ![x] = e]
      /\ UNCHANGED <<outcomeVars, timesheetVars, call, run, lines, posted, obliged>>
  BY DEF BackPay, ActingAllowance
<1>2. extra' \in [Extras -> {"none", "due", "taken"}] /\ ExtrasAreTaken'
  BY <1>1 DEF IInv, TypeOK, ExtrasAreTaken, Lines
<1>3. TypeOK'
  BY <1>1, <1>2 DEF IInv, TypeOK, outcomeVars, timesheetVars
<1>4. WagesAreFounded' /\ HandlersFounded'
  BY <1>1 DEF IInv, WagesAreFounded, HandlersFounded, HandlerFounded, Founded, Granted, Asked,
              Computed, outcomeVars, timesheetVars
<1> QED
  BY <1>2, <1>3, <1>4 DEF IInv

-----------------------------------------------------------------------------
(* The approval engine's side. *)

\* A chain is opened for the period or for the run.
LEMMA RouteKeeps ==
    ASSUME IInv, NEW w \in Workers, NEW c \in Chains,
           \/ SubmitPeriodRoute(w, c) /\ UNCHANGED payrollRest
           \/ SubmitRunRoute(w, c) /\ UNCHANGED <<failures, postable>>
    PROVE  IInv'
<1>1. PICK what \in {"period", "run"} :
         /\ subject' = [subject EXCEPT ![c] = what]
         /\ what = "period" => entries > 0
         /\ what = "run" => Computed
  BY DEF SubmitPeriodRoute, SubmitRunRoute, In, IInv, HandlersFounded, HandlerFounded, Founded
<1>2. /\ status[c] = "NONE" /\ status' = [status EXCEPT ![c] = "PENDING"]
      /\ Go(w, "none", None)
      /\ UNCHANGED <<task, delivered, period, entries, granted, payrollVars, failures, postable>>
  BY DEF SubmitPeriodRoute, SubmitRunRoute, Open, Leave, Go, NoCall, payrollRest, PayrollRest,
         payrollVars
<1>3. subject[c] = "none" /\ subject \in [Chains -> {"none", "period", "run"}]
  BY <1>2 DEF IInv, TypeOK
<1>4. /\ DOMAIN call' = Workers
      /\ call'[w] = [at |-> "none", saw |-> None]
      /\ \A x \in Workers \ {w} : call'[x] = call[x]
  BY <1>2, CallMoves DEF IInv
<1>5. TypeOK'
  BY <1>1, <1>2, <1>3, <1>4 DEF IInv, TypeOK, payrollVars
<1>6. \A v \in {"period", "run"} :
         /\ Granted(v) => Granted(v)'
         /\ Asked(v)' => Asked(v) \/ v = what
  BY <1>1, <1>2, <1>3 DEF Granted, Asked
<1>7. WagesAreFounded' /\ ExtrasAreTaken'
  BY <1>1, <1>2, <1>6 DEF IInv, WagesAreFounded, ExtrasAreTaken, Computed, payrollVars
<1>8. OnlyWorker(w) /\ entries' \in Nat
  BY <1>1, <1>2, <1>3, <1>4, <1>6 DEF OnlyWorker, Computed, payrollVars, IInv, TypeOK
<1>9. HandlerFounded(w)'
  BY <1>1, <1>2, <1>3, <1>4 DEF IInv, HandlersFounded, HandlerFounded, Founded
<1> QED
  BY <1>5, <1>7, <1>8, <1>9, FoundedByWorker DEF IInv

LEMMA DecideKeeps ==
    ASSUME IInv, NEW w \in Workers, NEW c \in Chains, NEW s \in Outcomes,
           DecideChain(w, c, s), UNCHANGED <<failures, postable>>
    PROVE  IInv'
<1> DEFINE t == [phase |-> "due", chain |-> c, outcome |-> s]
<1>1. /\ task' = [task EXCEPT ![w] = t]
      /\ status' = [status EXCEPT ![c] = s]
      /\ status[c] # "NONE" /\ call[w].at = "none"
      /\ UNCHANGED <<delivered, timesheetVars, call, payrollVars, failures, postable>>
  BY DEF DecideChain, Resolve, Free
<1>2. t \in Task /\ s # "NONE"
  BY DEF Task, Outcomes
<1>3. task' \in [Workers -> Task] /\ task'[w] = t /\ \A x \in Workers \ {w} : task'[x] = task[x]
  <2>1. task \in [Workers -> Task]
    BY DEF IInv, TypeOK
  <2> HIDE DEF t, Task
  <2> QED
    BY <1>1, <1>2, <2>1
<1>4. TypeOK'
  <2>1. /\ status' \in [Chains -> {"NONE", "PENDING"} \cup Outcomes]
        /\ \A d \in Chains : status'[d] = "NONE" <=> subject'[d] = "none"
    BY <1>1, <1>2 DEF IInv, TypeOK, timesheetVars
  <2> QED
    BY <1>1, <1>3, <2>1 DEF IInv, TypeOK, timesheetVars, payrollVars
<1>5. WagesAreFounded' /\ ExtrasAreTaken'
  BY <1>1 DEF IInv, WagesAreFounded, ExtrasAreTaken, Granted, Asked, Computed, timesheetVars, payrollVars
<1>6. OnlyWorker(w) /\ entries' \in Nat
  BY <1>1, <1>3 DEF OnlyWorker, Granted, Computed, timesheetVars, payrollVars, IInv, TypeOK
<1>7. subject[c] # "none"
  BY <1>1 DEF IInv, TypeOK
<1>8. HandlerFounded(w)'
  BY <1>1, <1>3, <1>7 DEF HandlerFounded, Founded, timesheetVars
<1> QED
  BY <1>4, <1>5, <1>6, <1>8, FoundedByWorker DEF IInv

\* Delivering an outcome counts it, and forgets no earlier delivery.
LEMMA DeliveryCounts ==
    ASSUME TypeOK, NEW w \in Workers, Deliver(w), UNCHANGED subject,
           task[w].chain \in Chains, task[w].outcome \in Outcomes
    PROVE  /\ delivered' \in [Chains -> [Outcomes -> Nat]]
           /\ \A what : Granted(what) => Granted(what)'
           /\ \A what : /\ task[w].outcome = "APPROVED"
                        /\ subject[task[w].chain] = what
                        => Granted(what)'
<1> DEFINE c == task[w].chain  s == task[w].outcome
<1>1. delivered' = [delivered EXCEPT ![c][s] = @ + 1]
  BY DEF Deliver
<1>2. delivered \in [Chains -> [Outcomes -> Nat]]
  BY DEF TypeOK
<1>3. delivered' \in [Chains -> [Outcomes -> Nat]]
  BY <1>1, <1>2
<1>4. \A d \in Chains, o \in Outcomes : delivered[d][o] > 0 => delivered'[d][o] > 0
  BY <1>1, <1>2
<1>5. delivered'[c][s] > 0
  BY <1>1, <1>2
<1>6. "APPROVED" \in Outcomes
  BY DEF Outcomes
<1>7. ASSUME NEW what, Granted(what) PROVE Granted(what)'
  BY <1>4, <1>6, <1>7 DEF Granted
<1>8. ASSUME NEW what, s = "APPROVED", subject[c] = what PROVE Granted(what)'
  BY <1>5, <1>8 DEF Granted
<1> QED
  BY <1>3, <1>7, <1>8

LEMMA StartKeeps ==
    ASSUME IInv, NEW w \in Workers,
           \/ StartPeriodCallback(w) /\ UNCHANGED payrollRest
           \/ StartRunCallback(w) /\ UNCHANGED <<failures, postable>>
    PROVE  IInv'
<1>1. PICK p \in {"none", "siteRead", "runRead"} :
         /\ Go(w, p, None)
         /\ p # "none" => task[w].outcome = "APPROVED"
         /\ p = "siteRead" => subject[task[w].chain] = "period"
         /\ p = "runRead" => subject[task[w].chain] = "run"
  BY DEF StartPeriodCallback, StartRunCallback
<1>2. /\ Deliver(w) /\ task[w].phase = "due"
      /\ task' = [task EXCEPT ![w].phase = "calling"]
      /\ UNCHANGED <<status, timesheetVars, payrollVars, failures, postable>>
  BY DEF StartPeriodCallback, StartRunCallback, Deliver, payrollRest, PayrollRest, payrollVars
<1>3. task[w].outcome \in Outcomes /\ task[w].chain \in Chains /\ subject[task[w].chain] # "none"
  BY <1>2 DEF IInv, HandlersFounded, HandlerFounded
<1>4. /\ task' \in [Workers -> Task]
      /\ task'[w].outcome = task[w].outcome /\ task'[w].chain = task[w].chain
      /\ \A x \in Workers \ {w} : task'[x] = task[x]
  BY <1>2 DEF IInv, TypeOK, Task
<1>5. /\ DOMAIN call' = Workers
      /\ call'[w] = [at |-> p, saw |-> None]
      /\ \A x \in Workers \ {w} : call'[x] = call[x]
  BY <1>1, CallMoves DEF IInv
<1>6. /\ delivered' \in [Chains -> [Outcomes -> Nat]]
      /\ Granted("period") => Granted("period")'
      /\ Granted("run") => Granted("run")'
      /\ \A what : /\ task[w].outcome = "APPROVED"
                   /\ subject[task[w].chain] = what
                   => Granted(what)'
  BY <1>2, <1>3, DeliveryCounts DEF IInv, timesheetVars
<1>7. TypeOK'
  BY <1>2, <1>4, <1>5, <1>6 DEF IInv, TypeOK, timesheetVars, payrollVars
<1>8. WagesAreFounded' /\ ExtrasAreTaken'
  BY <1>2, <1>6 DEF IInv, WagesAreFounded, ExtrasAreTaken, Asked, Computed, timesheetVars, payrollVars
<1>9. OnlyWorker(w) /\ entries' \in Nat
  BY <1>2, <1>4, <1>5, <1>6 DEF OnlyWorker, Computed, timesheetVars, payrollVars, IInv, TypeOK
<1>10. Founded(p, None)'
  BY <1>1, <1>6 DEF Founded
<1>11. HandlerFounded(w)'
  BY <1>2, <1>3, <1>4, <1>5, <1>10 DEF HandlerFounded, timesheetVars
<1> QED
  BY <1>7, <1>8, <1>9, <1>11, FoundedByWorker DEF IInv

\* A callback ends, or a handler stops.
LEMMA EndKeeps ==
    ASSUME IInv, NEW w \in Workers, Fail(w) \/ (EndCallback(w) /\ UNCHANGED <<failures, postable>>)
    PROVE  IInv'
<1>1. /\ UNCHANGED <<status, delivered, timesheetVars, payrollVars, postable>>
      /\ failures' \in Nat
      /\ task' = [task EXCEPT ![w] = NoTask]
      /\ (UNCHANGED call /\ call[w].at = "none") \/ call' = [call EXCEPT ![w] = NoCall]
  BY DEF Fail, Stop, EndCallback, Return, In, Leave, IInv, TypeOK
<1>2. /\ DOMAIN call' = Workers /\ call'[w].at = "none"
      /\ \A x \in Workers \ {w} : call'[x] = call[x]
  BY <1>1 DEF IInv, TypeOK, NoCall
<1>3. /\ task' \in [Workers -> Task] /\ task'[w].phase = "none"
      /\ \A x \in Workers \ {w} : task'[x] = task[x]
  BY <1>1 DEF IInv, TypeOK, NoTask, Task
<1>4. TypeOK'
  BY <1>1, <1>2, <1>3 DEF IInv, TypeOK, timesheetVars, payrollVars
<1>5. WagesAreFounded' /\ ExtrasAreTaken'
  BY <1>1 DEF IInv, WagesAreFounded, ExtrasAreTaken, Granted, Asked, Computed, timesheetVars, payrollVars
<1>6. OnlyWorker(w) /\ entries' \in Nat
  BY <1>1, <1>2, <1>3 DEF OnlyWorker, Granted, Computed, timesheetVars, payrollVars, IInv, TypeOK
<1>7. HandlerFounded(w)'
  BY <1>2, <1>3 DEF HandlerFounded, Founded
<1> QED
  BY <1>4, <1>5, <1>6, <1>7, FoundedByWorker DEF IInv

-----------------------------------------------------------------------------
(* The whole. *)

LEMMA Initially == Init => IInv
<1> SUFFICES ASSUME Init PROVE IInv
  OBVIOUS
<1> USE DEF Init, RequestsInit, OutcomesInit, TimesheetInit, NoCall, NoTask, NoLines
<1>1. TypeOK
  <2>1. task \in [Workers -> Task]
    BY DEF Task
  <2>2. delivered \in [Chains -> [Outcomes -> Nat]]
    <3>1. [s \in Outcomes |-> 0] \in [Outcomes -> Nat]
      OBVIOUS
    <3> QED
      BY <3>1, Zenon
  <2>3. lines \in Lines /\ obliged \in Lines
    BY DEF Lines
  <2>4. posted \in [Currencies -> Seq(Lines)]
    <3>1. <<>> \in Seq(Lines)
      OBVIOUS
    <3> QED
      BY <3>1, Zenon
  <2>5. /\ status \in [Chains -> {"NONE", "PENDING"} \cup Outcomes]
        /\ subject \in [Chains -> {"none", "period", "run"}]
        /\ \A c \in Chains : status[c] = "NONE" <=> subject[c] = "none"
        /\ extra \in [Extras -> {"none", "due", "taken"}]
    OBVIOUS
  <2>6. /\ failures \in Nat /\ period \in {"OPEN"} \cup Consumable /\ entries \in Nat
        /\ granted \subseteq Nat /\ run \in {"NONE", "DRAFT", "CHECKED", "APPROVED"}
        /\ postable \subseteq Currencies /\ DOMAIN call = Workers
    OBVIOUS
  <2> QED
    BY <2>1, <2>2, <2>3, <2>4, <2>5, <2>6 DEF TypeOK
<1>2. WagesAreFounded /\ ExtrasAreTaken
  BY DEF WagesAreFounded, ExtrasAreTaken, Asked, Computed
<1>3. HandlersFounded
  BY DEF HandlersFounded, HandlerFounded, Founded
<1> QED
  BY <1>1, <1>2, <1>3 DEF IInv

LEMMA Step == ASSUME IInv, [Next]_cycleVars PROVE IInv'
<1>1. CASE UNCHANGED cycleVars
  BY <1>1 DEF cycleVars, outcomeVars, timesheetVars, payrollVars, IInv, TypeOK, WagesAreFounded,
              ExtrasAreTaken, HandlersFounded, HandlerFounded, Founded, Granted, Asked, Computed
<1>2. ASSUME NEW w \in Workers, Requested(w) PROVE IInv'
  <2>1. CASE TimesheetRequested(w) /\ UNCHANGED payrollRest
    BY <2>1, TimesheetLooks DEF TimesheetRequested
  <2>2. CASE PayrollRequested(w) /\ UNCHANGED <<failures, postable>>
    BY <2>2, PayrollLooks, EarningKeeps, DecideKeeps DEF PayrollRequested
  <2> QED
    BY <1>2, <2>1, <2>2 DEF Requested, payrollRest
<1>3. ASSUME NEW w \in Workers, Proceed(w) PROVE IInv'
  <2>1. CASE TimesheetProceeds(w) /\ UNCHANGED payrollRest
    BY <2>1, TimesheetWrites, TimesheetLooks, RouteKeeps, StartKeeps DEF TimesheetProceeds
  <2>2. CASE PayrollProceeds(w) /\ UNCHANGED <<failures, postable>>
    BY <2>2, RunWrites, PayrollLooks, RouteKeeps, StartKeeps, LegKeeps, ObligeKeeps, EndKeeps
       DEF PayrollProceeds, Currencies
  <2> QED
    BY <1>3, <2>1, <2>2 DEF Proceed, payrollRest
<1>4. ASSUME NEW w \in Workers, Fail(w) PROVE IInv'
  BY <1>4, EndKeeps
<1> QED
  BY <1>1, <1>2, <1>3, <1>4 DEF Next

-----------------------------------------------------------------------------

(***************************************************************************)
(* However the requests of any number of workers race, and wherever they   *)
(* stop, period, run, lines, earnings and ledger keep what the handlers    *)
(* stand on (timesheets.service.ts, payroll.service.ts).                   *)
(***************************************************************************)
THEOREM Invariance == Spec => []IInv
<1>1. Init => IInv
  BY Initially
<1>2. IInv /\ [Next]_cycleVars => IInv'
  BY Step
<1> QED
  BY <1>1, <1>2, PTL DEF Spec

\* Every row and every handler keeps its type, and a chain is about a period
\* or a run as soon as it is open.
THEOREM TypeCorrect == Spec => []TypeOK
<1>1. IInv => TypeOK
  BY DEF IInv
<1> QED
  BY <1>1, Invariance, PTL

\* No journal without an approved run, no run without an approved timesheet
\* with hours in it.
THEOREM WagesStandOnApprovals == Spec => []WagesAreFounded
<1>1. IInv => WagesAreFounded
  BY DEF IInv
<1> QED
  BY <1>1, Invariance, PTL

\* No later run pays the extra earnings of a run again.
THEOREM ExtrasArePaidOnce == Spec => []ExtrasAreTaken
<1>1. IInv => ExtrasAreTaken
  BY DEF IInv
<1> QED
  BY <1>1, Invariance, PTL

\* A handler past its checks stands on what it checked.
THEOREM HandlersStandOnChecks == Spec => []HandlersFounded
<1>1. IInv => HandlersFounded
  BY DEF IInv
<1> QED
  BY <1>1, Invariance, PTL

-----------------------------------------------------------------------------
(* One request at a time. *)

Posting == {"cost", "USD", "ZWG", "oblige"}

\* Alone, a handler finds the period and the run as its checks left them, and
\* the hours it works with were approved.
Stands(one) ==
    LET at == call[one].at
    IN  /\ task[one].phase = "due" => at = "none"
        /\ at = "upsert" => period = "OPEN"
        /\ at = "lock" => period = "SITE_APPROVED"
        /\ at \in {"compute", "earnings", "lines", "runWrite"} => run \in {"DRAFT", "CHECKED"}
        /\ at \in {"earnings", "lines"} => call[one].saw.hours \in granted
        /\ at \in Posting => run = "APPROVED"
        /\ at \in {"USD", "ZWG"} => call[one].saw = lines

\* The grid of an approved period was approved as it is, as were the hours of
\* the pay lines.
GridApproved ==
    /\ period \in Consumable => entries \in granted
    /\ PaidHoursWereApproved

\* While no handler failed, the ledger agrees with the run, but for what the
\* callback has still to post.
Balanced(one) ==
    LET at == call[one].at
        done == run = "APPROVED"
    IN  /\ posted["USD"] = IF done /\ at \notin {"cost", "USD"} /\ "USD" \in postable THEN <<lines>> ELSE <<>>
        /\ posted["ZWG"] = IF done /\ at \notin {"cost", "USD", "ZWG"} /\ "ZWG" \in postable
                             THEN <<lines>> ELSE <<>>
        /\ obliged = IF done /\ at \notin Posting THEN lines ELSE NoLines

SerialInv(one) ==
    IInv /\ Stands(one) /\ GridApproved /\ (failures = 0 => Balanced(one))

\* What the only worker's handler comes to when it goes on, or ends.
LEMMA OneGoes ==
    ASSUME NEW one, Workers = {one}, SerialInv(one)
    PROVE  /\ \A p, s : Go(one, p, s) => call'[one].at = p /\ call'[one].saw = s
           /\ Leave(one) => call'[one].at = "none"
BY DEF SerialInv, IInv, TypeOK, Go, Leave, NoCall

\* Hours that were approved remain so.
LEMMA SerialGoes ==
    ASSUME NEW one, SerialInv(one), IInv', Stands(one)', period' \in Consumable => entries' \in granted',
           granted \subseteq granted', lines'.hours \in granted' \/ lines' = lines,
           failures' = 0 => Balanced(one)'
    PROVE  SerialInv(one)'
<1>1. GridApproved'
  BY DEF SerialInv, GridApproved, PaidHoursWereApproved, Computed
<1> QED
  BY <1>1 DEF SerialInv

LEMMA TimesheetAlone ==
    ASSUME NEW one, Workers = {one}, SerialInv(one), IInv',
           \/ UpsertRead(one)
           \/ UpsertWrite(one)
           \/ SubmitPeriodRead(one)
           \/ (\E c \in Chains : SubmitPeriodRoute(one, c))
           \/ MarkRead(one)
           \/ MarkWrite(one)
           \/ LockRead(one)
           \/ LockWrite(one)
           \/ (\E force \in BOOLEAN : ReopenRead(one, force))
           \/ ReopenCheck(one)
           \/ ReopenWrite(one),
           UNCHANGED payrollRest
    PROVE  SerialInv(one)'
<1> USE DEF In, Free, outcomeVars, timesheetVars, payrollRest, PayrollRest
<1>1. CASE UpsertRead(one)
  <2>1. /\ call[one].at = "none" /\ call'[one].at = "upsert"
        /\ task[one].phase = "none"
        /\ period = "OPEN"
        /\ UNCHANGED <<task, period, entries, granted, run, lines, posted, obliged>>
    BY <1>1, OneGoes DEF UpsertRead
  <2>2. Stands(one)'
    BY <2>1 DEF SerialInv, Stands, Posting, GridApproved, Consumable
  <2>3. failures = 0 => Balanced(one)'
    BY <2>1 DEF SerialInv, Stands, Balanced, Posting
  <2> QED
    BY <2>1, <2>2, <2>3, SerialGoes DEF SerialInv, Stands, GridApproved, Consumable
<1>2. CASE UpsertWrite(one)
  <2>1. /\ call[one].at = "upsert" /\ call'[one].at = "none"
        /\ UNCHANGED <<task, period, granted, run, lines, posted, obliged>>
    BY <1>2, OneGoes DEF UpsertWrite
  <2>2. Stands(one)'
    BY <2>1 DEF SerialInv, Stands, Posting, GridApproved, Consumable
  <2>3. failures = 0 => Balanced(one)'
    BY <2>1 DEF SerialInv, Stands, Balanced, Posting
  <2> QED
    BY <2>1, <2>2, <2>3, SerialGoes DEF SerialInv, Stands, GridApproved, Consumable
<1>3. CASE SubmitPeriodRead(one)
  <2>1. /\ call[one].at = "none" /\ call'[one].at = "askSite"
        /\ task[one].phase = "none"
        /\ UNCHANGED <<task, period, entries, granted, run, lines, posted, obliged>>
    BY <1>3, OneGoes DEF SubmitPeriodRead
  <2>2. Stands(one)'
    BY <2>1 DEF SerialInv, Stands, Posting, GridApproved, Consumable
  <2>3. failures = 0 => Balanced(one)'
    BY <2>1 DEF SerialInv, Stands, Balanced, Posting
  <2> QED
    BY <2>1, <2>2, <2>3, SerialGoes DEF SerialInv, Stands, GridApproved, Consumable
<1>4. CASE (\E c \in Chains : SubmitPeriodRoute(one, c))
  <2>1. /\ call[one].at = "askSite" /\ call'[one].at = "none"
        /\ UNCHANGED <<task, period, entries, granted, run, lines, posted, obliged>>
    BY <1>4, OneGoes DEF SubmitPeriodRoute, Open
  <2>2. Stands(one)'
    BY <2>1 DEF SerialInv, Stands, Posting, GridApproved, Consumable
  <2>3. failures = 0 => Balanced(one)'
    BY <2>1 DEF SerialInv, Stands, Balanced, Posting
  <2> QED
    BY <2>1, <2>2, <2>3, SerialGoes DEF SerialInv, Stands, GridApproved, Consumable
<1>5. CASE MarkRead(one)
  <2>1. /\ call[one].at = "siteRead" /\ call'[one].at \in {"siteWrite", "none"}
        /\ UNCHANGED <<task, period, entries, granted, run, lines, posted, obliged>>
    BY <1>5, OneGoes DEF MarkRead
  <2>2. Stands(one)'
    BY <2>1 DEF SerialInv, Stands, Posting, GridApproved, Consumable
  <2>3. failures = 0 => Balanced(one)'
    BY <2>1 DEF SerialInv, Stands, Balanced, Posting
  <2> QED
    BY <2>1, <2>2, <2>3, SerialGoes DEF SerialInv, Stands, GridApproved, Consumable
<1>6. CASE MarkWrite(one)
  <2>1. /\ call[one].at = "siteWrite" /\ call'[one].at = "none"
        /\ granted' = granted \cup {entries}
        /\ UNCHANGED <<task, entries, run, lines, posted, obliged>>
    BY <1>6, OneGoes DEF MarkWrite
  <2>2. Stands(one)'
    BY <2>1 DEF SerialInv, Stands, Posting, GridApproved, Consumable
  <2>3. failures = 0 => Balanced(one)'
    BY <2>1 DEF SerialInv, Stands, Balanced, Posting
  <2> QED
    BY <2>1, <2>2, <2>3, SerialGoes DEF SerialInv, Stands, GridApproved, Consumable
<1>7. CASE LockRead(one)
  <2>1. /\ call[one].at = "none" /\ call'[one].at = "lock"
        /\ task[one].phase = "none"
        /\ period = "SITE_APPROVED"
        /\ UNCHANGED <<task, period, entries, granted, run, lines, posted, obliged>>
    BY <1>7, OneGoes DEF LockRead
  <2>2. Stands(one)'
    BY <2>1 DEF SerialInv, Stands, Posting, GridApproved, Consumable
  <2>3. failures = 0 => Balanced(one)'
    BY <2>1 DEF SerialInv, Stands, Balanced, Posting
  <2> QED
    BY <2>1, <2>2, <2>3, SerialGoes DEF SerialInv, Stands, GridApproved, Consumable
<1>8. CASE LockWrite(one)
  <2>1. /\ call[one].at = "lock" /\ call'[one].at = "none"
        /\ period' = "LOCKED"
        /\ UNCHANGED <<task, entries, granted, run, lines, posted, obliged>>
    BY <1>8, OneGoes DEF LockWrite
  <2>2. Stands(one)'
    BY <2>1 DEF SerialInv, Stands, Posting, GridApproved, Consumable
  <2>3. failures = 0 => Balanced(one)'
    BY <2>1 DEF SerialInv, Stands, Balanced, Posting
  <2> QED
    BY <2>1, <2>2, <2>3, SerialGoes DEF SerialInv, Stands, GridApproved, Consumable
<1>9. CASE (\E force \in BOOLEAN : ReopenRead(one, force))
  <2>1. /\ call[one].at = "none" /\ call'[one].at \in {"reopen", "reopenForced"}
        /\ task[one].phase = "none"
        /\ UNCHANGED <<task, period, entries, granted, run, lines, posted, obliged>>
    BY <1>9, OneGoes DEF ReopenRead
  <2>2. Stands(one)'
    BY <2>1 DEF SerialInv, Stands, Posting, GridApproved, Consumable
  <2>3. failures = 0 => Balanced(one)'
    BY <2>1 DEF SerialInv, Stands, Balanced, Posting
  <2> QED
    BY <2>1, <2>2, <2>3, SerialGoes DEF SerialInv, Stands, GridApproved, Consumable
<1>10. CASE ReopenCheck(one)
  <2>1. /\ call[one].at \in {"reopen", "reopenForced"} /\ call'[one].at \in {"unlock", "none"}
        /\ UNCHANGED <<task, period, entries, granted, run, lines, posted, obliged>>
    BY <1>10, OneGoes DEF ReopenCheck
  <2>2. Stands(one)'
    BY <2>1 DEF SerialInv, Stands, Posting, GridApproved, Consumable
  <2>3. failures = 0 => Balanced(one)'
    BY <2>1 DEF SerialInv, Stands, Balanced, Posting
  <2> QED
    BY <2>1, <2>2, <2>3, SerialGoes DEF SerialInv, Stands, GridApproved, Consumable
<1>11. CASE ReopenWrite(one)
  <2>1. /\ call[one].at = "unlock" /\ call'[one].at = "none"
        /\ period' = "OPEN"
        /\ UNCHANGED <<task, entries, granted, run, lines, posted, obliged>>
    BY <1>11, OneGoes DEF ReopenWrite
  <2>2. Stands(one)'
    BY <2>1 DEF SerialInv, Stands, Posting, GridApproved, Consumable
  <2>3. failures = 0 => Balanced(one)'
    BY <2>1 DEF SerialInv, Stands, Balanced, Posting
  <2> QED
    BY <2>1, <2>2, <2>3, SerialGoes DEF SerialInv, Stands, GridApproved, Consumable
<1> QED
  BY <1>1, <1>2, <1>3, <1>4, <1>5, <1>6, <1>7, <1>8, <1>9, <1>10, <1>11

LEMMA RunAlone ==
    ASSUME NEW one, Workers = {one}, SerialInv(one), IInv',
           \/ OpenRead(one)
           \/ OpenWrite(one)
           \/ ComputeRead(one)
           \/ ComputePeriod(one)
           \/ ComputeEarnings(one)
           \/ ComputeWrite(one)
           \/ SubmitRunRead(one)
           \/ (\E c \in Chains : SubmitRunRoute(one, c)),
           UNCHANGED <<failures, postable>>
    PROVE  SerialInv(one)'
<1> USE DEF In, Free, outcomeVars, timesheetVars, payrollVars
<1>1. CASE OpenRead(one)
  <2>1. /\ call[one].at = "none" /\ call'[one].at = "open"
        /\ task[one].phase = "none"
        /\ UNCHANGED <<task, period, entries, granted, run, lines, posted, obliged>>
    BY <1>1, OneGoes DEF OpenRead
  <2>2. Stands(one)'
    BY <2>1 DEF SerialInv, Stands, Posting, GridApproved, Consumable
  <2>3. failures = 0 => Balanced(one)'
    BY <2>1 DEF SerialInv, Stands, Balanced, Posting
  <2> QED
    BY <2>1, <2>2, <2>3, SerialGoes DEF SerialInv, Stands, GridApproved, Consumable
<1>2. CASE OpenWrite(one)
  <2>1. /\ call[one].at = "open" /\ call'[one].at = "none"
        /\ (run = "NONE" /\ run' = "DRAFT") \/ run' = run
        /\ UNCHANGED <<task, period, entries, granted, lines, posted, obliged>>
    BY <1>2, OneGoes DEF OpenWrite
  <2>2. Stands(one)'
    BY <2>1 DEF SerialInv, Stands, Posting, GridApproved, Consumable
  <2>3. failures = 0 => Balanced(one)'
    BY <2>1 DEF SerialInv, Stands, Balanced, Posting
  <2> QED
    BY <2>1, <2>2, <2>3, SerialGoes DEF SerialInv, Stands, GridApproved, Consumable
<1>3. CASE ComputeRead(one)
  <2>1. /\ call[one].at = "none" /\ call'[one].at = "compute"
        /\ task[one].phase = "none"
        /\ run \in {"DRAFT", "CHECKED"}
        /\ UNCHANGED <<task, period, entries, granted, run, lines, posted, obliged>>
    BY <1>3, OneGoes DEF ComputeRead
  <2>2. Stands(one)'
    BY <2>1 DEF SerialInv, Stands, Posting, GridApproved, Consumable
  <2>3. failures = 0 => Balanced(one)'
    BY <2>1 DEF SerialInv, Stands, Balanced, Posting
  <2> QED
    BY <2>1, <2>2, <2>3, SerialGoes DEF SerialInv, Stands, GridApproved, Consumable
<1>4. CASE ComputePeriod(one)
  <2>1. /\ call[one].at = "compute"
        /\ \/ call'[one].at = "none"
           \/ period \in Consumable /\ call'[one].at = "earnings" /\ call'[one].saw.hours = entries
        /\ UNCHANGED <<task, period, entries, granted, run, lines, posted, obliged>>
    BY <1>4, OneGoes DEF ComputePeriod
  <2>2. Stands(one)'
    BY <2>1 DEF SerialInv, Stands, Posting, GridApproved, Consumable
  <2>3. failures = 0 => Balanced(one)'
    BY <2>1 DEF SerialInv, Stands, Balanced, Posting
  <2> QED
    BY <2>1, <2>2, <2>3, SerialGoes DEF SerialInv, Stands, GridApproved, Consumable
<1>5. CASE ComputeEarnings(one)
  <2>1. /\ call[one].at = "earnings" /\ call'[one].at = "lines"
        /\ call'[one].saw.hours = call[one].saw.hours
        /\ UNCHANGED <<task, period, entries, granted, run, lines, posted, obliged>>
    <3>1. /\ call[one].at = "earnings"
          /\ Go(one, "lines", [call[one].saw EXCEPT !.extras = {x \in Extras : extra[x] = "due"}])
          /\ UNCHANGED <<task, period, entries, granted, run, lines, posted, obliged>>
      BY <1>5 DEF ComputeEarnings
    <3>2. call[one].saw \in Lines
      BY <3>1 DEF SerialInv, IInv, HandlersFounded, HandlerFounded, Founded
    <3> QED
      BY <3>1, <3>2, OneGoes DEF Lines
  <2>2. Stands(one)'
    BY <2>1 DEF SerialInv, Stands, Posting, GridApproved, Consumable
  <2>3. failures = 0 => Balanced(one)'
    BY <2>1 DEF SerialInv, Stands, Balanced, Posting
  <2> QED
    BY <2>1, <2>2, <2>3, SerialGoes DEF SerialInv, Stands, GridApproved, Consumable
<1>6. CASE ComputeWrite(one)
  <2>1. /\ call[one].at = "lines" /\ call'[one].at = "none"
        /\ lines' = call[one].saw
        /\ run' = "CHECKED"
        /\ UNCHANGED <<task, period, entries, granted, posted, obliged>>
    BY <1>6, OneGoes DEF ComputeWrite
  <2>2. Stands(one)'
    BY <2>1 DEF SerialInv, Stands, Posting, GridApproved, Consumable
  <2>3. failures = 0 => Balanced(one)'
    BY <2>1 DEF SerialInv, Stands, Balanced, Posting
  <2> QED
    BY <2>1, <2>2, <2>3, SerialGoes DEF SerialInv, Stands, GridApproved, Consumable
<1>7. CASE SubmitRunRead(one)
  <2>1. /\ call[one].at = "none" /\ call'[one].at = "askFd"
        /\ task[one].phase = "none"
        /\ UNCHANGED <<task, period, entries, granted, run, lines, posted, obliged>>
    BY <1>7, OneGoes DEF SubmitRunRead
  <2>2. Stands(one)'
    BY <2>1 DEF SerialInv, Stands, Posting, GridApproved, Consumable
  <2>3. failures = 0 => Balanced(one)'
    BY <2>1 DEF SerialInv, Stands, Balanced, Posting
  <2> QED
    BY <2>1, <2>2, <2>3, SerialGoes DEF SerialInv, Stands, GridApproved, Consumable
<1>8. CASE (\E c \in Chains : SubmitRunRoute(one, c))
  <2>1. /\ call[one].at = "askFd" /\ call'[one].at = "none"
        /\ UNCHANGED <<task, period, entries, granted, run, lines, posted, obliged>>
    BY <1>8, OneGoes DEF SubmitRunRoute, Open
  <2>2. Stands(one)'
    BY <2>1 DEF SerialInv, Stands, Posting, GridApproved, Consumable
  <2>3. failures = 0 => Balanced(one)'
    BY <2>1 DEF SerialInv, Stands, Balanced, Posting
  <2> QED
    BY <2>1, <2>2, <2>3, SerialGoes DEF SerialInv, Stands, GridApproved, Consumable
<1> QED
  BY <1>1, <1>2, <1>3, <1>4, <1>5, <1>6, <1>7, <1>8

LEMMA PostingAlone ==
    ASSUME NEW one, Workers = {one}, SerialInv(one), IInv',
           \/ ApproveRead(one)
           \/ ApproveWrite(one)
           \/ PostCost(one)
           \/ PostLeg(one, "USD", "ZWG")
           \/ PostLeg(one, "ZWG", "oblige")
           \/ Oblige(one),
           UNCHANGED <<failures, postable>>
    PROVE  SerialInv(one)'
<1> USE DEF In, Free, outcomeVars, timesheetVars, payrollVars
<1>1. CASE ApproveRead(one)
  <2>1. /\ call[one].at = "runRead"
        /\ \/ call'[one].at = "none"
           \/ run \in {"DRAFT", "CHECKED"} /\ call'[one].at = "runWrite"
        /\ UNCHANGED <<task, period, entries, granted, run, lines, posted, obliged>>
    BY <1>1, OneGoes DEF ApproveRead
  <2>2. Stands(one)'
    BY <2>1 DEF SerialInv, Stands, Posting, GridApproved, Consumable
  <2>3. failures = 0 => Balanced(one)'
    BY <2>1 DEF SerialInv, Stands, Balanced, Posting
  <2> QED
    BY <2>1, <2>2, <2>3, SerialGoes DEF SerialInv, Stands, GridApproved, Consumable
<1>2. CASE ApproveWrite(one)
  <2>1. /\ call[one].at = "runWrite" /\ call'[one].at = "cost"
        /\ run' = "APPROVED"
        /\ UNCHANGED <<task, period, entries, granted, lines, posted, obliged>>
    BY <1>2, OneGoes DEF ApproveWrite
  <2>2. Stands(one)'
    BY <2>1 DEF SerialInv, Stands, Posting, GridApproved, Consumable
  <2>3. failures = 0 => Balanced(one)'
    BY <2>1 DEF SerialInv, Stands, Balanced, Posting
  <2> QED
    BY <2>1, <2>2, <2>3, SerialGoes DEF SerialInv, Stands, GridApproved, Consumable
<1>3. CASE PostCost(one)
  <2>1. /\ call[one].at = "cost" /\ call'[one].at = "USD"
        /\ call'[one].saw = lines
        /\ UNCHANGED <<task, period, entries, granted, run, lines, posted, obliged>>
    BY <1>3, OneGoes DEF PostCost
  <2>2. Stands(one)'
    BY <2>1 DEF SerialInv, Stands, Posting, GridApproved, Consumable
  <2>3. failures = 0 => Balanced(one)'
    BY <2>1 DEF SerialInv, Stands, Balanced, Posting
  <2> QED
    BY <2>1, <2>2, <2>3, SerialGoes DEF SerialInv, Stands, GridApproved, Consumable
<1>4. CASE PostLeg(one, "USD", "ZWG")
  <2>1. /\ call[one].at = "USD" /\ call'[one].at = "ZWG"
        /\ call'[one].saw = call[one].saw
        /\ posted'["USD"] = IF "USD" \in postable THEN Append(posted["USD"], call[one].saw) ELSE posted["USD"]
        /\ posted'["ZWG"] = posted["ZWG"]
        /\ UNCHANGED <<task, period, entries, granted, run, lines, obliged>>
    <3>1. posted \in [Currencies -> Seq(Lines)]
      BY DEF SerialInv, IInv, TypeOK
    <3> QED
      BY <1>4, <3>1, OneGoes DEF PostLeg, Currencies
  <2>2. Stands(one)'
    BY <2>1 DEF SerialInv, Stands, Posting, GridApproved, Consumable
  <2>3. failures = 0 => Balanced(one)'
    <3>1. Append(<<>>, lines) = <<lines>>
      BY DEF SerialInv, IInv, TypeOK
    <3>2. SUFFICES ASSUME failures = 0 PROVE Balanced(one)'
      OBVIOUS
    <3>3. Balanced(one) /\ call[one].saw = lines /\ run = "APPROVED"
      BY <2>1, <3>2 DEF SerialInv, Stands, Posting
    <3> QED
      BY <2>1, <3>1, <3>3 DEF Balanced, Posting
  <2> QED
    BY <2>1, <2>2, <2>3, SerialGoes DEF SerialInv, Stands, GridApproved, Consumable
<1>5. CASE PostLeg(one, "ZWG", "oblige")
  <2>1. /\ call[one].at = "ZWG" /\ call'[one].at = "oblige"
        /\ posted'["ZWG"] = IF "ZWG" \in postable THEN Append(posted["ZWG"], call[one].saw) ELSE posted["ZWG"]
        /\ posted'["USD"] = posted["USD"]
        /\ UNCHANGED <<task, period, entries, granted, run, lines, obliged>>
    <3>1. posted \in [Currencies -> Seq(Lines)]
      BY DEF SerialInv, IInv, TypeOK
    <3> QED
      BY <1>5, <3>1, OneGoes DEF PostLeg, Currencies
  <2>2. Stands(one)'
    BY <2>1 DEF SerialInv, Stands, Posting, GridApproved, Consumable
  <2>3. failures = 0 => Balanced(one)'
    <3>1. Append(<<>>, lines) = <<lines>>
      BY DEF SerialInv, IInv, TypeOK
    <3>2. SUFFICES ASSUME failures = 0 PROVE Balanced(one)'
      OBVIOUS
    <3>3. Balanced(one) /\ call[one].saw = lines /\ run = "APPROVED"
      BY <2>1, <3>2 DEF SerialInv, Stands, Posting
    <3> QED
      BY <2>1, <3>1, <3>3 DEF Balanced, Posting
  <2> QED
    BY <2>1, <2>2, <2>3, SerialGoes DEF SerialInv, Stands, GridApproved, Consumable
<1>6. CASE Oblige(one)
  <2>1. /\ call[one].at = "oblige" /\ call'[one].at = "none"
        /\ obliged' = lines
        /\ UNCHANGED <<task, period, entries, granted, run, lines, posted>>
    BY <1>6, OneGoes DEF Oblige
  <2>2. Stands(one)'
    BY <2>1 DEF SerialInv, Stands, Posting, GridApproved, Consumable
  <2>3. failures = 0 => Balanced(one)'
    BY <2>1 DEF SerialInv, Stands, Balanced, Posting
  <2> QED
    BY <2>1, <2>2, <2>3, SerialGoes DEF SerialInv, Stands, GridApproved, Consumable
<1> QED
  BY <1>1, <1>2, <1>3, <1>4, <1>5, <1>6

\* An approval is decided, called back, and answered.
LEMMA CallbackAlone ==
    ASSUME NEW one, Workers = {one}, SerialInv(one), IInv', UNCHANGED <<failures, postable>>,
           \/ (StartPeriodCallback(one) /\ UNCHANGED PayrollRest) \/ StartRunCallback(one)
           \/ EndCallback(one)
           \/ \E c \in Chains, t \in Outcomes : DecideChain(one, c, t)
    PROVE  SerialInv(one)'
<1> USE DEF In, Free, timesheetVars, payrollVars, PayrollRest
<1>1. UNCHANGED <<period, entries, granted, run, lines, posted, obliged>>
  BY DEF StartPeriodCallback, StartRunCallback, EndCallback, DecideChain
<1>2. \/ /\ task[one].phase = "due" /\ task'[one].phase = "calling"
         /\ call'[one].at \in {"siteRead", "runRead", "none"}
      \/ /\ call[one].at = "none" /\ call' = call
  <2>1. CASE StartPeriodCallback(one) \/ StartRunCallback(one)
    <3>1. Deliver(one) /\ \E p \in {"siteRead", "runRead", "none"} : Go(one, p, None)
      BY <2>1 DEF StartPeriodCallback, StartRunCallback
    <3>2. call'[one].at \in {"siteRead", "runRead", "none"}
      BY <3>1, OneGoes
    <3>3. task \in [Workers -> Task]
      BY DEF SerialInv, IInv, TypeOK
    <3> QED
      BY <3>1, <3>2, <3>3 DEF Deliver, Task
  <2>2. CASE EndCallback(one) \/ \E c \in Chains, t \in Outcomes : DecideChain(one, c, t)
    BY <2>2 DEF EndCallback, DecideChain
  <2> QED
    BY <2>1, <2>2
<1>3. call[one].at = "none"
  BY <1>2 DEF SerialInv, Stands
<1>4. Stands(one)'
  BY <1>1, <1>2, <1>3 DEF SerialInv, Stands, Posting
<1>5. failures = 0 => Balanced(one)'
  BY <1>1, <1>2, <1>3 DEF SerialInv, Balanced, Posting
<1> QED
  BY <1>1, <1>4, <1>5, SerialGoes DEF SerialInv, GridApproved, Consumable

\* An extra earning is raised, and the run does not see it yet.
LEMMA RaisedAlone ==
    ASSUME NEW one, Workers = {one}, SerialInv(one), IInv', UNCHANGED <<failures, postable>>,
           \/ \E x \in Extras : BackPay(one, x)
           \/ \E x \in Extras, named \in BOOLEAN : ActingAllowance(one, x, named)
    PROVE  SerialInv(one)'
<1>1. UNCHANGED <<task, call, period, entries, granted, run, lines, posted, obliged, postable, failures>>
  BY DEF BackPay, ActingAllowance, outcomeVars, timesheetVars
<1>2. Stands(one)'
  BY <1>1 DEF SerialInv, Stands, Posting
<1>3. failures = 0 => Balanced(one)'
  BY <1>1 DEF SerialInv, Balanced, Posting
<1> QED
  BY <1>1, <1>2, <1>3, SerialGoes DEF SerialInv, GridApproved, Consumable

\* What a handler that failed wrote stays, and nothing goes on.
LEMMA FailsAlone ==
    ASSUME NEW one, Workers = {one}, SerialInv(one), IInv', Fail(one)
    PROVE  SerialInv(one)'
<1>1. /\ call'[one].at = "none" /\ task'[one].phase = "none"
      /\ failures' = failures + 1 /\ failures \in Nat
      /\ UNCHANGED <<period, entries, granted, run, lines, posted, obliged>>
  BY OneGoes DEF Fail, Stop, NoTask, SerialInv, IInv, TypeOK, timesheetVars, payrollVars
<1>2. Stands(one)'
  BY <1>1 DEF Stands, Posting
<1>3. failures' # 0
  BY <1>1
<1> QED
  BY <1>1, <1>2, <1>3, SerialGoes DEF SerialInv, GridApproved, Consumable

LEMMA AloneGoesOn ==
    ASSUME NEW one, Workers = {one}, SerialInv(one), [Next]_cycleVars
    PROVE  SerialInv(one)'
<1>1. IInv'
  BY Step DEF SerialInv
<1>2. CASE UNCHANGED cycleVars
  BY <1>1, <1>2 DEF SerialInv, Stands, Balanced, Posting, GridApproved, PaidHoursWereApproved, Computed,
                    cycleVars, outcomeVars, timesheetVars, payrollVars
<1>3. CASE Requested(one)
  <2>1. CASE TimesheetRequested(one) /\ UNCHANGED PayrollRest
    BY <1>1, <1>3, <2>1, TimesheetAlone DEF TimesheetRequested, Requested, payrollRest
  <2>2. CASE PayrollRequested(one)
    BY <1>1, <1>3, <2>2, RunAlone, CallbackAlone, RaisedAlone DEF PayrollRequested, Requested
  <2> QED
    BY <1>3, <2>1, <2>2 DEF Requested
<1>4. CASE Proceed(one)
  <2>1. CASE TimesheetProceeds(one) /\ UNCHANGED PayrollRest
    BY <1>1, <1>4, <2>1, TimesheetAlone, CallbackAlone DEF TimesheetProceeds, Proceed, payrollRest
  <2>2. CASE PayrollProceeds(one)
    BY <1>1, <1>4, <2>2, RunAlone, PostingAlone, CallbackAlone DEF PayrollProceeds, Proceed
  <2> QED
    BY <1>4, <2>1, <2>2 DEF Proceed
<1>5. CASE Fail(one)
  BY <1>1, <1>5, FailsAlone
<1> QED
  BY <1>2, <1>3, <1>4, <1>5 DEF Next

LEMMA AloneBegins ==
    ASSUME NEW one, Workers = {one}, Init
    PROVE  SerialInv(one)
<1>1. IInv
  BY Initially
<1>2. Stands(one) /\ GridApproved /\ Balanced(one)
  BY DEF Init, RequestsInit, OutcomesInit, TimesheetInit, NoCall, NoTask, NoLines, Currencies, Stands,
         GridApproved, Balanced, Posting, Consumable, PaidHoursWereApproved, Computed
<1> QED
  BY <1>1, <1>2 DEF SerialInv

LEMMA AloneAlways ==
    ASSUME NEW one, Workers = {one}
    PROVE  Spec => []SerialInv(one)
<1>1. Init => SerialInv(one)
  BY AloneBegins
<1>2. SerialInv(one) /\ [Next]_cycleVars => SerialInv(one)'
  BY AloneGoesOn
<1> QED
  BY <1>1, <1>2, PTL DEF Spec

\* Served one at a time, pay is calculated from hours a site manager
\* approved, also when the period was reopened and filled anew, and wherever
\* a handler stopped (computeRun).
THEOREM HoursWereApproved ==
    ASSUME NEW one, Workers = {one}
    PROVE  Spec => []PaidHoursWereApproved
<1>1. SerialInv(one) => PaidHoursWereApproved
  BY DEF SerialInv, GridApproved
<1> QED
  BY <1>1, AloneAlways, PTL

\* Served one at a time and without a failure, the ledger has every approved
\* run once in each currency, for the lines it has, and its obligations
\* (onApproved).
THEOREM LedgerAgreesAlone ==
    ASSUME NEW one, Workers = {one}
    PROVE  Spec => []RunAgreesWithLedger
<1>1. ASSUME SerialInv(one) PROVE RunAgreesWithLedger
  <2>1. SUFFICES ASSUME AllFree, failures = 0 PROVE
            /\ \A cur \in Currencies :
                  posted[cur] = IF run = "APPROVED" /\ cur \in postable THEN <<lines>> ELSE <<>>
            /\ obliged = IF run = "APPROVED" THEN lines ELSE NoLines
    BY DEF RunAgreesWithLedger
  <2>2. call[one].at = "none" /\ Balanced(one)
    BY <1>1, <2>1 DEF AllFree, Free, SerialInv
  <2> QED
    BY <2>2 DEF Balanced, Currencies, Posting
<1> QED
  BY <1>1, AloneAlways, PTL

\* The grid, and a run with its lines, have few writers.
LEMMA OnlyUpsertsWrite ==
    ASSUME NEW one, Workers = {one}, [Next]_cycleVars, entries' # entries
    PROVE  UpsertWrite(one)
<1> USE DEF timesheetVars, payrollVars, cycleVars
<1>1. Next
  OBVIOUS
<1>2. ~Fail(one)
  BY DEF Fail
<1>3. ~PayrollRequested(one) /\ ~PayrollProceeds(one)
  BY DEF PayrollRequested, OpenRead, ComputeRead, SubmitRunRead, BackPay, ActingAllowance, DecideChain,
         PayrollProceeds, OpenWrite, ComputePeriod, ComputeEarnings, ComputeWrite, SubmitRunRoute,
         StartRunCallback, ApproveRead, ApproveWrite, PostCost, PostLeg, Oblige, EndCallback
<1>4. TimesheetRequested(one) \/ TimesheetProceeds(one)
  BY <1>1, <1>2, <1>3 DEF Next, Requested, Proceed
<1> QED
  BY <1>4 DEF TimesheetRequested, UpsertRead, SubmitPeriodRead, LockRead, ReopenRead, TimesheetProceeds,
              SubmitPeriodRoute, StartPeriodCallback, MarkRead, MarkWrite, LockWrite, ReopenCheck, ReopenWrite

LEMMA OnlyRunsWrite ==
    ASSUME NEW one, Workers = {one}, [Next]_cycleVars, run' # run \/ lines' # lines
    PROVE  OpenWrite(one) \/ ComputeWrite(one) \/ ApproveWrite(one)
<1> USE DEF timesheetVars, payrollVars, cycleVars, PayrollRest
<1>1. Next
  OBVIOUS
<1>2. ~Fail(one)
  BY DEF Fail
<1>3. UNCHANGED PayrollRest => ~TimesheetRequested(one) /\ ~TimesheetProceeds(one)
  BY DEF TimesheetRequested, UpsertRead, SubmitPeriodRead, LockRead, ReopenRead, TimesheetProceeds, UpsertWrite,
         SubmitPeriodRoute, StartPeriodCallback, MarkRead, MarkWrite, LockWrite, ReopenCheck, ReopenWrite
<1>4. PayrollRequested(one) \/ PayrollProceeds(one)
  BY <1>1, <1>2, <1>3 DEF Next, Requested, Proceed
<1> QED
  BY <1>4 DEF PayrollRequested, OpenRead, ComputeRead, SubmitRunRead, BackPay, ActingAllowance, DecideChain,
              PayrollProceeds, ComputePeriod, ComputeEarnings, SubmitRunRoute,
              StartRunCallback, ApproveRead, PostCost, PostLeg, Oblige, EndCallback

\* Served one at a time, an approved grid and the lines of an approved run do
\* not change (upsertEntries, computeRun).
THEOREM ApprovedStaysFrozen ==
    ASSUME NEW one, Workers = {one}
    PROVE  Spec => ApprovedIsFrozen
<1>1. ASSUME SerialInv(one), [Next]_cycleVars
      PROVE  [/\ entries' # entries => period = "OPEN"
              /\ run = "APPROVED" => run' = "APPROVED" /\ lines' = lines]_cycleVars
  <2>1. entries' # entries => UpsertWrite(one)
    BY <1>1, OnlyUpsertsWrite
  <2>2. (run' # run \/ lines' # lines) => OpenWrite(one) \/ ComputeWrite(one) \/ ApproveWrite(one)
    BY <1>1, OnlyRunsWrite
  <2>3. UpsertWrite(one) => period = "OPEN"
    BY <1>1 DEF UpsertWrite, In, SerialInv, Stands
  <2>4. run = "APPROVED" => ~ComputeWrite(one)
    BY <1>1 DEF ComputeWrite, In, SerialInv, Stands
  <2>5. run = "APPROVED" /\ (OpenWrite(one) \/ ApproveWrite(one)) => run' = "APPROVED" /\ lines' = lines
    BY DEF OpenWrite, ApproveWrite
  <2> QED
    BY <2>1, <2>2, <2>3, <2>4, <2>5
<1> QED
  BY <1>1, AloneAlways, PTL DEF Spec, ApprovedIsFrozen

=============================================================================
