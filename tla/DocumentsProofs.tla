-------------------------- MODULE DocumentsProofs --------------------------
(***************************************************************************)
(* Proofs about Documents, for any number of workers, chains, people and   *)
(* failures, and any advance: its invariant IInv is inductive.  A handler  *)
(* keeps what it checked because approvals and payments are never undone,  *)
(* so the proof is about one worker at a time: every step of worker w      *)
(* leaves the others where they were.  Then, of one worker alone, that     *)
(* SerialInv is inductive too, and what follows of it; and that paying     *)
(* implements Payment.                                                     *)
(***************************************************************************)
EXTENDS Documents, TLAPS

\* The variables a step of one worker leaves to the other kinds of document.
others == <<given, funded, retireVars, ledgerVars>>

\* Only w moved, and what the others rely on did not go away.
OnlyWorker(w) ==
    /\ ApprovedOnce => ApprovedOnce'
    /\ paid > 0 => paid' > 0
    /\ UNCHANGED kind
    /\ \A x \in Workers \ {w} :
          UNCHANGED <<call[x], task[x], claim[x]>>

LEMMA FoundedByWorker ==
    ASSUME IInv, NEW w \in Workers, OnlyWorker(w), HandlerFounded(w)'
    PROVE  HandlersFounded'
<1> SUFFICES ASSUME NEW x \in Workers \ {w} PROVE HandlerFounded(x)'
  BY DEF HandlersFounded
<1>1. HandlerFounded(x)
  BY DEF IInv, HandlersFounded
<1>2. UNCHANGED <<call[x], task[x], claim[x]>>
  BY DEF OnlyWorker
<1> QED
  BY <1>1, <1>2 DEF HandlerFounded, OnlyWorker

\* A step that only moves w's handler to another place.
LEMMA CallMoves ==
    ASSUME TypeOK, NEW w \in Workers, NEW p \in Places, NEW s \in BOOLEAN \cup {None},
           call' = [call EXCEPT ![w] = [at |-> p, saw |-> s]], UNCHANGED kind
    PROVE  /\ call' \in [Workers -> [at : Places', saw : BOOLEAN \cup {None}]]
           /\ call'[w] = [at |-> p, saw |-> s]
           /\ \A x \in Workers \ {w} : call'[x] = call[x]
<1>1. call \in [Workers -> [at : Places, saw : BOOLEAN \cup {None}]]
  BY DEF TypeOK
<1>2. Places' = Places
  BY DEF Places
<1>3. [at |-> p, saw |-> s] \in [at : Places, saw : BOOLEAN \cup {None}]
  OBVIOUS
<1> HIDE DEF Places
<1> QED
  BY <1>1, <1>2, <1>3

-----------------------------------------------------------------------------
(* Submitting. *)

LEMMA SubmitKeeps ==
    ASSUME IInv, NEW w \in Workers, SubmitRead(w) \/ Submitting(w), UNCHANGED others
    PROVE  IInv'
<1> USE DEF others, given, retireVars, ledgerVars
<1>1. PICK p \in {"submit", "route", "none"} :
         /\ call' = [call EXCEPT ![w] = [at |-> p, saw |-> None]]
         /\ UNCHANGED <<task, delivered, paid>>
         /\ status' \in [Chains -> {"NONE", "PENDING"} \cup Outcomes]
         /\ doc' \in {doc, "SUBMITTED"}
  BY DEF SubmitRead, Submitting, SubmitWrite, SubmitRoute, SubmitRefused, Open, Go, Leave,
         NoCall, outcomeVars, IInv, TypeOK
<1>2. p \in Places
  BY DEF Places
<1>3. /\ call' \in [Workers -> [at : Places', saw : BOOLEAN \cup {None}]]
      /\ call'[w] = [at |-> p, saw |-> None]
      /\ \A x \in Workers \ {w} : call'[x] = call[x]
  BY <1>1, <1>2, CallMoves DEF IInv
<1>4. TypeOK'
  BY <1>1, <1>3 DEF IInv, TypeOK, Statuses
<1>5. OnlyWorker(w)
  BY <1>1, <1>3 DEF OnlyWorker, ApprovedOnce
<1>6. HandlerFounded(w)'
  BY <1>1, <1>3 DEF IInv, HandlersFounded, HandlerFounded
<1>7. ApprovedFirst' /\ RefundsArePaidFor'
  BY <1>1 DEF IInv, ApprovedFirst, ApprovedOnce, RefundsArePaidFor, Payable, DisbursedStatus, Posted
<1> QED
  BY <1>4, <1>5, <1>6, <1>7, FoundedByWorker DEF IInv

-----------------------------------------------------------------------------
(* The engine's side. *)

\* A step that only moves the outcome w carries.
LEMMA TaskMoves ==
    ASSUME TypeOK, NEW w \in Workers, NEW t \in Task, task' = [task EXCEPT ![w] = t]
    PROVE  /\ task' \in [Workers -> Task]
           /\ task'[w] = t
           /\ \A x \in Workers \ {w} : task'[x] = task[x]
<1>1. task \in [Workers -> Task]
  BY DEF TypeOK
<1> HIDE DEF Task
<1> QED
  BY <1>1

LEMMA DecideKeeps ==
    ASSUME IInv, NEW w \in Workers, NEW c \in Chains, NEW s \in Outcomes,
           DecideChain(w, c, s), UNCHANGED others
    PROVE  IInv'
<1> USE DEF others, given, retireVars, ledgerVars
<1> DEFINE t == [phase |-> "due", chain |-> c, outcome |-> s]
<1>1. /\ task' = [task EXCEPT ![w] = t]
      /\ status' = [status EXCEPT ![c] = s]
      /\ UNCHANGED <<delivered, doc, paid, call>>
      /\ call[w].at = "none"
  BY DEF DecideChain, Resolve, Free
<1>2. t \in Task /\ t.chain \in Chains /\ t.outcome \in Outcomes
  BY DEF Task
<1>3. /\ task' \in [Workers -> Task]
      /\ task'[w] = t
      /\ \A x \in Workers \ {w} : task'[x] = task[x]
  BY <1>1, <1>2, TaskMoves DEF IInv
<1> HIDE DEF t
<1>4. status' \in [Chains -> {"NONE", "PENDING"} \cup Outcomes]
  BY <1>1 DEF IInv, TypeOK
<1>5. TypeOK'
  BY <1>1, <1>3, <1>4 DEF IInv, TypeOK, Statuses, Places
<1>6. OnlyWorker(w)
  BY <1>1, <1>3 DEF OnlyWorker, ApprovedOnce
<1>7. HandlerFounded(w)'
  BY <1>1, <1>2, <1>3 DEF IInv, HandlersFounded, HandlerFounded
<1>8. ApprovedFirst' /\ RefundsArePaidFor'
  BY <1>1 DEF IInv, ApprovedFirst, ApprovedOnce, RefundsArePaidFor, Payable, DisbursedStatus, Posted
<1> QED
  BY <1>5, <1>6, <1>7, <1>8, FoundedByWorker DEF IInv

\* Delivering an outcome counts it, and forgets no earlier delivery.
LEMMA DeliveryCounts ==
    ASSUME TypeOK, NEW w \in Workers, Deliver(w),
           task[w].chain \in Chains, task[w].outcome \in Outcomes
    PROVE  /\ delivered' \in [Chains -> [Outcomes -> Nat]]
           /\ ApprovedOnce => ApprovedOnce'
           /\ task[w].outcome = "APPROVED" => ApprovedOnce'
<1> DEFINE c == task[w].chain  s == task[w].outcome
<1>1. delivered' = [delivered EXCEPT ![c][s] = @ + 1]
  BY DEF Deliver
<1>2. delivered \in [Chains -> [Outcomes -> Nat]]
  BY DEF TypeOK
<1>3. delivered' \in [Chains -> [Outcomes -> Nat]]
  BY <1>1, <1>2
<1>4. \A d \in Chains, o \in Outcomes : delivered[d][o] > 0 => delivered'[d][o] > 0
  BY <1>1, <1>2
<1>5. delivered'[c][s] > 0
  BY <1>1, <1>2
<1>6. "APPROVED" \in Outcomes
  BY DEF Outcomes
<1> QED
  BY <1>3, <1>4, <1>5, <1>6 DEF ApprovedOnce

LEMMA StartKeeps ==
    ASSUME IInv, NEW w \in Workers, NEW approved \in Places \cap {"funds", "post"},
           StartCallback(w, approved), UNCHANGED others
    PROVE  IInv'
<1> USE DEF others, given, retireVars, ledgerVars
<1> DEFINE p == IF task[w].outcome = "APPROVED" THEN approved ELSE "mirror"
           t == [task[w] EXCEPT !.phase = "calling"]
<1>1. /\ Deliver(w) /\ task[w].phase = "due"
      /\ task' = [task EXCEPT ![w] = t]
      /\ call' = [call EXCEPT ![w] = [at |-> p, saw |-> None]]
      /\ UNCHANGED <<status, doc, paid>>
  BY DEF StartCallback, Deliver, Go, IInv, TypeOK
<1>2. task[w] \in Task /\ task[w].chain \in Chains /\ task[w].outcome \in Outcomes
  BY <1>1 DEF IInv, TypeOK, HandlersFounded, HandlerFounded
<1>3. t \in Task /\ t.chain \in Chains /\ t.outcome = task[w].outcome
  BY <1>2 DEF Task
<1>4. p \in Places /\ p \in {"funds", "post", "mirror"}
  BY DEF Places
<1>5. /\ task' \in [Workers -> Task] /\ task'[w] = t
      /\ \A x \in Workers \ {w} : task'[x] = task[x]
  BY <1>1, <1>3, TaskMoves DEF IInv
<1>6. /\ call' \in [Workers -> [at : Places', saw : BOOLEAN \cup {None}]]
      /\ call'[w] = [at |-> p, saw |-> None]
      /\ \A x \in Workers \ {w} : call'[x] = call[x]
  BY <1>1, <1>4, CallMoves DEF IInv
<1>7. /\ delivered' \in [Chains -> [Outcomes -> Nat]]
      /\ ApprovedOnce => ApprovedOnce'
      /\ task[w].outcome = "APPROVED" => ApprovedOnce'
  BY <1>1, <1>2, DeliveryCounts DEF IInv
<1>8. TypeOK'
  BY <1>1, <1>5, <1>6, <1>7 DEF IInv, TypeOK, Statuses
<1>9. OnlyWorker(w)
  BY <1>1, <1>5, <1>6, <1>7 DEF OnlyWorker
<1>10. p # "mirror" => ApprovedOnce'
  BY <1>7
<1>11. p = "mirror" => t.outcome \in {"REJECTED", "RETURNED"}
  BY <1>2, <1>3 DEF Outcomes
<1>12. claim'[w] <= Advance
  BY DEF IInv, HandlersFounded, HandlerFounded
<1> HIDE DEF p, t
<1>13. HandlerFounded(w)'
  BY <1>2, <1>3, <1>4, <1>5, <1>6, <1>10, <1>11, <1>12 DEF HandlerFounded
<1>14. ApprovedFirst' /\ RefundsArePaidFor'
  BY <1>1, <1>7 DEF IInv, ApprovedFirst, RefundsArePaidFor, Payable, DisbursedStatus, Posted
<1> QED
  BY <1>8, <1>9, <1>13, <1>14, FoundedByWorker DEF IInv

\* The callback mirrors a negative outcome, ends, or the worker fails.
LEMMA EndKeeps ==
    ASSUME IInv, NEW w \in Workers,
           \/ (Mirror(w) \/ EndCallback(w)) /\ UNCHANGED failures
           \/ Crash(w),
           UNCHANGED <<kind, funded, retireVars, ledgerVars>>
    PROVE  IInv'
<1> USE DEF retireVars, ledgerVars
<1>1. /\ call' = [call EXCEPT ![w] = NoCall] \/ (UNCHANGED call /\ call[w].at = "none")
      /\ UNCHANGED task \/ task' = [task EXCEPT ![w] = NoTask]
      /\ UNCHANGED <<status, delivered, paid>>
      /\ doc' = doc \/ (doc' \in {"REJECTED", "RETURNED"})
      /\ failures' \in Nat
  <2>1. CASE Mirror(w) /\ UNCHANGED failures
    BY <2>1 DEF Mirror, In, Leave, outcomeVars, IInv, TypeOK, HandlersFounded, HandlerFounded
  <2>2. CASE EndCallback(w) /\ UNCHANGED failures
    BY <2>2 DEF EndCallback, Return, In, IInv, TypeOK
  <2>3. CASE Crash(w)
    BY <2>3 DEF Crash, Stop, Leave, IInv, TypeOK
  <2> QED
    BY <2>1, <2>2, <2>3
<1>2. /\ call' \in [Workers -> [at : Places', saw : BOOLEAN \cup {None}]]
      /\ call'[w].at = "none"
      /\ \A x \in Workers \ {w} : call'[x] = call[x]
  <2>1. CASE call' = [call EXCEPT ![w] = [at |-> "none", saw |-> None]]
    <3>1. "none" \in Places
      BY DEF Places
    <3> QED
      BY <2>1, <3>1, CallMoves DEF IInv
  <2>2. CASE UNCHANGED call /\ call[w].at = "none"
    BY <2>2 DEF IInv, TypeOK, Places
  <2> QED
    BY <1>1, <2>1, <2>2 DEF NoCall
<1>3. /\ task' \in [Workers -> Task]
      /\ task'[w] \in {task[w], NoTask}
      /\ \A x \in Workers \ {w} : task'[x] = task[x]
  <2>1. NoTask \in Task
    BY DEF NoTask, Task
  <2> QED
    BY <1>1, <2>1, TaskMoves DEF IInv, TypeOK
<1>4. TypeOK'
  BY <1>1, <1>2, <1>3 DEF IInv, TypeOK, Statuses
<1>5. OnlyWorker(w)
  BY <1>1, <1>2, <1>3 DEF OnlyWorker, ApprovedOnce
<1>6. HandlerFounded(w)'
  BY <1>1, <1>2, <1>3 DEF IInv, HandlersFounded, HandlerFounded, NoTask
<1>7. ApprovedFirst' /\ RefundsArePaidFor'
  BY <1>1 DEF IInv, ApprovedFirst, ApprovedOnce, RefundsArePaidFor, Payable, DisbursedStatus, Posted
<1> QED
  BY <1>4, <1>5, <1>6, <1>7, FoundedByWorker DEF IInv

-----------------------------------------------------------------------------
(* The services' own steps: each moves one handler on, and pays, writes or *)
(* records at most what its new place stands on.                           *)

LEMMA StepKeeps ==
    ASSUME IInv, NEW w \in Workers, NEW p \in Places, NEW s \in BOOLEAN \cup {None},
           Go(w, p, s), UNCHANGED <<given, outcomeVars>>,
           doc' \in Statuses, paid' \in {paid, paid + 1},
           funded' \in BOOLEAN, account' \in BOOLEAN, stamp' \in BOOLEAN,
           returned' \in Int, refund' \in Int, claim' \in [Workers -> Int],
           \A x \in Workers \ {w} : claim'[x] = claim[x],
           HandlerFounded(w)', ApprovedFirst', RefundsArePaidFor'
    PROVE  IInv'
<1>1. /\ call' \in [Workers -> [at : Places', saw : BOOLEAN \cup {None}]]
      /\ \A x \in Workers \ {w} : call'[x] = call[x]
  BY CallMoves DEF IInv, Go, given
<1>2. Statuses' = Statuses
  BY DEF Statuses, given
<1>3. TypeOK'
  BY <1>1, <1>2 DEF IInv, TypeOK, given, outcomeVars
<1>4. OnlyWorker(w)
  BY <1>1 DEF IInv, TypeOK, OnlyWorker, ApprovedOnce, given, outcomeVars
<1> QED
  BY <1>3, <1>4, FoundedByWorker DEF IInv

LEMMA DisbursementKeeps ==
    ASSUME IInv, NEW w \in Workers, kind # "withdrawal",
           \/ FundsRead(w) \/ FundsWrite(w)
           \/ \E u \in People : DisburseRead(w, u)
           \/ DisburseJournal(w) \/ DisburseWrite(w)
           \/ RetestList(w) \/ RetestCash(w) \/ RetestPromote(w),
           UNCHANGED <<given, retireVars, ledgerVars>>
    PROVE  IInv'
<1> USE DEF retireVars, ledgerVars
<1>1. PICK p \in Places, s \in BOOLEAN \cup {None} :
         /\ Go(w, p, s)
         /\ p \in {"settle", "journal", "retest", "promote"} => ApprovedOnce
         /\ p = "settle" => s \in BOOLEAN
         /\ p = "close" => paid' > 0
         /\ p \in {"none", "settle", "journal", "close", "retest", "promote"}
  <2>1. CASE FundsRead(w)
    <3>1. Go(w, "settle", funded) /\ funded \in BOOLEAN /\ ApprovedOnce
      BY <2>1 DEF FundsRead, In, IInv, TypeOK, HandlersFounded, HandlerFounded
    <3> QED
      BY <3>1 DEF Places
  <2>5. CASE DisburseJournal(w)
    <3>1. Go(w, "close", None) /\ paid' > 0
      BY <2>5 DEF DisburseJournal, IInv, TypeOK
    <3> QED
      BY <3>1 DEF Places
  <2>2. CASE FundsWrite(w) \/ DisburseWrite(w) \/ RetestPromote(w)
    BY <2>2 DEF FundsWrite, DisburseWrite, RetestPromote, Go, Leave, NoCall, Places
  <2>3. CASE RetestList(w) \/ RetestCash(w)
    BY <2>3 DEF RetestList, RetestCash, Go, Leave, NoCall, In, Places, Payable,
                IInv, ApprovedFirst, HandlersFounded, HandlerFounded
  <2>4. CASE \E u \in People : DisburseRead(w, u)
    BY <2>4 DEF DisburseRead, IInv, ApprovedFirst, Places
  <2> QED
    BY <2>1, <2>2, <2>3, <2>4, <2>5
<1>2. /\ UNCHANGED outcomeVars
      /\ funded' \in BOOLEAN
      /\ paid' \in {paid, paid + 1}
      /\ paid' = paid + 1 => ApprovedOnce
      /\ doc' \in {doc} \cup Payable \cup {PaidStatus}
      /\ doc' # doc => ApprovedOnce
      /\ doc' # doc /\ doc' \notin Payable => paid > 0
  BY DEF FundsRead, FundsWrite, DisburseRead, DisburseJournal, DisburseWrite, RetestList,
         RetestCash, RetestPromote, In, Payable, IInv, TypeOK, ApprovedFirst,
         HandlersFounded, HandlerFounded
<1>3. doc' \in Statuses
  BY <1>2 DEF IInv, TypeOK, Statuses, PaidStatus, given
<1>4. UNCHANGED ApprovedOnce /\ paid \in Nat
  BY <1>2 DEF ApprovedOnce, outcomeVars, IInv, TypeOK
<1>5. ApprovedFirst' /\ RefundsArePaidFor'
  BY <1>2, <1>4 DEF IInv, ApprovedFirst, RefundsArePaidFor, Payable, PaidStatus,
                    DisbursedStatus, Posted
<1>6. call'[w] = [at |-> p, saw |-> s]
  BY <1>1, CallMoves DEF IInv, Go, given
<1>7. HandlerFounded(w)'
  BY <1>1, <1>2, <1>4, <1>6 DEF IInv, HandlersFounded, HandlerFounded, outcomeVars
<1> QED
  BY <1>1, <1>2, <1>3, <1>5, <1>7, StepKeeps DEF IInv, TypeOK

LEMMA RetireKeeps ==
    ASSUME IInv, TravelAssumption, NEW w \in Workers, kind = "travel",
           (\E n \in Unspent : RetireRead(w, n)) \/ RetireJournal(w) \/ RetireWrite(w),
           UNCHANGED <<given, ledgerVars>>
    PROVE  IInv'
<1> USE DEF ledgerVars
<1>1. PICK p \in {"none", "return", "record"} : Go(w, p, None)
  BY DEF RetireRead, RetireJournal, RetireWrite, Go, Leave, NoCall
<1>2. /\ UNCHANGED <<outcomeVars, paid>>
      /\ paid > 0 /\ paid \in Nat /\ ApprovedOnce
      /\ funded' \in BOOLEAN
      /\ doc' \in {doc, "CLOSED"}
      /\ returned' \in Int
      /\ refund' \in Int /\ refund' <= Advance
      /\ \E n \in Int : n <= Advance /\ claim' = [claim EXCEPT ![w] = n]
  <2>1. Advance \in Nat
    BY DEF TravelAssumption
  <2>2. claim[w] \in Int /\ claim[w] <= Advance /\ claim = [claim EXCEPT ![w] = claim[w]]
    BY DEF IInv, TypeOK, HandlersFounded, HandlerFounded
  <2>3. CASE \E n \in Unspent : RetireRead(w, n)
    BY <2>3 DEF RetireRead, TravelAssumption, IInv, TypeOK, ApprovedFirst, RefundsArePaidFor,
                DisbursedStatus
  <2>4. CASE RetireJournal(w)
    <3>1. /\ UNCHANGED <<outcomeVars, doc, paid, claim, refund>>
          /\ returned' = returned + claim[w] /\ funded' \in {funded, claim[w] > 0}
          /\ paid > 0
      BY <2>4 DEF RetireJournal, In, IInv, HandlersFounded, HandlerFounded
    <3>2. funded \in BOOLEAN /\ (claim[w] > 0) \in BOOLEAN
      <4>1. funded \in BOOLEAN
        BY DEF IInv, TypeOK
      <4>2. (claim[w] > 0) = TRUE \/ (claim[w] > 0) = FALSE
        BY <2>2
      <4> QED
        BY <4>1, <4>2, Zenon
    <3>3. funded' \in BOOLEAN
      BY <3>1, <3>2, Zenon
    <3>4. returned' \in Int
      BY <2>2, <3>1 DEF IInv, TypeOK
    <3> QED
      BY <2>2, <3>1, <3>3, <3>4 DEF IInv, TypeOK, ApprovedFirst, RefundsArePaidFor
  <2>5. CASE RetireWrite(w)
    <3>1. /\ UNCHANGED <<outcomeVars, paid, funded, returned>>
          /\ doc' = "CLOSED" /\ refund' = claim[w] /\ claim' = [claim EXCEPT ![w] = 0]
          /\ paid > 0
      BY <2>5 DEF RetireWrite, In, IInv, HandlersFounded, HandlerFounded
    <3>2. /\ paid \in Nat /\ ApprovedOnce /\ returned' \in Int /\ funded' \in BOOLEAN
      BY <3>1 DEF IInv, TypeOK, ApprovedFirst
    <3>3. 0 \in Int /\ 0 <= Advance
      BY <2>1
    <3> QED
      BY <2>2, <3>1, <3>2, <3>3
  <2> QED
    BY <2>3, <2>4, <2>5
<1>3. /\ claim' \in [Workers -> Int]
      /\ claim'[w] <= Advance
      /\ \A x \in Workers \ {w} : claim'[x] = claim[x]
  BY <1>2 DEF IInv, TypeOK
<1>4. doc' \in Statuses /\ p \in Places /\ None \in BOOLEAN \cup {None}
  BY <1>2 DEF IInv, TypeOK, Statuses, Places
<1>5. UNCHANGED ApprovedOnce
  BY <1>2 DEF ApprovedOnce, outcomeVars
<1>6. ApprovedFirst' /\ RefundsArePaidFor'
  BY <1>2, <1>5 DEF IInv, ApprovedFirst, RefundsArePaidFor, Payable, DisbursedStatus, Posted
<1>7. call'[w] = [at |-> p, saw |-> None]
  BY <1>1, <1>4, CallMoves DEF IInv, Go, given
<1>8. HandlerFounded(w)'
  BY <1>1, <1>2, <1>3, <1>7 DEF IInv, HandlersFounded, HandlerFounded, outcomeVars
<1> QED
  BY <1>1, <1>2, <1>3, <1>4, <1>6, <1>8, StepKeeps DEF IInv, TypeOK

LEMMA WithdrawalKeeps ==
    ASSUME IInv, NEW w \in Workers, kind = "withdrawal",
           \/ PostRead(w) \/ PostSource(w) \/ PostJournal(w) \/ PostStamp(w)
           \/ CompleteWrite(w) \/ \E u \in People : CompleteRead(w, u),
           UNCHANGED <<given, funded, retireVars>>
    PROVE  IInv'
<1> USE DEF retireVars, ledgerVars
<1>0. paid # paid + 1
  BY DEF IInv, TypeOK
<1>1. PICK p \in {"none", "source", "journal", "stamp", "transfer"} :
         /\ Go(w, p, None)
         /\ p \in {"source", "journal"} => ApprovedOnce
         /\ p \in {"stamp", "transfer"} => paid' > 0
  <2>1. CASE PostRead(w) \/ PostSource(w)
    BY <2>1 DEF PostRead, PostSource, In, Go, Leave, NoCall, IInv, HandlersFounded, HandlerFounded
  <2>2. CASE PostJournal(w)
    <3>1. Go(w, "stamp", None) /\ paid' > 0
      BY <2>2 DEF PostJournal, IInv, TypeOK
    <3> QED
      BY <3>1
  <2>3. CASE PostStamp(w) \/ CompleteWrite(w)
    BY <2>3 DEF PostStamp, CompleteWrite, Go, Leave, NoCall
  <2>4. CASE \E u \in People : CompleteRead(w, u)
    <3>1. Go(w, "transfer", None) /\ UNCHANGED paid /\ doc \in Posted
      BY <2>4 DEF CompleteRead, Posted
    <3> QED
      BY <3>1 DEF IInv, ApprovedFirst
  <2> QED
    BY <2>1, <2>2, <2>3, <2>4
<1>2. /\ UNCHANGED outcomeVars
      /\ account' \in BOOLEAN /\ stamp' \in BOOLEAN
      /\ paid' \in {paid, paid + 1}
      /\ paid' = paid + 1 => ApprovedOnce
      /\ doc' \in {doc} \cup Posted
      /\ doc' # doc \/ stamp' # stamp => paid > 0
  <2>1. /\ account \in BOOLEAN /\ stamp \in BOOLEAN
        /\ call[w].at = "journal" => ApprovedOnce
        /\ call[w].at \in {"stamp", "transfer"} => paid > 0
    BY DEF IInv, TypeOK, HandlersFounded, HandlerFounded
  <2>2. CASE PostRead(w) \/ PostSource(w) \/ \E u \in People : CompleteRead(w, u)
    BY <2>1, <2>2, <1>0 DEF PostRead, PostSource, CompleteRead, IInv, TypeOK
  <2>3. CASE PostJournal(w)
    BY <2>1, <2>3 DEF PostJournal, In
  <2>4. CASE PostStamp(w)
    BY <2>1, <2>4, <1>0 DEF PostStamp, In, Posted
  <2>5. CASE CompleteWrite(w)
    BY <2>1, <2>5, <1>0 DEF CompleteWrite, In, Posted
  <2> QED
    BY <2>2, <2>3, <2>4, <2>5
<1>3. doc' \in Statuses /\ p \in Places /\ None \in BOOLEAN \cup {None}
  BY <1>2 DEF IInv, TypeOK, Statuses, Places
<1>4. UNCHANGED ApprovedOnce /\ paid \in Nat
  BY <1>2 DEF ApprovedOnce, outcomeVars, IInv, TypeOK
<1>5. ApprovedFirst' /\ RefundsArePaidFor'
  BY <1>2, <1>4 DEF IInv, ApprovedFirst, RefundsArePaidFor, Payable, DisbursedStatus, Posted
<1>6. call'[w] = [at |-> p, saw |-> None]
  BY <1>1, <1>3, CallMoves DEF IInv, Go, given
<1>7. HandlerFounded(w)'
  BY <1>1, <1>2, <1>4, <1>6 DEF IInv, HandlersFounded, HandlerFounded, outcomeVars
<1> QED
  BY <1>1, <1>2, <1>3, <1>5, <1>7, StepKeeps DEF IInv, TypeOK

-----------------------------------------------------------------------------
(* The whole system. *)

LEMMA SurroundingsKeep == ASSUME IInv, Surroundings PROVE IInv'
<1>1. /\ UNCHANGED <<given, workflowVars, retireVars, stamp>>
      /\ funded' \in BOOLEAN /\ account' \in BOOLEAN
  BY DEF Surroundings, CashMoves, OpenAccount, ledgerVars, IInv, TypeOK
<1> USE <1>1 DEF IInv, given, workflowVars, outcomeVars, retireVars
<1>2. TypeOK'
  BY DEF TypeOK, Statuses, Places
<1>3. UNCHANGED ApprovedOnce
  BY DEF ApprovedOnce
<1>4. ApprovedFirst' /\ RefundsArePaidFor'
  BY <1>3 DEF ApprovedFirst, RefundsArePaidFor
<1>5. HandlersFounded'
  BY <1>3 DEF HandlersFounded, HandlerFounded
<1> QED
  BY <1>2, <1>4, <1>5

LEMMA Initially == TravelAssumption /\ Init => IInv
<1> SUFFICES ASSUME TravelAssumption, Init PROVE IInv
  OBVIOUS
<1> USE DEF Init, WorkflowInit, RequestsInit, OutcomesInit, NoCall, NoTask
<1>1. TypeOK
  <2>1. "none" \in Places /\ "DRAFT" \in Statuses
    BY DEF Places, Statuses
  <2>2. call \in [Workers -> [at : Places, saw : BOOLEAN \cup {None}]]
    BY <2>1
  <2>3. task \in [Workers -> Task]
    BY DEF Task
  <2>4. funded \in BOOLEAN /\ account \in BOOLEAN /\ stamp \in BOOLEAN
    OBVIOUS
  <2>5. delivered \in [Chains -> [Outcomes -> Nat]]
    <3>1. [s \in Outcomes |-> 0] \in [Outcomes -> Nat]
      OBVIOUS
    <3> QED
      BY <3>1, Zenon
  <2>6. /\ status \in [Chains -> {"NONE", "PENDING"} \cup Outcomes]
        /\ claim \in [Workers -> Int]
    OBVIOUS
  <2> QED
    BY <2>1, <2>2, <2>3, <2>4, <2>5, <2>6 DEF TypeOK
<1>2. ApprovedFirst /\ RefundsArePaidFor
  BY DEF ApprovedFirst, RefundsArePaidFor, Payable, DisbursedStatus, Posted, TravelAssumption
<1>3. HandlersFounded
  BY DEF HandlersFounded, HandlerFounded, TravelAssumption
<1> QED
  BY <1>1, <1>2, <1>3 DEF IInv

LEMMA Step == ASSUME TravelAssumption, IInv, [Next]_documentVars PROVE IInv'
<1>1. CASE UNCHANGED documentVars
  BY <1>1 DEF documentVars, given, workflowVars, outcomeVars, retireVars, ledgerVars, IInv, TypeOK,
              Statuses, Places, ApprovedFirst, ApprovedOnce, RefundsArePaidFor, HandlersFounded,
              HandlerFounded
<1>2. CASE Surroundings
  BY <1>2, SurroundingsKeep
<1>3. ASSUME NEW w \in Workers, Requested(w) PROVE IInv'
  <2>1. CASE SubmitRead(w) /\ UNCHANGED others
    BY <2>1, SubmitKeeps
  <2>2. CASE /\ \E c \in Chains, s \in Outcomes : DecideChain(w, c, s)
             /\ UNCHANGED others
    BY <2>2, DecideKeeps
  <2>3. CASE /\ kind # "withdrawal"
             /\ RetestList(w) \/ \E u \in People : DisburseRead(w, u)
             /\ UNCHANGED <<given, retireVars, ledgerVars>>
    BY <2>3, DisbursementKeeps
  <2>4. CASE /\ kind = "travel" /\ \E n \in Unspent : RetireRead(w, n)
             /\ UNCHANGED <<given, ledgerVars>>
    BY <2>4, RetireKeeps
  <2>5. CASE /\ kind = "withdrawal" /\ \E u \in People : CompleteRead(w, u)
             /\ UNCHANGED <<given, funded, retireVars>>
    BY <2>5, WithdrawalKeeps
  <2> QED
    BY <1>3, <2>1, <2>2, <2>3, <2>4, <2>5
       DEF Requested, DisbursementRequested, TravelRequested, WithdrawalRequested, others
<1>4. ASSUME NEW w \in Workers, Proceed(w) PROVE IInv'
  <2>1. CASE Submitting(w) /\ UNCHANGED others
    BY <2>1, SubmitKeeps
  <2>2. CASE /\ StartCallback(w, "funds") /\ kind # "withdrawal"
             /\ UNCHANGED others
    BY <2>2, StartKeeps DEF Places
  <2>3. CASE /\ StartCallback(w, "post") /\ kind = "withdrawal"
             /\ UNCHANGED others
    BY <2>3, StartKeeps DEF Places
  <2>4. CASE (Mirror(w) \/ EndCallback(w)) /\ UNCHANGED others
    BY <2>4, EndKeeps DEF others, given
  <2>5. CASE /\ kind # "withdrawal"
             /\ \/ FundsRead(w) \/ FundsWrite(w) \/ DisburseJournal(w) \/ DisburseWrite(w)
                \/ RetestCash(w) \/ RetestPromote(w)
             /\ UNCHANGED <<given, retireVars, ledgerVars>>
    BY <2>5, DisbursementKeeps
  <2>6. CASE /\ kind = "travel" /\ (RetireJournal(w) \/ RetireWrite(w))
             /\ UNCHANGED <<given, ledgerVars>>
    BY <2>6, RetireKeeps
  <2>7. CASE /\ kind = "withdrawal"
             /\ PostRead(w) \/ PostSource(w) \/ PostJournal(w) \/ PostStamp(w) \/ CompleteWrite(w)
             /\ UNCHANGED <<given, funded, retireVars>>
    BY <2>7, WithdrawalKeeps
  <2>8. CASE kind = "requisition"
    BY <1>4, <2>1, <2>2, <2>4, <2>5, <2>8
       DEF Proceed, DisbursementProceeds, Delivering, others
  <2>9. CASE kind = "travel"
    BY <1>4, <2>1, <2>2, <2>4, <2>5, <2>6, <2>9
       DEF Proceed, TravelProceeds, TravelSubmit, RunFundsCheck, Disburse, ReTestPendingFunds,
           TravelCallback, TravelSetStatus, Submitting, others
  <2>10. CASE kind = "withdrawal"
    BY <1>4, <2>1, <2>3, <2>4, <2>7, <2>10
       DEF Proceed, WithdrawalProceeds, WithdrawalSubmit, WithdrawalCallback, WithdrawalSetStatus,
           Submitting, others
  <2> QED
    BY <1>4, <2>8, <2>9, <2>10 DEF Proceed
<1>5. ASSUME NEW w \in Workers, Fail(w) PROVE IInv'
  BY <1>5, EndKeeps DEF Fail
<1> QED
  BY <1>1, <1>2, <1>3, <1>4, <1>5 DEF Next

-----------------------------------------------------------------------------

(***************************************************************************)
(* However the requests of any number of workers race, and wherever they   *)
(* stop, the statuses, journals and refunds of a document keep what its    *)
(* handlers stand on.                                                      *)
(***************************************************************************)
THEOREM Invariance == Spec => []IInv
<1>1. Init => IInv
  BY Initially, TravelAssumption
<1>2. IInv /\ [Next]_documentVars => IInv'
  BY Step, TravelAssumption
<1> QED
  BY <1>1, <1>2, PTL DEF Spec

\* Every document has a status of its kind and every handler a place in its
\* service.
THEOREM TypeCorrect == Spec => []TypeOK
<1>1. IInv => TypeOK
  BY DEF IInv
<1> QED
  BY <1>1, Invariance, PTL

\* No handler pays, promotes, closes, completes or retires a document but on
\* an approval or a payment that is still there.
THEOREM HandlersStandOnChecks == Spec => []HandlersFounded
<1>1. IInv => HandlersFounded
  BY DEF IInv
<1> QED
  BY <1>1, Invariance, PTL

\* No money leaves before the approval (disburse, postToLedger).
THEOREM ApprovalComesFirst == Spec => []ApprovedFirst
<1>1. IInv => ApprovedFirst
  BY DEF IInv
<1> QED
  BY <1>1, Invariance, PTL

\* No cash is returned and no refund recorded without a payment, and no refund
\* recorded above the advance, however many retirements race (retire).
THEOREM RefundsFollowPayment == Spec => []RefundsArePaidFor
<1>1. IInv => RefundsArePaidFor
  BY DEF IInv
<1> QED
  BY <1>1, Invariance, PTL

-----------------------------------------------------------------------------
(* One request at a time. *)

\* The worker decides about the document, or routes it.
Deciding(one) ==
    \/ task[one].phase = "due"
    \/ call[one].at \in {"route", "funds", "settle", "mirror", "post", "source"}
    \/ kind = "withdrawal" /\ call[one].at \in {"journal", "stamp"}

\* Alone, a handler finds the document as its checks left it, whatever failed.
Stands(one) ==
    LET at == call[one].at
    IN  /\ task[one].phase = "due" => at = "none"
        /\ at \in {"submit", "route"} => task[one].phase = "none"
        /\ at = "submit" => doc \in {"DRAFT", "RETURNED"}
        /\ Deciding(one) => doc = "SUBMITTED" /\ (at # "stamp" => paid = 0)
        /\ at \in {"journal", "close"} /\ kind # "withdrawal" => doc \in Payable
        /\ at \in {"retest", "promote"} => doc = "APPROVED_PENDING_FUNDS"
        /\ at = "transfer" => doc = "POSTED_AWAITING_TRANSFER"
        /\ at \in {"return", "record"} => doc = "DISBURSED"

\* A chain that is pending is the only one, and nobody works on the document.
OneChainAtMost(one) ==
    /\ \A c, d \in Chains : status[c] = "PENDING" /\ status[d] = "PENDING" => c = d
    /\ Awaited => doc = "SUBMITTED" /\ Free(one)
    /\ Awaited \/ doc \in {"DRAFT", "RETURNED"} => paid = 0

\* While no handler failed, the money agrees with the status, but for a handler
\* that has still to write what it did.
Balanced(one) ==
    /\ paid <= 1
    /\ paid = 1 <=> doc \in DisbursedStatus \cup Posted \/ call[one].at \in {"close", "stamp"}
    /\ kind = "travel" => returned = IF call[one].at = "record" THEN claim[one]
                                     ELSE IF doc = "CLOSED" THEN refund ELSE 0
    /\ ~MayRefuse /\ doc = "SUBMITTED" =>
           Awaited \/ Deciding(one) \/ (kind = "withdrawal" /\ ApprovedOnce)

SerialInv(one) ==
    IInv /\ Stands(one) /\ OneChainAtMost(one) /\ (failures = 0 => Balanced(one))

\* What the only worker's handler comes to when it goes on, or ends.
LEMMA OneGoes ==
    ASSUME NEW one, Workers = {one}, SerialInv(one)
    PROVE  /\ \A p, s : Go(one, p, s) => call'[one].at = p
           /\ Leave(one) => call'[one].at = "none"
BY DEF SerialInv, IInv, TypeOK, Go, Leave, NoCall

\* Approvals and chains stay as they are where the outcomes do.
LEMMA OutcomesStay ==
    ASSUME UNCHANGED outcomeVars
    PROVE  UNCHANGED <<status, task, Awaited, ApprovedOnce>>
BY DEF outcomeVars, Awaited, ApprovedOnce

\* A step of the handler that leaves the outcomes alone.
LEMMA SerialGoes ==
    ASSUME NEW one, Workers = {one}, SerialInv(one), IInv', UNCHANGED <<given, outcomeVars>>,
           call[one].at = "none" => ~Awaited,
           Stands(one)', doc' \in {"DRAFT", "RETURNED"} => paid' = 0,
           failures = 0 => Balanced(one)'
    PROVE  SerialInv(one)'
<1>1. UNCHANGED <<status, task, Awaited, ApprovedOnce, failures, kind>>
  BY OutcomesStay DEF given
<1>2. ~Awaited
  BY DEF SerialInv, OneChainAtMost, Free
<1>3. OneChainAtMost(one)'
  BY <1>1, <1>2 DEF SerialInv, OneChainAtMost
<1> QED
  BY <1>1, <1>3 DEF SerialInv

\* A handler that begins finds no chain pending but when the document is with
\* its approvers.
LEMMA NotWithApprovers ==
    ASSUME NEW one, SerialInv(one), call[one].at # "none" \/ doc # "SUBMITTED"
    PROVE  ~Awaited
BY DEF SerialInv, OneChainAtMost, Free

LEMMA SubmitsAlone ==
    ASSUME NEW one, Workers = {one}, SerialInv(one), IInv', UNCHANGED others,
           SubmitRead(one) \/ SubmitWrite(one) \/ SubmitRefused(one)
    PROVE  SerialInv(one)'
<1> USE DEF others, given, retireVars, ledgerVars, In
<1>1. CASE SubmitRead(one)
  <2>1. /\ call'[one].at = "submit" /\ doc \in {"DRAFT", "RETURNED"} /\ Free(one)
        /\ UNCHANGED <<doc, paid, outcomeVars>>
    BY <1>1, OneGoes DEF SubmitRead
  <2>2. ~Awaited /\ paid = 0
    BY <2>1, NotWithApprovers DEF SerialInv, OneChainAtMost
  <2>3. UNCHANGED <<status, task, Awaited, ApprovedOnce>>
    BY <2>1, OutcomesStay
  <2>4. Stands(one)'
    BY <2>1, <2>2, <2>3 DEF Stands, Deciding, Free
  <2>5. failures = 0 => Balanced(one)'
    BY <2>1, <2>2, <2>3 DEF SerialInv, Balanced, Free, DisbursedStatus, Posted
  <2> QED
    BY <2>1, <2>2, <2>4, <2>5, SerialGoes
<1>2. CASE SubmitWrite(one)
  <2>1. /\ call[one].at = "submit" /\ call'[one].at = "route" /\ doc' = "SUBMITTED"
        /\ UNCHANGED <<paid, outcomeVars>>
    BY <1>2, OneGoes DEF SubmitWrite
  <2>2. doc \in {"DRAFT", "RETURNED"} /\ paid = 0 /\ task[one].phase = "none"
    BY <2>1 DEF SerialInv, Stands, OneChainAtMost
  <2>3. UNCHANGED <<status, task, Awaited, ApprovedOnce>>
    BY <2>1, OutcomesStay
  <2>4. Stands(one)'
    BY <2>1, <2>2, <2>3 DEF Stands, Deciding
  <2>5. failures = 0 => Balanced(one)'
    BY <2>1, <2>2, <2>3 DEF SerialInv, Balanced, Deciding, DisbursedStatus, Posted
  <2> QED
    BY <2>1, <2>4, <2>5, SerialGoes
<1>3. CASE SubmitRefused(one)
  <2>1. /\ MayRefuse /\ call[one].at = "route" /\ call'[one].at = "none"
        /\ UNCHANGED <<doc, paid, outcomeVars>>
    BY <1>3, OneGoes DEF SubmitRefused
  <2>2. doc = "SUBMITTED" /\ paid = 0 /\ task[one].phase = "none"
    BY <2>1 DEF SerialInv, Stands, Deciding
  <2>3. UNCHANGED <<status, task, Awaited, ApprovedOnce>>
    BY <2>1, OutcomesStay
  <2>4. Stands(one)'
    BY <2>1, <2>2, <2>3 DEF Stands, Deciding
  <2>5. failures = 0 => Balanced(one)'
    BY <2>1, <2>2, <2>3 DEF SerialInv, Balanced, DisbursedStatus, Posted
  <2> QED
    BY <2>1, <2>2, <2>4, <2>5, SerialGoes
<1> QED
  BY <1>1, <1>2, <1>3

LEMMA RoutesAlone ==
    ASSUME NEW one, Workers = {one}, SerialInv(one), IInv', UNCHANGED others,
           NEW c \in Chains, SubmitRoute(one, c)
    PROVE  SerialInv(one)'
<1> USE DEF others, given, retireVars, ledgerVars, In
<1>1. /\ call[one].at = "route" /\ call'[one].at = "none" /\ status[c] = "NONE"
      /\ status' = [status EXCEPT ![c] = "PENDING"]
      /\ UNCHANGED <<doc, paid, task, delivered>>
  BY OneGoes DEF SubmitRoute, Open
<1>2. doc = "SUBMITTED" /\ paid = 0 /\ task[one].phase = "none" /\ ~Awaited
  BY <1>1, NotWithApprovers DEF SerialInv, Stands, Deciding
<1>3. \A d \in Chains : status'[d] = "PENDING" <=> d = c
  BY <1>1, <1>2 DEF SerialInv, IInv, TypeOK, Awaited
<1>4. Awaited'
  BY <1>3 DEF Awaited
<1>5. OneChainAtMost(one)'
  BY <1>1, <1>2, <1>3 DEF OneChainAtMost, Free
<1>6. Stands(one)'
  BY <1>1, <1>2 DEF Stands, Deciding
<1>7. failures = 0 => Balanced(one)'
  BY <1>1, <1>2, <1>4 DEF SerialInv, Balanced, DisbursedStatus, Posted
<1> QED
  BY <1>5, <1>6, <1>7 DEF SerialInv

LEMMA DecidedAlone ==
    ASSUME NEW one, Workers = {one}, ~Overlap, SerialInv(one), IInv', UNCHANGED others,
           NEW c \in Chains, NEW s \in Outcomes, DecideChain(one, c, s)
    PROVE  SerialInv(one)'
<1> USE DEF others, given, retireVars, ledgerVars
<1>1. /\ call[one].at = "none" /\ status[c] = "PENDING"
      /\ status' = [status EXCEPT ![c] = s]
      /\ task'[one].phase = "due"
      /\ UNCHANGED <<doc, paid, call, delivered>>
  BY DEF DecideChain, Resolve, Free, SerialInv, IInv, TypeOK
<1>2. Awaited /\ doc = "SUBMITTED" /\ paid = 0
  BY <1>1 DEF SerialInv, OneChainAtMost, Awaited
<1>3. \A d \in Chains : status'[d] # "PENDING"
  BY <1>1 DEF SerialInv, OneChainAtMost, IInv, TypeOK, Outcomes
<1>4. OneChainAtMost(one)'
  BY <1>1, <1>2, <1>3 DEF OneChainAtMost, Awaited
<1>5. Stands(one)' /\ Deciding(one)'
  BY <1>1, <1>2 DEF Stands, Deciding
<1>6. failures = 0 => Balanced(one)'
  BY <1>1, <1>2, <1>5 DEF SerialInv, Balanced, DisbursedStatus, Posted
<1> QED
  BY <1>4, <1>5, <1>6 DEF SerialInv

LEMMA CalledAlone ==
    ASSUME NEW one, Workers = {one}, SerialInv(one), IInv', UNCHANGED others,
           NEW approved, approved = IF kind = "withdrawal" THEN "post" ELSE "funds",
           StartCallback(one, approved)
    PROVE  SerialInv(one)'
<1> USE DEF others, given, retireVars, ledgerVars
<1>1. /\ task[one].phase = "due" /\ task'[one].phase = "calling"
      /\ call'[one].at \in {"funds", "post", "mirror"}
      /\ UNCHANGED <<status, doc, paid>>
  BY OneGoes DEF StartCallback, Deliver, SerialInv, IInv, TypeOK
<1>2. call[one].at = "none" /\ doc = "SUBMITTED" /\ paid = 0 /\ ~Awaited
  BY <1>1 DEF SerialInv, Stands, Deciding, OneChainAtMost, Free
<1>3. UNCHANGED Awaited
  BY <1>1 DEF Awaited
<1>4. OneChainAtMost(one)'
  BY <1>1, <1>2, <1>3 DEF SerialInv, OneChainAtMost
<1>5. Stands(one)' /\ Deciding(one)'
  BY <1>1, <1>2 DEF Stands, Deciding
<1>6. failures = 0 => Balanced(one)'
  BY <1>1, <1>2, <1>5 DEF SerialInv, Balanced, DisbursedStatus, Posted
<1> QED
  BY <1>4, <1>5, <1>6 DEF SerialInv

LEMMA EndsAlone ==
    ASSUME NEW one, Workers = {one}, SerialInv(one), IInv', UNCHANGED others,
           Mirror(one) \/ EndCallback(one)
    PROVE  SerialInv(one)'
<1> USE DEF others, given, retireVars, ledgerVars, In
<1>1. CASE Mirror(one)
  <2>1. /\ call[one].at = "mirror" /\ call'[one].at = "none" /\ doc' = task[one].outcome
        /\ doc' \in {"REJECTED", "RETURNED"} /\ UNCHANGED <<paid, outcomeVars>>
    BY <1>1, OneGoes DEF Mirror, SerialInv, IInv, HandlersFounded, HandlerFounded
  <2>2. doc = "SUBMITTED" /\ paid = 0 /\ task[one].phase # "due"
    BY <2>1 DEF SerialInv, Stands, Deciding
  <2>3. UNCHANGED <<status, task, Awaited, ApprovedOnce>>
    BY <2>1, OutcomesStay
  <2>4. Stands(one)'
    BY <2>1, <2>2, <2>3 DEF Stands, Deciding
  <2>5. failures = 0 => Balanced(one)'
    BY <2>1, <2>2, <2>3 DEF SerialInv, Balanced, DisbursedStatus, Posted
  <2> QED
    BY <2>1, <2>2, <2>4, <2>5, SerialGoes
<1>2. CASE EndCallback(one)
  <2>1. /\ call[one].at = "none" /\ task[one].phase = "calling" /\ task'[one].phase = "none"
        /\ UNCHANGED <<call, doc, paid, status, delivered>>
    BY <1>2 DEF EndCallback, Return, NoTask, SerialInv, IInv, TypeOK
  <2>2. UNCHANGED <<Awaited, ApprovedOnce>> /\ ~Awaited
    BY <2>1 DEF Awaited, ApprovedOnce, SerialInv, OneChainAtMost, Free
  <2>3. OneChainAtMost(one)'
    BY <2>1, <2>2 DEF SerialInv, OneChainAtMost
  <2>4. Stands(one)'
    BY <2>1 DEF SerialInv, Stands, Deciding
  <2>5. failures = 0 => Balanced(one)'
    BY <2>1, <2>2 DEF SerialInv, Balanced, Deciding
  <2> QED
    BY <2>3, <2>4, <2>5 DEF SerialInv
<1> QED
  BY <1>1, <1>2

\* What a handler that failed wrote stays, and nothing goes on.
LEMMA CrashesAlone ==
    ASSUME NEW one, Workers = {one}, SerialInv(one), IInv', Crash(one),
           UNCHANGED <<kind, funded, retireVars, ledgerVars>>
    PROVE  SerialInv(one)'
<1>1. /\ call'[one].at = "none" /\ task'[one].phase = "none" /\ ~Free(one)
      /\ failures' = failures + 1 /\ failures \in Nat
      /\ UNCHANGED <<doc, paid, status, delivered>>
  BY OneGoes DEF Crash, Stop, NoTask, SerialInv, IInv, TypeOK
<1>2. ~Awaited /\ UNCHANGED Awaited
  BY <1>1 DEF Awaited, SerialInv, OneChainAtMost
<1>3. OneChainAtMost(one)'
  BY <1>1, <1>2 DEF SerialInv, OneChainAtMost
<1>4. Stands(one)'
  BY <1>1 DEF Stands, Deciding
<1> QED
  BY <1>1, <1>3, <1>4 DEF SerialInv

LEMMA DisbursesAlone ==
    ASSUME NEW one, Workers = {one}, SerialInv(one), IInv', kind # "withdrawal",
           \/ FundsRead(one) \/ FundsWrite(one)
           \/ \E u \in People : DisburseRead(one, u)
           \/ DisburseJournal(one) \/ DisburseWrite(one)
           \/ RetestList(one) \/ RetestCash(one) \/ RetestPromote(one),
           UNCHANGED <<given, retireVars, ledgerVars>>
    PROVE  SerialInv(one)'
<1> USE DEF given, retireVars, ledgerVars, In
<1>1. CASE FundsRead(one)
  <2>1. /\ call[one].at = "funds" /\ call'[one].at = "settle"
        /\ UNCHANGED <<doc, paid, outcomeVars>>
    BY <1>1, OneGoes DEF FundsRead
  <2>2. doc = "SUBMITTED" /\ paid = 0 /\ task[one].phase # "due"
    BY <2>1, NotWithApprovers DEF SerialInv, Stands, Deciding
  <2>3. UNCHANGED <<status, task, Awaited, ApprovedOnce>>
    BY <2>1, OutcomesStay
  <2>4. Stands(one)'
    BY <2>1, <2>2, <2>3 DEF Stands, Deciding, Free, Payable, PaidStatus
  <2>5. failures = 0 => Balanced(one)'
    BY <2>1, <2>2, <2>3 DEF SerialInv, Balanced, Deciding, Payable, PaidStatus, DisbursedStatus, Posted
  <2> QED
    BY <2>1, <2>2, <2>4, <2>5, SerialGoes DEF Payable, PaidStatus
<1>2. CASE FundsWrite(one)
  <2>1. /\ call[one].at = "settle" /\ call'[one].at = "none" /\ doc' \in Payable
        /\ UNCHANGED <<paid, outcomeVars>>
    BY <1>2, OneGoes DEF FundsWrite, Payable
  <2>2. doc = "SUBMITTED" /\ paid = 0 /\ task[one].phase # "due"
    BY <2>1, NotWithApprovers DEF SerialInv, Stands, Deciding
  <2>3. UNCHANGED <<status, task, Awaited, ApprovedOnce>>
    BY <2>1, OutcomesStay
  <2>4. Stands(one)'
    BY <2>1, <2>2, <2>3 DEF Stands, Deciding, Free, Payable, PaidStatus
  <2>5. failures = 0 => Balanced(one)'
    BY <2>1, <2>2, <2>3 DEF SerialInv, Balanced, Deciding, Payable, PaidStatus, DisbursedStatus, Posted
  <2> QED
    BY <2>1, <2>2, <2>4, <2>5, SerialGoes DEF Payable, PaidStatus
<1>3. CASE \E u \in People : DisburseRead(one, u)
  <2>1. /\ call[one].at = "none" /\ call'[one].at = "journal" /\ doc \in Payable
        /\ task[one].phase = "none" /\ UNCHANGED <<doc, paid, outcomeVars>>
    BY <1>3, OneGoes DEF DisburseRead, Free
  <2>2. ~Awaited
    BY <2>1, NotWithApprovers DEF Payable
  <2>3. UNCHANGED <<status, task, Awaited, ApprovedOnce>>
    BY <2>1, OutcomesStay
  <2>4. Stands(one)'
    BY <2>1, <2>2, <2>3 DEF Stands, Deciding, Free, Payable, PaidStatus
  <2>5. failures = 0 => Balanced(one)'
    BY <2>1, <2>2, <2>3 DEF SerialInv, Balanced, Deciding, Payable, PaidStatus, DisbursedStatus, Posted
  <2> QED
    BY <2>1, <2>2, <2>4, <2>5, SerialGoes DEF Payable, PaidStatus
<1>4. CASE DisburseJournal(one)
  <2>1. /\ call[one].at = "journal" /\ call'[one].at = "close" /\ paid' = paid + 1
        /\ UNCHANGED <<doc, outcomeVars>>
    BY <1>4, OneGoes DEF DisburseJournal
  <2>2. doc \in Payable /\ task[one].phase # "due" /\ paid \in Nat
    BY <2>1, NotWithApprovers DEF SerialInv, Stands, Deciding, IInv, TypeOK
  <2>3. UNCHANGED <<status, task, Awaited, ApprovedOnce>>
    BY <2>1, OutcomesStay
  <2>4. Stands(one)'
    BY <2>1, <2>2, <2>3 DEF Stands, Deciding, Free, Payable, PaidStatus
  <2>5. failures = 0 => Balanced(one)'
    BY <2>1, <2>2, <2>3 DEF SerialInv, Balanced, Deciding, Payable, PaidStatus, DisbursedStatus, Posted
  <2> QED
    BY <2>1, <2>2, <2>4, <2>5, SerialGoes DEF Payable, PaidStatus
<1>5. CASE DisburseWrite(one)
  <2>1. /\ call[one].at = "close" /\ call'[one].at = "none" /\ doc' = PaidStatus
        /\ UNCHANGED <<paid, outcomeVars>>
    BY <1>5, OneGoes DEF DisburseWrite
  <2>2. doc \in Payable /\ task[one].phase # "due"
    BY <2>1, NotWithApprovers DEF SerialInv, Stands, Deciding
  <2>3. UNCHANGED <<status, task, Awaited, ApprovedOnce>>
    BY <2>1, OutcomesStay
  <2>4. Stands(one)'
    BY <2>1, <2>2, <2>3 DEF Stands, Deciding, Free, Payable, PaidStatus
  <2>5. failures = 0 => Balanced(one)'
    BY <2>1, <2>2, <2>3 DEF SerialInv, Balanced, Deciding, Payable, PaidStatus, DisbursedStatus, Posted
  <2> QED
    BY <2>1, <2>2, <2>4, <2>5, SerialGoes DEF Payable, PaidStatus
<1>6. CASE RetestList(one)
  <2>1. /\ call[one].at = "none" /\ call'[one].at = "retest" /\ doc = "APPROVED_PENDING_FUNDS"
        /\ task[one].phase = "none" /\ UNCHANGED <<doc, paid, outcomeVars>>
    BY <1>6, OneGoes DEF RetestList, Free
  <2>2. ~Awaited
    BY <2>1, NotWithApprovers DEF SerialInv, Stands, Deciding
  <2>3. UNCHANGED <<status, task, Awaited, ApprovedOnce>>
    BY <2>1, OutcomesStay
  <2>4. Stands(one)'
    BY <2>1, <2>2, <2>3 DEF Stands, Deciding, Free, Payable, PaidStatus
  <2>5. failures = 0 => Balanced(one)'
    BY <2>1, <2>2, <2>3 DEF SerialInv, Balanced, Deciding, Payable, PaidStatus, DisbursedStatus, Posted
  <2> QED
    BY <2>1, <2>2, <2>4, <2>5, SerialGoes DEF Payable, PaidStatus
<1>7. CASE RetestCash(one)
  <2>1. /\ call[one].at = "retest" /\ call'[one].at \in {"promote", "none"}
        /\ UNCHANGED <<doc, paid, outcomeVars>>
    BY <1>7, OneGoes DEF RetestCash
  <2>2. doc = "APPROVED_PENDING_FUNDS" /\ task[one].phase # "due"
    BY <2>1, NotWithApprovers DEF SerialInv, Stands, Deciding
  <2>3. UNCHANGED <<status, task, Awaited, ApprovedOnce>>
    BY <2>1, OutcomesStay
  <2>4. Stands(one)'
    BY <2>1, <2>2, <2>3 DEF Stands, Deciding, Free, Payable, PaidStatus
  <2>5. failures = 0 => Balanced(one)'
    BY <2>1, <2>2, <2>3 DEF SerialInv, Balanced, Deciding, Payable, PaidStatus, DisbursedStatus, Posted
  <2> QED
    BY <2>1, <2>2, <2>4, <2>5, SerialGoes DEF Payable, PaidStatus
<1>8. CASE RetestPromote(one)
  <2>1. /\ call[one].at = "promote" /\ call'[one].at = "none" /\ doc' = "APPROVED_READY_TO_PAY"
        /\ UNCHANGED <<paid, outcomeVars>>
    BY <1>8, OneGoes DEF RetestPromote
  <2>2. doc = "APPROVED_PENDING_FUNDS" /\ task[one].phase # "due"
    BY <2>1, NotWithApprovers DEF SerialInv, Stands, Deciding
  <2>3. UNCHANGED <<status, task, Awaited, ApprovedOnce>>
    BY <2>1, OutcomesStay
  <2>4. Stands(one)'
    BY <2>1, <2>2, <2>3 DEF Stands, Deciding, Free, Payable, PaidStatus
  <2>5. failures = 0 => Balanced(one)'
    BY <2>1, <2>2, <2>3 DEF SerialInv, Balanced, Deciding, Payable, PaidStatus, DisbursedStatus, Posted
  <2> QED
    BY <2>1, <2>2, <2>4, <2>5, SerialGoes DEF Payable, PaidStatus
<1> QED
  BY <1>1, <1>2, <1>3, <1>4, <1>5, <1>6, <1>7, <1>8

LEMMA RetiresAlone ==
    ASSUME NEW one, Workers = {one}, SerialInv(one), IInv', kind = "travel",
           (\E n \in Unspent : RetireRead(one, n)) \/ RetireJournal(one) \/ RetireWrite(one),
           UNCHANGED <<given, ledgerVars>>
    PROVE  SerialInv(one)'
<1> USE DEF given, retireVars, ledgerVars, In
<1>0. claim \in [Workers -> Int] /\ returned \in Int
  BY DEF SerialInv, IInv, TypeOK
<1>1. CASE \E n \in Unspent : RetireRead(one, n)
  <2>1. /\ call[one].at = "none" /\ call'[one].at \in {"record", "return"} /\ doc = "DISBURSED"
        /\ call'[one].at = "record" => claim'[one] = 0
        /\ task[one].phase = "none" /\ UNCHANGED <<doc, paid, returned, refund, outcomeVars>>
    BY <1>0, <1>1, OneGoes DEF RetireRead, Free
  <2>2. ~Awaited
    BY <2>1, NotWithApprovers DEF SerialInv, Stands, Deciding
  <2>3. UNCHANGED <<status, task, Awaited, ApprovedOnce>>
    BY <2>1, OutcomesStay
  <2>4. Stands(one)'
    BY <2>1, <2>2, <2>3 DEF Stands, Deciding, Free, Payable, PaidStatus
  <2>5. failures = 0 => Balanced(one)'
    BY <2>1, <2>2, <2>3 DEF SerialInv, Balanced, Deciding, Payable, PaidStatus, DisbursedStatus, Posted
  <2> QED
    BY <2>1, <2>2, <2>4, <2>5, SerialGoes DEF Payable, PaidStatus
<1>2. CASE RetireJournal(one)
  <2>1. /\ call[one].at = "return" /\ call'[one].at = "record" /\ returned' = returned + claim[one]
        /\ UNCHANGED <<doc, paid, claim, refund, outcomeVars>>
    BY <1>2, OneGoes DEF RetireJournal
  <2>2. doc = "DISBURSED" /\ task[one].phase # "due"
    BY <2>1, NotWithApprovers DEF SerialInv, Stands, Deciding
  <2>3. UNCHANGED <<status, task, Awaited, ApprovedOnce>>
    BY <2>1, OutcomesStay
  <2>4. Stands(one)'
    BY <2>1, <2>2, <2>3 DEF Stands, Deciding, Free, Payable, PaidStatus
  <2>5. failures = 0 => Balanced(one)'
    BY <1>0, <2>1, <2>2, <2>3 DEF SerialInv, Balanced, Deciding, Payable, PaidStatus, DisbursedStatus, Posted
  <2> QED
    BY <2>1, <2>2, <2>4, <2>5, SerialGoes DEF Payable, PaidStatus
<1>3. CASE RetireWrite(one)
  <2>1. /\ call[one].at = "record" /\ call'[one].at = "none" /\ doc' = "CLOSED" /\ refund' = claim[one]
        /\ UNCHANGED <<paid, returned, outcomeVars>>
    BY <1>3, OneGoes DEF RetireWrite
  <2>2. doc = "DISBURSED" /\ task[one].phase # "due"
    BY <2>1, NotWithApprovers DEF SerialInv, Stands, Deciding
  <2>3. UNCHANGED <<status, task, Awaited, ApprovedOnce>>
    BY <2>1, OutcomesStay
  <2>4. Stands(one)'
    BY <2>1, <2>2, <2>3 DEF Stands, Deciding, Free, Payable, PaidStatus
  <2>5. failures = 0 => Balanced(one)'
    BY <2>1, <2>2, <2>3 DEF SerialInv, Balanced, Deciding, Payable, PaidStatus, DisbursedStatus, Posted
  <2> QED
    BY <2>1, <2>2, <2>4, <2>5, SerialGoes DEF Payable, PaidStatus
<1> QED
  BY <1>1, <1>2, <1>3

LEMMA PostsAlone ==
    ASSUME NEW one, Workers = {one}, SerialInv(one), IInv', kind = "withdrawal",
           \/ PostRead(one) \/ PostSource(one) \/ PostJournal(one) \/ PostStamp(one)
           \/ CompleteWrite(one) \/ \E u \in People : CompleteRead(one, u),
           UNCHANGED <<given, funded, retireVars>>
    PROVE  SerialInv(one)'
<1> USE DEF given, retireVars, ledgerVars, In
<1>0. /\ call[one].at \in {"post", "source", "journal"} => ApprovedOnce
      /\ doc \notin DisbursedStatus /\ paid \in Nat
  BY DEF SerialInv, IInv, HandlersFounded, HandlerFounded, TypeOK, Statuses, Posted, DisbursedStatus
<1>1. CASE PostRead(one)
  <2>1. /\ call[one].at = "post" /\ call'[one].at \in {"none", "source"}
        /\ UNCHANGED <<doc, paid, outcomeVars>>
    BY <1>1, OneGoes DEF PostRead
  <2>2. doc = "SUBMITTED" /\ paid = 0 /\ task[one].phase # "due" /\ ApprovedOnce
    BY <2>1, NotWithApprovers, <1>0 DEF SerialInv, Stands, Deciding
  <2>3. UNCHANGED <<status, task, Awaited, ApprovedOnce>>
    BY <2>1, OutcomesStay
  <2>4. Stands(one)'
    BY <2>1, <2>2, <2>3 DEF Stands, Deciding, Free, Payable, PaidStatus
  <2>5. failures = 0 => Balanced(one)'
    BY <2>1, <2>2, <2>3 DEF SerialInv, Balanced, Deciding, Payable, PaidStatus, DisbursedStatus, Posted
  <2> QED
    BY <2>1, <2>2, <2>4, <2>5, SerialGoes DEF Payable, PaidStatus
<1>2. CASE PostSource(one)
  <2>1. /\ call[one].at = "source" /\ call'[one].at \in {"none", "journal"}
        /\ UNCHANGED <<doc, paid, outcomeVars>>
    BY <1>2, OneGoes DEF PostSource
  <2>2. doc = "SUBMITTED" /\ paid = 0 /\ task[one].phase # "due" /\ ApprovedOnce
    BY <2>1, NotWithApprovers, <1>0 DEF SerialInv, Stands, Deciding
  <2>3. UNCHANGED <<status, task, Awaited, ApprovedOnce>>
    BY <2>1, OutcomesStay
  <2>4. Stands(one)'
    BY <2>1, <2>2, <2>3 DEF Stands, Deciding, Free, Payable, PaidStatus
  <2>5. failures = 0 => Balanced(one)'
    BY <2>1, <2>2, <2>3 DEF SerialInv, Balanced, Deciding, Payable, PaidStatus, DisbursedStatus, Posted
  <2> QED
    BY <2>1, <2>2, <2>4, <2>5, SerialGoes DEF Payable, PaidStatus
<1>3. CASE PostJournal(one)
  <2>1. /\ call[one].at = "journal" /\ call'[one].at = "stamp" /\ paid' = paid + 1
        /\ UNCHANGED <<doc, outcomeVars>>
    BY <1>3, OneGoes DEF PostJournal
  <2>2. doc = "SUBMITTED" /\ paid = 0 /\ task[one].phase # "due" /\ ApprovedOnce
    BY <2>1, NotWithApprovers, <1>0 DEF SerialInv, Stands, Deciding
  <2>3. UNCHANGED <<status, task, Awaited, ApprovedOnce>>
    BY <2>1, OutcomesStay
  <2>4. Stands(one)'
    BY <2>1, <2>2, <2>3 DEF Stands, Deciding, Free, Payable, PaidStatus
  <2>5. failures = 0 => Balanced(one)'
    BY <2>1, <2>2, <2>3 DEF SerialInv, Balanced, Deciding, Payable, PaidStatus, DisbursedStatus, Posted
  <2> QED
    BY <2>1, <2>2, <2>4, <2>5, SerialGoes DEF Payable, PaidStatus
<1>4. CASE PostStamp(one)
  <2>1. /\ call[one].at = "stamp" /\ call'[one].at = "none" /\ doc' = "POSTED_AWAITING_TRANSFER"
        /\ UNCHANGED <<paid, outcomeVars>>
    BY <1>4, OneGoes DEF PostStamp
  <2>2. doc = "SUBMITTED" /\ task[one].phase # "due"
    BY <2>1, NotWithApprovers DEF SerialInv, Stands, Deciding
  <2>3. UNCHANGED <<status, task, Awaited, ApprovedOnce>>
    BY <2>1, OutcomesStay
  <2>4. Stands(one)'
    BY <2>1, <2>2, <2>3 DEF Stands, Deciding, Free, Payable, PaidStatus
  <2>5. failures = 0 => Balanced(one)'
    BY <2>1, <2>2, <2>3 DEF SerialInv, Balanced, Deciding, Payable, PaidStatus, DisbursedStatus, Posted
  <2> QED
    BY <2>1, <2>2, <2>4, <2>5, SerialGoes DEF Payable, PaidStatus
<1>5. CASE CompleteWrite(one)
  <2>1. /\ call[one].at = "transfer" /\ call'[one].at = "none" /\ doc' = "COMPLETED"
        /\ UNCHANGED <<paid, outcomeVars>>
    BY <1>5, OneGoes DEF CompleteWrite
  <2>2. doc = "POSTED_AWAITING_TRANSFER" /\ task[one].phase # "due"
    BY <2>1, NotWithApprovers DEF SerialInv, Stands, Deciding
  <2>3. UNCHANGED <<status, task, Awaited, ApprovedOnce>>
    BY <2>1, OutcomesStay
  <2>4. Stands(one)'
    BY <2>1, <2>2, <2>3 DEF Stands, Deciding, Free, Payable, PaidStatus
  <2>5. failures = 0 => Balanced(one)'
    BY <2>1, <2>2, <2>3 DEF SerialInv, Balanced, Deciding, Payable, PaidStatus, DisbursedStatus, Posted
  <2> QED
    BY <2>1, <2>2, <2>4, <2>5, SerialGoes DEF Payable, PaidStatus
<1>6. CASE \E u \in People : CompleteRead(one, u)
  <2>1. /\ call[one].at = "none" /\ call'[one].at = "transfer" /\ doc = "POSTED_AWAITING_TRANSFER"
        /\ task[one].phase = "none" /\ UNCHANGED <<doc, paid, outcomeVars>>
    BY <1>6, OneGoes DEF CompleteRead, Free
  <2>2. ~Awaited
    BY <2>1, NotWithApprovers DEF SerialInv, Stands, Deciding
  <2>3. UNCHANGED <<status, task, Awaited, ApprovedOnce>>
    BY <2>1, OutcomesStay
  <2>4. Stands(one)'
    BY <2>1, <2>2, <2>3 DEF Stands, Deciding, Free, Payable, PaidStatus
  <2>5. failures = 0 => Balanced(one)'
    BY <2>1, <2>2, <2>3 DEF SerialInv, Balanced, Deciding, Payable, PaidStatus, DisbursedStatus, Posted
  <2> QED
    BY <2>1, <2>2, <2>4, <2>5, SerialGoes DEF Payable, PaidStatus
<1> QED
  BY <1>1, <1>2, <1>3, <1>4, <1>5, <1>6

LEMMA AloneAtFirst ==
    ASSUME NEW one, Workers = {one}, Init
    PROVE  SerialInv(one)
<1> USE DEF Init, WorkflowInit, RequestsInit, OutcomesInit, NoCall, NoTask
<1>1. IInv
  BY Initially, TravelAssumption
<1>2. /\ task[one].phase = "none" /\ call[one].at = "none" /\ ~Awaited
      /\ doc = "DRAFT" /\ paid = 0 /\ returned = 0
  BY DEF Awaited
<1>3. Stands(one) /\ OneChainAtMost(one)
  BY <1>2 DEF Stands, Deciding, OneChainAtMost, Awaited
<1>4. Balanced(one)
  BY <1>2 DEF Balanced, DisbursedStatus, Posted
<1> QED
  BY <1>1, <1>3, <1>4 DEF SerialInv

\* The handlers, kind by kind.
LEMMA HandlersByKind ==
    ASSUME NEW w \in Workers, Requested(w) \/ Proceed(w)
    PROVE  \/ (SubmitRead(w) \/ SubmitWrite(w) \/ SubmitRefused(w)) /\ UNCHANGED others
           \/ (\E c \in Chains : SubmitRoute(w, c)) /\ UNCHANGED others
           \/ (\E c \in Chains, s \in Outcomes : DecideChain(w, c, s)) /\ UNCHANGED others
           \/ StartCallback(w, IF kind = "withdrawal" THEN "post" ELSE "funds") /\ UNCHANGED others
           \/ (Mirror(w) \/ EndCallback(w)) /\ UNCHANGED others
           \/ /\ kind # "withdrawal"
              /\ \/ FundsRead(w) \/ FundsWrite(w)
                 \/ \E u \in People : DisburseRead(w, u)
                 \/ DisburseJournal(w) \/ DisburseWrite(w)
                 \/ RetestList(w) \/ RetestCash(w) \/ RetestPromote(w)
              /\ UNCHANGED <<given, retireVars, ledgerVars>>
           \/ /\ kind = "travel"
              /\ (\E n \in Unspent : RetireRead(w, n)) \/ RetireJournal(w) \/ RetireWrite(w)
              /\ UNCHANGED <<given, ledgerVars>>
           \/ /\ kind = "withdrawal"
              /\ \/ PostRead(w) \/ PostSource(w) \/ PostJournal(w) \/ PostStamp(w)
                 \/ CompleteWrite(w) \/ \E u \in People : CompleteRead(w, u)
              /\ UNCHANGED <<given, funded, retireVars>>
<1>1. CASE Requested(w)
  BY <1>1 DEF Requested, DisbursementRequested, TravelRequested, WithdrawalRequested, others
<1>2. CASE Proceed(w) /\ kind = "requisition"
  BY <1>2 DEF Proceed, DisbursementProceeds, Delivering, Submitting, others
<1>3. CASE Proceed(w) /\ kind = "travel"
  BY <1>3 DEF Proceed, TravelProceeds, TravelSubmit, RunFundsCheck, Disburse, ReTestPendingFunds,
              TravelCallback, TravelSetStatus, others
<1>4. CASE Proceed(w) /\ kind = "withdrawal"
  BY <1>4 DEF Proceed, WithdrawalProceeds, WithdrawalSubmit, WithdrawalCallback, WithdrawalSetStatus,
              others
<1> QED
  BY <1>1, <1>2, <1>3, <1>4 DEF Proceed

LEMMA AloneGoesOn ==
    ASSUME NEW one, Workers = {one}, ~Overlap, SerialInv(one), [Next]_documentVars
    PROVE  SerialInv(one)'
<1>1. IInv'
  BY Step, TravelAssumption DEF SerialInv
<1>2. CASE UNCHANGED documentVars \/ Surroundings
  <2>1. UNCHANGED <<kind, failures, status, task, delivered, call, doc, paid, claim, returned, refund>>
    BY <1>2 DEF documentVars, given, workflowVars, outcomeVars, retireVars, Surroundings, CashMoves, OpenAccount
  <2> QED
    BY <1>1, <2>1 DEF SerialInv, Stands, Deciding, OneChainAtMost, Balanced, Awaited, ApprovedOnce, Free
<1>3. CASE Requested(one) \/ Proceed(one)
  BY <1>1, <1>3, HandlersByKind, SubmitsAlone, RoutesAlone, DecidedAlone, CalledAlone, EndsAlone,
     DisbursesAlone, RetiresAlone, PostsAlone
<1>4. CASE Fail(one)
  BY <1>1, <1>4, CrashesAlone DEF Fail
<1> QED
  BY <1>2, <1>3, <1>4 DEF Next

\* What is final stays: a handler that writes a status comes from the one before.
LEMMA PaidStays ==
    ASSUME NEW one, Workers = {one}, SerialInv(one), Next
    PROVE  /\ doc = "DISBURSED" => doc' \in DisbursedStatus
           /\ doc = "CLOSED" => doc' = "CLOSED"
           /\ doc \in Posted => doc' \in Posted
           /\ doc = "COMPLETED" => doc' = "COMPLETED"
<1>1. CASE UNCHANGED doc
  BY <1>1 DEF DisbursedStatus
<1>2. CASE SubmitWrite(one) \/ Mirror(one)
  <2>1. doc \in {"DRAFT", "RETURNED", "SUBMITTED"}
    BY <1>2 DEF SubmitWrite, Mirror, In, SerialInv, Stands, Deciding
  <2> QED
    BY <2>1 DEF Posted
<1>3. CASE kind # "withdrawal" /\ (FundsWrite(one) \/ DisburseWrite(one) \/ RetestPromote(one))
  <2>1. doc \in {"SUBMITTED", "APPROVED_READY_TO_PAY", "APPROVED_PENDING_FUNDS"}
    BY <1>3 DEF FundsWrite, DisburseWrite, RetestPromote, In, SerialInv, Stands, Deciding, Payable
  <2> QED
    BY <2>1 DEF Posted
<1>4. CASE RetireWrite(one)
  BY <1>4 DEF RetireWrite, In, SerialInv, Stands, DisbursedStatus, Posted
<1>5. CASE kind = "withdrawal" /\ PostStamp(one)
  BY <1>5 DEF PostStamp, In, SerialInv, Stands, Deciding, Posted
<1>6. CASE CompleteWrite(one)
  BY <1>6 DEF CompleteWrite, In, SerialInv, Stands, Posted
<1>7. CASE Requested(one) \/ Proceed(one)
  BY <1>1, <1>2, <1>3, <1>4, <1>5, <1>6, <1>7, HandlersByKind
     DEF SubmitRead, SubmitRefused, SubmitRoute, DecideChain, StartCallback, EndCallback, FundsRead,
         DisburseRead, DisburseJournal, RetestList, RetestCash, RetireRead, RetireJournal,
         PostRead, PostSource, PostJournal, CompleteRead
<1>8. CASE Fail(one) \/ Surroundings
  BY <1>1, <1>8 DEF Fail, Crash, Surroundings, CashMoves, OpenAccount, workflowVars
<1> QED
  BY <1>7, <1>8 DEF Next

-----------------------------------------------------------------------------
(* Payment: what pays is founded on an approval, and alone on nothing paid. *)

\* A step that neither approves nor pays is none of Payment's, or its slip.
LEMMA NoPayment ==
    ASSUME UNCHANGED <<ApprovedOnce, paid, kind>>, failures' \in {failures, failures + 1}, failures \in Nat
    PROVE  [P!Approval \/ P!Pay \/ P!Slip]_P!paymentVars
BY DEF P!Approval, P!Pay, P!Slip, P!paymentVars

LEMMA PaysOnce ==
    ASSUME IInv, NEW w \in Workers, UNCHANGED given,
           \/ DisburseJournal(w) /\ (Overlap \/ failures > 0 \/ paid = 0) /\ kind # "withdrawal"
           \/ PostJournal(w) /\ (Overlap \/ paid = 0)
    PROVE  [P!Approval \/ P!Pay \/ P!Slip]_P!paymentVars
<1>1. ApprovedOnce /\ paid' = paid + 1 /\ UNCHANGED outcomeVars
  BY DEF DisburseJournal, PostJournal, In, IInv, HandlersFounded, HandlerFounded
<1>2. UNCHANGED ApprovedOnce
  BY <1>1, OutcomesStay
<1> QED
  BY <1>1, <1>2 DEF P!Pay, given, PostJournal, DisburseJournal

LEMMA ApprovesOnce ==
    ASSUME IInv, NEW w \in Workers, NEW approved, StartCallback(w, approved), UNCHANGED given
    PROVE  [P!Approval \/ P!Pay \/ P!Slip]_P!paymentVars
<1>1. task[w].phase = "due" /\ UNCHANGED paid /\ Deliver(w)
  BY DEF StartCallback, Deliver
<1>2. ApprovedOnce => ApprovedOnce'
  BY <1>1, DeliveryCounts DEF IInv, HandlersFounded, HandlerFounded, StartCallback, Deliver
<1>3. CASE ~ApprovedOnce /\ ApprovedOnce'
  BY <1>1, <1>3 DEF P!Approval, given
<1>4. CASE UNCHANGED ApprovedOnce
  BY <1>1, <1>4 DEF P!paymentVars, given
<1> QED
  BY <1>2, <1>3, <1>4 DEF ApprovedOnce

LEMMA StepPaysOnce ==
    ASSUME IInv, [Next]_documentVars,
           NEW one, Overlap \/ (Workers = {one} /\ SerialInv(one))
    PROVE  [P!Approval \/ P!Pay \/ P!Slip]_P!paymentVars
<1>1. failures \in Nat
  BY DEF IInv, TypeOK
<1>2. CASE UNCHANGED documentVars \/ Surroundings
  BY <1>1, <1>2, OutcomesStay, NoPayment
     DEF documentVars, given, workflowVars, Surroundings, CashMoves, OpenAccount
<1>3. ASSUME NEW w \in Workers, Fail(w)
      PROVE  [P!Approval \/ P!Pay \/ P!Slip]_P!paymentVars
  <2>1. UNCHANGED <<delivered, paid, kind>> /\ failures' = failures + 1
    BY <1>3 DEF Fail, Crash, Stop
  <2> QED
    BY <1>1, <2>1, NoPayment DEF ApprovedOnce
<1>4. ASSUME NEW w \in Workers, Requested(w) \/ Proceed(w)
      PROVE  [P!Approval \/ P!Pay \/ P!Slip]_P!paymentVars
  <2>1. UNCHANGED given
    BY <1>4 DEF Requested, Proceed
  <2>2. CASE \E approved : StartCallback(w, approved)
    BY <2>1, <2>2, ApprovesOnce
  <2>3. CASE kind # "withdrawal" /\ DisburseJournal(w)
    <3>1. Overlap \/ failures > 0 \/ paid = 0
      <4>1. CASE Workers = {one} /\ SerialInv(one) /\ failures = 0
        <5>1. call[one].at = "journal" /\ doc \in Payable /\ Balanced(one) /\ paid \in Nat
          BY <2>3, <4>1 DEF DisburseJournal, In, SerialInv, Stands, IInv, TypeOK
        <5> QED
          BY <5>1 DEF Balanced, Payable, DisbursedStatus, Posted
      <4> QED
        BY <1>1, <4>1
    <3> QED
      BY <2>1, <2>3, <3>1, PaysOnce
  <2>4. CASE kind = "withdrawal" /\ PostJournal(w)
    <3>1. Overlap \/ paid = 0
      BY <2>4 DEF PostJournal, In, SerialInv, Stands, Deciding
    <3> QED
      BY <2>1, <2>4, <3>1, PaysOnce
  <2>5. CASE UNCHANGED <<delivered, paid>>
    BY <1>1, <2>1, <2>5, NoPayment DEF ApprovedOnce, given
  <2> QED
    BY <1>4, <2>2, <2>3, <2>4, <2>5, HandlersByKind
       DEF SubmitRead, SubmitWrite, SubmitRefused, SubmitRoute, Open, DecideChain, Resolve, Mirror,
           EndCallback, Return, FundsRead, FundsWrite, DisburseRead, DisburseWrite, RetestList,
           RetestCash, RetestPromote, RetireRead, RetireJournal, RetireWrite, PostRead, PostSource,
           PostStamp, CompleteRead, CompleteWrite, outcomeVars
<1> QED
  BY <1>2, <1>3, <1>4 DEF Next

LEMMA PaymentBegins == Init => P!PaymentInit
<1> SUFFICES ASSUME Init PROVE P!PaymentInit
  OBVIOUS
<1>1. ~ApprovedOnce /\ paid = 0
  BY DEF Init, WorkflowInit, RequestsInit, OutcomesInit, ApprovedOnce, Outcomes
<1>2. failures = 0 /\ Overlap \in BOOLEAN
  BY RequestsAssumption DEF Init, WorkflowInit, RequestsInit
<1> QED
  BY <1>1, <1>2 DEF P!PaymentInit

-----------------------------------------------------------------------------

LEMMA AloneAlways ==
    ASSUME NEW one, Workers = {one}, ~Overlap
    PROVE  Spec => []SerialInv(one)
<1>1. Init => SerialInv(one)
  BY AloneAtFirst
<1>2. SerialInv(one) /\ [Next]_documentVars => SerialInv(one)'
  BY AloneGoesOn
<1> QED
  BY <1>1, <1>2, PTL DEF Spec

\* One request at a time, a submitted document on which nobody works is in some
\* approver's hands, or is a withdrawal that has no account to be posted to
\* (submit, runFundsCheck, postToLedger).
THEOREM SubmittedAwaitsSomebody ==
    ASSUME NEW one, Workers = {one}, ~Overlap, ~MayRefuse
    PROVE  Spec => []SubmittedIsAwaited
<1>1. SerialInv(one) => SubmittedIsAwaited
  BY DEF SerialInv, Balanced, Deciding, SubmittedIsAwaited, AllFree, Free
<1> QED
  BY <1>1, AloneAlways, PTL

\* One request at a time, none of which failed: a document is paid exactly if it
\* says so, never more cash than the advance comes back, and a closed trip was
\* reconciled to the cent (disburse, retire, postToLedger).
THEOREM BooksAgreeAlone ==
    ASSUME NEW one, Workers = {one}, ~Overlap
    PROVE  Spec => []BooksAgree
<1>1. SerialInv(one) => BooksAgree
  <2> SUFFICES ASSUME SerialInv(one), failures = 0
               PROVE  /\ kind = "travel" => returned <= Advance
                      /\ AllFree =>
                           /\ paid > 0 <=> doc \in DisbursedStatus \cup Posted
                           /\ kind = "travel" /\ doc = "CLOSED" => paid * Advance - returned = Advance - refund
    BY DEF BooksAgree
  <2>1. Balanced(one)
    BY DEF SerialInv
  <2>2. paid \in Nat /\ Advance \in Nat
    BY TravelAssumption DEF SerialInv, IInv, TypeOK
  <2>3. paid > 0 <=> paid = 1
    BY <2>1, <2>2 DEF Balanced
  <2>4. AllFree => call[one].at = "none"
    BY DEF AllFree, Free
  <2>5. AllFree /\ kind = "travel" /\ doc = "CLOSED" => paid = 1 /\ returned = refund
    BY <2>1, <2>4 DEF Balanced, DisbursedStatus
  <2>6. 1 * Advance = Advance
    BY <2>2
  <2>7. kind = "travel" => returned <= Advance
    <3>1. claim[one] <= Advance /\ refund <= Advance
      BY DEF SerialInv, IInv, HandlersFounded, HandlerFounded, RefundsArePaidFor
    <3> QED
      BY <2>1, <2>2, <3>1 DEF Balanced
  <2> QED
    BY <2>1, <2>3, <2>4, <2>5, <2>6, <2>7 DEF Balanced
<1> QED
  BY <1>1, AloneAlways, PTL

\* One request at a time, a document that was paid stays so, whatever failed
\* (setStatus, disburse, retire, complete).
THEOREM PaidStaysPaid ==
    ASSUME NEW one, Workers = {one}, ~Overlap
    PROVE  Spec => PaidIsFinal
<1>1. SerialInv(one) /\ Next =>
          /\ doc = "DISBURSED" => doc' \in DisbursedStatus
          /\ doc = "CLOSED" => doc' = "CLOSED"
          /\ doc \in Posted => doc' \in Posted
          /\ doc = "COMPLETED" => doc' = "COMPLETED"
  BY PaidStays
<1> QED
  BY <1>1, AloneAlways, PTL DEF Spec, PaidIsFinal

\* Paying implements Payment: approved first and paid once, again only after a
\* slip.  Requests that overlap are such a slip, so any number of workers may
\* serve them then; where they do not, one worker serves them (disburse,
\* postToLedger).
THEOREM PaymentIsImplemented ==
    ASSUME NEW one, Overlap \/ Workers = {one}
    PROVE  Spec => ImplementsPayment
<1>1. Init => IInv /\ P!PaymentInit /\ (Overlap \/ SerialInv(one))
  BY Initially, TravelAssumption, PaymentBegins, AloneAtFirst
<1>2. IInv /\ (Overlap \/ SerialInv(one)) /\ [Next]_documentVars => IInv' /\ (Overlap \/ SerialInv(one))'
  BY Step, TravelAssumption, AloneGoesOn
<1>3. IInv /\ (Overlap \/ SerialInv(one)) /\ [Next]_documentVars =>
          [P!Approval \/ P!Pay \/ P!Slip]_P!paymentVars
  BY StepPaysOnce
<1> QED
  BY <1>1, <1>2, <1>3, PTL DEF Spec, ImplementsPayment, P!PaymentSpec

=============================================================================
