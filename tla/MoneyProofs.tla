---------------------------- MODULE MoneyProofs ----------------------------
(***************************************************************************)
(* Proofs about Money, for any number of workers, chains and rows: first   *)
(* what holds however requests overlap and fail, MoneyAuthorised, part by  *)
(* part; then what holds as long as they do not, MoneyAgrees and           *)
(* MoneyKept, and the types.  What the importer writes of a workbook is    *)
(* proved in ImportProofs.                                                 *)
(***************************************************************************)
EXTENDS FiniteSetTheorems, TLAPS, Money, ImportProofs

-----------------------------------------------------------------------------
(* The engine and the requests, which every part shares. *)

Engine ==
    /\ DOMAIN call = Workers /\ DOMAIN subject = Chains
    /\ status \in [Chains -> {"NONE", "PENDING"} \cup Outcomes]
    /\ task \in [Workers -> Task]
    /\ delivered \in [Chains -> [Outcomes -> Nat]]
    /\ \A w \in Workers :
         /\ task[w].phase # "none" =>
              /\ task[w].chain \in Chains /\ task[w].outcome \in Outcomes
              /\ status[task[w].chain] # "NONE"
         /\ task[w].phase = "due" => call[w].at = "none"
    /\ \A c \in Chains : delivered[c]["APPROVED"] > 0 => status[c] # "NONE"

\* A call of a handler that leaves the engine alone.
Moves(w) ==
    /\ task[w].phase # "due"
    /\ \E r : call' = [call EXCEPT ![w] = r]
    /\ UNCHANGED <<outcomeVars, subject>>

EngineStep ==
    \/ \E w \in Workers :
         \/ Moves(w)
         \/ \E c \in Chains : Route(w, c)
         \/ \E c \in Chains, s \in Outcomes : DecideChain(w, c, s)
         \/ \E a, o : StartCallback(w, a, o)
         \/ EndCallback(w) \/ Crash(w)
    \/ UNCHANGED <<outcomeVars, call, subject>>

\* What was approved stays so.
ApprovalsStay == \A x : ApprovedFor(x) => ApprovedFor(x)'

LEMMA EngineStarts == HandlersInit => Engine
BY HandlersAssumption, RequestsAssumption
   DEF HandlersInit, RequestsInit, OutcomesInit, Engine, NoTask, Task, NoCall, Outcomes

LEMMA EngineGoesOn == Engine /\ EngineStep => Engine' /\ ApprovalsStay
<1> SUFFICES ASSUME Engine, EngineStep PROVE Engine' /\ ApprovalsStay
  OBVIOUS
<1> USE DEF Engine
<1>1. ASSUME NEW w \in Workers, Moves(w) PROVE Engine' /\ ApprovalsStay
  BY <1>1 DEF Moves, outcomeVars, ApprovalsStay, ApprovedFor
<1>2. ASSUME NEW w \in Workers, NEW c \in Chains, Route(w, c) PROVE Engine' /\ ApprovalsStay
  <2>1. /\ status[c] = "NONE" /\ status' = [status EXCEPT ![c] = "PENDING"]
        /\ subject' = [subject EXCEPT ![c] = call[w].saw] /\ call' = [call EXCEPT ![w] = NoCall]
        /\ UNCHANGED <<task, delivered>>
    BY <1>2 DEF Route, Open, Leave
  <2>2. Engine'
    BY <2>1 DEF NoCall
  <2> QED
    BY <2>1, <2>2 DEF ApprovalsStay, ApprovedFor, Outcomes
<1>3. ASSUME NEW w \in Workers, NEW c \in Chains, NEW s \in Outcomes, DecideChain(w, c, s)
      PROVE  Engine' /\ ApprovalsStay
  <2>1. /\ call[w].at = "none" /\ status' = [status EXCEPT ![c] = s]
        /\ task' = [task EXCEPT ![w] = [phase |-> "due", chain |-> c, outcome |-> s]]
        /\ UNCHANGED <<call, subject, delivered>>
    BY <1>3 DEF DecideChain, Free, Resolve
  <2>2. Engine'
    BY <2>1 DEF Task, Outcomes
  <2> QED
    BY <2>1, <2>2 DEF ApprovalsStay, ApprovedFor
<1>4. ASSUME NEW w \in Workers, NEW a, NEW o, StartCallback(w, a, o) PROVE Engine' /\ ApprovalsStay
  <2> DEFINE c == task[w].chain
             s == task[w].outcome
  <2>1. /\ task[w].phase = "due" /\ task' = [task EXCEPT ![w].phase = "calling"]
        /\ delivered' = [delivered EXCEPT ![c][s] = @ + 1]
        /\ \E r : call' = [call EXCEPT ![w] = r]
        /\ UNCHANGED <<status, subject>>
    BY <1>4 DEF StartCallback, Deliver, Go
  <2>2. c \in Chains /\ s \in Outcomes /\ status[c] # "NONE"
    BY <2>1
  <2>3. delivered' \in [Chains -> [Outcomes -> Nat]]
    BY <2>1, <2>2
  <2>4. task' \in [Workers -> Task] /\ task'[w].phase = "calling"
        /\ \A v \in Workers : task'[v].chain = task[v].chain /\ task'[v].outcome = task[v].outcome
    BY <2>1 DEF Task
  <2>5. \A v \in Workers \ {w} : task'[v] = task[v] /\ call'[v] = call[v]
    BY <2>1
  <2>6. \A d \in Chains : delivered'[d]["APPROVED"] > 0 => status[d] # "NONE"
    BY <2>1, <2>2 DEF Outcomes
  <2>7. Engine'
    BY <2>1, <2>2, <2>3, <2>4, <2>5, <2>6
  <2>8. \A d \in Chains : delivered'[d]["APPROVED"] >= delivered[d]["APPROVED"]
    BY <2>1, <2>2 DEF Outcomes
  <2>9. \A d \in Chains : delivered[d]["APPROVED"] \in Nat /\ delivered'[d]["APPROVED"] \in Nat
    BY <2>3 DEF Outcomes
  <2> QED
    BY <2>1, <2>7, <2>8, <2>9 DEF ApprovalsStay, ApprovedFor
<1>5. ASSUME NEW w \in Workers, EndCallback(w) PROVE Engine' /\ ApprovalsStay
  BY <1>5 DEF EndCallback, Return, NoTask, Task, ApprovalsStay, ApprovedFor
<1>6. ASSUME NEW w \in Workers, Crash(w) PROVE Engine' /\ ApprovalsStay
  BY <1>6 DEF Crash, Stop, Leave, NoTask, NoCall, Task, ApprovalsStay, ApprovedFor
<1>7. CASE UNCHANGED <<outcomeVars, call, subject>>
  BY <1>7 DEF outcomeVars, ApprovalsStay, ApprovedFor
<1> QED
  BY <1>1, <1>2, <1>3, <1>4, <1>5, <1>6, <1>7 DEF EngineStep

\* How the three ways a handler goes on change call.
LEMMA BeginMoves ==
    ASSUME Engine, NEW w \in Workers, NEW at, NEW saw, Begin(w, at, saw)
    PROVE  /\ Moves(w) /\ call[w].at = "none" /\ task[w].phase = "none"
           /\ call'[w].at = at /\ call'[w].saw = saw
           /\ \A v \in Workers \ {w} : call'[v] = call[v]
BY DEF Engine, Begin, Free, Go, Moves

LEMMA StepMoves ==
    ASSUME Engine, NEW w \in Workers, NEW at, NEW saw, call[w].at # "none", Step(w, at, saw)
    PROVE  /\ Moves(w)
           /\ call'[w].at = at /\ call'[w].saw = saw
           /\ \A v \in Workers \ {w} : call'[v] = call[v]
BY DEF Engine, Step, Go, Moves

LEMMA DoneMoves ==
    ASSUME Engine, NEW w \in Workers, call[w].at # "none", Done(w)
    PROVE  /\ Moves(w) /\ call'[w].at = "none"
           /\ \A v \in Workers \ {w} : call'[v] = call[v]
BY DEF Engine, Done, Leave, NoCall, Moves

\* What a move keeps.
LEMMA MovesKeep ==
    ASSUME Engine, NEW w \in Workers, Moves(w)
    PROVE  /\ Engine' /\ ApprovalsStay
           /\ UNCHANGED <<status, task, delivered, subject>>
<1>1. EngineStep
  BY DEF EngineStep
<1> QED
  BY <1>1, EngineGoesOn DEF Moves, outcomeVars

-----------------------------------------------------------------------------
(* Petty cash. *)

Types == {"WITHDRAWAL", "CONVERSION", "TOP_UP"}
Raised == txn.status # "NONE"

\* The amount compares with the threshold as it did when it was raised.
AsRaised(big) == big = ~small \/ moved

ForManager == Raised /\ txn.type = "WITHDRAWAL"
ForDirector == Raised /\ ApprovedFor(Voucher)

RaisingCall(w) ==
    LET at == call[w].at
        saw == call[w].saw
    IN  /\ at \in {"threshold", "create"} => ~Raised
        /\ at = "threshold" => saw.type \in {"WITHDRAWAL", "CONVERSION"}
        /\ at = "create" =>
             /\ saw.type \in Types /\ saw.big \in BOOLEAN
             /\ saw.type = "TOP_UP" => saw.big = TRUE
             /\ saw.type # "TOP_UP" => AsRaised(saw.big)
        /\ at = "createLeg" => Raised
        /\ at = "route" => saw = Voucher /\ Raised

PostingCall(w) ==
    LET at == call[w].at
        saw == call[w].saw
    IN  /\ at \in {"float", "limit"} => ForManager
        /\ at = "approved" => ForDirector
        /\ at = "post" =>
             \/ saw.by = "manager" /\ ForManager /\ (txn.big = FALSE \/ moved)
             \/ saw.by = "director" /\ ForDirector
        /\ at = "journal" => txn.type = "TOP_UP" /\ ForDirector
        /\ at = "mirrorTxn" => task[w].phase = "calling"

PettyShape ==
    /\ txn \in [type : Types \cup {None}, big : BOOLEAN,
                status : {"NONE", "SUBMITTED", "POSTED"} \cup Outcomes]
    /\ small \in BOOLEAN /\ moved \in BOOLEAN /\ confirmed \in BOOLEAN /\ journals \in Nat
    /\ Raised /\ txn.type = "WITHDRAWAL" => AsRaised(txn.big)
    /\ ~Raised => txn = NoTxn /\ journals = 0 /\ ~confirmed
    /\ \A c \in Chains : status[c] # "NONE" => subject[c] = Voucher /\ Raised

OneRaises == \A v, w \in Workers : call[v].at \in Raising /\ call[w].at \in Raising => v = w

PettyInv ==
    Engine /\ PettyShape /\ OneRaises /\ (\A w \in Workers : RaisingCall(w) /\ PostingCall(w)) /\ PettyAuthorised

LEMMA PettyStarts == HandlersInit /\ PettyInit => PettyInv
<1> SUFFICES ASSUME HandlersInit, PettyInit PROVE PettyInv
  OBVIOUS
<1>1. Engine /\ \A w \in Workers : call[w].at = "none"
  BY EngineStarts DEF HandlersInit, RequestsInit, NoCall
<1>2. PettyShape
  BY DEF HandlersInit, RequestsInit, OutcomesInit, PettyInit, PettyShape, NoTxn, Raised
<1>3. OneRaises /\ \A w \in Workers : RaisingCall(w) /\ PostingCall(w)
  BY <1>1 DEF OneRaises, Raising, RaisingCall, PostingCall
<1>4. PettyAuthorised
  BY DEF PettyInit, NoTxn, PettyAuthorised
<1> QED
  BY <1>1, <1>2, <1>3, <1>4 DEF PettyInv

\* The other calls are where they were, and what they rest on still holds.
LEMMA PettyOthers ==
    ASSUME PettyInv, ApprovalsStay, NEW w \in Workers, PettyShape',
           \A v \in Workers \ {w} : call'[v] = call[v] /\ task'[v] = task[v],
           Raised => Raised' /\ txn'.type = txn.type /\ txn'.big = txn.big,
           ~Raised /\ Raised' => call[w].at \in Raising,
           moved => moved', small' = small \/ moved'
    PROVE  \A v \in Workers \ {w} : RaisingCall(v)' /\ PostingCall(v)'
<1> SUFFICES ASSUME NEW v \in Workers \ {w} PROVE RaisingCall(v)' /\ PostingCall(v)'
  OBVIOUS
<1>1. RaisingCall(v) /\ PostingCall(v) /\ call'[v] = call[v] /\ task'[v] = task[v]
  BY DEF PettyInv
<1>2. ForManager => ForManager'
  BY DEF ForManager
<1>3. ForDirector => ForDirector' /\ Raised
  BY DEF ForDirector, ApprovalsStay
<1>4. call[v].at \in Raising => (Raised <=> Raised')
  BY DEF PettyInv, OneRaises, Raising
<1>5. \A big : AsRaised(big) => AsRaised(big)'
  BY DEF AsRaised
<1>6. RaisingCall(v)'
  BY <1>1, <1>4, <1>5 DEF Raising, RaisingCall
<1>7. PostingCall(v)'
  BY <1>1, <1>2, <1>3 DEF PostingCall, ForManager
<1> QED
  BY <1>6, <1>7

\* A move of w keeps the invariant if its tables and what w knows now are sound.
LEMMA PettyMove ==
    ASSUME PettyInv, NEW w \in Workers, Moves(w),
           \A v \in Workers \ {w} : call'[v] = call[v],
           PettyShape', PettyAuthorised', RaisingCall(w)', PostingCall(w)',
           call'[w].at \in Raising => call[w].at \in Raising \/ Unraised,
           Raised => Raised' /\ txn'.type = txn.type /\ txn'.big = txn.big,
           ~Raised /\ Raised' => call[w].at \in Raising,
           moved => moved', small' = small \/ moved'
    PROVE  PettyInv'
<1>1. Engine' /\ ApprovalsStay /\ UNCHANGED task
  BY MovesKeep DEF PettyInv
<1>2. \A v \in Workers \ {w} : RaisingCall(v)' /\ PostingCall(v)'
  BY <1>1, PettyOthers
<1>3. OneRaises'
  BY DEF PettyInv, OneRaises, Unraised
<1> QED
  BY <1>1, <1>2, <1>3 DEF PettyInv

\* One that writes nothing.
LEMMA PettyRead ==
    ASSUME PettyInv, NEW w \in Workers, Moves(w), UNCHANGED pettyVars,
           \A v \in Workers \ {w} : call'[v] = call[v],
           RaisingCall(w)', PostingCall(w)',
           call'[w].at \in Raising => call[w].at \in Raising \/ Unraised
    PROVE  PettyInv'
<1>1. Engine' /\ ApprovalsStay /\ UNCHANGED <<status, subject>>
  BY MovesKeep DEF PettyInv
<1>2. PettyShape' /\ (Raised <=> Raised')
  BY <1>1 DEF PettyInv, PettyShape, Raised, AsRaised, pettyVars
<1>3. PettyAuthorised'
  BY <1>1 DEF PettyInv, PettyAuthorised, ApprovalsStay, pettyVars
<1> QED
  BY <1>2, <1>3, PettyMove DEF pettyVars

\* A handler that ends knows nothing.
LEMMA PettyIdle ==
    ASSUME NEW w \in Workers, call'[w].at = "none"
    PROVE  RaisingCall(w)' /\ PostingCall(w)' /\ call'[w].at \notin Raising
BY DEF RaisingCall, PostingCall, Raising

LEMMA PettyRequests ==
    ASSUME PettyInv, NEW w \in Workers, PettyRequested(w)
    PROVE  PettyInv'
<1>1. Engine
  BY DEF PettyInv
<1>2. ASSUME NEW type \in Types, CreateRead(w, type) PROVE PettyInv'
  <2>1. Unraised /\ ~Raised /\ UNCHANGED pettyVars
    BY <1>2 DEF CreateRead, Unraised, Raised, NoTxn
  <2>2. CASE type = "TOP_UP"
    <3>1. Begin(w, "create", [type |-> type, big |-> TRUE])
      BY <1>2, <2>2 DEF CreateRead
    <3>2. /\ Moves(w) /\ \A v \in Workers \ {w} : call'[v] = call[v]
          /\ call'[w].at = "create" /\ call'[w].saw = [type |-> type, big |-> TRUE]
      BY <1>1, <3>1, BeginMoves
    <3>3. RaisingCall(w)' /\ PostingCall(w)'
      BY <2>1, <2>2, <3>2 DEF RaisingCall, PostingCall, pettyVars, Raised
    <3> QED
      BY <2>1, <3>2, <3>3, PettyRead
  <2>3. CASE type # "TOP_UP"
    <3>1. Begin(w, "threshold", [type |-> type])
      BY <1>2, <2>3 DEF CreateRead
    <3>2. /\ Moves(w) /\ \A v \in Workers \ {w} : call'[v] = call[v]
          /\ call'[w].at = "threshold" /\ call'[w].saw = [type |-> type]
      BY <1>1, <3>1, BeginMoves
    <3>3. RaisingCall(w)' /\ PostingCall(w)'
      BY <2>1, <2>3, <3>2 DEF RaisingCall, PostingCall, pettyVars, Raised, Types
    <3> QED
      BY <2>1, <3>2, <3>3, PettyRead
  <2> QED
    BY <2>2, <2>3
<1>3. ASSUME NEW u \in People, ConfirmRead(w, u) PROVE PettyInv'
  <2>1. /\ Begin(w, "float", None) /\ UNCHANGED pettyVars /\ ForManager
    BY <1>3 DEF ConfirmRead, ForManager, Raised
  <2>2. /\ Moves(w) /\ \A v \in Workers \ {w} : call'[v] = call[v]
        /\ call'[w].at = "float"
    BY <1>1, <2>1, BeginMoves
  <2>3. RaisingCall(w)' /\ PostingCall(w)' /\ call'[w].at \notin Raising
    BY <2>1, <2>2 DEF RaisingCall, PostingCall, ForManager, Raised, Raising, pettyVars
  <2> QED
    BY <2>1, <2>2, <2>3, PettyRead
<1>4. CASE CountRead(w) \/ UnlockRead(w)
  <2>1. /\ UNCHANGED pettyVars
        /\ \E at, saw : at \in {"count", "unlock"} /\ Begin(w, at, saw)
    BY <1>4 DEF CountRead, UnlockRead
  <2>2. PICK at, saw : at \in {"count", "unlock"} /\ Begin(w, at, saw)
    BY <2>1
  <2>3. Moves(w) /\ call'[w].at = at /\ \A v \in Workers \ {w} : call'[v] = call[v]
    BY <1>1, <2>2, BeginMoves
  <2>4. RaisingCall(w)' /\ PostingCall(w)' /\ call'[w].at \notin Raising
    BY <2>2, <2>3 DEF RaisingCall, PostingCall, Raising
  <2> QED
    BY <2>1, <2>3, <2>4, PettyRead
<1>5. ASSUME NEW c \in Chains, NEW s \in Outcomes, DecideChain(w, c, s), UNCHANGED pettyVars
      PROVE  PettyInv'
  <2>1. EngineStep
    BY <1>5 DEF EngineStep
  <2>2. Engine' /\ ApprovalsStay
    BY <1>1, <2>1, EngineGoesOn
  <2>3. /\ status[c] # "NONE" /\ task[w].phase = "none"
        /\ status' = [status EXCEPT ![c] = s] /\ UNCHANGED <<call, subject>>
        /\ \A v \in Workers \ {w} : task'[v] = task[v]
        /\ call[w].at = "none"
    BY <1>1, <1>5 DEF DecideChain, Resolve, Free, Engine, RequestsAssumption
  <2>4. PettyShape'
    BY <1>1, <1>5, <2>3 DEF PettyInv, PettyShape, Raised, AsRaised, pettyVars, Engine
  <2>5. PettyAuthorised'
    BY <1>5, <2>2 DEF PettyInv, PettyAuthorised, ApprovalsStay, pettyVars
  <2>6. \A v \in Workers \ {w} : RaisingCall(v)' /\ PostingCall(v)'
    BY <1>5, <2>2, <2>3, <2>4, PettyOthers DEF pettyVars, Raised
  <2>7. RaisingCall(w)' /\ PostingCall(w)' /\ OneRaises'
    BY <2>3, PettyIdle DEF PettyInv, OneRaises
  <2> QED
    BY <2>2, <2>4, <2>5, <2>6, <2>7 DEF PettyInv
<1> QED
  BY <1>2, <1>3, <1>4, <1>5
     DEF PettyRequested, CreateWithdrawal, CreateConversion, CreateTopUp, Types

\* The calls that raise the transaction, and hand it to the engine.
LEMMA PettyRaises ==
    ASSUME PettyInv, NEW w \in Workers,
           ThresholdRead(w) \/ CreateTxn(w) \/ CreateLeg(w)
    PROVE  PettyInv'
<1>1. Engine /\ RaisingCall(w) /\ PettyShape /\ PettyAuthorised
  BY DEF PettyInv
<1>2. CASE ThresholdRead(w)
  <2>1. /\ call[w].at = "threshold" /\ UNCHANGED pettyVars
        /\ Step(w, "create", [type |-> call[w].saw.type, big |-> ~small])
    BY <1>2 DEF ThresholdRead, In
  <2>2. /\ Moves(w) /\ \A v \in Workers \ {w} : call'[v] = call[v]
        /\ call'[w].at = "create" /\ call'[w].saw = [type |-> call[w].saw.type, big |-> ~small]
    BY <1>1, <2>1, StepMoves
  <2>3. call[w].saw.type \in {"WITHDRAWAL", "CONVERSION"} /\ ~Raised
    BY <1>1, <2>1 DEF RaisingCall
  <2>4. RaisingCall(w)' /\ PostingCall(w)' /\ call[w].at \in Raising
    BY <2>1, <2>2, <2>3 DEF RaisingCall, PostingCall, Raising, Types, AsRaised, Raised, pettyVars
  <2> QED
    BY <2>1, <2>2, <2>4, PettyRead
<1>3. CASE CreateTxn(w)
  <2> DEFINE new == call[w].saw
  <2>1. /\ call[w].at = "create"
        /\ txn' = [type |-> new.type, big |-> new.big,
                   status |-> IF new.type = "CONVERSION" /\ ~new.big THEN "POSTED" ELSE "SUBMITTED"]
        /\ UNCHANGED <<locked, small, leg, journals, confirmed, moved>>
    BY <1>3 DEF CreateTxn, In
  <2>2. /\ new.type \in Types /\ new.big \in BOOLEAN
        /\ new.type = "TOP_UP" => new.big = TRUE
        /\ new.type # "TOP_UP" => AsRaised(new.big)
        /\ ~Raised /\ journals = 0 /\ ~confirmed
    BY <1>1, <2>1 DEF RaisingCall, PettyShape
  <2>3. Raised' /\ (txn.type)' = new.type /\ (txn.big)' = new.big
    BY <2>1 DEF Raised
  <2>4. /\ Moves(w) /\ \A v \in Workers \ {w} : call'[v] = call[v]
        /\ call'[w].at \in {"createLeg", "route", "none"}
        /\ call'[w].at = "route" => call'[w].saw = Voucher
    <3>1. CASE Step(w, "createLeg", new) \/ Step(w, "route", Voucher)
      BY <1>1, <2>1, <3>1, StepMoves
    <3>2. CASE Done(w)
      BY <1>1, <2>1, <3>2, DoneMoves
    <3> QED
      BY <1>3, <3>1, <3>2 DEF CreateTxn
  <2>5. UNCHANGED <<status, subject>>
    BY <1>1, <2>4, MovesKeep
  <2>6. PettyShape'
    <3>1. txn' \in [type : Types \cup {None}, big : BOOLEAN,
                    status : {"NONE", "SUBMITTED", "POSTED"} \cup Outcomes]
      BY <2>1, <2>2
    <3>2. (txn.type)' = "WITHDRAWAL" => AsRaised(txn.big)'
      BY <2>1, <2>2, <2>3 DEF AsRaised, Types
    <3> QED
      BY <1>1, <2>1, <2>2, <2>3, <2>5, <3>1, <3>2 DEF PettyShape
  <2>7. PettyAuthorised'
    BY <2>1, <2>2 DEF PettyAuthorised
  <2>8. RaisingCall(w)' /\ PostingCall(w)'
    BY <2>3, <2>4 DEF RaisingCall, PostingCall
  <2>9. call[w].at \in Raising
    BY <2>1 DEF Raising
  <2> QED
    BY <2>1, <2>2, <2>3, <2>4, <2>6, <2>7, <2>8, <2>9, PettyMove
<1>4. CASE CreateLeg(w)
  <2>1. /\ call[w].at = "createLeg" /\ UNCHANGED <<locked, small, txn, journals, confirmed, moved>>
        /\ Step(w, "route", Voucher) \/ Done(w)
    BY <1>4 DEF CreateLeg, In
  <2>2. /\ Moves(w) /\ \A v \in Workers \ {w} : call'[v] = call[v]
        /\ call'[w].at \in {"route", "none"} /\ (call'[w].at = "route" => call'[w].saw = Voucher)
    BY <1>1, <2>1, StepMoves, DoneMoves
  <2>3. ApprovalsStay /\ UNCHANGED <<status, subject>> /\ Raised /\ Raised'
    BY <1>1, <2>1, <2>2, MovesKeep DEF RaisingCall, Raised
  <2>4. PettyShape'
    BY <1>1, <2>1, <2>3 DEF PettyShape, Raised, AsRaised
  <2>5. PettyAuthorised'
    BY <1>1, <2>1, <2>3 DEF PettyAuthorised, ApprovalsStay
  <2>6. RaisingCall(w)' /\ PostingCall(w)' /\ call'[w].at \notin Raising
    BY <2>2, <2>3 DEF RaisingCall, PostingCall, Raising
  <2> QED
    BY <2>1, <2>2, <2>3, <2>4, <2>5, <2>6, PettyMove
<1> QED
  BY <1>2, <1>3, <1>4

\* The engine takes it, and calls back.
LEMMA PettyEngine ==
    ASSUME PettyInv, NEW w \in Workers, UNCHANGED pettyVars,
           \/ \E c \in Chains : Route(w, c)
           \/ StartCallback(w, "approved", "mirrorTxn") \/ EndCallback(w) \/ Crash(w)
    PROVE  PettyInv'
<1>1. Engine /\ RaisingCall(w) /\ PettyShape /\ PettyAuthorised
  BY DEF PettyInv
<1>2. Engine' /\ ApprovalsStay
  BY <1>1, EngineGoesOn DEF EngineStep
<1>3. PettyAuthorised'
  BY <1>1, <1>2 DEF PettyAuthorised, ApprovalsStay, pettyVars
<1>4. ASSUME PettyShape', RaisingCall(w)', PostingCall(w)', call'[w].at \notin Raising,
             \A v \in Workers \ {w} : call'[v] = call[v] /\ task'[v] = task[v]
      PROVE  PettyInv'
  <2>1. \A v \in Workers \ {w} : RaisingCall(v)' /\ PostingCall(v)'
    BY <1>2, <1>4, PettyOthers DEF pettyVars, Raised
  <2>2. OneRaises'
    BY <1>4 DEF PettyInv, OneRaises
  <2> QED
    BY <1>2, <1>3, <1>4, <2>1, <2>2 DEF PettyInv
<1>5. ASSUME NEW c \in Chains, Route(w, c) PROVE PettyInv'
  <2>1. /\ call[w].at = "route" /\ status' = [status EXCEPT ![c] = "PENDING"]
        /\ subject' = [subject EXCEPT ![c] = call[w].saw] /\ UNCHANGED task
        /\ call' = [call EXCEPT ![w] = NoCall]
    BY <1>5 DEF Route, Open, Leave, In
  <2>2. call[w].saw = Voucher /\ Raised /\ call'[w].at = "none"
    BY <1>1, <2>1 DEF RaisingCall, Engine, NoCall
  <2>3. PettyShape'
    BY <1>1, <2>1, <2>2 DEF PettyShape, Raised, AsRaised, pettyVars, Engine
  <2> QED
    BY <1>1, <1>4, <2>1, <2>2, <2>3, PettyIdle DEF Engine
<1>6. CASE StartCallback(w, "approved", "mirrorTxn")
  <2> DEFINE c == task[w].chain
             s == task[w].outcome
  <2>1. /\ task[w].phase = "due" /\ task' = [task EXCEPT ![w].phase = "calling"]
        /\ delivered' = [delivered EXCEPT ![c][s] = @ + 1] /\ UNCHANGED <<status, subject>>
        /\ call' = [call EXCEPT ![w] = [at |-> IF s = "APPROVED" THEN "approved" ELSE "mirrorTxn",
                                        saw |-> subject[c]]]
    BY <1>6 DEF StartCallback, Deliver, Go
  <2>2. c \in Chains /\ status[c] # "NONE" /\ subject[c] = Voucher /\ Raised
    BY <1>1, <2>1 DEF Engine, PettyShape
  <2>3. s = "APPROVED" => ApprovedFor(Voucher)'
    <3>1. s = "APPROVED" => delivered'[c]["APPROVED"] = delivered[c]["APPROVED"] + 1
      BY <1>1, <2>1, <2>2 DEF Engine, Outcomes
    <3>2. delivered[c]["APPROVED"] \in Nat
      BY <1>1, <2>2 DEF Engine, Outcomes
    <3> QED
      BY <2>1, <2>2, <3>1, <3>2 DEF ApprovedFor
  <2>4. /\ call'[w].at = IF s = "APPROVED" THEN "approved" ELSE "mirrorTxn"
        /\ task'[w].phase = "calling"
        /\ \A v \in Workers \ {w} : call'[v] = call[v] /\ task'[v] = task[v]
    BY <1>1, <2>1 DEF Engine, Task
  <2>5. PettyShape'
    BY <1>1, <2>1 DEF PettyShape, Raised, AsRaised, pettyVars
  <2>6. RaisingCall(w)' /\ PostingCall(w)' /\ call'[w].at \notin Raising
    BY <2>2, <2>3, <2>4 DEF RaisingCall, PostingCall, Raising, ForDirector, Raised, pettyVars
  <2> QED
    BY <1>4, <2>4, <2>5, <2>6
<1>7. CASE EndCallback(w)
  <2>1. /\ call[w].at = "none" /\ UNCHANGED <<call, status, subject>>
        /\ \A v \in Workers \ {w} : task'[v] = task[v]
    BY <1>1, <1>7 DEF EndCallback, Return, In, Engine
  <2>2. PettyShape'
    BY <1>1, <2>1 DEF PettyShape, Raised, AsRaised, pettyVars
  <2> QED
    BY <1>4, <2>1, <2>2, PettyIdle
<1>8. CASE Crash(w)
  <2>1. /\ call'[w].at = "none" /\ UNCHANGED <<status, subject>>
        /\ \A v \in Workers \ {w} : call'[v] = call[v] /\ task'[v] = task[v]
    BY <1>1, <1>8 DEF Crash, Stop, Leave, NoCall, Engine
  <2>2. PettyShape'
    BY <1>1, <2>1 DEF PettyShape, Raised, AsRaised, pettyVars
  <2> QED
    BY <1>4, <2>1, <2>2, PettyIdle
<1> QED
  BY <1>5, <1>6, <1>7, <1>8

\* A confirmation reads; a call of the float's own leaves the transaction alone.
LEMMA PettyReads ==
    ASSUME PettyInv, NEW w \in Workers,
           \/ ConfirmFloat(w) \/ ConfirmThreshold(w) \/ ApprovedRead(w)
           \/ (\E beyond \in BOOLEAN : CountWrite(w, beyond)) \/ UnlockWrite(w)
    PROVE  PettyInv'
<1>1. Engine /\ PostingCall(w) /\ PettyShape /\ PettyAuthorised
  BY DEF PettyInv
<1>2. CASE ConfirmFloat(w)
  <2>1. /\ call[w].at = "float" /\ UNCHANGED pettyVars
        /\ Done(w) \/ Step(w, "limit", None)
    BY <1>2 DEF ConfirmFloat, In
  <2>2. /\ Moves(w) /\ \A v \in Workers \ {w} : call'[v] = call[v]
        /\ call'[w].at \in {"none", "limit"}
    BY <1>1, <2>1, StepMoves, DoneMoves
  <2>3. RaisingCall(w)' /\ PostingCall(w)' /\ call'[w].at \notin Raising
    BY <1>1, <2>1, <2>2 DEF RaisingCall, PostingCall, Raising, ForManager, Raised, pettyVars
  <2> QED
    BY <2>1, <2>2, <2>3, PettyRead
<1>3. CASE ConfirmThreshold(w)
  <2>1. call[w].at = "limit" /\ UNCHANGED pettyVars
    BY <1>3 DEF ConfirmThreshold, In
  <2>2. CASE ~small
    <3>1. Done(w)
      BY <1>3, <2>2 DEF ConfirmThreshold
    <3> QED
      BY <1>1, <2>1, <3>1, DoneMoves, PettyIdle, PettyRead
  <2>3. CASE small
    <3>1. Step(w, "post", [by |-> "manager"])
      BY <1>3, <2>3 DEF ConfirmThreshold
    <3>2. /\ Moves(w) /\ \A v \in Workers \ {w} : call'[v] = call[v]
          /\ call'[w].at = "post" /\ call'[w].saw = [by |-> "manager"]
      BY <1>1, <2>1, <3>1, StepMoves
    <3>3. ForManager /\ (txn.big = FALSE \/ moved)
      BY <1>1, <2>1, <2>3 DEF PostingCall, PettyShape, ForManager, AsRaised
    <3>4. RaisingCall(w)' /\ PostingCall(w)' /\ call'[w].at \notin Raising
      BY <2>1, <3>2, <3>3 DEF RaisingCall, PostingCall, Raising, ForManager, Raised, pettyVars
    <3> QED
      BY <2>1, <3>2, <3>4, PettyRead
  <2> QED
    BY <2>2, <2>3
<1>4. CASE ApprovedRead(w)
  <2>1. /\ call[w].at = "approved" /\ UNCHANGED pettyVars
        /\ Done(w) \/ Step(w, "post", [by |-> "director"])
    BY <1>4 DEF ApprovedRead, In
  <2>2. CASE Done(w)
    BY <1>1, <2>1, <2>2, DoneMoves, PettyIdle, PettyRead
  <2>3. CASE Step(w, "post", [by |-> "director"])
    <3>1. /\ Moves(w) /\ \A v \in Workers \ {w} : call'[v] = call[v]
          /\ call'[w].at = "post" /\ call'[w].saw = [by |-> "director"]
      BY <1>1, <2>1, <2>3, StepMoves
    <3>2. ForDirector /\ ForDirector'
      BY <1>1, <2>1, <3>1, MovesKeep DEF PostingCall, ForDirector, ApprovalsStay, Raised, pettyVars
    <3>3. RaisingCall(w)' /\ PostingCall(w)' /\ call'[w].at \notin Raising
      BY <3>1, <3>2 DEF RaisingCall, PostingCall, Raising
    <3> QED
      BY <2>1, <3>1, <3>3, PettyRead
  <2> QED
    BY <2>1, <2>2, <2>3
<1>5. CASE (\E beyond \in BOOLEAN : CountWrite(w, beyond)) \/ UnlockWrite(w)
  <2>1. /\ call[w].at # "none" /\ Done(w)
        /\ UNCHANGED <<small, txn, leg, journals, confirmed, moved>>
    BY <1>5 DEF CountWrite, UnlockWrite, In
  <2>2. /\ Moves(w) /\ call'[w].at = "none" /\ \A v \in Workers \ {w} : call'[v] = call[v]
    BY <1>1, <2>1, DoneMoves
  <2>3. ApprovalsStay /\ UNCHANGED <<status, subject>>
    BY <1>1, <2>2, MovesKeep
  <2>4. PettyShape' /\ (Raised <=> Raised')
    BY <1>1, <2>1, <2>3 DEF PettyShape, Raised, AsRaised
  <2>5. PettyAuthorised'
    BY <1>1, <2>1, <2>3 DEF PettyAuthorised, ApprovalsStay
  <2> QED
    BY <2>1, <2>2, <2>4, <2>5, PettyIdle, PettyMove
<1> QED
  BY <1>2, <1>3, <1>4, <1>5

\* What changes the status of a raised transaction, the ledger or the other leg.
LEMMA PettyPosts ==
    ASSUME PettyInv, NEW w \in Workers,
           PostStatus(w) \/ PostToLedger(w) \/ PostLeg(w) \/ MirrorTxn(w) \/ MirrorLeg(w)
    PROVE  PettyInv'
<1>1. Engine /\ PostingCall(w) /\ PettyShape /\ PettyAuthorised
  BY DEF PettyInv
<1>2. CASE PostStatus(w)
  <2>1. /\ call[w].at = "post" /\ txn' = [txn EXCEPT !.status = "POSTED"]
        /\ confirmed' = (confirmed \/ call[w].saw.by = "manager")
        /\ UNCHANGED <<locked, small, leg, journals, moved>>
    BY <1>2 DEF PostStatus, In
  <2>2. \/ call[w].saw.by = "manager" /\ ForManager /\ (txn.big = FALSE \/ moved)
        \/ call[w].saw.by = "director" /\ ForDirector
    BY <1>1, <2>1 DEF PostingCall
  <2>3. /\ Moves(w) /\ \A v \in Workers \ {w} : call'[v] = call[v]
        /\ call'[w].at \in {"journal", "otherLeg", "none"}
        /\ call'[w].at = "journal" => txn.type = "TOP_UP"
    <3>1. CASE txn.type = "TOP_UP" /\ Step(w, "journal", None)
      BY <1>1, <2>1, <3>1, StepMoves
    <3>2. CASE Step(w, "otherLeg", None)
      BY <1>1, <2>1, <3>2, StepMoves
    <3>3. CASE Done(w)
      BY <1>1, <2>1, <3>3, DoneMoves
    <3> QED
      BY <1>2, <3>1, <3>2, <3>3 DEF PostStatus
  <2>4. ApprovalsStay /\ UNCHANGED <<status, subject>>
    BY <1>1, <2>3, MovesKeep
  <2>5. /\ txn' = [type |-> txn.type, big |-> txn.big, status |-> "POSTED"]
        /\ txn'.type = txn.type /\ txn'.big = txn.big /\ Raised /\ Raised'
    BY <1>1, <2>1, <2>2 DEF PettyShape, Raised, ForManager, ForDirector
  <2>6. confirmed' \in BOOLEAN
    BY <1>1, <2>1
  <2>7. PettyShape'
    BY <1>1, <2>1, <2>4, <2>5, <2>6 DEF PettyShape, AsRaised
  <2>8. PettyAuthorised'
    <3>1. txn'.status = "POSTED" => confirmed' \/ ApprovedFor(Voucher)'
      BY <2>1, <2>2, <2>4 DEF ForDirector, ApprovalsStay
    <3>2. journals' > 0 => txn'.type = "TOP_UP" /\ ApprovedFor(Voucher)'
      BY <1>1, <2>1, <2>4, <2>5 DEF PettyAuthorised, ApprovalsStay
    <3>3. confirmed' => txn'.type = "WITHDRAWAL" /\ (txn'.big => moved')
      BY <1>1, <2>1, <2>2, <2>5 DEF PettyAuthorised, ForManager
    <3> QED
      BY <3>1, <3>2, <3>3 DEF PettyAuthorised
  <2>9. RaisingCall(w)' /\ PostingCall(w)' /\ call'[w].at \notin Raising
    <3>1. call'[w].at = "journal" => ForDirector'
      BY <2>2, <2>3, <2>4, <2>5 DEF ForManager, ForDirector, ApprovalsStay
    <3> QED
      BY <2>3, <2>5, <3>1 DEF RaisingCall, PostingCall, Raising
  <2> QED
    BY <2>1, <2>3, <2>5, <2>7, <2>8, <2>9, PettyMove
<1>3. CASE PostToLedger(w) \/ PostLeg(w) \/ MirrorLeg(w)
  <2>1. /\ call[w].at # "none" /\ Done(w) /\ UNCHANGED <<locked, small, txn, confirmed, moved>>
        /\ \/ UNCHANGED journals
           \/ call[w].at = "journal" /\ journals' = journals + 1
    BY <1>3 DEF PostToLedger, PostLeg, MirrorLeg, In
  <2>2. /\ Moves(w) /\ call'[w].at = "none" /\ \A v \in Workers \ {w} : call'[v] = call[v]
    BY <1>1, <2>1, DoneMoves
  <2>3. ApprovalsStay /\ UNCHANGED <<status, subject>>
    BY <1>1, <2>2, MovesKeep
  <2>4. call[w].at = "journal" => txn.type = "TOP_UP" /\ ApprovedFor(Voucher)' /\ Raised
    BY <1>1, <2>3 DEF PostingCall, ForDirector, ApprovalsStay
  <2>5. PettyShape' /\ (Raised <=> Raised')
    BY <1>1, <2>1, <2>3, <2>4 DEF PettyShape, Raised, AsRaised
  <2>6. PettyAuthorised'
    BY <1>1, <2>1, <2>3, <2>4 DEF PettyAuthorised, ApprovalsStay
  <2> QED
    BY <2>1, <2>2, <2>5, <2>6, PettyIdle, PettyMove
<1>4. CASE MirrorTxn(w)
  <2>1. /\ call[w].at = "mirrorTxn" /\ txn' = [txn EXCEPT !.status = task[w].outcome]
        /\ UNCHANGED <<locked, small, leg, journals, confirmed, moved>>
        /\ Step(w, "mirrorLeg", None) \/ Done(w)
    BY <1>4 DEF MirrorTxn, In
  <2>2. /\ Moves(w) /\ \A v \in Workers \ {w} : call'[v] = call[v]
        /\ call'[w].at \in {"mirrorLeg", "none"}
    BY <1>1, <2>1, StepMoves, DoneMoves
  <2>3. ApprovalsStay /\ UNCHANGED <<status, subject>>
    BY <1>1, <2>2, MovesKeep
  <2>4. task[w].outcome \in Outcomes /\ Raised
    BY <1>1, <2>1 DEF PostingCall, Engine, PettyShape
  <2>5. txn' = [type |-> txn.type, big |-> txn.big, status |-> task[w].outcome] /\ Raised'
    BY <1>1, <2>1, <2>4 DEF PettyShape, Raised, Outcomes
  <2>6. PettyShape'
    BY <1>1, <2>1, <2>3, <2>4, <2>5 DEF PettyShape, AsRaised
  <2>7. PettyAuthorised'
    BY <1>1, <2>1, <2>3, <2>4, <2>5 DEF PettyAuthorised, ApprovalsStay, Outcomes
  <2>8. RaisingCall(w)' /\ PostingCall(w)' /\ call'[w].at \notin Raising
    BY <2>2 DEF RaisingCall, PostingCall, Raising
  <2> QED
    BY <2>1, <2>2, <2>4, <2>5, <2>6, <2>7, <2>8, PettyMove
<1> QED
  BY <1>2, <1>3, <1>4

LEMMA PettyGoesOn == PettyInv /\ PettyNext => PettyInv'
<1> SUFFICES ASSUME PettyInv, PettyNext PROVE PettyInv'
  OBVIOUS
<1>1. ASSUME NEW w \in Workers, PettyProceeds(w) PROVE PettyInv'
  <2>1. CASE ThresholdRead(w) \/ CreateTxn(w) \/ CreateLeg(w)
    BY <2>1, PettyRaises
  <2>2. CASE \/ (\E c \in Chains : Route(w, c)) /\ UNCHANGED pettyVars
             \/ (StartCallback(w, "approved", "mirrorTxn") \/ EndCallback(w)) /\ UNCHANGED pettyVars
    BY <2>2, PettyEngine
  <2>3. CASE \/ ConfirmFloat(w) \/ ConfirmThreshold(w) \/ ApprovedRead(w)
             \/ (\E beyond \in BOOLEAN : CountWrite(w, beyond)) \/ UnlockWrite(w)
    BY <2>3, PettyReads
  <2>4. CASE PostStatus(w) \/ PostToLedger(w) \/ PostLeg(w) \/ MirrorTxn(w) \/ MirrorLeg(w)
    BY <2>4, PettyPosts
  <2> QED
    BY <1>1, <2>1, <2>2, <2>3, <2>4 DEF PettyProceeds
<1>2. CASE ThresholdMoves
  <2>1. /\ ~moved /\ small' = ~small /\ moved' = ~Unraised
        /\ UNCHANGED <<handlerVars, locked, txn, leg, journals, confirmed>>
    BY <1>2 DEF ThresholdMoves
  <2>2. Engine' /\ ApprovalsStay /\ UNCHANGED <<status, task, call, subject>>
    BY <2>1, EngineGoesOn DEF PettyInv, EngineStep, handlerVars, outcomeVars
  <2>3. moved' \in BOOLEAN /\ (Raised => moved')
    <3>1. Raised => ~Unraised
      BY DEF Unraised, Raised, NoTxn
    <3>2. Unraised \in BOOLEAN
      BY DEF Unraised
    <3> QED
      BY <2>1, <3>1, <3>2
  <2>4. PettyShape' /\ (Raised <=> Raised')
    BY <2>1, <2>2, <2>3 DEF PettyInv, PettyShape, Raised, AsRaised
  <2>5. PettyAuthorised'
    BY <2>1, <2>2 DEF PettyInv, PettyAuthorised, ApprovalsStay
  <2>6. ASSUME NEW w \in Workers PROVE RaisingCall(w)' /\ PostingCall(w)'
    <3>1. RaisingCall(w) /\ PostingCall(w)
      BY DEF PettyInv
    <3>2. call[w].at \in Raising => moved' = TRUE
      BY <2>1 DEF Unraised
    <3>3. RaisingCall(w)'
      BY <2>2, <2>4, <3>1, <3>2 DEF RaisingCall, Raising, AsRaised
    <3>4. (ForManager => ForManager') /\ (ForDirector => ForDirector')
      BY <2>1, <2>2, <2>4 DEF ForManager, ForDirector, ApprovalsStay
    <3>5. PostingCall(w)'
      BY <2>1, <2>2, <3>1, <3>4 DEF PostingCall
    <3> QED
      BY <3>3, <3>5
  <2> QED
    BY <2>2, <2>4, <2>5, <2>6 DEF PettyInv, OneRaises
<1> QED
  BY <1>1, <1>2, PettyRequests, PettyEngine DEF PettyNext

-----------------------------------------------------------------------------
(* Budgets. *)

\* The version was created.
Made(b) == b \in Budgets /\ budget[b] # "NONE"

BudgetCall(w) ==
    LET at == call[w].at
        saw == call[w].saw
    IN  /\ at \in {"submit", "route", "activateRead", "activate", "supersede", "mirrorBudget"} => Made(saw)
        /\ at \in {"activateRead", "activate", "supersede"} => ApprovedFor(saw)
        /\ at = "supersede" => parent[saw] \in Budgets
        /\ at = "mirrorBudget" => task[w].phase = "calling"
        /\ at = "clone" => saw \in Budgets

BudgetInv ==
    /\ Engine /\ BudgetTypeOK
    /\ \A c \in Chains : status[c] # "NONE" => Made(subject[c])
    /\ \A w \in Workers : BudgetCall(w)
    /\ BudgetsAuthorised

LEMMA BudgetStarts == HandlersInit /\ BudgetInit => BudgetInv
<1> SUFFICES ASSUME HandlersInit, BudgetInit PROVE BudgetInv
  OBVIOUS
<1>1. Engine /\ (\A w \in Workers : call[w].at = "none") /\ \A c \in Chains : status[c] = "NONE"
  BY EngineStarts DEF HandlersInit, RequestsInit, OutcomesInit, NoCall
<1>2. BudgetTypeOK /\ BudgetsAuthorised
  BY DEF BudgetInit, BudgetTypeOK, BudgetStatus, BudgetsAuthorised
<1> QED
  BY <1>1, <1>2 DEF BudgetInv, BudgetCall

\* What a step changes in no other way than a version's status, or a new version's
\* parent, leaves the other calls and the chains with what they rest on.
VersionsStay == \A b \in Budgets : budget[b] # "NONE" => budget'[b] # "NONE" /\ parent'[b] = parent[b]

LEMMA BudgetStep ==
    ASSUME BudgetInv, NEW w \in Workers, EngineStep, UNCHANGED <<status, subject>>,
           VersionsStay, BudgetTypeOK', BudgetCall(w)', BudgetsAuthorised',
           \A v \in Workers \ {w} : call'[v] = call[v] /\ task'[v] = task[v]
    PROVE  BudgetInv'
<1>1. Engine' /\ ApprovalsStay
  BY EngineGoesOn DEF BudgetInv
<1>2. \A x : Made(x) => Made(x)'
  BY DEF Made, VersionsStay
<1>3. (\A c \in Chains : status[c] # "NONE" => Made(subject[c]))'
  BY <1>2 DEF BudgetInv
<1>4. ASSUME NEW v \in Workers \ {w} PROVE BudgetCall(v)'
  <2>1. BudgetCall(v) /\ call'[v] = call[v] /\ task'[v] = task[v]
    BY DEF BudgetInv
  <2>2. \A x : Made(x) => parent'[x] = parent[x]
    BY DEF Made, VersionsStay
  <2> QED
    BY <1>1, <1>2, <2>1, <2>2 DEF BudgetCall, ApprovalsStay
<1> QED
  BY <1>1, <1>3, <1>4 DEF BudgetInv

\* One that leaves the tables alone.
LEMMA BudgetRead ==
    ASSUME BudgetInv, NEW w \in Workers, EngineStep, UNCHANGED <<status, subject>>,
           UNCHANGED budgetVars, BudgetCall(w)',
           \A v \in Workers \ {w} : call'[v] = call[v] /\ task'[v] = task[v]
    PROVE  BudgetInv'
<1>1. ApprovalsStay
  BY EngineGoesOn DEF BudgetInv
<1>2. VersionsStay /\ BudgetTypeOK' /\ BudgetsAuthorised'
  BY <1>1 DEF BudgetInv, VersionsStay, BudgetTypeOK, BudgetsAuthorised, ApprovalsStay, budgetVars
<1> QED
  BY <1>2, BudgetStep

LEMMA BudgetGoesOn == BudgetInv /\ BudgetNext => BudgetInv'
<1> SUFFICES ASSUME BudgetInv, NEW w \in Workers,
                    \/ BudgetRequested(w) \/ BudgetProceeds(w)
                    \/ Crash(w) /\ UNCHANGED budgetVars
             PROVE  BudgetInv'
  BY DEF BudgetNext
<1> DEFINE saw == call[w].saw
<1>1. Engine /\ BudgetTypeOK /\ BudgetCall(w) /\ BudgetsAuthorised
      /\ \A c \in Chains : status[c] # "NONE" => Made(subject[c])
  BY DEF BudgetInv
<1>2. ASSUME Moves(w) PROVE EngineStep /\ ApprovalsStay /\ UNCHANGED <<status, task, subject>>
  BY <1>1, <1>2, MovesKeep DEF EngineStep
<1>3. ASSUME NEW b \in Budgets, CreateBudget(w, b) PROVE BudgetInv'
  <2>1. /\ budget[b] = "NONE" /\ budget' = [budget EXCEPT ![b] = "DRAFT"]
        /\ UNCHANGED <<handlerVars, parent>>
    BY <1>3 DEF CreateBudget
  <2>2. EngineStep /\ UNCHANGED <<status, subject, call, task>> /\ ApprovalsStay
    BY <1>1, <2>1, EngineGoesOn DEF EngineStep, handlerVars, outcomeVars
  <2>3. VersionsStay /\ BudgetTypeOK'
    BY <1>1, <2>1 DEF VersionsStay, BudgetTypeOK, BudgetStatus
  <2>4. BudgetsAuthorised'
    BY <1>1, <2>1, <2>2 DEF BudgetsAuthorised, BudgetTypeOK, ApprovalsStay
  <2>5. BudgetCall(w)'
    BY <1>1, <2>1, <2>2, <2>3 DEF BudgetCall, Made, VersionsStay, ApprovalsStay
  <2> QED
    BY <2>2, <2>3, <2>4, <2>5, BudgetStep
<1>4. ASSUME NEW b \in Budgets, SubmitBudgetRead(w, b) \/ ReviseRead(w, b) PROVE BudgetInv'
  <2>1. UNCHANGED budgetVars /\ Made(b) /\ (Begin(w, "submit", b) \/ Begin(w, "clone", b))
    BY <1>4 DEF SubmitBudgetRead, ReviseRead, Made
  <2>2. /\ Moves(w) /\ \A v \in Workers \ {w} : call'[v] = call[v]
        /\ call'[w].at \in {"submit", "clone"} /\ call'[w].saw = b
    BY <1>1, <2>1, BeginMoves
  <2>3. BudgetCall(w)'
    BY <2>1, <2>2 DEF BudgetCall, Made, budgetVars
  <2> QED
    BY <1>2, <2>1, <2>2, <2>3, BudgetRead
<1>5. ASSUME NEW c \in Chains, NEW s \in Outcomes, DecideChain(w, c, s), UNCHANGED budgetVars
      PROVE  BudgetInv'
  <2>1. /\ status[c] # "NONE" /\ call[w].at = "none"
        /\ status' = [status EXCEPT ![c] = s] /\ UNCHANGED <<call, subject>>
        /\ \A v \in Workers \ {w} : task'[v] = task[v]
    BY <1>1, <1>5 DEF DecideChain, Resolve, Free, Engine, RequestsAssumption
  <2>2. Engine' /\ ApprovalsStay
    BY <1>1, <1>5, EngineGoesOn DEF EngineStep
  <2>m. \A x : Made(x) => Made(x)'
    BY <1>5 DEF Made, budgetVars
  <2>3. (\A d \in Chains : status[d] # "NONE" => Made(subject[d]))'
    <3>1. \A d \in Chains : status'[d] # "NONE" => status[d] # "NONE"
      BY <1>1, <2>1 DEF Engine
    <3>2. \A d \in Chains : subject'[d] = subject[d]
      BY <2>1
    <3> QED
      BY <1>1, <2>m, <3>1, <3>2
  <2>4. \A v \in Workers : BudgetCall(v)'
    BY <1>5, <2>1, <2>2 DEF BudgetInv, BudgetCall, Made, ApprovalsStay, budgetVars
  <2>5. BudgetTypeOK' /\ BudgetsAuthorised'
    BY <1>1, <1>5, <2>2 DEF BudgetTypeOK, BudgetsAuthorised, ApprovalsStay, budgetVars
  <2> QED
    BY <2>2, <2>3, <2>4, <2>5 DEF BudgetInv
<1>6. CASE SubmitBudgetWrite(w)
  <2>1. /\ call[w].at = "submit" /\ budget' = [budget EXCEPT ![saw] = "SUBMITTED"]
        /\ Step(w, "route", saw) /\ UNCHANGED parent
    BY <1>6 DEF SubmitBudgetWrite, In
  <2>2. /\ Moves(w) /\ \A v \in Workers \ {w} : call'[v] = call[v]
        /\ call'[w].at = "route" /\ call'[w].saw = saw
    BY <1>1, <2>1, StepMoves
  <2>3. Made(saw)
    BY <1>1, <2>1 DEF BudgetCall
  <2>4. VersionsStay /\ BudgetTypeOK'
    BY <1>1, <2>1, <2>3 DEF VersionsStay, BudgetTypeOK, BudgetStatus, Made
  <2>5. BudgetsAuthorised'
    BY <1>1, <1>2, <2>1, <2>2, <2>3 DEF BudgetsAuthorised, BudgetTypeOK, ApprovalsStay, Made
  <2>6. BudgetCall(w)'
    BY <2>2, <2>3, <2>4 DEF BudgetCall, Made, VersionsStay
  <2> QED
    BY <1>2, <2>2, <2>4, <2>5, <2>6, BudgetStep
<1>7. ASSUME NEW c \in Chains, Route(w, c), UNCHANGED budgetVars PROVE BudgetInv'
  <2>1. /\ call[w].at = "route" /\ status' = [status EXCEPT ![c] = "PENDING"]
        /\ subject' = [subject EXCEPT ![c] = saw] /\ UNCHANGED task
        /\ call'[w].at = "none" /\ \A v \in Workers \ {w} : call'[v] = call[v]
    BY <1>1, <1>7 DEF Route, Open, Leave, In, Engine, NoCall
  <2>2. Made(saw)
    BY <1>1, <2>1 DEF BudgetCall
  <2>3. Engine' /\ ApprovalsStay
    BY <1>1, <1>7, EngineGoesOn DEF EngineStep
  <2>m. \A x : Made(x) => Made(x)'
    BY <1>7 DEF Made, budgetVars
  <2>4. (\A d \in Chains : status[d] # "NONE" => Made(subject[d]))'
    <3>1. \A d \in Chains : d = c \/ status'[d] = status[d]
      BY <1>1, <2>1 DEF Engine
    <3>2. \A d \in Chains : subject'[d] = IF d = c THEN saw ELSE subject[d]
      BY <1>1, <2>1 DEF Engine
    <3> QED
      BY <1>1, <2>2, <2>m, <3>1, <3>2
  <2>5. \A v \in Workers : BudgetCall(v)'
    BY <1>7, <2>1, <2>3 DEF BudgetInv, BudgetCall, Made, ApprovalsStay, budgetVars
  <2>6. BudgetTypeOK' /\ BudgetsAuthorised'
    BY <1>1, <1>7, <2>3 DEF BudgetTypeOK, BudgetsAuthorised, ApprovalsStay, budgetVars
  <2> QED
    BY <2>3, <2>4, <2>5, <2>6 DEF BudgetInv
<1>8. CASE StartCallback(w, "activateRead", "mirrorBudget") /\ UNCHANGED budgetVars
  <2> DEFINE c == task[w].chain
             s == task[w].outcome
  <2>1. /\ task[w].phase = "due" /\ task' = [task EXCEPT ![w].phase = "calling"]
        /\ delivered' = [delivered EXCEPT ![c][s] = @ + 1] /\ UNCHANGED <<status, subject>>
        /\ call' = [call EXCEPT ![w] = [at |-> IF s = "APPROVED" THEN "activateRead" ELSE "mirrorBudget",
                                        saw |-> subject[c]]]
    BY <1>8 DEF StartCallback, Deliver, Go
  <2>2. c \in Chains /\ Made(subject[c])
    BY <1>1, <2>1 DEF Engine
  <2>3. s = "APPROVED" => ApprovedFor(subject[c])'
    <3>1. s = "APPROVED" => delivered'[c]["APPROVED"] = delivered[c]["APPROVED"] + 1
      BY <1>1, <2>1, <2>2 DEF Engine, Outcomes
    <3>2. delivered[c]["APPROVED"] \in Nat
      BY <1>1, <2>2 DEF Engine, Outcomes
    <3> QED
      BY <2>1, <2>2, <3>1, <3>2 DEF ApprovedFor
  <2>4. /\ call'[w].at = (IF s = "APPROVED" THEN "activateRead" ELSE "mirrorBudget")
        /\ call'[w].saw = subject[c] /\ task'[w].phase = "calling"
        /\ \A v \in Workers \ {w} : call'[v] = call[v] /\ task'[v] = task[v]
    BY <1>1, <2>1 DEF Engine, Task
  <2>5. BudgetCall(w)'
    BY <1>8, <2>1, <2>2, <2>3, <2>4 DEF BudgetCall, Made, budgetVars
  <2> QED
    BY <1>8, <2>1, <2>4, <2>5, BudgetRead DEF EngineStep
<1>9. CASE (EndCallback(w) \/ Crash(w)) /\ UNCHANGED budgetVars
  <2>1. /\ call'[w].at = "none" /\ UNCHANGED <<status, subject>>
        /\ \A v \in Workers \ {w} : call'[v] = call[v] /\ task'[v] = task[v]
    BY <1>1, <1>9 DEF EndCallback, Return, In, Crash, Stop, Leave, NoCall, Engine
  <2> QED
    BY <1>9, <2>1, BudgetRead DEF EngineStep, BudgetCall
<1>10. CASE ActivateRead(w)
  <2>1. /\ call[w].at = "activateRead" /\ UNCHANGED budgetVars
        /\ Done(w) \/ Step(w, "activate", saw)
    BY <1>10 DEF ActivateRead, In
  <2>2. /\ Moves(w) /\ \A v \in Workers \ {w} : call'[v] = call[v]
        /\ call'[w].at \in {"none", "activate"} /\ (call'[w].at = "activate" => call'[w].saw = saw)
    BY <1>1, <2>1, StepMoves, DoneMoves
  <2>3. BudgetCall(w)'
    BY <1>1, <1>2, <2>1, <2>2 DEF BudgetCall, Made, ApprovalsStay, budgetVars
  <2> QED
    BY <1>2, <2>1, <2>2, <2>3, BudgetRead
<1>11. CASE ActivateWrite(w)
  <2>1. /\ call[w].at = "activate" /\ budget' = [budget EXCEPT ![saw] = "ACTIVE"]
        /\ UNCHANGED parent
        /\ \/ parent[saw] # None /\ Step(w, "supersede", saw)
           \/ Done(w)
    BY <1>11 DEF ActivateWrite, In
  <2>2. /\ Moves(w) /\ \A v \in Workers \ {w} : call'[v] = call[v]
        /\ call'[w].at \in {"none", "supersede"}
        /\ call'[w].at = "supersede" => call'[w].saw = saw /\ parent[saw] # None
    BY <1>1, <2>1, StepMoves, DoneMoves
  <2>3. Made(saw) /\ ApprovedFor(saw)
    BY <1>1, <2>1 DEF BudgetCall
  <2>4. VersionsStay /\ BudgetTypeOK'
    BY <1>1, <2>1, <2>3 DEF VersionsStay, BudgetTypeOK, BudgetStatus, Made
  <2>5. BudgetsAuthorised'
    BY <1>1, <1>2, <2>1, <2>2, <2>3 DEF BudgetsAuthorised, BudgetTypeOK, ApprovalsStay, Made
  <2>6. BudgetCall(w)'
    BY <1>1, <1>2, <2>1, <2>2, <2>3, <2>4 DEF BudgetCall, Made, VersionsStay, BudgetTypeOK, ApprovalsStay
  <2> QED
    BY <1>2, <2>2, <2>4, <2>5, <2>6, BudgetStep
<1>12. CASE Supersede(w)
  <2> DEFINE old == parent[saw]
  <2>1. /\ call[w].at = "supersede" /\ Done(w) /\ UNCHANGED parent
        /\ budget' = [budget EXCEPT ![old] = IF @ = "ACTIVE" THEN "SUPERSEDED" ELSE @]
    BY <1>12 DEF Supersede, In
  <2>2. Moves(w) /\ call'[w].at = "none" /\ \A v \in Workers \ {w} : call'[v] = call[v]
    BY <1>1, <2>1, DoneMoves
  <2>3. saw \in Budgets /\ old \in Budgets /\ ApprovedFor(saw)
    BY <1>1, <2>1 DEF BudgetCall, Made
  <2>4. VersionsStay /\ BudgetTypeOK'
    BY <1>1, <2>1, <2>3 DEF VersionsStay, BudgetTypeOK, BudgetStatus
  <2>5. \A b \in Budgets : budget'[b] = budget[b] \/ (b = old /\ budget[b] = "ACTIVE" /\ budget'[b] = "SUPERSEDED")
    BY <1>1, <2>1, <2>3 DEF BudgetTypeOK
  <2>6. BudgetsAuthorised'
    BY <1>1, <1>2, <2>1, <2>2, <2>3, <2>5 DEF BudgetsAuthorised, ApprovalsStay
  <2> QED
    BY <1>2, <2>2, <2>4, <2>6, BudgetStep DEF BudgetCall
<1>13. CASE MirrorBudget(w)
  <2>1. /\ call[w].at = "mirrorBudget" /\ Done(w) /\ UNCHANGED parent
        /\ budget' = [budget EXCEPT ![saw] = task[w].outcome]
    BY <1>13 DEF MirrorBudget, In
  <2>2. Moves(w) /\ call'[w].at = "none" /\ \A v \in Workers \ {w} : call'[v] = call[v]
    BY <1>1, <2>1, DoneMoves
  <2>3. Made(saw) /\ task[w].outcome \in {"APPROVED", "REJECTED", "RETURNED"}
    BY <1>1, <2>1 DEF BudgetCall, Engine, Outcomes
  <2>4. VersionsStay /\ BudgetTypeOK'
    BY <1>1, <2>1, <2>3 DEF VersionsStay, BudgetTypeOK, BudgetStatus, Outcomes, Made
  <2>5. \A b \in Budgets : budget'[b] = IF b = saw THEN task[w].outcome ELSE budget[b]
    BY <1>1, <2>1, <2>3 DEF BudgetTypeOK
  <2>6. BudgetsAuthorised'
    BY <1>1, <1>2, <2>1, <2>2, <2>3, <2>5 DEF BudgetsAuthorised, ApprovalsStay
  <2> QED
    BY <1>2, <2>2, <2>4, <2>6, BudgetStep DEF BudgetCall
<1>14. ASSUME NEW b \in Budgets, ReviseWrite(w, b) PROVE BudgetInv'
  <2>1. /\ call[w].at = "clone" /\ budget[b] = "NONE" /\ Done(w)
        /\ budget' = [budget EXCEPT ![b] = "DRAFT"] /\ parent' = [parent EXCEPT ![b] = saw]
    BY <1>14 DEF ReviseWrite, In
  <2>2. Moves(w) /\ call'[w].at = "none" /\ \A v \in Workers \ {w} : call'[v] = call[v]
    BY <1>1, <2>1, DoneMoves
  <2>3. saw \in Budgets
    BY <1>1, <2>1 DEF BudgetCall
  <2>4. VersionsStay /\ BudgetTypeOK'
    BY <1>1, <2>1, <2>3 DEF VersionsStay, BudgetTypeOK, BudgetStatus
  <2>5. ~ApprovedFor(b)
    BY <1>1, <2>1 DEF ApprovedFor, Engine, Made
  <2>6. \A x \in Budgets \ {b} : budget'[x] = budget[x] /\ parent'[x] = parent[x]
    BY <1>1, <2>1 DEF BudgetTypeOK
  <2>7. budget'[b] = "DRAFT"
    BY <1>1, <2>1 DEF BudgetTypeOK
  <2>8. BudgetsAuthorised'
    BY <1>1, <1>2, <2>2, <2>5, <2>6, <2>7 DEF BudgetsAuthorised, ApprovalsStay
  <2> QED
    BY <1>2, <2>2, <2>4, <2>8, BudgetStep DEF BudgetCall
<1> QED
  BY <1>3, <1>4, <1>5, <1>6, <1>7, <1>8, <1>9, <1>10, <1>11, <1>12, <1>13, <1>14
     DEF BudgetRequested, BudgetProceeds

-----------------------------------------------------------------------------
(* Receipts. *)

ReceiptCall(w) ==
    LET at == call[w].at
        x == call[w].saw
    IN  at \in Posting =>
          /\ x \in recorded /\ postings[x] = 0
          /\ at \in {"revenue", "newRevenue", "entries"} => accounts[AssetType(x)] > 0
          /\ at = "entries" => accounts["REVENUE"] > 0

\* Only the request that recorded a receipt posts it.
OnePoster ==
    \A v, w \in Workers :
        v # w /\ call[v].at \in Posting /\ call[w].at \in Posting => call[v].saw # call[w].saw

ReceiptInv ==
    /\ Engine /\ ReceiptsTypeOK
    /\ \A w \in Workers : ReceiptCall(w)
    /\ OnePoster
    /\ ReceiptsAuthorised

LEMMA ReceiptsStart == HandlersInit /\ ReceiptsInit => ReceiptInv
BY EngineStarts
   DEF HandlersInit, RequestsInit, NoCall, ReceiptsInit, ReceiptInv, ReceiptsTypeOK,
       ReceiptCall, OnePoster, ReceiptsAuthorised, Posting, AccountTypes

\* A step of one request leaves the others with what they rest on, when it posts
\* no other receipt than its own and undoes nothing.
LEMMA ReceiptStep ==
    ASSUME ReceiptInv, NEW w \in Workers, EngineStep, ReceiptsTypeOK', ReceiptCall(w)',
           recorded \subseteq recorded',
           \A a \in AccountTypes : accounts[a] > 0 => accounts'[a] > 0,
           \A x \in recorded : \/ postings'[x] = postings[x]
                               \/ call[w].at \in Posting /\ x = call[w].saw,
           call'[w].at \in Posting => \/ call'[w].saw \notin recorded
                                      \/ call[w].at \in Posting /\ call'[w].saw = call[w].saw,
           \A v \in Workers \ {w} : call'[v] = call[v],
           ReceiptsAuthorised'
    PROVE  ReceiptInv'
<1>1. Engine'
  BY EngineGoesOn DEF ReceiptInv
<1>2. ASSUME NEW v \in Workers \ {w} PROVE ReceiptCall(v)'
  <2>1. CASE call[v].at \notin Posting
    BY <2>1 DEF ReceiptCall
  <2>2. CASE call[v].at \in Posting
    <3> DEFINE x == call[v].saw
    <3>1. /\ x \in recorded /\ postings[x] = 0
          /\ call[v].at \in {"revenue", "newRevenue", "entries"} => accounts[AssetType(x)] > 0
          /\ call[v].at = "entries" => accounts["REVENUE"] > 0
      BY <2>2 DEF ReceiptInv, ReceiptCall
    <3>2. postings'[x] = 0
      BY <2>2, <3>1 DEF ReceiptInv, OnePoster
    <3> QED
      BY <3>1, <3>2 DEF ReceiptCall, AssetType, AccountTypes
  <2> QED
    BY <2>1, <2>2
<1>3. OnePoster'
  <2> SUFFICES ASSUME NEW v \in Workers \ {w}, call[v].at \in Posting, call'[w].at \in Posting
               PROVE  call[v].saw # call'[w].saw
    BY DEF OnePoster, ReceiptInv
  <2>1. call[v].saw \in recorded
    BY DEF ReceiptInv, ReceiptCall
  <2> QED
    BY <2>1 DEF ReceiptInv, OnePoster
<1> QED
  BY <1>1, <1>2, <1>3 DEF ReceiptInv

LEMMA ReceiptsGoOn == ReceiptInv /\ ReceiptsNext => ReceiptInv'
<1> SUFFICES ASSUME ReceiptInv, NEW w \in Workers, ReceiptsStep(w) PROVE ReceiptInv'
  BY DEF ReceiptsNext
<1> DEFINE x == call[w].saw
<1>1. Engine /\ ReceiptsTypeOK /\ ReceiptCall(w) /\ ReceiptsAuthorised
  BY DEF ReceiptInv
<1>2. ASSUME Moves(w) PROVE EngineStep
  BY <1>2 DEF EngineStep
<1>3. ASSUME NEW y \in Receipts, Record(w, y) PROVE ReceiptInv'
  <2>1. /\ y \notin recorded /\ recorded' = recorded \cup {y} /\ Begin(w, "posted?", y)
        /\ UNCHANGED <<postings, accounts>>
    BY <1>3 DEF Record
  <2>2. /\ Moves(w) /\ \A v \in Workers \ {w} : call'[v] = call[v]
        /\ call'[w].at = "posted?" /\ call'[w].saw = y
    BY <1>1, <2>1, BeginMoves
  <2>3. ReceiptsTypeOK' /\ ReceiptsAuthorised'
    BY <1>1, <2>1 DEF ReceiptsTypeOK, ReceiptsAuthorised, AssetType
  <2>4. postings[y] = 0
    BY <1>1, <2>1 DEF ReceiptsTypeOK, ReceiptsAuthorised
  <2>5. ReceiptCall(w)'
    BY <2>1, <2>2, <2>4 DEF ReceiptCall
  <2> QED
    BY <1>2, <2>1, <2>2, <2>3, <2>5, ReceiptStep
<1>4. ASSUME NEW at, Step(w, at, x) \/ Done(w), call[w].at \in Posting, UNCHANGED receiptVars,
             at \in {"revenue", "newRevenue", "entries"} => accounts[AssetType(x)] > 0,
             at = "entries" => accounts["REVENUE"] > 0
      PROVE  ReceiptInv'
  <2>1. /\ Moves(w) /\ \A v \in Workers \ {w} : call'[v] = call[v]
        /\ call'[w].at \in {"none", at} /\ (call'[w].at # "none" => call'[w].saw = x)
    BY <1>1, <1>4, StepMoves, DoneMoves DEF Posting
  <2>2. ReceiptsTypeOK' /\ ReceiptsAuthorised'
    BY <1>1, <1>4 DEF ReceiptsTypeOK, ReceiptsAuthorised, AssetType, receiptVars
  <2>3. ReceiptCall(w)'
    BY <1>1, <1>4, <2>1 DEF ReceiptCall, AssetType, receiptVars, Posting
  <2> QED
    BY <1>2, <1>4, <2>1, <2>2, <2>3, ReceiptStep DEF receiptVars, Posting
<1>5. ASSUME NEW type \in AccountTypes, NEW at, NEW next, Create(w, at, type, next),
             \/ at = "newAsset" /\ type = AssetType(x) /\ next = "revenue"
             \/ at = "newRevenue" /\ type = "REVENUE" /\ next = "entries"
      PROVE  ReceiptInv'
  <2>1. /\ call[w].at = at /\ accounts' = [accounts EXCEPT ![type] = @ + 1]
        /\ Step(w, next, x) /\ UNCHANGED <<recorded, postings>>
    BY <1>5 DEF Create, In
  <2>2. /\ Moves(w) /\ \A v \in Workers \ {w} : call'[v] = call[v]
        /\ call'[w].at = next /\ call'[w].saw = x
    BY <1>1, <1>5, <2>1, StepMoves
  <2>3. /\ accounts' \in [AccountTypes -> Nat] /\ accounts'[type] > 0
        /\ \A a \in AccountTypes : accounts[a] > 0 => accounts'[a] > 0
    BY <1>1, <2>1 DEF ReceiptsTypeOK
  <2>4. ReceiptsTypeOK' /\ ReceiptsAuthorised'
    BY <1>1, <2>1, <2>3 DEF ReceiptsTypeOK, ReceiptsAuthorised, AssetType, AccountTypes
  <2>5. ReceiptCall(w)'
    BY <1>1, <1>5, <2>1, <2>2, <2>3 DEF ReceiptCall, AssetType, AccountTypes, Posting
  <2> QED
    BY <1>2, <1>5, <2>1, <2>2, <2>3, <2>4, <2>5, ReceiptStep DEF Posting
<1>6. CASE PostEntries(w)
  <2>1. /\ call[w].at = "entries" /\ postings' = [postings EXCEPT ![x] = @ + 1] /\ Done(w)
        /\ UNCHANGED <<recorded, accounts>>
    BY <1>6 DEF PostEntries, In
  <2>2. Moves(w) /\ call'[w].at = "none" /\ \A v \in Workers \ {w} : call'[v] = call[v]
    BY <1>1, <2>1, DoneMoves
  <2>3. x \in recorded /\ postings[x] = 0 /\ accounts[AssetType(x)] > 0 /\ accounts["REVENUE"] > 0
    BY <1>1, <2>1 DEF ReceiptCall, Posting
  <2>4. ReceiptsTypeOK' /\ ReceiptsAuthorised'
    BY <1>1, <2>1, <2>3 DEF ReceiptsTypeOK, ReceiptsAuthorised, AssetType
  <2>5. ReceiptCall(w)' /\ call'[w].at \notin Posting
    BY <2>2 DEF ReceiptCall, Posting
  <2>6. \A y \in recorded : postings'[y] = postings[y] \/ y = x
    BY <1>1, <2>1 DEF ReceiptsTypeOK
  <2> QED
    BY <1>2, <2>1, <2>2, <2>4, <2>5, <2>6, ReceiptStep DEF Posting
<1>7. CASE call[w].at \in Posting /\ Crash(w) /\ UNCHANGED receiptVars
  <2>1. call'[w].at = "none" /\ \A v \in Workers \ {w} : call'[v] = call[v]
    BY <1>1, <1>7 DEF Crash, Stop, Leave, NoCall, Engine
  <2>2. ReceiptsTypeOK' /\ ReceiptsAuthorised'
    BY <1>1, <1>7 DEF ReceiptsTypeOK, ReceiptsAuthorised, AssetType, receiptVars
  <2>3. EngineStep
    BY <1>7 DEF EngineStep
  <2> QED
    BY <1>7, <2>1, <2>2, <2>3, ReceiptStep DEF receiptVars, ReceiptCall, Posting
<1>8. CASE PostedRead(w)
  BY <1>4, <1>8 DEF PostedRead, In, Posting
<1>9. ASSUME NEW type \in AccountTypes, NEW at, NEW create, NEW next, Find(w, at, type, create, next),
             \/ at = "asset" /\ type = AssetType(x) /\ create = "newAsset" /\ next = "revenue"
             \/ at = "revenue" /\ type = "REVENUE" /\ create = "newRevenue" /\ next = "entries"
      PROVE  ReceiptInv'
  <2> DEFINE to == IF accounts[type] > 0 THEN next ELSE create
  <2>1. call[w].at = at /\ Step(w, to, x) /\ UNCHANGED receiptVars
    BY <1>9 DEF Find, In
  <2>2. /\ call[w].at \in Posting
        /\ to \in {"revenue", "newRevenue", "entries"} => accounts[AssetType(x)] > 0
        /\ to = "entries" => accounts["REVENUE"] > 0
    BY <1>1, <1>9, <2>1 DEF ReceiptCall, Posting
  <2> HIDE DEF to
  <2> QED
    BY <1>4, <2>1, <2>2
<1> QED
  <2>1. AssetType(x) \in AccountTypes /\ "REVENUE" \in AccountTypes
    BY DEF AssetType, AccountTypes
  <2> QED
    BY <1>3, <1>5, <1>6, <1>7, <1>8, <1>9, <2>1
       DEF ReceiptsStep, RecordReceipt, AddClaim, FindAsset, FindRevenue, CreateAsset, CreateRevenue

-----------------------------------------------------------------------------
(* The nightly accruals. *)

AccrualCall(w) ==
    LET saw == call[w].saw IN
    /\ call[w].at = "accrue" =>
         /\ saw.last \in Nat /\ saw.today \in 1..day
         /\ ~capped => saw.last <= Latest(accrued)
    /\ call[w].at = "debt" => saw.unpaid \in 0..Due /\ saw.today \in 1..day

\* The accrued days are Latest's domain: they have a last one.
IsLast(days, d) == d \in days /\ \A e \in days : e <= d

AccrualInv ==
    /\ Engine
    /\ day \in Nat \ {0} /\ accrued \subseteq Nat \ {0} /\ unpaid \in 0..Due /\ interest \in Nat
    /\ capped \in BOOLEAN
    /\ accrued # {} => \E d : IsLast(accrued, d)
    /\ \A w \in Workers : AccrualCall(w)
    /\ AccrualsFounded

LEMMA LatestIs ==
    ASSUME NEW days \in SUBSET Nat, NEW d, IsLast(days, d) PROVE Latest(days) = d
<1> DEFINE P(x) == x \in days /\ \A e \in days : e <= x
           c == CHOOSE x : P(x)
<1>1. P(d)
  BY DEF IsLast
<1>2. P(c)
  <2> HIDE DEF P
  <2> QED
    BY <1>1
<1>3. Latest(days) = c
  BY <1>1 DEF Latest
<1> HIDE DEF c
<1> QED
  BY <1>1, <1>2, <1>3

LEMMA AccrualsStart == HandlersInit /\ AccrualsInit => AccrualInv
<1> SUFFICES ASSUME HandlersInit, AccrualsInit PROVE AccrualInv
  OBVIOUS
<1>1. Engine /\ \A w \in Workers : call[w].at = "none"
  BY EngineStarts DEF HandlersInit, RequestsInit, NoCall
<1>2. Latest({}) = 0
  BY DEF Latest
<1>3. 1..0 = {}
  OBVIOUS
<1>4. AccrualsFounded
  BY <1>2, <1>3 DEF AccrualsInit, AccrualsFounded, InterestOn, Due
<1>5. \A w \in Workers : AccrualCall(w)
  BY <1>1 DEF AccrualCall
<1>6. unpaid \in 0..Due
  BY DEF AccrualsInit, Due
<1>7. day \in Nat \ {0} /\ accrued = {} /\ interest \in Nat
  BY DEF AccrualsInit
<1>8. capped \in BOOLEAN
  BY DEF AccrualsInit
<1> QED
  BY <1>1, <1>4, <1>5, <1>6, <1>7, <1>8 DEF AccrualInv

\* A step that leaves the accrued days alone, and one of them that writes.
LEMMA AccrualStep ==
    ASSUME AccrualInv, EngineStep,
           day' \in Nat, day <= day', UNCHANGED <<accrued, capped>>,
           unpaid' \in 0..Due, interest' \in Nat, interest' <= InterestOn(Due, day'),
           \A v \in Workers : AccrualCall(v)' \/ call'[v] = call[v]
    PROVE  AccrualInv'
<1>1. Engine'
  BY EngineGoesOn DEF AccrualInv
<1>2. \A v \in Workers : AccrualCall(v)'
  BY DEF AccrualInv, AccrualCall
<1>3. AccrualsFounded'
  BY DEF AccrualInv, AccrualsFounded
<1> QED
  BY <1>1, <1>2, <1>3 DEF AccrualInv

LEMMA InterestGrows ==
    ASSUME NEW d \in Nat, NEW e \in Nat, 1 <= d, d <= e, NEW p \in 0..Due
    PROVE  InterestOn(p, d) \in Nat /\ InterestOn(p, d) <= InterestOn(Due, e)
<1>1. p = 0 \/ p = 1 \/ p = 2
  BY DEF Due
<1> QED
  BY <1>1 DEF InterestOn, Due

LEMMA AccrueGoesOn == ASSUME AccrualInv, NEW w \in Workers, AccrueWrite(w) PROVE AccrualInv'
<1> DEFINE saw == call[w].saw
           new == FirstDay(saw)..(saw.today - 1)
<1>1. /\ call[w].at = "accrue" /\ accrued' = accrued \cup new
      /\ capped' = (capped \/ FirstDay(saw) # FromLast(saw))
      /\ Done(w) /\ UNCHANGED <<day, debtVars>>
  BY DEF AccrueWrite, In
<1>2. /\ Engine /\ day \in Nat \ {0} /\ accrued \subseteq Nat \ {0}
      /\ accrued # {} => \E d : IsLast(accrued, d)
      /\ capped \in BOOLEAN /\ AccrualsFounded
  BY DEF AccrualInv
<1>3. /\ saw.last \in Nat /\ saw.today \in 1..day
      /\ ~capped => saw.last <= Latest(accrued)
  BY <1>1 DEF AccrualInv, AccrualCall
<1>4. FirstDay(saw) \in Nat \ {0}
  BY <1>3, AccrualsAssumption DEF FirstDay, FromLast, Earliest
<1>5. new \in SUBSET (Nat \ {0}) /\ \A d \in new : d < day
  BY <1>2, <1>3, <1>4
<1>6. accrued' # {} => \E d : IsLast(accrued', d)
  <2>1. CASE new = {}
    BY <1>1, <1>2, <2>1
  <2>2. CASE new # {} /\ accrued = {}
    <3>1. IsLast(new, saw.today - 1)
      BY <1>2, <1>3, <1>4, <2>2 DEF IsLast
    <3> QED
      BY <1>1, <2>2, <3>1
  <2>3. CASE new # {} /\ accrued # {}
    <3>1. PICK d : IsLast(accrued, d)
      BY <1>2, <2>3
    <3>2. IsLast(new, saw.today - 1)
      BY <1>3, <1>4, <2>3 DEF IsLast
    <3>3. d \in Nat /\ saw.today - 1 \in Nat
      BY <1>2, <1>3, <3>1 DEF IsLast
    <3> HIDE DEF new
    <3>4. IsLast(accrued', d) \/ IsLast(accrued', saw.today - 1)
      BY <1>1, <1>2, <1>5, <3>1, <3>2, <3>3 DEF IsLast
    <3> QED
      BY <3>4
  <2> QED
    BY <2>1, <2>2, <2>3
<1>7. ~capped' => accrued' = 1..Latest(accrued') /\ Latest(accrued) <= Latest(accrued')
  <2> SUFFICES ASSUME ~capped' PROVE accrued' = 1..Latest(accrued') /\ Latest(accrued) <= Latest(accrued')
    OBVIOUS
  <2> DEFINE n == Latest(accrued)
             m == IF n < saw.today - 1 THEN saw.today - 1 ELSE n
  <2>1. ~capped /\ FirstDay(saw) = saw.last + 1 /\ saw.last <= n /\ accrued = 1..n
    BY <1>1, <1>2, <1>3 DEF AccrualsFounded, FromLast
  <2>2. n \in Nat
    <3>1. CASE accrued = {}
      BY <3>1 DEF Latest
    <3>2. CASE accrued # {}
      BY <1>2, <3>2, LatestIs DEF IsLast
    <3> QED
      BY <3>1, <3>2
  <2> HIDE DEF n
  <2>3. m \in Nat /\ n <= m
    BY <1>2, <1>3, <2>2
  <2>4. accrued' = 1..m
    BY <1>1, <1>3, <2>1, <2>2
  <2> HIDE DEF m
  <2>5. Latest(accrued') = m
    <3>1. CASE m = 0
      BY <2>4, <3>1 DEF Latest
    <3>2. CASE m # 0
      <4>1. IsLast(accrued', m)
        BY <2>3, <2>4, <3>2 DEF IsLast
      <4>2. accrued' \in SUBSET Nat
        BY <2>3, <2>4
      <4> QED
        BY <4>1, <4>2, LatestIs
    <3> QED
      BY <3>1, <3>2
  <2> QED
    BY <2>3, <2>4, <2>5 DEF n
<1>8. AccrualsFounded'
  BY <1>1, <1>2, <1>5, <1>7 DEF AccrualsFounded, debtVars
<1>9. EngineStep /\ call'[w].at = "none" /\ \A v \in Workers \ {w} : call'[v] = call[v]
  BY <1>1, <1>2, DoneMoves DEF EngineStep
<1>10. ASSUME NEW v \in Workers PROVE AccrualCall(v)'
  <2>1. CASE v = w
    BY <1>9, <2>1 DEF AccrualCall
  <2>2. CASE v # w
    <3>1. AccrualCall(v) /\ call'[v] = call[v]
      BY <1>9, <2>2 DEF AccrualInv
    <3>2. Latest(accrued) \in Nat \/ capped
      <4>1. CASE accrued = {}
        BY <4>1 DEF Latest
      <4>2. CASE accrued # {}
        BY <1>2, <4>2, LatestIs DEF IsLast
      <4> QED
        BY <4>1, <4>2
    <3>3. ~capped' => Latest(accrued') \in Nat
      <4>1. CASE accrued' = {}
        BY <4>1 DEF Latest
      <4>2. CASE accrued' # {}
        <5>1. accrued' \in SUBSET Nat
          BY <1>1, <1>2, <1>5
        <5> QED
          BY <1>6, <4>2, <5>1, LatestIs DEF IsLast
      <4> QED
        BY <4>1, <4>2
    <3> QED
      BY <1>1, <1>2, <1>7, <3>1, <3>2, <3>3 DEF AccrualCall
  <2> QED
    BY <2>1, <2>2
<1> QED
  BY <1>1, <1>2, <1>5, <1>6, <1>8, <1>9, <1>10, EngineGoesOn DEF AccrualInv, debtVars

LEMMA AccrualsGoOn == AccrualInv /\ (LoanNext \/ DebtNext \/ HealthNext) => AccrualInv'
<1> SUFFICES ASSUME AccrualInv, LoanNext \/ DebtNext \/ HealthNext PROVE AccrualInv'
  OBVIOUS
<1>1. /\ Engine /\ day \in Nat \ {0} /\ unpaid \in 0..Due /\ interest \in Nat
      /\ interest <= InterestOn(Due, day)
  BY DEF AccrualInv, AccrualsFounded
<1>2. ASSUME NEW w \in Workers, NEW at, Begin(w, at, [last |-> Latest(accrued), today |-> day]),
             at = "accrue", UNCHANGED accrualVars
      PROVE  AccrualInv'
  <2>1. /\ Moves(w) /\ \A v \in Workers \ {w} : call'[v] = call[v]
        /\ call'[w].at = "accrue" /\ call'[w].saw = [last |-> Latest(accrued), today |-> day]
    BY <1>1, <1>2, BeginMoves
  <2>2. Latest(accrued) \in Nat
    <3>1. CASE accrued = {}
      BY <3>1 DEF Latest
    <3>2. CASE accrued # {}
      BY <3>2, LatestIs DEF AccrualInv, IsLast
    <3> QED
      BY <3>1, <3>2
  <2>3. AccrualCall(w)'
    BY <1>1, <1>2, <2>1, <2>2 DEF AccrualCall, accrualVars, loanVars
  <2> QED
    BY <1>1, <1>2, <2>1, <2>3, AccrualStep DEF EngineStep, accrualVars, loanVars, debtVars
<1>3. ASSUME NEW w \in Workers, DebtRead(w) PROVE AccrualInv'
  <2>1. /\ Moves(w) /\ \A v \in Workers \ {w} : call'[v] = call[v]
        /\ call'[w].at = "debt" /\ call'[w].saw = [unpaid |-> unpaid, today |-> day]
    BY <1>1, <1>3, BeginMoves DEF DebtRead
  <2>2. AccrualCall(w)'
    BY <1>1, <1>3, <2>1 DEF AccrualCall, accrualVars, loanVars, DebtRead
  <2> QED
    BY <1>1, <1>3, <2>1, <2>2, AccrualStep DEF EngineStep, accrualVars, loanVars, debtVars, DebtRead
<1>4. ASSUME NEW w \in Workers, DebtWrite(w) PROVE AccrualInv'
  <2> DEFINE saw == call[w].saw
  <2>1. /\ call[w].at = "debt" /\ interest' = InterestOn(saw.unpaid, saw.today) /\ Done(w)
        /\ UNCHANGED <<day, loanVars, unpaid>>
    BY <1>4 DEF DebtWrite, In
  <2>2. Moves(w) /\ call'[w].at = "none" /\ \A v \in Workers \ {w} : call'[v] = call[v]
    BY <1>1, <2>1, DoneMoves
  <2>3. saw.unpaid \in 0..Due /\ saw.today \in 1..day
    BY <2>1 DEF AccrualInv, AccrualCall
  <2>4. interest' \in Nat /\ interest' <= InterestOn(Due, day)
    BY <1>1, <2>1, <2>3, InterestGrows
  <2> QED
    BY <1>1, <2>1, <2>2, <2>4, AccrualStep DEF EngineStep, loanVars, AccrualCall
<1>5. ASSUME NEW w \in Workers, UNCHANGED <<day, loanVars, debtVars>>,
             \/ \E saw : Begin(w, "health", saw)
             \/ call[w].at # "none" /\ (Step(w, "redAlert", None) \/ Done(w))
             \/ Crash(w)
      PROVE  AccrualInv'
  <2>1. /\ call'[w].at \in {"health", "redAlert", "none"}
        /\ EngineStep /\ \A v \in Workers \ {w} : call'[v] = call[v]
    <3>1. CASE Crash(w)
      BY <1>1, <3>1 DEF Crash, Stop, Leave, NoCall, Engine, EngineStep
    <3>2. CASE ~Crash(w)
      BY <1>1, <1>5, <3>2, BeginMoves, StepMoves, DoneMoves DEF EngineStep
    <3> QED
      BY <3>1, <3>2
  <2>2. AccrualCall(w)'
    BY <2>1 DEF AccrualCall
  <2> QED
    BY <1>1, <1>5, <2>1, <2>2, AccrualStep DEF loanVars, debtVars
<1>6. CASE SettleLoan \/ PayDebt \/ ReceivePart \/ MarkServiced \/ NightFalls
  <2>1. /\ UNCHANGED handlerVars /\ UNCHANGED <<accrued, capped, interest>>
        /\ day' = day \/ day' = day + 1
        /\ unpaid' = unpaid \/ (unpaid > 0 /\ unpaid' = unpaid - 1)
    BY <1>6 DEF SettleLoan, PayDebt, ReceivePart, MarkServiced, NightFalls, loanVars, debtVars
  <2>2. EngineStep /\ UNCHANGED call
    BY <2>1 DEF EngineStep, handlerVars, outcomeVars
  <2>3. day' \in Nat /\ day <= day' /\ unpaid' \in 0..Due
    BY <1>1, <2>1 DEF Due
  <2>4. InterestOn(Due, day) \in Nat /\ InterestOn(Due, day) <= InterestOn(Due, day')
        /\ InterestOn(Due, day') \in Nat
    <3>1. Due \in 0..Due
      BY DEF Due
    <3> QED
      BY <1>1, <2>3, <3>1, InterestGrows
  <2>5. interest' <= InterestOn(Due, day')
    BY <1>1, <2>1, <2>4
  <2> QED
    BY <1>1, <2>1, <2>2, <2>3, <2>5, AccrualStep
<1>7. ASSUME NEW w \in Workers, Crash(w), UNCHANGED accrualVars PROVE AccrualInv'
  BY <1>5, <1>7 DEF accrualVars
<1>8. ASSUME NEW w \in Workers, AccrueRead(w) PROVE AccrualInv'
  BY <1>2, <1>8 DEF AccrueRead
<1>9. ASSUME NEW w \in Workers, RecalcRead(w) \/ RecalcWrite(w) \/ RaiseRedAlert(w) PROVE AccrualInv'
  <2>1. UNCHANGED <<day, loanVars, debtVars>>
    BY <1>9 DEF RecalcRead, RecalcWrite, RaiseRedAlert, accrualVars
  <2>2. \/ \E saw : Begin(w, "health", saw)
        \/ call[w].at # "none" /\ (Step(w, "redAlert", None) \/ Done(w))
    BY <1>9 DEF RecalcRead, RecalcWrite, RaiseRedAlert, In
  <2> QED
    BY <1>5, <2>1, <2>2
<1> QED
  BY <1>3, <1>4, <1>6, <1>7, <1>8, <1>9, AccrueGoesOn DEF LoanNext, DebtNext, HealthNext

-----------------------------------------------------------------------------
(* Returns: what is on its way to a return, by request. *)

Adding == {w \in Workers : call[w].at \in {"whtFind", "whtWrite"}}
Paying(h) == {w \in Workers : call[w].at = "remitWrite" /\ call[w].saw.head = h}

Row == [due : Nat, paid : Nat, status : ReturnStatuses]

ReturnCall(w) ==
    LET at == call[w].at
        saw == call[w].saw
    IN  /\ at = "whtWrite" => saw \in Row /\ saw.due + Cardinality(Adding) <= withheld
        /\ at \in {"headFind", "headWrite"} => saw.sites \subseteq Sites
        /\ at \in {"remit", "remitWrite"} =>
             /\ saw.head \in Heads /\ saw.row \in Row
             /\ saw.row.paid + Cardinality(Paying(saw.head)) <= remitted[saw.head]

\* A request that is to add 1 has withheld it, one that is to pay 1 has remitted it.
Covered ==
    /\ ret["WHT"].due + Cardinality(Adding) <= withheld
    /\ \A h \in Heads : ret[h].paid + Cardinality(Paying(h)) <= remitted[h]
    /\ ret["PAYE"].due = Cardinality(posted)

ReturnInv ==
    /\ Engine
    /\ ret \in [Heads -> Row] /\ withheld \in Nat /\ remitted \in [Heads -> Nat]
    /\ \A w \in Workers : ReturnCall(w)
    /\ Covered

LEMMA ReturnCounts ==
    /\ IsFiniteSet(Adding) /\ Cardinality(Adding) \in Nat
    /\ \A h : IsFiniteSet(Paying(h)) /\ Cardinality(Paying(h)) \in Nat
<1>1. Adding \in SUBSET Workers /\ \A h : Paying(h) \in SUBSET Workers
  BY DEF Adding, Paying
<1> QED
  BY <1>1, HandlersAssumption, FS_Subset, FS_CardinalityType

LEMMA ReturnCountsNext ==
    /\ IsFiniteSet(Adding') /\ Cardinality(Adding') \in Nat
    /\ \A h \in Heads : IsFiniteSet(Paying(h)') /\ Cardinality(Paying(h)') \in Nat
<1>1. Adding' \in SUBSET Workers /\ \A h \in Heads : Paying(h)' \in SUBSET Workers
  BY DEF Adding, Paying
<1> QED
  BY <1>1, HandlersAssumption, FS_Subset, FS_CardinalityType

LEMMA CoveredReturns == ReturnInv => ReturnsAuthorised
<1> SUFFICES ASSUME ReturnInv PROVE ReturnsAuthorised
  OBVIOUS
<1>1. /\ ret["WHT"].due \in Nat /\ withheld \in Nat
      /\ \A h \in Heads : ret[h].paid \in Nat /\ remitted[h] \in Nat
  BY DEF ReturnInv, Row, Heads
<1>2. ret["WHT"].due <= withheld
  BY <1>1, ReturnCounts DEF ReturnInv, Covered
<1>3. ASSUME NEW h \in Heads PROVE ret[h].paid <= remitted[h]
  <2>1. ret[h].paid + Cardinality(Paying(h)) <= remitted[h]
    BY DEF ReturnInv, Covered
  <2> QED
    BY <1>1, <2>1, ReturnCounts
<1> QED
  BY <1>2, <1>3 DEF ReturnsAuthorised, ReturnInv, Covered

LEMMA ReturnsStart == HandlersInit /\ ReturnsInit => ReturnInv
<1> SUFFICES ASSUME HandlersInit, ReturnsInit PROVE ReturnInv
  OBVIOUS
<1>1. Engine /\ \A w \in Workers : call[w].at = "none"
  BY EngineStarts DEF HandlersInit, RequestsInit, NoCall
<1>2. Adding = {} /\ \A h : Paying(h) = {}
  BY <1>1 DEF Adding, Paying
<1>3. ret \in [Heads -> Row] /\ \A h \in Heads : ret[h].due = 0 /\ ret[h].paid = 0
  BY DEF ReturnsInit, NoReturn, Row, ReturnStatuses
<1>4. Cardinality({}) = 0
  BY FS_EmptySet
<1>5. Covered
  BY <1>2, <1>3, <1>4 DEF ReturnsInit, Covered, Heads
<1> QED
  BY <1>1, <1>3, <1>5 DEF ReturnInv, ReturnsInit, ReturnCall

\* A step of one request changes what is on its way by its own part.
LEMMA ReturnStep ==
    ASSUME ReturnInv, NEW w \in Workers, EngineStep, ReturnCall(w)', Covered',
           ret' \in [Heads -> Row], withheld' \in Nat, remitted' \in [Heads -> Nat],
           Cardinality(Adding') + withheld <= Cardinality(Adding) + withheld',
           \A h \in Heads : Cardinality(Paying(h)') + remitted[h] <= Cardinality(Paying(h)) + remitted'[h],
           \A v \in Workers \ {w} : call'[v] = call[v]
    PROVE  ReturnInv'
<1>1. Engine'
  BY EngineGoesOn DEF ReturnInv
<1>2. ASSUME NEW v \in Workers \ {w} PROVE ReturnCall(v)'
  <2> DEFINE saw == call[v].saw
  <2>1. ReturnCall(v) /\ call'[v] = call[v]
    BY DEF ReturnInv
  <2>2. Cardinality(Adding) \in Nat /\ Cardinality(Adding') \in Nat /\ withheld \in Nat
    BY ReturnCounts, ReturnCountsNext DEF ReturnInv
  <2>3. call[v].at = "whtWrite" => saw.due + Cardinality(Adding') <= withheld'
    BY <2>1, <2>2 DEF ReturnCall, Row
  <2>4. ASSUME NEW h \in Heads, call[v].at \in {"remit", "remitWrite"}, h = saw.head
        PROVE  saw.row.paid + Cardinality(Paying(h)') <= remitted'[h]
    <3>1. saw.row.paid \in Nat /\ saw.row.paid + Cardinality(Paying(h)) <= remitted[h]
      BY <2>1, <2>4 DEF ReturnCall, Row
    <3>2. /\ Cardinality(Paying(h)) \in Nat /\ Cardinality(Paying(h)') \in Nat
          /\ remitted[h] \in Nat /\ remitted'[h] \in Nat
      BY ReturnCounts, ReturnCountsNext DEF ReturnInv
    <3>3. Cardinality(Paying(h)') + remitted[h] <= Cardinality(Paying(h)) + remitted'[h]
      OBVIOUS
    <3> QED
      BY <3>1, <3>2, <3>3
  <2> QED
    BY <2>1, <2>3, <2>4 DEF ReturnCall
<1> QED
  BY <1>1, <1>2 DEF ReturnInv

LEMMA SizeMoves ==
    ASSUME NEW S, NEW T, NEW w, IsFiniteSet(S), IsFiniteSet(T), S \ {w} = T \ {w}
    PROVE  /\ (w \in S <=> w \in T) => Cardinality(T) = Cardinality(S)
           /\ w \notin S /\ w \in T => Cardinality(T) = Cardinality(S) + 1
           /\ w \in S /\ w \notin T => Cardinality(S) = Cardinality(T) + 1
<1>1. (w \in S <=> w \in T) => T = S
  OBVIOUS
<1>2. w \notin S /\ w \in T => T = S \cup {w}
  OBVIOUS
<1>3. w \in S /\ w \notin T => S = T \cup {w}
  OBVIOUS
<1> QED
  BY <1>1, <1>2, <1>3, FS_AddElement

\* How a step of a request changes what is on its way.
LEMMA ReturnMoves ==
    ASSUME NEW w \in Workers, \A v \in Workers \ {w} : call'[v] = call[v]
    PROVE  /\ LET in == call[w].at \in {"whtFind", "whtWrite"}
                  in2 == call'[w].at \in {"whtFind", "whtWrite"}
              IN  /\ (in <=> in2) => Cardinality(Adding') = Cardinality(Adding)
                  /\ ~in /\ in2 => Cardinality(Adding') = Cardinality(Adding) + 1
                  /\ in /\ ~in2 => Cardinality(Adding) = Cardinality(Adding') + 1
           /\ \A h \in Heads :
              LET in == call[w].at = "remitWrite" /\ call[w].saw.head = h
                  in2 == call'[w].at = "remitWrite" /\ call'[w].saw.head = h
              IN  /\ (in <=> in2) => Cardinality(Paying(h)') = Cardinality(Paying(h))
                  /\ ~in /\ in2 => Cardinality(Paying(h)') = Cardinality(Paying(h)) + 1
                  /\ in /\ ~in2 => Cardinality(Paying(h)) = Cardinality(Paying(h)') + 1
<1>1. /\ Adding \ {w} = Adding' \ {w}
      /\ w \in Adding <=> call[w].at \in {"whtFind", "whtWrite"}
      /\ w \in Adding' <=> call'[w].at \in {"whtFind", "whtWrite"}
  BY DEF Adding
<1>2. \A h \in Heads :
        /\ Paying(h) \ {w} = Paying(h)' \ {w}
        /\ w \in Paying(h) <=> (call[w].at = "remitWrite" /\ call[w].saw.head = h)
        /\ w \in Paying(h)' <=> (call'[w].at = "remitWrite" /\ call'[w].saw.head = h)
  BY DEF Paying
<1>3. /\ (w \in Adding <=> w \in Adding') => Cardinality(Adding') = Cardinality(Adding)
      /\ w \notin Adding /\ w \in Adding' => Cardinality(Adding') = Cardinality(Adding) + 1
      /\ w \in Adding /\ w \notin Adding' => Cardinality(Adding) = Cardinality(Adding') + 1
  BY <1>1, ReturnCounts, ReturnCountsNext, SizeMoves
<1>4. ASSUME NEW h \in Heads
      PROVE  /\ (w \in Paying(h) <=> w \in Paying(h)') => Cardinality(Paying(h)') = Cardinality(Paying(h))
             /\ w \notin Paying(h) /\ w \in Paying(h)' => Cardinality(Paying(h)') = Cardinality(Paying(h)) + 1
             /\ w \in Paying(h) /\ w \notin Paying(h)' => Cardinality(Paying(h)) = Cardinality(Paying(h)') + 1
  BY <1>2, ReturnCounts, ReturnCountsNext, SizeMoves
<1> QED
  BY <1>1, <1>2, <1>3, <1>4

\* One that changes neither what is on its way nor an amount.
LEMMA ReturnRead ==
    ASSUME ReturnInv, NEW w \in Workers, EngineStep, ReturnCall(w)',
           ret' \in [Heads -> Row], UNCHANGED <<withheld, remitted>>,
           \A h \in Heads : ret'[h].paid = ret[h].paid,
           ret'["WHT"].due = ret["WHT"].due,
           ret'["PAYE"].due = Cardinality(posted'),
           call'[w].at \in {"whtFind", "whtWrite"} => call[w].at \in {"whtFind", "whtWrite"},
           call'[w].at # "remitWrite",
           \A v \in Workers \ {w} : call'[v] = call[v]
    PROVE  ReturnInv'
<1>1. /\ withheld \in Nat /\ remitted \in [Heads -> Nat] /\ Covered
      /\ ret \in [Heads -> Row]
  BY DEF ReturnInv
<1>2. /\ Cardinality(Adding) \in Nat /\ Cardinality(Adding') \in Nat
      /\ Cardinality(Adding') <= Cardinality(Adding)
  BY ReturnCounts, ReturnCountsNext, ReturnMoves
<1>3. \A h \in Heads : /\ Cardinality(Paying(h)) \in Nat /\ Cardinality(Paying(h)') \in Nat
                       /\ Cardinality(Paying(h)') <= Cardinality(Paying(h))
  BY ReturnCounts, ReturnCountsNext, ReturnMoves
<1>4. /\ Cardinality(Adding') + withheld <= Cardinality(Adding) + withheld'
      /\ \A h \in Heads : Cardinality(Paying(h)') + remitted[h] <= Cardinality(Paying(h)) + remitted'[h]
  BY <1>1, <1>2, <1>3
<1>5. /\ ret["WHT"].due \in Nat /\ ret["WHT"].due + Cardinality(Adding) <= withheld
      /\ \A h \in Heads : ret[h].paid \in Nat /\ ret[h].paid + Cardinality(Paying(h)) <= remitted[h]
  BY <1>1 DEF Covered, Row, Heads
<1>6. ret'["WHT"].due + Cardinality(Adding') <= withheld'
  BY <1>1, <1>2, <1>5
<1>7. \A h \in Heads : ret'[h].paid + Cardinality(Paying(h)') <= remitted'[h]
  BY <1>1, <1>3, <1>5
<1>8. Covered'
  BY <1>6, <1>7 DEF Covered
<1> QED
  BY <1>1, <1>4, <1>8, ReturnStep

LEMMA StateIs == \A due, paid : State(due, paid) \in ReturnStatuses
BY DEF State, ReturnStatuses

LEMMA PayableGoesOn == ASSUME ReturnInv, NEW w \in Workers, Payable(w) PROVE ReturnInv'
<1>1. Engine /\ ret \in [Heads -> Row] /\ withheld \in Nat /\ remitted \in [Heads -> Nat] /\ Covered
  BY DEF ReturnInv
<1>2. /\ withheld' = withheld + 1 /\ Begin(w, "whtFind", None) /\ UNCHANGED <<ret, remitted, posted>>
  BY DEF Payable
<1>3. /\ Moves(w) /\ call[w].at = "none" /\ call'[w].at = "whtFind"
      /\ \A v \in Workers \ {w} : call'[v] = call[v]
  BY <1>1, <1>2, BeginMoves
<1>4. /\ Cardinality(Adding) \in Nat /\ Cardinality(Adding') = Cardinality(Adding) + 1
      /\ \A h \in Heads : Cardinality(Paying(h)') = Cardinality(Paying(h)) /\ Cardinality(Paying(h)) \in Nat
  BY <1>3, ReturnCounts, ReturnMoves
<1>5. ret["WHT"].due \in Nat /\ ret["WHT"].due + Cardinality(Adding) <= withheld
  BY <1>1 DEF Covered, Row, Heads
<1>6. ret'["WHT"].due + Cardinality(Adding') <= withheld'
  BY <1>1, <1>2, <1>4, <1>5
<1>7. Covered'
  BY <1>1, <1>2, <1>4, <1>6 DEF Covered
<1>8. /\ withheld' \in Nat /\ Cardinality(Adding') + withheld <= Cardinality(Adding) + withheld'
      /\ \A h \in Heads : Cardinality(Paying(h)') + remitted[h] <= Cardinality(Paying(h)) + remitted'[h]
  BY <1>1, <1>2, <1>4
<1> QED
  BY <1>1, <1>2, <1>3, <1>7, <1>8, ReturnStep DEF EngineStep, ReturnCall

LEMMA WhtWriteGoesOn == ASSUME ReturnInv, NEW w \in Workers, WhtWrite(w) PROVE ReturnInv'
<1> DEFINE saw == call[w].saw
           due == saw.due + 1
           n == Cardinality(Adding)
           to == IF saw.paid >= due THEN "PAID" ELSE IF saw.status = "PAID" THEN "PARTIAL" ELSE saw.status
<1>1. Engine /\ ret \in [Heads -> Row] /\ withheld \in Nat /\ remitted \in [Heads -> Nat] /\ Covered
  BY DEF ReturnInv
<1>2. /\ call[w].at = "whtWrite" /\ Done(w) /\ UNCHANGED <<withheld, remitted, posted>>
      /\ \/ ret' = ret
         \/ ret' = [ret EXCEPT !["WHT"] = [due |-> 1, paid |-> 0, status |-> "DUE"]]
         \/ ret' = [ret EXCEPT !["WHT"].due = due, !["WHT"].status = to]
  BY DEF WhtWrite, In
<1>3. /\ Moves(w) /\ call'[w].at = "none" /\ \A v \in Workers \ {w} : call'[v] = call[v]
  BY <1>1, <1>2, DoneMoves
<1>4. /\ n \in Nat /\ Cardinality(Adding') \in Nat /\ n = Cardinality(Adding') + 1
      /\ \A h \in Heads : Cardinality(Paying(h)') = Cardinality(Paying(h)) /\ Cardinality(Paying(h)) \in Nat
  BY <1>2, <1>3, ReturnCounts, ReturnCountsNext, ReturnMoves
<1>5. saw \in Row /\ saw.due + n <= withheld
  BY <1>2 DEF ReturnInv, ReturnCall
<1>6. to \in ReturnStatuses /\ due \in Nat
  BY <1>5 DEF Row, ReturnStatuses
<1>7. /\ ret' \in [Heads -> Row] /\ ret'["PAYE"] = ret["PAYE"]
      /\ ret'["WHT"].due \in {ret["WHT"].due, 1, due} /\ ret'["WHT"].paid \in {ret["WHT"].paid, 0}
  <2> HIDE DEF to, due
  <2> QED
    BY <1>1, <1>2, <1>6 DEF Row, Heads, ReturnStatuses
<1>8. ret["WHT"].due \in Nat /\ ret["WHT"].due + n <= withheld /\ saw.due \in Nat
  BY <1>1, <1>5 DEF Covered, Row, Heads
<1>9. ret'["WHT"].due + Cardinality(Adding') <= withheld'
  BY <1>1, <1>2, <1>4, <1>5, <1>7, <1>8
<1>10. \A h \in Heads : ret'[h].paid + Cardinality(Paying(h)') <= remitted'[h]
  <2>1. \A h \in Heads : /\ ret[h].paid \in Nat /\ remitted[h] \in Nat
                         /\ ret[h].paid + Cardinality(Paying(h)) <= remitted[h]
    BY <1>1 DEF Covered, Row
  <2>2. \A h \in Heads : ret'[h].paid \in {ret[h].paid, 0}
    BY <1>7 DEF Heads
  <2> QED
    BY <1>2, <1>4, <2>1, <2>2
<1>11. Covered'
  BY <1>1, <1>2, <1>7, <1>9, <1>10 DEF Covered
<1>12. /\ Cardinality(Adding') + withheld <= Cardinality(Adding) + withheld'
       /\ \A h \in Heads : Cardinality(Paying(h)') + remitted[h] <= Cardinality(Paying(h)) + remitted'[h]
  BY <1>1, <1>2, <1>4
<1> QED
  BY <1>1, <1>2, <1>3, <1>7, <1>11, <1>12, ReturnStep DEF EngineStep, ReturnCall

LEMMA RemitCreateGoesOn == ASSUME ReturnInv, NEW w \in Workers, RemitCreate(w) PROVE ReturnInv'
<1> DEFINE saw == call[w].saw
           g == saw.head
<1>1. Engine /\ ret \in [Heads -> Row] /\ withheld \in Nat /\ remitted \in [Heads -> Nat] /\ Covered
  BY DEF ReturnInv
<1>2. /\ call[w].at = "remit" /\ remitted' = [remitted EXCEPT ![g] = @ + 1]
      /\ Step(w, "remitWrite", saw) /\ UNCHANGED <<ret, withheld, posted>>
  BY DEF RemitCreate, In
<1>3. /\ Moves(w) /\ call'[w].at = "remitWrite" /\ call'[w].saw = saw
      /\ \A v \in Workers \ {w} : call'[v] = call[v]
  BY <1>1, <1>2, StepMoves
<1>4. /\ g \in Heads /\ saw.row \in Row /\ saw.row.paid + Cardinality(Paying(g)) <= remitted[g]
  BY <1>2 DEF ReturnInv, ReturnCall
<1>5. /\ Cardinality(Adding) \in Nat /\ Cardinality(Adding') = Cardinality(Adding)
      /\ \A h \in Heads : /\ Cardinality(Paying(h)) \in Nat
                          /\ Cardinality(Paying(h)') = Cardinality(Paying(h)) + (IF h = g THEN 1 ELSE 0)
  BY <1>2, <1>3, ReturnCounts, ReturnMoves
<1>6. \A h \in Heads : remitted'[h] = remitted[h] + (IF h = g THEN 1 ELSE 0) /\ remitted[h] \in Nat
  BY <1>1, <1>2, <1>4
<1>7. remitted' \in [Heads -> Nat]
  BY <1>1, <1>2, <1>4
<1>8. \A h \in Heads : ret'[h].paid + Cardinality(Paying(h)') <= remitted'[h]
  <2>1. \A h \in Heads : ret[h].paid \in Nat /\ ret[h].paid + Cardinality(Paying(h)) <= remitted[h]
    BY <1>1 DEF Covered, Row
  <2> QED
    BY <1>2, <1>5, <1>6, <2>1
<1>9. Covered'
  BY <1>1, <1>2, <1>5, <1>8 DEF Covered
<1>10. \A h \in Heads : h = g => saw.row.paid + Cardinality(Paying(h)') <= remitted'[h]
  <2>1. saw.row.paid \in Nat
    BY <1>4 DEF Row
  <2> QED
    BY <1>4, <1>5, <1>6, <2>1
<1>11. ReturnCall(w)'
  BY <1>3, <1>4, <1>10 DEF ReturnCall
<1>12. /\ Cardinality(Adding') + withheld <= Cardinality(Adding) + withheld'
       /\ \A h \in Heads : Cardinality(Paying(h)') + remitted[h] <= Cardinality(Paying(h)) + remitted'[h]
  BY <1>1, <1>2, <1>5, <1>6
<1> QED
  BY <1>1, <1>2, <1>3, <1>7, <1>9, <1>11, <1>12, ReturnStep DEF EngineStep

LEMMA RemitWriteGoesOn == ASSUME ReturnInv, NEW w \in Workers, RemitWrite(w) PROVE ReturnInv'
<1> DEFINE saw == call[w].saw
           g == saw.head
           paid == saw.row.paid + 1
           to == State(saw.row.due, paid)
<1>1. Engine /\ ret \in [Heads -> Row] /\ withheld \in Nat /\ remitted \in [Heads -> Nat] /\ Covered
  BY DEF ReturnInv
<1>2. /\ call[w].at = "remitWrite" /\ ret' = [ret EXCEPT ![g].paid = paid, ![g].status = to]
      /\ Done(w) /\ UNCHANGED <<withheld, remitted, posted>>
  BY DEF RemitWrite, In
<1>3. /\ Moves(w) /\ call'[w].at = "none" /\ \A v \in Workers \ {w} : call'[v] = call[v]
  BY <1>1, <1>2, DoneMoves
<1>4. /\ g \in Heads /\ saw.row \in Row /\ saw.row.paid + Cardinality(Paying(g)) <= remitted[g]
  BY <1>2 DEF ReturnInv, ReturnCall
<1>5. /\ Cardinality(Adding) \in Nat /\ Cardinality(Adding') = Cardinality(Adding)
      /\ \A h \in Heads : /\ Cardinality(Paying(h)) \in Nat /\ Cardinality(Paying(h)') \in Nat
                          /\ Cardinality(Paying(h)) = Cardinality(Paying(h)') + (IF h = g THEN 1 ELSE 0)
  BY <1>2, <1>3, ReturnCounts, ReturnCountsNext, ReturnMoves
<1>6. paid \in Nat /\ to \in ReturnStatuses /\ saw.row.paid \in Nat
  BY <1>4, StateIs DEF Row
<1>7. /\ ret' \in [Heads -> Row]
      /\ \A h \in Heads : ret'[h].due = ret[h].due /\ ret'[h].paid = IF h = g THEN paid ELSE ret[h].paid
  <2> HIDE DEF to, paid
  <2> QED
    BY <1>1, <1>2, <1>4, <1>6 DEF Row
<1>8. \A h \in Heads : ret'[h].paid + Cardinality(Paying(h)') <= remitted'[h]
  <2>1. \A h \in Heads : /\ ret[h].paid \in Nat /\ ret[h].paid + Cardinality(Paying(h)) <= remitted[h]
                         /\ remitted[h] \in Nat
    BY <1>1 DEF Covered, Row
  <2> QED
    <3> SUFFICES ASSUME NEW h \in Heads PROVE ret'[h].paid + Cardinality(Paying(h)') <= remitted[h]
      BY <1>2
    <3>1. CASE h = g
      <4>1. Cardinality(Paying(h)) = Cardinality(Paying(h)') + 1 /\ ret'[h].paid = paid
        BY <1>5, <1>7, <3>1
      <4>2. saw.row.paid + Cardinality(Paying(h)) <= remitted[h]
        BY <1>4, <3>1
      <4> QED
        BY <1>5, <1>6, <2>1, <4>1, <4>2
    <3>2. CASE h # g
      BY <1>5, <1>7, <2>1, <3>2
    <3> QED
      BY <3>1, <3>2
<1>9. Covered'
  BY <1>1, <1>2, <1>5, <1>7, <1>8 DEF Covered, Heads
<1>10. /\ Cardinality(Adding') + withheld <= Cardinality(Adding) + withheld'
       /\ \A h \in Heads : Cardinality(Paying(h)') + remitted[h] <= Cardinality(Paying(h)) + remitted'[h]
  BY <1>1, <1>2, <1>5
<1> QED
  BY <1>1, <1>2, <1>3, <1>7, <1>9, <1>10, ReturnStep DEF EngineStep, ReturnCall

LEMMA ReturnsGoOn == ReturnInv /\ ReturnsNext => ReturnInv'
<1> SUFFICES ASSUME ReturnInv, ReturnsNext PROVE ReturnInv'
  OBVIOUS
<1>1. Engine /\ ret \in [Heads -> Row] /\ withheld \in Nat /\ remitted \in [Heads -> Nat] /\ Covered
      /\ Heads = {"WHT", "PAYE"} /\ ret["PAYE"].due = Cardinality(posted)
  BY DEF ReturnInv, Heads, Covered
<1>2. CASE (\E s \in Sites : RunApproved(s)) \/ DeadlinePasses
  <2>1. UNCHANGED <<handlerVars, ret, withheld, remitted, posted>>
    BY <1>2 DEF RunApproved, DeadlinePasses
  <2>2. EngineStep /\ UNCHANGED <<call, ret, withheld, remitted, posted>>
    BY <2>1 DEF EngineStep, handlerVars, outcomeVars
  <2>3. Engine'
    BY <1>1, <2>2, EngineGoesOn
  <2>4. Adding' = Adding /\ \A h \in Heads : Paying(h)' = Paying(h)
    BY <2>2 DEF Adding, Paying
  <2>5. Covered'
    BY <1>1, <2>2, <2>4 DEF Covered
  <2>6. ASSUME NEW w \in Workers PROVE ReturnCall(w)'
    <3>1. ReturnCall(w) /\ call'[w] = call[w]
      BY <2>2 DEF ReturnInv
    <3> QED
      BY <2>2, <2>4, <3>1 DEF ReturnCall
  <2> QED
    BY <1>1, <2>2, <2>3, <2>5, <2>6 DEF ReturnInv
<1>3. ASSUME NEW w \in Workers, ReturnsStep(w) PROVE ReturnInv'
  <2> DEFINE saw == call[w].saw
             Amounts == /\ ret' \in [Heads -> Row] /\ UNCHANGED <<withheld, remitted>>
                        /\ \A h \in Heads : ret'[h].paid = ret[h].paid
                        /\ ret'["WHT"].due = ret["WHT"].due
                        /\ ret'["PAYE"].due = Cardinality(posted')
  <2>1. ASSUME NEW at \in {"headFind", "remit", "persist"}, NEW row, Begin(w, at, row), UNCHANGED returnVars,
               at = "headFind" => row.sites \subseteq Sites,
               at = "remit" => \E h \in Heads : row = [head |-> h, row |-> ret[h]]
        PROVE  ReturnInv'
    <3>1. /\ Moves(w) /\ call[w].at = "none" /\ call'[w].at = at /\ call'[w].saw = row
          /\ \A v \in Workers \ {w} : call'[v] = call[v]
      BY <1>1, <2>1, BeginMoves
    <3>2. /\ Cardinality(Adding) \in Nat
          /\ \A h \in Heads : Cardinality(Paying(h)) \in Nat /\ Cardinality(Paying(h)') = Cardinality(Paying(h))
      BY <2>1, <3>1, ReturnCounts, ReturnMoves
    <3>3. ReturnCall(w)'
      <4>1. CASE at # "remit"
        BY <2>1, <3>1, <4>1 DEF ReturnCall
      <4>2. CASE at = "remit"
        <5>1. PICK h \in Heads : row = [head |-> h, row |-> ret[h]]
          BY <2>1, <4>2
        <5>2. ret[h] \in Row /\ ret[h].paid + Cardinality(Paying(h)') <= remitted'[h]
          BY <1>1, <2>1, <3>2 DEF Covered, returnVars
        <5> QED
          BY <3>1, <4>2, <5>1, <5>2 DEF ReturnCall
      <4> QED
        BY <4>1, <4>2
    <3>4. Amounts
      BY <1>1, <2>1 DEF returnVars
    <3>5. call'[w].at \notin {"whtFind", "whtWrite", "remitWrite"}
      BY <3>1
    <3> HIDE DEF Amounts
    <3>6. EngineStep
      BY <3>1 DEF EngineStep
    <3> QED
      BY <3>1, <3>3, <3>4, <3>5, <3>6, ReturnRead DEF Amounts
  <2>2. CASE WhtFind(w)
    <3>1. call[w].at = "whtFind" /\ Step(w, "whtWrite", ret["WHT"]) /\ UNCHANGED returnVars
      BY <2>2 DEF WhtFind, In
    <3>2. /\ Moves(w) /\ call'[w].at = "whtWrite" /\ call'[w].saw = ret["WHT"]
          /\ \A v \in Workers \ {w} : call'[v] = call[v]
      BY <1>1, <3>1, StepMoves
    <3>3. Cardinality(Adding') = Cardinality(Adding)
      BY <3>1, <3>2, ReturnMoves
    <3>4. ret["WHT"] \in Row /\ ret["WHT"].due + Cardinality(Adding') <= withheld'
      BY <1>1, <3>1, <3>3 DEF Covered, returnVars
    <3>5. ReturnCall(w)'
      BY <3>2, <3>4 DEF ReturnCall
    <3>6. Amounts
      BY <1>1, <3>1 DEF returnVars
    <3> HIDE DEF Amounts
    <3> QED
      BY <3>1, <3>2, <3>5, <3>6, ReturnRead DEF EngineStep, Amounts
  <2>3. CASE HeadFind(w)
    <3>1. /\ call[w].at = "headFind" /\ Step(w, "headWrite", [sites |-> saw.sites, row |-> ret["PAYE"]])
          /\ UNCHANGED returnVars
      BY <2>3 DEF HeadFind, In
    <3>2. /\ Moves(w) /\ call'[w].at = "headWrite" /\ call'[w].saw.sites = saw.sites
          /\ \A v \in Workers \ {w} : call'[v] = call[v]
      BY <1>1, <3>1, StepMoves
    <3>3. ReturnCall(w)'
      BY <3>1, <3>2 DEF ReturnCall, ReturnInv
    <3>4. Amounts
      BY <1>1, <3>1 DEF returnVars
    <3> HIDE DEF Amounts
    <3> QED
      BY <3>1, <3>2, <3>3, <3>4, ReturnRead DEF EngineStep, Amounts
  <2>4. CASE HeadWrite(w)
    <3> DEFINE due == Cardinality(saw.sites)
               to == State(due, saw.row.paid)
    <3>1. /\ call[w].at = "headWrite" /\ Done(w) /\ UNCHANGED <<withheld, remitted>>
          /\ \/ UNCHANGED <<ret, posted>>
             \/ ret' = [ret EXCEPT !["PAYE"].due = due, !["PAYE"].status = to] /\ posted' = saw.sites
      BY <2>4 DEF HeadWrite, In
    <3>2. Moves(w) /\ call'[w].at = "none" /\ \A v \in Workers \ {w} : call'[v] = call[v]
      BY <1>1, <3>1, DoneMoves
    <3>3. due \in Nat /\ to \in ReturnStatuses
      <4>1. saw.sites \in SUBSET Sites
        BY <3>1 DEF ReturnInv, ReturnCall
      <4> QED
        BY <4>1, StateIs, ReturnsAssumption, FS_Subset, FS_CardinalityType
    <3>4. Amounts
      <4>1. CASE UNCHANGED <<ret, posted>>
        BY <1>1, <3>1, <4>1
      <4>2. CASE ret' = [ret EXCEPT !["PAYE"].due = due, !["PAYE"].status = to] /\ posted' = saw.sites
        <5>1. posted' = saw.sites /\ ret'["PAYE"].due = due
          BY <1>1, <4>2 DEF Row
        <5> HIDE DEF due, to
        <5>2. /\ ret' \in [Heads -> Row] /\ ret'["WHT"] = ret["WHT"] /\ ret'["PAYE"].paid = ret["PAYE"].paid
          BY <1>1, <3>3, <4>2 DEF Row
        <5> QED
          BY <1>1, <3>1, <5>1, <5>2 DEF due
      <4> QED
        BY <3>1, <4>1, <4>2
    <3> HIDE DEF Amounts
    <3> QED
      BY <3>1, <3>2, <3>4, ReturnRead DEF EngineStep, Amounts, ReturnCall
  <2>5. CASE PersistWrite(w)
    <3> DEFINE fresh(h) == State(saw[h].due, saw[h].paid)
    <3>1. /\ call[w].at = "persist" /\ UNCHANGED <<withheld, remitted, posted>>
          /\ \/ Done(w) /\ UNCHANGED ret
             \/ \E h \in Heads :
                  ret' = [ret EXCEPT ![h].status = fresh(h)] /\ Step(w, "persist", [saw EXCEPT ![h].status = fresh(h)])
      BY <2>5, Zenon DEF PersistWrite, In
    <3>2. /\ Moves(w) /\ call'[w].at \in {"none", "persist"} /\ \A v \in Workers \ {w} : call'[v] = call[v]
      <4>1. CASE Done(w)
        BY <1>1, <3>1, <4>1, DoneMoves
      <4>2. ASSUME NEW row, Step(w, "persist", row)
            PROVE  /\ Moves(w) /\ call'[w].at = "persist" /\ \A v \in Workers \ {w} : call'[v] = call[v]
        BY <1>1, <3>1, <4>2, StepMoves
      <4> QED
        BY <3>1, <4>1, <4>2
    <3>3. \/ UNCHANGED ret
          \/ \E h \in Heads, to \in ReturnStatuses : ret' = [ret EXCEPT ![h].status = to]
      BY <3>1, StateIs
    <3>4. Amounts
      BY <1>1, <3>1, <3>3 DEF Row
    <3>5. ReturnCall(w)'
      BY <3>2 DEF ReturnCall
    <3> HIDE DEF Amounts
    <3> QED
      BY <3>1, <3>2, <3>4, <3>5, ReturnRead DEF EngineStep, Amounts
  <2>6. CASE call[w].at \in Filing /\ Crash(w) /\ UNCHANGED returnVars
    <3>1. call'[w].at = "none" /\ \A v \in Workers \ {w} : call'[v] = call[v]
      BY <1>1, <2>6 DEF Crash, Stop, Leave, NoCall, Engine
    <3>2. Amounts
      BY <1>1, <2>6 DEF returnVars
    <3>3. EngineStep
      BY <2>6 DEF EngineStep
    <3> HIDE DEF Amounts
    <3> QED
      BY <3>1, <3>2, <3>3, ReturnRead DEF Amounts, ReturnCall
  <2>7. ASSUME NEW sites \in SUBSET Sites, PostRuns(w, sites) PROVE ReturnInv'
    <3>1. Begin(w, "headFind", [sites |-> runs \cap sites]) /\ UNCHANGED returnVars
      BY <2>7 DEF PostRuns
    <3> QED
      BY <2>1, <3>1
  <2>8. ASSUME NEW h \in Heads, RemitRead(w, h) PROVE ReturnInv'
    BY <2>1, <2>8 DEF RemitRead
  <2>9. CASE PersistRead(w)
    BY <2>1, <2>9 DEF PersistRead
  <2> QED
    BY <1>3, <2>2, <2>3, <2>4, <2>5, <2>6, <2>7, <2>8, <2>9,
       PayableGoesOn, WhtWriteGoesOn, RemitCreateGoesOn, RemitWriteGoesOn DEF ReturnsStep
<1> QED
  BY <1>2, <1>3 DEF ReturnsNext

-----------------------------------------------------------------------------
(* Adjustments: what the code counts as the days of an allowance. *)

LEMMA MaxIs == ASSUME NEW a \in Int, NEW b \in Int PROVE Max({a, b}) = IF a >= b THEN a ELSE b
<1> DEFINE P(x) == x \in {a, b} /\ \A y \in {a, b} : x >= y
           c == CHOOSE x : P(x)
<1>1. P(IF a >= b THEN a ELSE b)
  OBVIOUS
<1>2. P(c)
  <2> HIDE DEF P
  <2> QED
    BY <1>1
<1>3. Max({a, b}) = c
  BY DEF Max
<1> HIDE DEF c
<1> QED
  BY <1>2, <1>3

LEMMA MinIs == ASSUME NEW a \in Int, NEW b \in Int PROVE Min({a, b}) = IF a <= b THEN a ELSE b
<1> DEFINE P(x) == x \in {a, b} /\ \A y \in {a, b} : x <= y
           c == CHOOSE x : P(x)
<1>1. P(IF a <= b THEN a ELSE b)
  OBVIOUS
<1>2. P(c)
  <2> HIDE DEF P
  <2> QED
    BY <1>1
<1>3. Min({a, b}) = c
  BY DEF Min
<1> HIDE DEF c
<1> QED
  BY <1>2, <1>3

LEMMA MonthsAreDays ==
    ASSUME NEW m \in Months
    PROVE  /\ MonthStart(m) \in Nat \ {0} /\ MonthEnds[m] \in Nat
           /\ MonthEnds[Len(MonthEnds)] \in Nat /\ MonthEnds[m] <= MonthEnds[Len(MonthEnds)]
<1> DEFINE n == Len(MonthEnds)
<1>1. n \in Nat /\ DOMAIN MonthEnds = 1..n /\ \A k \in 1..n : MonthEnds[k] \in Nat \ {0}
  BY AdjustmentsAssumption
<1>2. m \in 1..n /\ n \in 1..n
  BY <1>1 DEF Months
<1>3. m = n \/ MonthEnds[m] < MonthEnds[n]
  <2>1. m < n => MonthEnds[m] < MonthEnds[n]
    BY <1>1, <1>2, AdjustmentsAssumption
  <2> HIDE DEF n
  <2> QED
    BY <1>1, <1>2, <2>1
<1>4. MonthStart(m) \in Nat \ {0}
  <2>1. CASE m = 1
    BY <2>1 DEF MonthStart
  <2>2. CASE m # 1
    <3>1. m - 1 \in 1..n
      BY <1>1, <1>2, <2>2
    <3> QED
      BY <1>1, <2>2, <3>1 DEF MonthStart
  <2> QED
    BY <2>1, <2>2
<1>5. MonthEnds[m] \in Nat /\ MonthEnds[n] \in Nat /\ MonthEnds[m] <= MonthEnds[n]
  <2> HIDE DEF n
  <2>1. MonthEnds[m] \in Nat /\ MonthEnds[n] \in Nat
    BY <1>1, <1>2
  <2> QED
    BY <1>3, <2>1
<1> QED
  BY <1>4, <1>5

LEMMA DaysAreCounted ==
    ASSUME NEW a, a.from \in Days, a.to \in Days, NEW m \in Months
    PROVE  QualifyingDays(a, m) = Cardinality({d \in Days :
               a.from <= d /\ d <= a.to /\ MonthStart(m) <= d /\ d <= MonthEnds[m]})
<1> DEFINE first == IF a.from >= MonthStart(m) THEN a.from ELSE MonthStart(m)
           last == IF a.to <= MonthEnds[m] THEN a.to ELSE MonthEnds[m]
           n == MonthEnds[Len(MonthEnds)]
           start == MonthStart(m)
           end == MonthEnds[m]
<1>1. /\ a.from \in Nat \ {0} /\ a.to \in Nat \ {0} /\ a.to <= n
      /\ start \in Nat \ {0} /\ end \in Nat /\ n \in Nat /\ end <= n
  BY MonthsAreDays DEF Days
<1>2. Max({a.from, start}) = first /\ Min({a.to, end}) = last
  BY <1>1, MaxIs, MinIs
<1>3. QualifyingDays(a, m) = Max({0, last - first + 1})
  BY <1>2 DEF QualifyingDays
<1>4. first \in Int /\ last \in Int /\ last - first + 1 \in Int
  BY <1>1
<1>5. QualifyingDays(a, m) = IF first > last THEN 0 ELSE last - first + 1
  <2>1. Max({0, last - first + 1}) = IF 0 >= last - first + 1 THEN 0 ELSE last - first + 1
    BY <1>4, MaxIs
  <2> HIDE DEF first, last
  <2> QED
    BY <1>3, <1>4, <2>1
<1>6. {d \in Days : a.from <= d /\ d <= a.to /\ start <= d /\ d <= end} = first..last
  BY <1>1 DEF Days
<1>7. Cardinality(first..last) = IF first > last THEN 0 ELSE last - first + 1
  BY <1>4, FS_Interval
<1> QED
  BY <1>5, <1>6, <1>7

LEMMA DaysAreNatural ==
    ASSUME NEW a, a.from \in Days, a.to \in Days, NEW m \in Months PROVE QualifyingDays(a, m) \in Nat
<1>1. IsFiniteSet(Days)
  <2>1. MonthEnds[Len(MonthEnds)] \in Nat
    BY MonthsAreDays
  <2> QED
    BY <2>1, FS_Interval DEF Days
<1> DEFINE some == {d \in Days : a.from <= d /\ d <= a.to /\ MonthStart(m) <= d /\ d <= MonthEnds[m]}
<1>2. IsFiniteSet(some)
  <2>1. some \subseteq Days
    OBVIOUS
  <2> HIDE DEF some
  <2> QED
    BY <1>1, <2>1, FS_Subset
<1>3. QualifyingDays(a, m) = Cardinality(some)
  BY DaysAreCounted
<1> QED
  BY <1>2, <1>3, FS_CardinalityType

\* An allowance, raised or about to be, pays for the days of its assignment.
Earned(a) ==
    /\ a \in [assignment : Assignments, month : Months, days : Nat]
    /\ acting[a.assignment].status # "NONE"
    /\ a.days = QualifyingDays(acting[a.assignment], a.month)

AdjustmentCall(w) ==
    LET at == call[w].at
        saw == call[w].saw
    IN  /\ at \in {"submitBatch", "approveBatch"} => batch # "NONE"
        /\ at = "approveBatch" => saw.owed = owed
        /\ at = "createActing" =>
             saw.id \in Assignments /\ saw.from \in Days /\ saw.to \in Days /\ acting[saw.id].status = "NONE"
        /\ at \in {"SUBMITTED", "APPROVED"} => saw \in Assignments /\ acting[saw].status # "NONE"
        /\ at = "computeActing" => Earned(saw)

\* Two requests never create the same assignment.
OneCreator ==
    \A v, w \in Workers :
        v # w /\ call[v].at = "createActing" /\ call[w].at = "createActing" => call[v].saw.id # call[w].saw.id

BatchPays ==
    /\ batch \in {"NONE", "DRAFT", "SUBMITTED", "APPROVED"} /\ owed \subseteq Employees
    /\ raised \in [Employees -> Nat]
    /\ \A e \in Employees : raised[e] > 0 => e \in owed
    /\ batch = "NONE" => \A e \in Employees : raised[e] = 0

ActingPays ==
    /\ acting \in [Assignments -> Assignment]
    /\ \A x \in Assignments : acting[x].status # "NONE" => acting[x].from \in Days /\ acting[x].to \in Days
    /\ IsFiniteSet(BagToSet(allowances)) /\ \A a \in BagToSet(allowances) : Earned(a)

AdjustmentInv ==
    /\ Engine /\ BatchPays /\ ActingPays
    /\ \A w \in Workers : AdjustmentCall(w)
    /\ OneCreator

LEMMA PaidAsOwed == AdjustmentInv => AdjustmentsAuthorised
<1> SUFFICES ASSUME AdjustmentInv, NEW a \in BagToSet(allowances)
             PROVE  /\ acting[a.assignment].status # "NONE"
                    /\ a.days = Cardinality({d \in Days :
                         acting[a.assignment].from <= d /\ d <= acting[a.assignment].to
                         /\ MonthStart(a.month) <= d /\ d <= MonthEnds[a.month]})
  BY DEF AdjustmentsAuthorised, AdjustmentInv, BatchPays
<1> DEFINE x == acting[a.assignment]
           m == a.month
<1>1. Earned(a)
  BY DEF AdjustmentInv, ActingPays
<1>2. x.from \in Days /\ x.to \in Days /\ m \in Months /\ x.status # "NONE" /\ a.days = QualifyingDays(x, m)
  BY <1>1 DEF Earned, AdjustmentInv, ActingPays
<1> HIDE DEF x, m
<1>3. a.days = Cardinality({d \in Days : x.from <= d /\ d <= x.to /\ MonthStart(m) <= d /\ d <= MonthEnds[m]})
  BY <1>2, DaysAreCounted
<1> QED
  BY <1>2, <1>3 DEF x, m

LEMMA AdjustmentsStart == HandlersInit /\ AdjustmentInit => AdjustmentInv
<1> SUFFICES ASSUME HandlersInit, AdjustmentInit PROVE AdjustmentInv
  OBVIOUS
<1>1. Engine /\ \A w \in Workers : call[w].at = "none"
  BY EngineStarts DEF HandlersInit, RequestsInit, NoCall
<1>2. BatchPays
  BY DEF AdjustmentInit, BatchPays
<1>3. BagToSet(allowances) = {}
  BY DEF AdjustmentInit, EmptyBag, SetToBag, BagToSet
<1>4. ActingPays
  BY <1>3, FS_EmptySet DEF AdjustmentInit, ActingPays, Assignment
<1> QED
  BY <1>1, <1>2, <1>4 DEF AdjustmentInv, AdjustmentCall, OneCreator

\* What was created stays as it is, but for its status.
AssignmentsStay(w) ==
    \A x \in Assignments :
        /\ acting[x].status # "NONE" =>
             acting'[x].status # "NONE" /\ acting'[x].from = acting[x].from /\ acting'[x].to = acting[x].to
        /\ acting[x].status = "NONE" /\ acting'[x].status # "NONE" =>
             call[w].at = "createActing" /\ x = call[w].saw.id

LEMMA EarnedStays ==
    ASSUME NEW w \in Workers, AssignmentsStay(w), NEW a, Earned(a) PROVE Earned(a)'
BY DEF AssignmentsStay, Earned, QualifyingDays

LEMMA AdjustmentStep ==
    ASSUME AdjustmentInv, NEW w \in Workers, EngineStep, AdjustmentCall(w)',
           BatchPays', ActingPays', AssignmentsStay(w),
           batch # "NONE" => batch' # "NONE" /\ owed' = owed,
           call'[w].at = "createActing" =>
             \A v \in Workers \ {w} : call[v].at = "createActing" => call[v].saw.id # call'[w].saw.id,
           \A v \in Workers \ {w} : call'[v] = call[v]
    PROVE  AdjustmentInv'
<1>1. Engine'
  BY EngineGoesOn DEF AdjustmentInv
<1>2. ASSUME NEW v \in Workers \ {w} PROVE AdjustmentCall(v)'
  <2>1. AdjustmentCall(v) /\ call'[v] = call[v]
    BY DEF AdjustmentInv
  <2>2. CASE call[v].at = "createActing"
    <3> DEFINE x == call[v].saw.id
    <3>1. x \in Assignments /\ acting[x].status = "NONE"
      BY <2>1, <2>2 DEF AdjustmentCall
    <3>2. call[w].at = "createActing" => call[w].saw.id # x
      BY <2>2 DEF AdjustmentInv, OneCreator
    <3>3. acting'[x].status = "NONE"
      BY <3>1, <3>2 DEF AssignmentsStay
    <3> QED
      BY <2>1, <2>2, <3>3 DEF AdjustmentCall
  <2>3. CASE call[v].at = "computeActing"
    <3>1. Earned(call[v].saw)
      BY <2>1, <2>3 DEF AdjustmentCall
    <3> DEFINE a == call[v].saw
    <3>2. call'[v].saw = a
      BY <2>1
    <3> HIDE DEF a
    <3>3. \A b : Earned(b) => Earned(b)'
      BY EarnedStays
    <3>4. Earned(call[v].saw)'
      BY <2>1, <3>1, <3>3 DEF Earned
    <3> QED
      BY <2>1, <2>3, <3>4 DEF AdjustmentCall
  <2>4. CASE call[v].at \notin {"createActing", "computeActing"}
    BY <2>1, <2>4 DEF AdjustmentCall, AssignmentsStay
  <2> QED
    BY <2>2, <2>3, <2>4
<1>3. OneCreator'
  BY DEF OneCreator, AdjustmentInv
<1> QED
  BY <1>1, <1>2, <1>3 DEF AdjustmentInv

\* A step that changes no row: it begins or gives up.
LEMMA AdjustmentRead ==
    ASSUME AdjustmentInv, NEW w \in Workers, EngineStep, AdjustmentCall(w)', UNCHANGED adjustmentVars,
           call'[w].at = "createActing" =>
             \A v \in Workers \ {w} : call[v].at = "createActing" => call[v].saw.id # call'[w].saw.id,
           \A v \in Workers \ {w} : call'[v] = call[v]
    PROVE  AdjustmentInv'
<1>1. AssignmentsStay(w) /\ \A a : Earned(a) => Earned(a)'
  BY DEF AssignmentsStay, Earned, adjustmentVars, actingVars
<1>2. BatchPays' /\ ActingPays'
  BY <1>1 DEF AdjustmentInv, BatchPays, ActingPays, adjustmentVars, batchVars, actingVars
<1> QED
  BY <1>1, <1>2, AdjustmentStep DEF adjustmentVars, batchVars

LEMMA AdjustmentsGoOn == AdjustmentInv /\ (BackPayNext \/ ActingNext) => AdjustmentInv'
<1> SUFFICES ASSUME AdjustmentInv, BackPayNext \/ ActingNext PROVE AdjustmentInv'
  OBVIOUS
<1>1. Engine /\ BatchPays /\ ActingPays
  BY DEF AdjustmentInv
<1>2. ASSUME UNCHANGED actingVars, NEW w \in Workers PROVE AssignmentsStay(w) /\ ActingPays'
  <2>1. \A a : Earned(a) => Earned(a)'
    BY <1>2 DEF Earned, actingVars
  <2> QED
    BY <1>1, <1>2, <2>1 DEF AssignmentsStay, ActingPays, actingVars
<1>3. ASSUME NEW w \in Workers, NEW some \in SUBSET Employees, CreateBatch(w, some) PROVE AdjustmentInv'
  <2>1. /\ batch = "NONE" /\ batch' = "DRAFT" /\ owed' = some /\ UNCHANGED <<handlerVars, raised, actingVars>>
    BY <1>3 DEF CreateBatch
  <2>2. EngineStep /\ UNCHANGED call
    BY <2>1 DEF EngineStep, handlerVars, outcomeVars
  <2>3. BatchPays'
    BY <1>1, <2>1 DEF BatchPays
  <2>4. AdjustmentCall(w)'
    BY <2>1, <2>2 DEF AdjustmentInv, AdjustmentCall, Earned, actingVars
  <2>5. \A v \in Workers \ {w} : call[v].at = "createActing" /\ call[w].at = "createActing" =>
          call[v].saw.id # call[w].saw.id
    BY DEF AdjustmentInv, OneCreator
  <2> QED
    BY <1>2, <2>1, <2>2, <2>3, <2>4, <2>5, AdjustmentStep
<1>4. ASSUME NEW w \in Workers, SubmitBatchRead(w) \/ ApproveBatchRead(w) PROVE AdjustmentInv'
  <2>1. /\ batch # "NONE" /\ UNCHANGED adjustmentVars
        /\ Begin(w, "submitBatch", None) \/ Begin(w, "approveBatch", [owed |-> owed])
    BY <1>4 DEF SubmitBatchRead, ApproveBatchRead
  <2>2. /\ Moves(w) /\ \A v \in Workers \ {w} : call'[v] = call[v]
        /\ \/ call'[w].at = "submitBatch"
           \/ call'[w].at = "approveBatch" /\ call'[w].saw.owed = owed
    BY <1>1, <2>1, BeginMoves
  <2>3. AdjustmentCall(w)'
    BY <2>1, <2>2 DEF AdjustmentCall, adjustmentVars, batchVars
  <2> QED
    BY <2>1, <2>2, <2>3, AdjustmentRead DEF EngineStep
<1>5. ASSUME NEW w \in Workers, SubmitBatchWrite(w) \/ ApproveBatchWrite(w) PROVE AdjustmentInv'
  <2>1. /\ call[w].at \in {"submitBatch", "approveBatch"} /\ Done(w) /\ batch' \in {"SUBMITTED", "APPROVED"}
        /\ UNCHANGED <<owed, actingVars>>
        /\ \/ UNCHANGED raised
           \/ /\ call[w].at = "approveBatch"
              /\ raised' = [e \in Employees |-> IF e \in call[w].saw.owed THEN raised[e] + 1 ELSE raised[e]]
    BY <1>5 DEF SubmitBatchWrite, ApproveBatchWrite, In
  <2>2. Moves(w) /\ call'[w].at = "none" /\ \A v \in Workers \ {w} : call'[v] = call[v]
    BY <1>1, <2>1, DoneMoves
  <2>3. call[w].at = "approveBatch" => call[w].saw.owed = owed
    BY DEF AdjustmentInv, AdjustmentCall
  <2>4. BatchPays'
    BY <1>1, <2>1, <2>3 DEF BatchPays
  <2> QED
    BY <1>2, <2>1, <2>2, <2>4, AdjustmentStep DEF EngineStep, AdjustmentCall
<1>6. ASSUME NEW w \in Workers, Crash(w), UNCHANGED adjustmentVars PROVE AdjustmentInv'
  <2>1. call'[w].at = "none" /\ \A v \in Workers \ {w} : call'[v] = call[v]
    BY <1>1, <1>6 DEF Crash, Stop, Leave, NoCall, Engine
  <2>2. EngineStep
    BY <1>6 DEF EngineStep
  <2> QED
    BY <1>6, <2>1, <2>2, AdjustmentRead DEF AdjustmentCall
<1>7. ASSUME NEW w \in Workers, NEW x \in Assignments, NEW from \in Days, NEW to \in Days,
             CreateActingRead(w, x, from, to)
      PROVE  AdjustmentInv'
  <2>1. /\ acting[x].status = "NONE" /\ UNCHANGED adjustmentVars
        /\ \A v \in Workers : call[v].at = "createActing" => call[v].saw.id # x
        /\ Begin(w, "createActing", [id |-> x, from |-> from, to |-> to])
    BY <1>7 DEF CreateActingRead, In
  <2>2. /\ Moves(w) /\ \A v \in Workers \ {w} : call'[v] = call[v]
        /\ call'[w].at = "createActing" /\ call'[w].saw = [id |-> x, from |-> from, to |-> to]
    BY <1>1, <2>1, BeginMoves
  <2>3. AdjustmentCall(w)'
    BY <2>1, <2>2 DEF AdjustmentCall, adjustmentVars, actingVars
  <2> QED
    BY <2>1, <2>2, <2>3, AdjustmentRead DEF EngineStep
<1>8. ASSUME NEW w \in Workers, CreateActingWrite(w) PROVE AdjustmentInv'
  <2> DEFINE new == call[w].saw
             row == [status |-> "DRAFT", from |-> new.from, to |-> new.to]
  <2>1. /\ call[w].at = "createActing" /\ acting' = [acting EXCEPT ![new.id] = row] /\ Done(w)
        /\ UNCHANGED <<batchVars, allowances>>
    BY <1>8 DEF CreateActingWrite, In
  <2>2. Moves(w) /\ call'[w].at = "none" /\ \A v \in Workers \ {w} : call'[v] = call[v]
    BY <1>1, <2>1, DoneMoves
  <2>3. new.id \in Assignments /\ new.from \in Days /\ new.to \in Days /\ acting[new.id].status = "NONE"
    BY <2>1 DEF AdjustmentInv, AdjustmentCall
  <2>4. row \in Assignment /\ row.from \in Days /\ row.to \in Days
    BY <2>3 DEF Assignment, Days
  <2> HIDE DEF row
  <2>5. AssignmentsStay(w)
    BY <1>1, <2>1, <2>3 DEF AssignmentsStay, ActingPays
  <2>6. \A a : Earned(a) => Earned(a)'
    BY <2>5, EarnedStays
  <2>7. ActingPays'
    BY <1>1, <2>1, <2>3, <2>4, <2>6 DEF ActingPays
  <2>8. BatchPays'
    BY <1>1, <2>1 DEF BatchPays, batchVars
  <2> QED
    BY <2>1, <2>2, <2>5, <2>7, <2>8, AdjustmentStep DEF EngineStep, AdjustmentCall, batchVars
<1>9. ASSUME NEW w \in Workers, NEW x \in Assignments, NEW next \in {"SUBMITTED", "APPROVED"},
             PromoteActingRead(w, x, next)
      PROVE  AdjustmentInv'
  <2>1. acting[x].status # "NONE" /\ UNCHANGED adjustmentVars /\ Begin(w, next, x)
    BY <1>9 DEF PromoteActingRead
  <2>2. /\ Moves(w) /\ \A v \in Workers \ {w} : call'[v] = call[v]
        /\ call'[w].at = next /\ call'[w].saw = x
    BY <1>1, <2>1, BeginMoves
  <2>3. AdjustmentCall(w)'
    BY <2>1, <2>2 DEF AdjustmentCall, adjustmentVars, actingVars
  <2> QED
    BY <2>1, <2>2, <2>3, AdjustmentRead DEF EngineStep
<1>10. ASSUME NEW w \in Workers, PromoteActingWrite(w) PROVE AdjustmentInv'
  <2> DEFINE x == call[w].saw
             next == call[w].at
  <2>1. /\ next \in {"SUBMITTED", "APPROVED"} /\ acting' = [acting EXCEPT ![x].status = next] /\ Done(w)
        /\ UNCHANGED <<batchVars, allowances>>
    BY <1>10 DEF PromoteActingWrite
  <2>2. Moves(w) /\ call'[w].at = "none" /\ \A v \in Workers \ {w} : call'[v] = call[v]
    BY <1>1, <2>1, DoneMoves
  <2>3. x \in Assignments /\ acting[x].status # "NONE"
    BY <2>1 DEF AdjustmentInv, AdjustmentCall
  <2>4. /\ acting' \in [Assignments -> Assignment]
        /\ \A y \in Assignments : /\ acting'[y].from = acting[y].from /\ acting'[y].to = acting[y].to
                                  /\ acting'[y].status = IF y = x THEN next ELSE acting[y].status
    BY <1>1, <2>1, <2>3 DEF ActingPays, Assignment
  <2>5. AssignmentsStay(w)
    BY <2>1, <2>3, <2>4 DEF AssignmentsStay
  <2>6. \A a : Earned(a) => Earned(a)'
    BY <2>5, EarnedStays
  <2>7. ActingPays'
    BY <1>1, <2>1, <2>3, <2>4, <2>6 DEF ActingPays
  <2>8. BatchPays'
    BY <1>1, <2>1 DEF BatchPays, batchVars
  <2> QED
    BY <2>1, <2>2, <2>5, <2>7, <2>8, AdjustmentStep DEF EngineStep, AdjustmentCall, batchVars
<1>11. ASSUME NEW w \in Workers, NEW m \in Months, ComputeActingRead(w, m) PROVE AdjustmentInv'
  <2>1. PICK x \in Assignments :
          /\ acting[x].status = "APPROVED"
          /\ Begin(w, "computeActing", [assignment |-> x, month |-> m, days |-> QualifyingDays(acting[x], m)])
    BY <1>11 DEF ComputeActingRead
  <2> DEFINE a == [assignment |-> x, month |-> m, days |-> QualifyingDays(acting[x], m)]
  <2>2. UNCHANGED adjustmentVars /\ UNCHANGED acting
    BY <1>11 DEF ComputeActingRead, adjustmentVars, actingVars
  <2>3. /\ Moves(w) /\ \A v \in Workers \ {w} : call'[v] = call[v]
        /\ call'[w].at = "computeActing" /\ call'[w].saw = a
    BY <1>1, <2>1, BeginMoves
  <2>4. Earned(a)
    <3>1. acting[x].from \in Days /\ acting[x].to \in Days
      BY <2>1 DEF AdjustmentInv, ActingPays
    <3>2. QualifyingDays(acting[x], m) \in Nat
      BY <3>1, DaysAreNatural
    <3> QED
      BY <2>1, <3>2 DEF Earned
  <2>5. \A b : Earned(b) /\ b = call'[w].saw => Earned(call[w].saw)'
    BY <2>2 DEF Earned
  <2> HIDE DEF a
  <2>6. AdjustmentCall(w)'
    BY <2>3, <2>4, <2>5 DEF AdjustmentCall
  <2> QED
    BY <2>2, <2>3, <2>6, AdjustmentRead DEF EngineStep
<1>12. ASSUME NEW w \in Workers, ComputeActingWrite(w) PROVE AdjustmentInv'
  <2> DEFINE a == call[w].saw
  <2>1. /\ call[w].at = "computeActing" /\ Done(w) /\ UNCHANGED <<batchVars, acting>>
        /\ \/ UNCHANGED allowances
           \/ allowances' = allowances (+) SetToBag({a})
    BY <1>12 DEF ComputeActingWrite, In
  <2>2. Moves(w) /\ call'[w].at = "none" /\ \A v \in Workers \ {w} : call'[v] = call[v]
    BY <1>1, <2>1, DoneMoves
  <2>3. Earned(a)
    BY <2>1 DEF AdjustmentInv, AdjustmentCall
  <2>4. BagToSet(allowances') \subseteq BagToSet(allowances) \cup {a}
    BY <2>1 DEF BagToSet, SetToBag, (+)
  <2>5. AssignmentsStay(w) /\ \A b : Earned(b) => Earned(b)'
    BY <2>1 DEF AssignmentsStay, Earned
  <2>6. ActingPays'
    <3>1. IsFiniteSet(BagToSet(allowances) \cup {a})
      BY <1>1, FS_AddElement DEF ActingPays
    <3>2. IsFiniteSet(BagToSet(allowances'))
      BY <2>4, <3>1, FS_Subset
    <3> QED
      BY <1>1, <2>1, <2>3, <2>4, <2>5, <3>2 DEF ActingPays
  <2>7. BatchPays'
    BY <1>1, <2>1 DEF BatchPays, batchVars
  <2> QED
    BY <2>1, <2>2, <2>5, <2>6, <2>7, AdjustmentStep DEF EngineStep, AdjustmentCall, batchVars
<1> QED
  BY <1>3, <1>4, <1>5, <1>6, <1>7, <1>8, <1>9, <1>10, <1>11, <1>12 DEF BackPayNext, ActingNext

-----------------------------------------------------------------------------
(* All of them: the part a behaviour is about keeps its invariant, and the  *)
(* tables of the others are as they began.                                  *)

MoneyInv ==
    /\ IF part = "petty" THEN PettyInv ELSE PettyInit
    /\ IF part = "budgets" THEN BudgetInv ELSE BudgetInit
    /\ IF part \in {"backPay", "acting"} THEN AdjustmentInv ELSE AdjustmentInit
    /\ IF part = "receipts" THEN ReceiptInv ELSE ReceiptsInit
    /\ IF part = "returns" THEN ReturnInv ELSE ReturnsInit
    /\ IF part \in {"loan", "debt", "health"} THEN AccrualInv ELSE AccrualsInit

LEMMA MoneyStarts == MoneyInit => MoneyInv
BY PettyStarts, BudgetStarts, AdjustmentsStart, ReceiptsStart, ReturnsStart, AccrualsStart
   DEF MoneyInit, MoneyInv

\* The tables of a part that is idle stay as they began.
LEMMA IdleStay ==
    /\ PettyInit /\ UNCHANGED pettyVars => PettyInit'
    /\ BudgetInit /\ UNCHANGED budgetVars => BudgetInit'
    /\ AdjustmentInit /\ UNCHANGED adjustmentVars => AdjustmentInit'
    /\ ReceiptsInit /\ UNCHANGED receiptVars => ReceiptsInit'
    /\ ReturnsInit /\ UNCHANGED returnVars => ReturnsInit'
    /\ AccrualsInit /\ UNCHANGED accrualVars => AccrualsInit'
<1>1. PettyInit /\ UNCHANGED pettyVars => PettyInit'
  BY DEF PettyInit, pettyVars
<1>2. BudgetInit /\ UNCHANGED budgetVars => BudgetInit'
  BY DEF BudgetInit, budgetVars
<1>3. AdjustmentInit /\ UNCHANGED adjustmentVars => AdjustmentInit'
  BY DEF AdjustmentInit, adjustmentVars, batchVars, actingVars
<1>4. ReceiptsInit /\ UNCHANGED receiptVars => ReceiptsInit'
  BY DEF ReceiptsInit, receiptVars
<1>5. ReturnsInit /\ UNCHANGED returnVars => ReturnsInit'
  BY DEF ReturnsInit, returnVars
<1>6. AccrualsInit /\ UNCHANGED accrualVars => AccrualsInit'
  BY DEF AccrualsInit, accrualVars, loanVars, debtVars, orderVars
<1> QED
  BY <1>1, <1>2, <1>3, <1>4, <1>5, <1>6

LEMMA StutteringKeeps == UNCHANGED vars /\ MoneyInv => MoneyInv'
<1> SUFFICES ASSUME UNCHANGED vars, MoneyInv PROVE MoneyInv'
  OBVIOUS
<1>1. UNCHANGED <<part, outcomeVars, call, subject, pettyVars, budgetVars, adjustmentVars,
                  receiptVars, returnVars, accrualVars>>
  BY DEF vars, handlerVars
<1>2. Engine => Engine'
  BY <1>1, EngineGoesOn DEF EngineStep
<1>3. PettyInv => PettyInv'
  BY <1>1, <1>2
     DEF PettyInv, pettyVars, outcomeVars, PettyShape, OneRaises, RaisingCall, PostingCall,
         PettyAuthorised, Raised, AsRaised, ForManager, ForDirector, ApprovedFor
<1>4. BudgetInv => BudgetInv'
  BY <1>1, <1>2
     DEF BudgetInv, budgetVars, outcomeVars, BudgetTypeOK, BudgetCall, BudgetsAuthorised, Made, ApprovedFor
<1>5. AdjustmentInv => AdjustmentInv'
  BY <1>1, <1>2
     DEF AdjustmentInv, adjustmentVars, batchVars, actingVars, BatchPays, ActingPays, AdjustmentCall,
         OneCreator, Earned
<1>6. ReceiptInv => ReceiptInv'
  BY <1>1, <1>2
     DEF ReceiptInv, receiptVars, ReceiptsTypeOK, ReceiptCall, OnePoster, ReceiptsAuthorised
<1>7. ReturnInv => ReturnInv'
  BY <1>1, <1>2
     DEF ReturnInv, returnVars, ReturnCall, Covered, Adding, Paying
<1>8. AccrualInv => AccrualInv'
  BY <1>1, <1>2
     DEF AccrualInv, accrualVars, loanVars, debtVars, AccrualCall, AccrualsFounded
<1> QED
  BY <1>1, <1>3, <1>4, <1>5, <1>6, <1>7, <1>8, IdleStay DEF MoneyInv

LEMMA MoneyGoesOn == MoneyInv /\ [MoneyNext]_vars => MoneyInv'
<1> SUFFICES ASSUME MoneyInv, [MoneyNext]_vars PROVE MoneyInv'
  OBVIOUS
<1>1. CASE UNCHANGED vars
  BY <1>1, StutteringKeeps
<1>2. CASE PettyPart
  BY <1>2, IdleStay, PettyGoesOn DEF MoneyInv, PettyPart
<1>3. CASE BudgetPart
  BY <1>3, IdleStay, BudgetGoesOn DEF MoneyInv, BudgetPart
<1>4. CASE BackPayPart \/ ActingPart
  BY <1>4, IdleStay, AdjustmentsGoOn DEF MoneyInv, BackPayPart, ActingPart
<1>5. CASE ReceiptsPart
  BY <1>5, IdleStay, ReceiptsGoOn DEF MoneyInv, ReceiptsPart
<1>6. CASE ReturnsPart
  BY <1>6, IdleStay, ReturnsGoOn DEF MoneyInv, ReturnsPart
<1>7. CASE LoanPart \/ DebtPart \/ HealthPart
  BY <1>7, IdleStay, AccrualsGoOn DEF MoneyInv, LoanPart, DebtPart, HealthPart
<1>8. CASE ImportPart
  BY <1>8, IdleStay DEF MoneyInv, ImportPart
<1> QED
  BY <1>1, <1>2, <1>3, <1>4, <1>5, <1>6, <1>7, <1>8 DEF MoneyNext

LEMMA MoneyInvAuthorises == MoneyInv => MoneyAuthorised
<1> SUFFICES ASSUME MoneyInv PROVE MoneyAuthorised
  OBVIOUS
<1>1. PettyAuthorised
  <2>1. PettyInit => PettyAuthorised
    BY DEF PettyInit, NoTxn, PettyAuthorised
  <2> QED
    BY <2>1 DEF MoneyInv, PettyInv
<1>2. BudgetsAuthorised
  BY DEF MoneyInv, BudgetInv, BudgetInit, BudgetsAuthorised
<1>3. AdjustmentsAuthorised
  <2>1. AdjustmentInit => AdjustmentsAuthorised
    BY DEF AdjustmentInit, AdjustmentsAuthorised, EmptyBag, SetToBag, BagToSet
  <2> QED
    BY <2>1, PaidAsOwed DEF MoneyInv
<1>4. ReceiptsAuthorised
  BY DEF MoneyInv, ReceiptInv, ReceiptsInit, ReceiptsAuthorised
<1>5. ReturnsAuthorised
  <2>1. ReturnsInit => ReturnsAuthorised
    BY FS_EmptySet DEF ReturnsInit, NoReturn, ReturnsAuthorised, Heads
  <2> QED
    BY <2>1, CoveredReturns DEF MoneyInv
<1>6. AccrualsFounded
  <2>1. AccrualsInit => AccrualsFounded
    <3>1. 1..0 = {} /\ Latest({}) = 0
      BY DEF Latest
    <3> QED
      BY <3>1 DEF AccrualsInit, AccrualsFounded, InterestOn, Due
  <2> QED
    BY <2>1 DEF MoneyInv, AccrualInv
<1> QED
  BY <1>1, <1>2, <1>3, <1>4, <1>5, <1>6 DEF MoneyAuthorised

\* However the requests of any number of workers overlap and fail: petty cash is
\* posted and a budget in force only with their approvals, back pay and
\* allowances pay only what is owed, nothing is in the ledger twice, no return
\* counts what nobody withheld or remitted, and interest accrues for the days
\* that passed.
THEOREM MoneyIsAuthorised == Spec => []MoneyAuthorised
BY MoneyStarts, MoneyGoesOn, MoneyInvAuthorises, PTL DEF Spec

-----------------------------------------------------------------------------
(* One request at a time: what holds as long as no two ran side by side.    *)

\* At most one worker serves something, and a callback carries the outcome its
\* chain has.
OneAtATime ==
    /\ failures \in Nat
    /\ ~overlapped =>
        /\ \A v, w \in Workers : v = w \/ Free(v) \/ Free(w)
        /\ \A w \in Workers : task[w].phase # "none" => status[task[w].chain] = task[w].outcome

\* While w steps the others serve nothing.
Solo(w) ==
    ~overlapped' =>
        /\ ~overlapped
        /\ \A v \in Workers \ {w} : Free(v) /\ Free(v)'

\* The callback of w is about a chain that has (not) been approved.
Calling(w, approved) == task[w].phase = "calling" /\ (task[w].outcome = "APPROVED" <=> approved)

-----------------------------------------------------------------------------
(* Petty cash. *)

Unopened == \A c \in Chains : status[c] = "NONE"

\* The transaction has one chain, if it is large, which is not open once the
\* director's approval, or nobody's, posted it.
OneVoucher ==
    /\ \A c \in Chains : status[c] # "NONE" => txn.big
    /\ \A c, d \in Chains : status[c] # "NONE" /\ status[d] # "NONE" => c = d
    /\ txn.status = "POSTED" /\ (txn.type # "WITHDRAWAL" \/ ~moved) =>
         \A c \in Chains : status[c] \in {"NONE", "APPROVED"}

PettyKnows(w) ==
    LET at == call[w].at
        saw == call[w].saw
    IN  /\ at \in {"createLeg", "route"} => Unopened
        /\ at = "createLeg" =>
             /\ txn.type = "CONVERSION" /\ saw.big = txn.big
             /\ txn.status = IF txn.big THEN "SUBMITTED" ELSE "POSTED"
        /\ at = "route" => txn.big /\ txn.status = "SUBMITTED"
        /\ at \in {"float", "limit"} => txn.status = "SUBMITTED"
        /\ at = "limit" => ~locked
        /\ at = "post" =>
             /\ txn.status # "POSTED"
             /\ IF saw.by = "manager" THEN ~locked ELSE Calling(w, TRUE)
        /\ at = "approved" => Calling(w, TRUE)
        /\ at \in {"mirrorTxn", "mirrorLeg"} => Calling(w, FALSE)
        /\ at \in {"journal", "otherLeg"} => txn.status = "POSTED"
        /\ at = "mirrorLeg" => txn.status = task[w].outcome
        /\ at = "count" => saw.locked = locked

\* If none failed, all that is missing is what the request under way, if there
\* is one, is still to write: it is at this call, or about to be called back.
PettySettled(at, phase) ==
    /\ journals = IF txn.type = "TOP_UP" /\ txn.status = "POSTED" /\ at # "journal" THEN 1 ELSE 0
    /\ txn.type = "CONVERSION" => leg = txn.status \/ at \in {"createLeg", "otherLeg", "mirrorLeg"}
    /\ at = "mirrorLeg" => leg # "POSTED"
    /\ txn.status = "SUBMITTED" /\ txn.big =>
         \/ \E c \in Chains : status[c] = "PENDING"
         \/ at \in {"createLeg", "route", "approved", "post", "mirrorTxn"}
         \/ phase = "due"

PettyAlone ==
    ~overlapped =>
        /\ OneVoucher
        /\ \A w \in Workers : PettyKnows(w)
        /\ failures = 0 =>
             /\ AllFree => PettySettled("none", "none")
             /\ \A w \in Workers : ~Free(w) => PettySettled(call[w].at, task[w].phase)

-----------------------------------------------------------------------------
(* Budgets. *)

\* An open chain is about a version that waits for it, and is the only one.
OneSubmission ==
    /\ \A c \in Chains : status[c] = "PENDING" => budget[subject[c]] = "SUBMITTED"
    /\ \A c, d \in Chains : status[c] = "PENDING" /\ status[d] = "PENDING" /\ subject[c] = subject[d] => c = d

\* A version that waits, but not for an open chain.
Resolved(b) == budget[b] = "SUBMITTED" /\ ~AwaitedFor(b)

BudgetKnows(w) ==
    LET at == call[w].at
        saw == call[w].saw
    IN  /\ at = "submit" => budget[saw] \in {"DRAFT", "RETURNED"}
        /\ at \in {"route", "activateRead", "activate", "mirrorBudget"} => Resolved(saw)
        /\ task[w].phase = "due" => Resolved(subject[task[w].chain])
        /\ at = "mirrorBudget" => Calling(w, FALSE)
        /\ at \in {"supersede", "clone"} => budget[saw] = "ACTIVE"
        /\ at = "supersede" => parent[saw] # None

\* What is revised is in force, or was.
Revised ==
    \A b \in Budgets :
        /\ budget[b] # "APPROVED"
        /\ parent[b] # None => budget[parent[b]] \in {"ACTIVE", "SUPERSEDED"}

\* The request under way is at this call for the version "saw", or about to be
\* called back for the version "about".
BudgetsSettled(at, saw, phase, about) ==
    \A b \in Budgets :
        /\ budget[b] = "ACTIVE" /\ parent[b] # None =>
             budget[parent[b]] = "SUPERSEDED" \/ (at = "supersede" /\ saw = b)
        /\ budget[b] = "SUBMITTED" =>
             \/ AwaitedFor(b)
             \/ at \in {"route", "activateRead", "activate", "mirrorBudget"} /\ saw = b
             \/ phase = "due" /\ about = b

BudgetAlone ==
    ~overlapped =>
        /\ OneSubmission /\ Revised
        /\ \A w \in Workers : BudgetKnows(w)
        /\ failures = 0 =>
             /\ AllFree => BudgetsSettled("none", None, "none", None)
             /\ \A w \in Workers : ~Free(w) =>
                  BudgetsSettled(call[w].at, call[w].saw, task[w].phase, subject[task[w].chain])

-----------------------------------------------------------------------------
(* Back pay and acting allowances. *)

AdjustmentKnows(w) ==
    LET at == call[w].at
        saw == call[w].saw
    IN  /\ at = "submitBatch" => batch = "DRAFT"
        /\ at = "approveBatch" => batch = "SUBMITTED"
        /\ at = "createActing" => saw.from <= saw.to /\ \A y \in Assignments : ~Meet(acting[y], saw.from, saw.to)
        /\ at = "SUBMITTED" => acting[saw].status = "DRAFT"
        /\ at = "APPROVED" => acting[saw].status = "SUBMITTED"

AdjustmentAlone ==
    /\ BackPayAgrees /\ ActingApart
    /\ ~overlapped => \A w \in Workers : AdjustmentKnows(w)

-----------------------------------------------------------------------------
(* Receipts. *)

ReceiptsSettled(at, saw) == \A x \in recorded : postings[x] = 1 \/ (at \in Posting /\ saw = x)

ReceiptKnows(w) ==
    /\ call[w].at = "newAsset" => accounts[AssetType(call[w].saw)] = 0
    /\ call[w].at = "newRevenue" => accounts["REVENUE"] = 0

ReceiptAlone ==
    ~overlapped =>
        /\ \A a \in AccountTypes : accounts[a] <= 1
        /\ \A w \in Workers : ReceiptKnows(w)
        /\ failures = 0 =>
             /\ AllFree => ReceiptsSettled("none", None)
             /\ \A w \in Workers : ~Free(w) => ReceiptsSettled(call[w].at, call[w].saw)

-----------------------------------------------------------------------------
(* Returns. *)

ReturnKnows(w) ==
    LET at == call[w].at
        saw == call[w].saw
    IN  /\ at = "whtWrite" => saw = ret["WHT"]
        /\ at = "headWrite" => saw.row = ret["PAYE"]
        /\ at \in {"remit", "remitWrite"} => Exists(saw.head) /\ saw.row = ret[saw.head]
        /\ at = "persist" => saw = ret

ReturnsSettled(at, saw) ==
    /\ withheld = ret["WHT"].due + (IF at \in {"whtFind", "whtWrite"} THEN 1 ELSE 0)
    /\ \A h \in Heads : remitted[h] = ret[h].paid + (IF at = "remitWrite" /\ saw.head = h THEN 1 ELSE 0)

ReturnAlone ==
    ~overlapped =>
        /\ \A h \in Heads : IF Exists(h) THEN ret[h].status = "PAID" <=> ret[h].paid >= ret[h].due
                                         ELSE ret[h] = NoReturn
        /\ \A w \in Workers : ReturnKnows(w)
        /\ failures = 0 =>
             /\ AllFree => ReturnsSettled("none", None)
             /\ \A w \in Workers : ~Free(w) => ReturnsSettled(call[w].at, call[w].saw)

-----------------------------------------------------------------------------
(* The nightly accruals. *)

HealthSettled(at) == reds = alerted + (IF at = "redAlert" THEN 1 ELSE 0)

HealthAlone ==
    /\ reds \in Nat /\ alerted \in Nat
    /\ ~overlapped =>
        /\ \A w \in Workers : call[w].at = "health" => call[w].saw.was = health /\ health # "PAID"
        /\ failures = 0 =>
             /\ AllFree => HealthSettled("none")
             /\ \A w \in Workers : ~Free(w) => HealthSettled(call[w].at)

\* What a worker may do, whatever the part.
Acts(w) ==
    \/ \E at, saw : Begin(w, at, saw)
    \/ call[w].at # "none" /\ ((\E at, saw : Step(w, at, saw)) \/ Done(w))
    \/ \E c \in Chains : Route(w, c)
    \/ \E c \in Chains, s \in Outcomes : DecideChain(w, c, s)
    \/ \E a, o : StartCallback(w, a, o)
    \/ EndCallback(w) \/ Crash(w)

LEMMA AloneStarts == HandlersInit => OneAtATime
BY DEF HandlersInit, RequestsInit, OutcomesInit, NoTask, NoCall, OneAtATime, Free

LEMMA AloneActs ==
    ASSUME Engine, OneAtATime, NEW w \in Workers, Acts(w)
    PROVE  Solo(w) /\ OneAtATime'
<1>0. failures' \in Nat
  BY DEF Acts, OneAtATime, Begin, Step, Done, Route, DecideChain, StartCallback, EndCallback, Crash, Stop
<1> SUFFICES ASSUME ~overlapped'
             PROVE  /\ ~overlapped /\ \A v \in Workers \ {w} : Free(v) /\ Free(v)'
                    /\ OneAtATime'
  BY <1>0 DEF Solo, OneAtATime
<1> USE DEF Engine
<1>1. ASSUME ~overlapped, \A v \in Workers \ {w} : Free(v) /\ call'[v] = call[v] /\ task'[v] = task[v],
             task'[w].phase # "none" => status'[task'[w].chain] = task'[w].outcome
      PROVE  /\ \A v \in Workers \ {w} : Free(v)'
             /\ OneAtATime'
  BY <1>0, <1>1 DEF OneAtATime, Free
<1>2. ASSUME NEW at, NEW saw, Begin(w, at, saw)
      PROVE  /\ ~overlapped /\ \A v \in Workers \ {w} : Free(v) /\ call'[v] = call[v] /\ task'[v] = task[v]
             /\ task'[w].phase # "none" => status'[task'[w].chain] = task'[w].outcome
  BY <1>2 DEF Begin, Alone, Go, outcomeVars, Free
<1>3. CASE ~Free(w)
  <2>1. CASE call[w].at # "none" /\ ((\E at, saw : Step(w, at, saw)) \/ Done(w))
    <3>1. /\ \E r : call' = [call EXCEPT ![w] = r]
          /\ UNCHANGED <<outcomeVars, overlapped>>
      BY <2>1 DEF Step, Done, Go, Leave
    <3> QED
      BY <1>1, <1>3, <3>1 DEF OneAtATime, outcomeVars
  <2>2. ASSUME NEW c \in Chains, Route(w, c) 
        PROVE  ~overlapped /\ (\A v \in Workers \ {w} : Free(v) /\ Free(v)') /\ OneAtATime'
    <3>1. /\ status[c] = "NONE" /\ status' = [status EXCEPT ![c] = "PENDING"]
          /\ call' = [call EXCEPT ![w] = NoCall] /\ UNCHANGED <<task, overlapped>>
      BY <2>2 DEF Route, Open, Leave
    <3>2. task[w].phase # "none" => status'[task[w].chain] = status[task[w].chain]
      BY <3>1
    <3> QED
      BY <1>1, <1>3, <3>1, <3>2 DEF OneAtATime
  <2>3. ASSUME NEW a, NEW o, StartCallback(w, a, o)
        PROVE  ~overlapped /\ (\A v \in Workers \ {w} : Free(v) /\ Free(v)') /\ OneAtATime'
    <3>1. /\ task[w].phase # "none" /\ task' = [task EXCEPT ![w].phase = "calling"]
          /\ \E r : call' = [call EXCEPT ![w] = r]
          /\ UNCHANGED <<status, overlapped>>
      BY <2>3 DEF StartCallback, Deliver, Go
    <3>2. task'[w].chain = task[w].chain /\ task'[w].outcome = task[w].outcome
      BY <3>1 DEF Task
    <3> QED
      BY <1>1, <1>3, <3>1, <3>2 DEF OneAtATime
  <2>4. CASE EndCallback(w) \/ Crash(w)
    <3>1. /\ task' = [task EXCEPT ![w] = NoTask]
          /\ \E r : call' = [call EXCEPT ![w] = r] \/ UNCHANGED call
          /\ UNCHANGED <<status, overlapped>>
      BY <2>4 DEF EndCallback, Crash, Stop, Return, Leave
    <3> QED
      BY <1>1, <1>3, <3>1 DEF OneAtATime, NoTask
  <2>5. /\ \A at, saw : ~Begin(w, at, saw)
        /\ \A c \in Chains, s \in Outcomes : ~DecideChain(w, c, s)
    BY <1>3 DEF DecideChain, Begin
  <2> QED
    BY <2>1, <2>2, <2>3, <2>4, <2>5 DEF Acts
<1>4. CASE Free(w)
  <2>1. ASSUME NEW c \in Chains, NEW s \in Outcomes, DecideChain(w, c, s)
        PROVE  /\ ~overlapped /\ \A v \in Workers \ {w} : Free(v) /\ call'[v] = call[v] /\ task'[v] = task[v]
               /\ task'[w].phase # "none" => status'[task'[w].chain] = task'[w].outcome
    BY <2>1 DEF DecideChain, Resolve, Alone
  <2> QED
    BY <1>1, <1>2, <1>4, <2>1
       DEF Acts, Free, Route, In, StartCallback, Deliver, EndCallback, Return, Crash, Stop
<1> QED
  BY <1>3, <1>4

-----------------------------------------------------------------------------

\* What the handlers' steps make of the call and leave of the engine.
LEMMA Began ==
    ASSUME Engine, NEW w \in Workers, NEW at, NEW saw, Begin(w, at, saw)
    PROVE  /\ call[w].at = "none" /\ task[w].phase = "none"
           /\ call'[w].at = at /\ call'[w].saw = saw
           /\ UNCHANGED <<status, task, failures, subject>>
BY DEF Engine, Begin, Free, Go, outcomeVars

LEMMA Stepped ==
    ASSUME Engine, NEW w \in Workers, NEW at, NEW saw, Step(w, at, saw)
    PROVE  /\ call'[w].at = at /\ call'[w].saw = saw
           /\ UNCHANGED <<status, task, failures, subject>>
BY DEF Engine, Step, Go, outcomeVars

LEMMA Ended ==
    ASSUME Engine, NEW w \in Workers, Done(w)
    PROVE  call'[w].at = "none" /\ UNCHANGED <<status, task, failures, subject>>
BY DEF Engine, Done, Leave, NoCall, outcomeVars

\* How the engine's own steps look to the worker that takes them alone.
LEMMA Routed ==
    ASSUME Engine, NEW w \in Workers, NEW c \in Chains, Route(w, c)
    PROVE  /\ call[w].at = "route" /\ call'[w].at = "none"
           /\ status[c] = "NONE" /\ status' = [status EXCEPT ![c] = "PENDING"]
           /\ subject' = [subject EXCEPT ![c] = call[w].saw]
           /\ UNCHANGED <<task, failures>>
BY DEF Engine, Route, In, Open, Leave, NoCall

LEMMA Decided ==
    ASSUME Engine, NEW w \in Workers, NEW c \in Chains, NEW s \in Outcomes,
           DecideChain(w, c, s), ~overlapped'
    PROVE  /\ Free(w) /\ status[c] = "PENDING" /\ status' = [status EXCEPT ![c] = s]
           /\ task'[w].phase = "due" /\ task'[w].chain = c /\ task'[w].outcome = s
           /\ UNCHANGED <<call, failures, subject>>
BY DEF Engine, DecideChain, Resolve

LEMMA Called ==
    ASSUME Engine, OneAtATime, ~overlapped, NEW w \in Workers, NEW a, NEW o, StartCallback(w, a, o)
    PROVE  /\ task[w].phase = "due" /\ call[w].at = "none"
           /\ call'[w].at = IF task[w].outcome = "APPROVED" THEN a ELSE o
           /\ call'[w].saw = subject[task[w].chain]
           /\ task'[w].phase = "calling" /\ task'[w].outcome = task[w].outcome
           /\ task'[w].chain = task[w].chain
           /\ task[w].chain \in Chains /\ status[task[w].chain] = task[w].outcome
           /\ task[w].outcome \in Outcomes
           /\ UNCHANGED <<status, failures, subject>>
BY DEF Engine, OneAtATime, StartCallback, Deliver, Go, Task

LEMMA Returned ==
    ASSUME Engine, NEW w \in Workers, EndCallback(w)
    PROVE  /\ call[w].at = "none" /\ task[w].phase = "calling" /\ task'[w].phase = "none"
           /\ UNCHANGED <<call, status, failures, subject>>
BY DEF Engine, EndCallback, In, Return, NoTask

LEMMA Crashed ==
    ASSUME Engine, OneAtATime, NEW w \in Workers, Crash(w)
    PROVE  /\ ~Free(w) /\ call'[w].at = "none" /\ task'[w].phase = "none" /\ failures' # 0
           /\ UNCHANGED <<status, subject>>
BY DEF Engine, OneAtATime, Crash, Stop, Leave, NoCall, NoTask

-----------------------------------------------------------------------------
(* Petty cash. *)

\* The invariant as the worker sees it that is the only one.
PettyWritten(w) == failures = 0 => PettySettled(call[w].at, task[w].phase)
PettyFine(w) == OneVoucher /\ PettyKnows(w) /\ PettyWritten(w)

LEMMA PettyNow ==
    ASSUME PettyAlone, NEW w \in Workers, Solo(w), ~overlapped'
    PROVE  PettyFine(w)
<1>1. ~overlapped /\ (Free(w) => AllFree)
  BY DEF Solo, AllFree
<1> QED
  BY <1>1 DEF PettyAlone, PettyFine, PettyWritten, Free

LEMMA PettyThen ==
    ASSUME NEW w \in Workers, Solo(w), ~overlapped' => PettyFine(w)'
    PROVE  PettyAlone'
<1> SUFFICES ASSUME ~overlapped' PROVE PettyAlone'
  BY DEF PettyAlone
<1>1. \A v \in Workers \ {w} : Free(v)' /\ PettyKnows(v)'
  BY DEF Solo, Free, PettyKnows
<1>2. AllFree' => call'[w].at = "none" /\ task'[w].phase = "none"
  BY DEF AllFree, Free
<1> QED
  BY <1>1, <1>2 DEF PettyAlone, PettyFine, PettyWritten

LEMMA PettyRequestsAlone ==
    ASSUME PettyInv, OneAtATime, NEW w \in Workers, Solo(w), PettyFine(w), ~overlapped', PettyRequested(w)
    PROVE  PettyKept /\ PettyFine(w)'
<1>1. Engine
  BY DEF PettyInv
<1>2. ASSUME NEW at, NEW saw, Begin(w, at, saw), UNCHANGED pettyVars,
             at \in {"create", "threshold", "float", "count", "unlock"},
             at = "float" => txn.status = "SUBMITTED", at = "count" => saw.locked = locked
      PROVE  PettyKept /\ PettyFine(w)'
  <2>1. /\ UNCHANGED <<status, task, failures, locked, txn, leg, journals, confirmed, moved>>
        /\ call[w].at = "none" /\ task[w].phase = "none" /\ call'[w].at = at /\ call'[w].saw = saw
    BY <1>1, <1>2, Began DEF pettyVars
  <2>2. OneVoucher' /\ PettyKnows(w)'
    BY <1>2, <2>1 DEF PettyFine, OneVoucher, PettyKnows
  <2>3. PettyWritten(w)'
    BY <1>2, <2>1 DEF PettyFine, PettyWritten, PettySettled
  <2> QED
    BY <2>1, <2>2, <2>3 DEF PettyKept, PettyFine
<1>3. ASSUME NEW c \in Chains, NEW s \in Outcomes, DecideChain(w, c, s), UNCHANGED pettyVars
      PROVE  PettyKept /\ PettyFine(w)'
  <2>1. /\ Free(w) /\ status[c] = "PENDING" /\ status' = [status EXCEPT ![c] = s]
        /\ task'[w].phase = "due" /\ UNCHANGED <<call, failures>>
        /\ UNCHANGED <<locked, txn, leg, journals, confirmed, moved>>
    BY <1>1, <1>3, Decided DEF pettyVars
  <2>2. \A d \in Chains : status'[d] # "NONE" => status[d] # "NONE"
    BY <2>1
  <2>3. OneVoucher'
    <3>1. ~(txn.status = "POSTED" /\ (txn.type # "WITHDRAWAL" \/ ~moved))
      BY <2>1 DEF PettyFine, OneVoucher
    <3> QED
      BY <2>1, <2>2, <3>1 DEF PettyFine, OneVoucher
  <2>4. PettyKnows(w)'
    BY <2>1 DEF PettyKnows, Free
  <2>5. PettyWritten(w)'
    BY <2>1 DEF PettyFine, PettyWritten, PettySettled, Free
  <2> QED
    BY <2>1, <2>3, <2>4, <2>5 DEF PettyKept, PettyFine
<1>4. ASSUME NEW type, CreateRead(w, type) PROVE PettyKept /\ PettyFine(w)'
  BY <1>2, <1>4 DEF CreateRead
<1>5. ASSUME NEW u \in People, ConfirmRead(w, u) PROVE PettyKept /\ PettyFine(w)'
  BY <1>2, <1>5 DEF ConfirmRead
<1>6. CASE CountRead(w) \/ UnlockRead(w)
  BY <1>2, <1>6 DEF CountRead, UnlockRead
<1> QED
  BY <1>3, <1>4, <1>5, <1>6 DEF PettyRequested, CreateWithdrawal, CreateConversion, CreateTopUp

\* The calls that raise the transaction.
LEMMA PettyRaisesAlone ==
    ASSUME PettyInv, NEW w \in Workers, PettyFine(w), ~overlapped',
           ThresholdRead(w) \/ CreateTxn(w) \/ CreateLeg(w)
    PROVE  PettyKept /\ PettyFine(w)'
<1>1. Engine /\ PettyShape /\ RaisingCall(w) /\ PettyFine(w)
  BY DEF PettyInv
<1>2. CASE ThresholdRead(w)
  <2>1. /\ UNCHANGED <<status, task, failures, locked, txn, leg, journals, confirmed, moved>>
        /\ call[w].at = "threshold" /\ call'[w].at = "create"
    BY <1>1, <1>2, Stepped DEF ThresholdRead, In, pettyVars
  <2>2. OneVoucher' /\ PettyKnows(w)'
    BY <1>1, <2>1 DEF PettyFine, OneVoucher, PettyKnows
  <2>3. PettyWritten(w)'
    BY <1>1, <2>1 DEF PettyFine, PettyWritten, PettySettled
  <2> QED
    BY <2>1, <2>2, <2>3 DEF PettyKept, PettyFine
<1>3. CASE CreateTxn(w)
  <2> DEFINE new == call[w].saw
  <2>1. /\ call[w].at = "create" /\ UNCHANGED <<locked, leg, journals, confirmed, moved>>
        /\ txn' = [type |-> new.type, big |-> new.big,
                   status |-> IF new.type = "CONVERSION" /\ ~new.big THEN "POSTED" ELSE "SUBMITTED"]
    BY <1>3 DEF CreateTxn, In
  <2>2. ~Raised /\ txn = NoTxn /\ journals = 0 /\ new.type \in Types /\ new.big \in BOOLEAN
        /\ Unopened
    BY <1>1, <2>1 DEF RaisingCall, PettyShape, Unopened
  <2>3. /\ UNCHANGED <<status, task, failures>>
        /\ \/ new.type = "CONVERSION" /\ call'[w].at = "createLeg" /\ call'[w].saw = new
           \/ new.type # "CONVERSION" /\ new.big /\ call'[w].at = "route"
           \/ new.type # "CONVERSION" /\ ~new.big /\ call'[w].at = "none"
    BY <1>1, <1>3, Stepped, Ended DEF CreateTxn
  <2>4. OneVoucher' /\ PettyKnows(w)'
    BY <2>1, <2>2, <2>3 DEF OneVoucher, PettyKnows, Unopened
  <2>5. PettyWritten(w)'
    BY <2>1, <2>2, <2>3 DEF PettyWritten, PettySettled, Types
  <2> QED
    BY <2>1, <2>2, <2>3, <2>4, <2>5 DEF PettyKept, PettyFine, NoTxn
<1>4. CASE CreateLeg(w)
  <2>1. /\ call[w].at = "createLeg" /\ UNCHANGED <<locked, txn, journals, confirmed, moved>>
        /\ leg' = IF call[w].saw.big THEN "SUBMITTED" ELSE "POSTED"
    BY <1>4 DEF CreateLeg, In
  <2>2. /\ UNCHANGED <<status, task, failures>>
        /\ IF call[w].saw.big THEN call'[w].at = "route" ELSE call'[w].at = "none"
    BY <1>1, <1>4, Stepped, Ended DEF CreateLeg
  <2>3. /\ Unopened /\ txn.type = "CONVERSION" /\ call[w].saw.big = txn.big
        /\ txn.status = IF txn.big THEN "SUBMITTED" ELSE "POSTED"
    BY <1>1, <2>1 DEF PettyFine, PettyKnows
  <2>4. OneVoucher' /\ PettyKnows(w)'
    BY <1>1, <2>1, <2>2, <2>3 DEF PettyFine, OneVoucher, PettyKnows, Unopened
  <2>5. PettyWritten(w)'
    BY <1>1, <2>1, <2>2, <2>3 DEF PettyFine, PettyWritten, PettySettled
  <2> QED
    BY <2>1, <2>2, <2>4, <2>5 DEF PettyKept, PettyFine
<1> QED
  BY <1>2, <1>3, <1>4

\* What the engine does to it.
LEMMA PettyEngineAlone ==
    ASSUME PettyInv, OneAtATime, NEW w \in Workers, PettyFine(w), ~overlapped, UNCHANGED pettyVars,
           \/ \E c \in Chains : Route(w, c)
           \/ StartCallback(w, "approved", "mirrorTxn") \/ EndCallback(w) \/ Crash(w)
    PROVE  PettyKept /\ PettyFine(w)'
<1>1. Engine /\ PettyShape /\ UNCHANGED <<locked, txn, leg, journals, confirmed, moved>>
  BY DEF PettyInv, pettyVars
<1>2. ASSUME NEW c \in Chains, Route(w, c) PROVE PettyFine(w)'
  <2>1. /\ call[w].at = "route" /\ call'[w].at = "none"
        /\ status' = [status EXCEPT ![c] = "PENDING"]
        /\ UNCHANGED <<task, failures>>
    BY <1>1, <1>2, Routed
  <2>2. txn.big /\ txn.status = "SUBMITTED" /\ Unopened
    BY <2>1 DEF PettyFine, PettyKnows
  <2>3. status'[c] = "PENDING" /\ \A d \in Chains \ {c} : status'[d] = "NONE"
    BY <1>1, <2>1, <2>2 DEF Engine, Unopened
  <2>4. OneVoucher' /\ PettyKnows(w)'
    BY <1>1, <2>1, <2>2, <2>3 DEF OneVoucher, PettyKnows
  <2>5. PettyWritten(w)'
    BY <1>1, <2>1, <2>2, <2>3 DEF PettyFine, PettyWritten, PettySettled
  <2> QED
    BY <2>1, <2>4, <2>5 DEF PettyFine
<1>3. ASSUME StartCallback(w, "approved", "mirrorTxn") PROVE PettyFine(w)'
  <2>1. /\ task[w].phase = "due" /\ call[w].at = "none" /\ task'[w].phase = "calling"
        /\ task'[w].outcome = task[w].outcome
        /\ call'[w].at = IF task[w].outcome = "APPROVED" THEN "approved" ELSE "mirrorTxn"
        /\ UNCHANGED <<status, failures>>
    BY <1>1, <1>3, Called
  <2>2. OneVoucher' /\ PettyKnows(w)'
    BY <1>1, <2>1 DEF PettyFine, OneVoucher, PettyKnows, Calling
  <2>3. PettyWritten(w)'
    BY <1>1, <2>1 DEF PettyFine, PettyWritten, PettySettled
  <2> QED
    BY <2>1, <2>2, <2>3 DEF PettyFine
<1>4. ASSUME EndCallback(w) PROVE PettyFine(w)'
  <2>1. /\ call[w].at = "none" /\ task[w].phase = "calling"
        /\ UNCHANGED <<call, status, failures>>
    BY <1>1, <1>4, Returned
  <2>2. OneVoucher' /\ PettyKnows(w)'
    BY <1>1, <2>1 DEF PettyFine, OneVoucher, PettyKnows
  <2>3. PettyWritten(w)'
    BY <1>1, <2>1 DEF PettyFine, PettyWritten, PettySettled
  <2> QED
    BY <2>1, <2>2, <2>3 DEF PettyFine
<1>5. ASSUME Crash(w) PROVE PettyFine(w)'
  <2>1. call'[w].at = "none" /\ failures' # 0 /\ UNCHANGED status
    BY <1>1, <1>5, Crashed
  <2> QED
    BY <1>1, <2>1 DEF PettyFine, PettyWritten, OneVoucher, PettyKnows
<1> QED
  BY <1>1, <1>2, <1>3, <1>4, <1>5 DEF PettyKept

\* Confirmations up to the posting, and counts.
LEMMA PettyReadsAlone ==
    ASSUME PettyInv, NEW w \in Workers, PettyFine(w), ~overlapped',
           \/ ConfirmFloat(w) \/ ConfirmThreshold(w) \/ ApprovedRead(w)
           \/ \E beyond \in BOOLEAN : CountWrite(w, beyond)
           \/ UnlockWrite(w)
    PROVE  PettyKept /\ PettyFine(w)'
<1>1. Engine /\ PettyShape /\ PettyFine(w)
  BY DEF PettyInv
<1>2. /\ UNCHANGED <<status, task, failures, txn, leg, journals, confirmed, moved>>
      /\ call[w].at \in {"float", "limit", "approved", "count", "unlock"}
      /\ call'[w].at \in {"none", "limit", "post"}
      /\ call[w].at = "approved" /\ call'[w].at = "none" => txn.status = "POSTED"
      /\ call[w].at # "approved" => call'[w].at \in {"none", "limit"} \/ call'[w].saw.by = "manager"
      /\ call[w].at = "approved" => call'[w].at \in {"none", "post"}
      /\ call[w].at = "approved" /\ call'[w].at = "post" => txn.status # "POSTED" /\ call'[w].saw.by = "director"
      /\ call'[w].at \in {"limit", "post"} /\ call[w].at # "approved" =>
           /\ call[w].at \in {"float", "limit"} /\ ~locked /\ ~locked'
  <2>1. CASE ConfirmFloat(w)
    BY <1>1, <2>1, Stepped, Ended DEF ConfirmFloat, In, pettyVars
  <2>2. CASE ConfirmThreshold(w)
    <3>1. call[w].at = "limit" /\ UNCHANGED pettyVars /\ ~locked
      BY <1>1, <2>2 DEF ConfirmThreshold, In, PettyFine, PettyKnows
    <3> QED
      BY <1>1, <2>2, <3>1, Stepped, Ended DEF ConfirmThreshold, pettyVars
  <2>3. CASE ApprovedRead(w)
    BY <1>1, <2>3, Stepped, Ended DEF ApprovedRead, In, pettyVars
  <2>4. CASE (\E beyond \in BOOLEAN : CountWrite(w, beyond)) \/ UnlockWrite(w)
    BY <1>1, <2>4, Ended DEF CountWrite, UnlockWrite, In
  <2> QED
    BY <2>1, <2>2, <2>3, <2>4
<1>3. locked /\ ~locked' => call[w].at = "unlock"
  <2>1. CASE ConfirmFloat(w) \/ ConfirmThreshold(w) \/ ApprovedRead(w)
    BY <2>1 DEF ConfirmFloat, ConfirmThreshold, ApprovedRead, pettyVars
  <2>2. ASSUME NEW beyond \in BOOLEAN, CountWrite(w, beyond)
        PROVE  locked /\ ~locked' => call[w].at = "unlock"
    BY <1>1, <2>2 DEF CountWrite, In, PettyFine, PettyKnows
  <2>3. CASE UnlockWrite(w)
    BY <2>3 DEF UnlockWrite, In
  <2> QED
    BY <2>1, <2>2, <2>3
<1>4. OneVoucher'
  BY <1>1, <1>2 DEF PettyFine, OneVoucher
<1>5. PettyKnows(w)'
  <2>1. call[w].at = "approved" => Calling(w, TRUE) /\ Calling(w, TRUE)'
    BY <1>1, <1>2 DEF PettyFine, PettyKnows, Calling
  <2>2. call[w].at \in {"float", "limit"} => txn.status = "SUBMITTED"
    BY <1>1 DEF PettyFine, PettyKnows
  <2> QED
    BY <1>2, <2>1, <2>2 DEF PettyKnows
<1>6. PettyWritten(w)'
  BY <1>1, <1>2 DEF PettyFine, PettyWritten, PettySettled
<1> QED
  BY <1>2, <1>3, <1>4, <1>5, <1>6 DEF PettyKept, PettyFine, In

\* The postings and the other outcomes.
LEMMA PettyPostsAlone ==
    ASSUME PettyInv, OneAtATime, NEW w \in Workers, PettyFine(w), ~overlapped', ~overlapped,
           \/ PostStatus(w) \/ PostToLedger(w) \/ PostLeg(w)
           \/ MirrorTxn(w) \/ MirrorLeg(w)
    PROVE  PettyKept /\ PettyFine(w)'
<1>1. Engine /\ PettyShape /\ PettyFine(w) /\ PostingCall(w)
  BY DEF PettyInv
<1>2. ASSUME Calling(w, TRUE) PROVE \A c \in Chains : status[c] \in {"NONE", "APPROVED"}
  <2>1. task[w].chain \in Chains /\ status[task[w].chain] = "APPROVED"
    BY <1>1, <1>2 DEF Calling, Engine, OneAtATime
  <2> QED
    BY <1>1, <2>1 DEF PettyFine, OneVoucher
<1>3. ASSUME Calling(w, FALSE)
      PROVE  /\ task[w].outcome \in {"REJECTED", "RETURNED"}
             /\ ~(txn.status = "POSTED" /\ (txn.type # "WITHDRAWAL" \/ ~moved))
             /\ txn.big
  <2>1. /\ task[w].chain \in Chains /\ task[w].outcome \in {"REJECTED", "RETURNED"}
        /\ status[task[w].chain] = task[w].outcome
    BY <1>1, <1>3 DEF Calling, Engine, OneAtATime, Outcomes
  <2> QED
    BY <1>1, <2>1 DEF PettyFine, OneVoucher
<1>4. CASE PostStatus(w)
  <2>1. /\ call[w].at = "post" /\ txn' = [txn EXCEPT !.status = "POSTED"]
        /\ confirmed' = (confirmed \/ call[w].saw.by = "manager")
        /\ UNCHANGED <<locked, leg, journals, moved>>
    BY <1>4 DEF PostStatus, In
  <2>2. /\ txn'.status = "POSTED" /\ txn'.type = txn.type /\ txn'.big = txn.big
    BY <1>1, <2>1 DEF PettyShape
  <2>3. /\ UNCHANGED <<status, task, failures>>
        /\ \/ txn.type = "TOP_UP" /\ call'[w].at = "journal"
           \/ txn.type = "CONVERSION" /\ call'[w].at = "otherLeg"
           \/ txn.type = "WITHDRAWAL" /\ call'[w].at = "none"
    BY <1>1, <1>4, Stepped, Ended DEF PostStatus
  <2>4. /\ txn.status # "POSTED"
        /\ IF call[w].saw.by = "manager" THEN ~locked ELSE Calling(w, TRUE)
    BY <1>1, <2>1 DEF PettyFine, PettyKnows
  <2>5. OneVoucher'
    <3>1. txn.type # "WITHDRAWAL" \/ ~moved => \A c \in Chains : status[c] \in {"NONE", "APPROVED"}
      <4>1. CASE Calling(w, TRUE)
        BY <1>2, <4>1
      <4>2. CASE call[w].saw.by = "manager"
        <5>1. txn.type = "WITHDRAWAL" /\ (txn.big = FALSE \/ moved)
          BY <1>1, <2>1, <4>2 DEF PostingCall, ForManager
        <5> QED
          BY <1>1, <5>1 DEF PettyFine, OneVoucher
      <4> QED
        BY <2>4, <4>1, <4>2
    <3> QED
      BY <1>1, <2>1, <2>2, <2>3, <3>1 DEF PettyFine, OneVoucher
  <2>6. PettyKnows(w)'
    BY <2>2, <2>3 DEF PettyKnows
  <2>7. PettyWritten(w)'
    BY <1>1, <2>1, <2>2, <2>3, <2>4 DEF PettyFine, PettyWritten, PettySettled
  <2>8. confirmed' # confirmed => ~locked
    <3>1. CASE call[w].saw.by = "manager"
      BY <2>4, <3>1
    <3>2. CASE call[w].saw.by # "manager"
      BY <1>1, <2>1, <3>2 DEF PettyShape
    <3> QED
      BY <3>1, <3>2
  <2> QED
    BY <2>1, <2>2, <2>5, <2>6, <2>7, <2>8 DEF PettyKept, PettyFine
<1>5. CASE PostToLedger(w)
  <2>1. /\ call[w].at = "journal" /\ journals' = journals + 1 /\ call'[w].at = "none"
        /\ UNCHANGED <<locked, txn, leg, confirmed, moved, status, task, failures>>
    BY <1>1, <1>5, Ended DEF PostToLedger, In
  <2>2. txn.status = "POSTED" /\ txn.type = "TOP_UP"
    BY <1>1, <2>1 DEF PettyFine, PettyKnows, PostingCall
  <2>3. OneVoucher' /\ PettyKnows(w)'
    BY <1>1, <2>1 DEF PettyFine, OneVoucher, PettyKnows
  <2>4. PettyWritten(w)'
    BY <1>1, <2>1, <2>2 DEF PettyFine, PettyWritten, PettySettled
  <2> QED
    BY <2>1, <2>3, <2>4 DEF PettyKept, PettyFine
<1>6. CASE PostLeg(w)
  <2>1. /\ call[w].at = "otherLeg" /\ leg' = "POSTED" /\ call'[w].at = "none"
        /\ UNCHANGED <<locked, txn, journals, confirmed, moved, status, task, failures>>
    BY <1>1, <1>6, Ended DEF PostLeg, In
  <2>2. txn.status = "POSTED"
    BY <1>1, <2>1 DEF PettyFine, PettyKnows
  <2>3. OneVoucher' /\ PettyKnows(w)'
    BY <1>1, <2>1 DEF PettyFine, OneVoucher, PettyKnows
  <2>4. PettyWritten(w)'
    BY <1>1, <2>1, <2>2 DEF PettyFine, PettyWritten, PettySettled
  <2> QED
    BY <2>1, <2>3, <2>4 DEF PettyKept, PettyFine
<1>7. CASE MirrorTxn(w)
  <2>1. /\ call[w].at = "mirrorTxn" /\ txn' = [txn EXCEPT !.status = task[w].outcome]
        /\ UNCHANGED <<locked, leg, journals, confirmed, moved>>
    BY <1>7 DEF MirrorTxn, In
  <2>2. Calling(w, FALSE)
    BY <1>1, <2>1 DEF PettyFine, PettyKnows
  <2>3. /\ txn'.status = task[w].outcome /\ txn'.type = txn.type /\ txn'.big = txn.big
        /\ txn'.status \in {"REJECTED", "RETURNED"}
        /\ ~(txn.status = "POSTED" /\ (txn.type # "WITHDRAWAL" \/ ~moved))
    BY <1>1, <1>3, <2>1, <2>2 DEF PettyShape
  <2>4. /\ UNCHANGED <<status, task, failures>>
        /\ IF txn.type = "CONVERSION" THEN call'[w].at = "mirrorLeg" ELSE call'[w].at = "none"
    BY <1>1, <1>7, Stepped, Ended DEF MirrorTxn
  <2>5. OneVoucher' /\ PettyKnows(w)'
    BY <1>1, <2>1, <2>2, <2>3, <2>4 DEF PettyFine, OneVoucher, PettyKnows, Calling
  <2>6. PettyWritten(w)'
    BY <1>1, <2>1, <2>3, <2>4 DEF PettyFine, PettyWritten, PettySettled
  <2> QED
    BY <2>1, <2>3, <2>5, <2>6 DEF PettyKept, PettyFine
<1>8. CASE MirrorLeg(w)
  <2>1. /\ call[w].at = "mirrorLeg" /\ leg' = (IF leg = "POSTED" THEN leg ELSE task[w].outcome)
        /\ call'[w].at = "none"
        /\ UNCHANGED <<locked, txn, journals, confirmed, moved, status, task, failures>>
    BY <1>1, <1>8, Ended DEF MirrorLeg, In
  <2>2. txn.status = task[w].outcome /\ txn.status \in {"REJECTED", "RETURNED"}
    BY <1>1, <1>3, <2>1 DEF PettyFine, PettyKnows
  <2>3. OneVoucher' /\ PettyKnows(w)'
    BY <1>1, <2>1 DEF PettyFine, OneVoucher, PettyKnows
  <2>4. PettyWritten(w)'
    BY <1>1, <2>1, <2>2 DEF PettyFine, PettyWritten, PettySettled
  <2> QED
    BY <2>1, <2>3, <2>4 DEF PettyKept, PettyFine
<1> QED
  BY <1>4, <1>5, <1>6, <1>7, <1>8

\* The requests of petty cash are among what a worker may do.
LEMMA PettyActs ==
    ASSUME NEW w \in Workers, PettyRequested(w) \/ PettyProceeds(w) \/ Crash(w)
    PROVE  Acts(w)
BY DEF Acts, PettyRequested, CreateWithdrawal, CreateConversion, CreateTopUp, CreateRead, ConfirmRead,
       CountRead, UnlockRead, PettyProceeds, ThresholdRead, CreateTxn, CreateLeg, ConfirmFloat,
       ConfirmThreshold, ApprovedRead, PostStatus, PostToLedger, PostLeg, MirrorTxn, MirrorLeg,
       CountWrite, UnlockWrite, In

LEMMA PettyGoesOnAlone ==
    ASSUME PettyInv, OneAtATime, PettyAlone, PettyNext
    PROVE  PettyKept /\ OneAtATime' /\ PettyAlone'
<1>1. ASSUME NEW w \in Workers, PettyRequested(w) \/ PettyProceeds(w) \/ (Crash(w) /\ UNCHANGED pettyVars)
      PROVE  PettyKept /\ OneAtATime' /\ PettyAlone'
  <2>1. Solo(w) /\ OneAtATime'
    BY <1>1, PettyActs, AloneActs DEF PettyInv
  <2>2. ASSUME ~overlapped' PROVE PettyKept /\ PettyFine(w)'
    <3>1. ~overlapped /\ PettyFine(w)
      BY <2>1, <2>2, PettyNow DEF Solo
    <3>2. CASE PettyRequested(w)
      BY <2>1, <2>2, <3>1, <3>2, PettyRequestsAlone
    <3>3. CASE Crash(w) /\ UNCHANGED pettyVars
      BY <3>1, <3>3, PettyEngineAlone
    <3>4. CASE PettyProceeds(w)
      BY <2>2, <3>1, <3>4, PettyRaisesAlone, PettyEngineAlone, PettyReadsAlone, PettyPostsAlone
         DEF PettyProceeds
    <3> QED
      BY <1>1, <3>2, <3>3, <3>4
  <2> QED
    BY <2>1, <2>2, PettyThen DEF PettyKept
<1>2. CASE ThresholdMoves
  <2>1. /\ UNCHANGED <<status, task, delivered, call, failures, subject, overlapped, locked, txn, leg, journals, confirmed>>
        /\ ~moved
    BY <1>2 DEF ThresholdMoves, handlerVars, outcomeVars
  <2>2. OneAtATime'
    BY <2>1 DEF OneAtATime, Free
  <2>3. PettyKept
    BY <2>1 DEF PettyKept
  <2>4. PettyAlone'
    BY <2>1 DEF PettyAlone, OneVoucher, PettyKnows, Unopened, Calling, PettySettled, AllFree, Free
  <2> QED
    BY <2>2, <2>3, <2>4
<1> QED
  BY <1>1, <1>2 DEF PettyNext

LEMMA PettyStartsAlone == HandlersInit /\ PettyInit => PettyAlone
<1> SUFFICES ASSUME HandlersInit, PettyInit PROVE PettyAlone
  OBVIOUS
<1>1. /\ \A c \in Chains : status[c] = "NONE"
      /\ \A w \in Workers : call[w].at = "none" /\ Free(w)
  BY DEF HandlersInit, RequestsInit, OutcomesInit, NoCall, NoTask, Free
<1> QED
  BY <1>1 DEF PettyInit, NoTxn, PettyAlone, OneVoucher, PettyKnows, PettySettled

LEMMA PettyAgreesAlone == ASSUME PettyInv, PettyAlone PROVE PettyAgrees
<1>1. AtRest => PettySettled("none", "none")
  BY DEF PettyAlone, AtRest, Orderly
<1>2. \A c \in Chains : status[c] = "PENDING" => subject[c] = Voucher
  BY DEF PettyInv, PettyShape
<1> QED
  BY <1>1, <1>2 DEF PettyAgrees, PettySettled, AwaitedFor

-----------------------------------------------------------------------------
(* Budgets. *)

BudgetsWritten(w) ==
    failures = 0 => BudgetsSettled(call[w].at, call[w].saw, task[w].phase, subject[task[w].chain])
BudgetFine(w) == OneSubmission /\ Revised /\ BudgetKnows(w) /\ BudgetsWritten(w)

LEMMA BudgetNow ==
    ASSUME BudgetAlone, NEW w \in Workers, Solo(w), ~overlapped'
    PROVE  BudgetFine(w)
<1>1. ~overlapped /\ (Free(w) => AllFree)
  BY DEF Solo, AllFree
<1>2. Free(w) => BudgetsWritten(w)
  BY <1>1 DEF BudgetAlone, BudgetsWritten, BudgetsSettled, Free
<1>3. ~Free(w) => BudgetsWritten(w)
  BY <1>1 DEF BudgetAlone, BudgetsWritten
<1> QED
  BY <1>1, <1>2, <1>3 DEF BudgetAlone, BudgetFine

LEMMA BudgetThen ==
    ASSUME NEW w \in Workers, Solo(w), ~overlapped' => BudgetFine(w)'
    PROVE  BudgetAlone'
<1> SUFFICES ASSUME ~overlapped' PROVE BudgetAlone'
  BY DEF BudgetAlone
<1>1. \A v \in Workers \ {w} : Free(v)' /\ BudgetKnows(v)'
  BY DEF Solo, Free, BudgetKnows
<1>2. ASSUME AllFree', failures' = 0 PROVE BudgetsSettled("none", None, "none", None)'
  <2>1. call'[w].at = "none" /\ task'[w].phase = "none"
    BY <1>2 DEF AllFree, Free
  <2> QED
    BY <1>2, <2>1 DEF BudgetFine, BudgetsWritten, BudgetsSettled
<1> QED
  BY <1>1, <1>2 DEF BudgetAlone, BudgetFine, BudgetsWritten

LEMMA BudgetRequestsAlone ==
    ASSUME BudgetInv, NEW w \in Workers, BudgetFine(w), ~overlapped',
           \/ \E b \in Budgets : SubmitBudgetRead(w, b) \/ ReviseRead(w, b)
           \/ (\E c \in Chains, s \in Outcomes : DecideChain(w, c, s)) /\ UNCHANGED budgetVars
    PROVE  BudgetsKept /\ BudgetFine(w)'
<1>1. Engine /\ BudgetFine(w) /\ UNCHANGED <<budget, parent>>
  BY DEF BudgetInv, SubmitBudgetRead, ReviseRead, budgetVars
<1>2. ASSUME NEW b \in Budgets, NEW at, Begin(w, at, b),
             \/ at = "submit" /\ budget[b] \in {"DRAFT", "RETURNED"}
             \/ at = "clone" /\ budget[b] = "ACTIVE"
      PROVE  BudgetFine(w)'
  <2>1. /\ call[w].at = "none" /\ task[w].phase = "none" /\ call'[w].at = at /\ call'[w].saw = b
        /\ UNCHANGED <<status, task, failures, subject>>
    BY <1>1, <1>2, Began
  <2>2. OneSubmission' /\ Revised'
    BY <1>1, <2>1 DEF BudgetFine, OneSubmission, Revised
  <2>3. BudgetKnows(w)'
    BY <1>1, <1>2, <2>1 DEF BudgetKnows
  <2>4. BudgetsWritten(w)'
    BY <1>1, <1>2, <2>1 DEF BudgetFine, BudgetsWritten, BudgetsSettled, AwaitedFor
  <2> QED
    BY <2>2, <2>3, <2>4 DEF BudgetFine
<1>3. ASSUME NEW c \in Chains, NEW s \in Outcomes, DecideChain(w, c, s)
      PROVE  BudgetFine(w)'
  <2>1. /\ Free(w) /\ status[c] = "PENDING" /\ status' = [status EXCEPT ![c] = s]
        /\ task'[w].phase = "due" /\ task'[w].chain = c /\ task'[w].outcome = s
        /\ UNCHANGED <<call, failures, subject>>
    BY <1>1, <1>3, Decided
  <2>2. \A d \in Chains : status'[d] = "PENDING" <=> d # c /\ status[d] = "PENDING"
    BY <1>1, <2>1 DEF Engine, Outcomes
  <2>3. OneSubmission' /\ Revised'
    BY <1>1, <2>1, <2>2 DEF BudgetFine, OneSubmission, Revised
  <2>4. BudgetKnows(w)'
    <3>1. budget[subject[c]] = "SUBMITTED" /\ \A d \in Chains \ {c} : ~(status[d] = "PENDING" /\ subject[d] = subject[c])
      BY <1>1, <2>1 DEF BudgetFine, OneSubmission
    <3>2. Resolved(subject[c])'
      BY <1>1, <2>1, <2>2, <3>1 DEF Resolved, AwaitedFor
    <3> QED
      BY <2>1, <3>2 DEF BudgetKnows, Free, Resolved, AwaitedFor
  <2>5. BudgetsWritten(w)'
    <3>1. \A b : AwaitedFor(b) => b = subject[c] \/ AwaitedFor(b)'
      BY <2>1, <2>2 DEF AwaitedFor
    <3> QED
      BY <1>1, <2>1, <3>1 DEF BudgetFine, BudgetsWritten, BudgetsSettled, Free
  <2> QED
    BY <2>3, <2>4, <2>5 DEF BudgetFine
<1>4. BudgetsKept
  BY <1>1 DEF BudgetsKept
<1>5. ASSUME NEW b \in Budgets, SubmitBudgetRead(w, b) \/ ReviseRead(w, b) PROVE BudgetFine(w)'
  <2>1. budget[b] # "APPROVED"
    BY <1>1 DEF BudgetFine, Revised
  <2> QED
    BY <1>2, <1>5, <2>1 DEF SubmitBudgetRead, ReviseRead
<1> QED
  BY <1>3, <1>4, <1>5

\* What the engine does to it, and a failure.
LEMMA BudgetEngineAlone ==
    ASSUME BudgetInv, OneAtATime, NEW w \in Workers, BudgetFine(w), ~overlapped, UNCHANGED budgetVars,
           \/ \E c \in Chains : Route(w, c)
           \/ StartCallback(w, "activateRead", "mirrorBudget") \/ EndCallback(w) \/ Crash(w)
    PROVE  BudgetsKept /\ BudgetFine(w)'
<1>1. Engine /\ BudgetFine(w) /\ UNCHANGED <<budget, parent>>
  BY DEF BudgetInv, budgetVars
<1>2. Revised'
  BY <1>1 DEF BudgetFine, Revised
<1>3. ASSUME NEW c \in Chains, Route(w, c) PROVE BudgetFine(w)'
  <2> DEFINE saw == call[w].saw
  <2>1. /\ call[w].at = "route" /\ call'[w].at = "none"
        /\ status[c] = "NONE" /\ status' = [status EXCEPT ![c] = "PENDING"]
        /\ subject' = [subject EXCEPT ![c] = saw]
        /\ UNCHANGED <<task, failures>>
    BY <1>1, <1>3, Routed
  <2>2. /\ status'[c] = "PENDING" /\ subject'[c] = saw
        /\ \A d \in Chains \ {c} : status'[d] = status[d] /\ subject'[d] = subject[d]
    BY <1>1, <2>1 DEF Engine
  <2>3. Resolved(saw) /\ task[w].phase # "due"
    BY <1>1, <2>1 DEF BudgetFine, BudgetKnows, Engine
  <2>4. OneSubmission'
    <3>1. \A d \in Chains : status'[d] = "PENDING" => budget'[subject'[d]] = "SUBMITTED"
      BY <1>1, <2>2, <2>3 DEF BudgetFine, OneSubmission, Resolved
    <3>2. \A d \in Chains : status'[d] = "PENDING" /\ subject'[d] = saw => d = c
      BY <2>2, <2>3 DEF Resolved, AwaitedFor
    <3>3. ASSUME NEW d \in Chains, NEW e \in Chains,
                 status'[d] = "PENDING", status'[e] = "PENDING", subject'[d] = subject'[e]
          PROVE  d = e
      BY <1>1, <2>2, <3>2, <3>3 DEF BudgetFine, OneSubmission
    <3> QED
      BY <3>1, <3>3 DEF OneSubmission
  <2>5. BudgetKnows(w)'
    BY <2>1, <2>3 DEF BudgetKnows
  <2>6. BudgetsWritten(w)'
    <3>1. \A b : AwaitedFor(b) \/ b = saw => AwaitedFor(b)'
      BY <2>1, <2>2 DEF AwaitedFor
    <3> QED
      BY <1>1, <2>1, <2>3, <3>1 DEF BudgetFine, BudgetsWritten, BudgetsSettled
  <2> QED
    BY <1>2, <2>4, <2>5, <2>6 DEF BudgetFine
<1>4. ASSUME StartCallback(w, "activateRead", "mirrorBudget") PROVE BudgetFine(w)'
  <2>1. /\ task[w].phase = "due" /\ call[w].at = "none" /\ task'[w].phase = "calling"
        /\ task'[w].outcome = task[w].outcome
        /\ call'[w].at = IF task[w].outcome = "APPROVED" THEN "activateRead" ELSE "mirrorBudget"
        /\ call'[w].saw = subject[task[w].chain]
        /\ UNCHANGED <<status, failures, subject>>
    BY <1>1, <1>4, Called
  <2>2. OneSubmission'
    BY <1>1, <2>1 DEF BudgetFine, OneSubmission
  <2>3. BudgetKnows(w)'
    BY <1>1, <2>1 DEF BudgetFine, BudgetKnows, Resolved, AwaitedFor, Calling
  <2>4. BudgetsWritten(w)'
    BY <1>1, <2>1 DEF BudgetFine, BudgetsWritten, BudgetsSettled, AwaitedFor
  <2> QED
    BY <1>2, <2>2, <2>3, <2>4 DEF BudgetFine
<1>5. ASSUME EndCallback(w) PROVE BudgetFine(w)'
  <2>1. /\ call[w].at = "none" /\ task[w].phase = "calling" /\ task'[w].phase = "none"
        /\ UNCHANGED <<call, status, failures, subject>>
    BY <1>1, <1>5, Returned
  <2>2. OneSubmission'
    BY <1>1, <2>1 DEF BudgetFine, OneSubmission
  <2>3. BudgetKnows(w)'
    BY <2>1 DEF BudgetKnows
  <2>4. BudgetsWritten(w)'
    BY <1>1, <2>1 DEF BudgetFine, BudgetsWritten, BudgetsSettled, AwaitedFor
  <2> QED
    BY <1>2, <2>2, <2>3, <2>4 DEF BudgetFine
<1>6. ASSUME Crash(w) PROVE BudgetFine(w)'
  <2>1. /\ call'[w].at = "none" /\ task'[w].phase = "none" /\ failures' # 0
        /\ UNCHANGED <<status, subject>>
    BY <1>1, <1>6, Crashed
  <2>2. OneSubmission'
    BY <1>1, <2>1 DEF BudgetFine, OneSubmission
  <2> QED
    BY <1>2, <2>1, <2>2 DEF BudgetFine, BudgetKnows, BudgetsWritten
<1> QED
  BY <1>1, <1>3, <1>4, <1>5, <1>6 DEF BudgetsKept

\* A version that waits without an open chain is no other one's predecessor in
\* force, so that what is written of it touches nothing else.
LEMMA BudgetWritesAlone ==
    ASSUME BudgetInv, OneAtATime, ~overlapped, NEW w \in Workers, BudgetFine(w),
           SubmitBudgetWrite(w) \/ ActivateRead(w) \/ ActivateWrite(w) \/ MirrorBudget(w)
    PROVE  BudgetsKept /\ BudgetFine(w)'
<1> DEFINE saw == call[w].saw
           at == call[w].at
<1>1. Engine /\ BudgetTypeOK /\ BudgetFine(w)
  BY DEF BudgetInv
<1>2. /\ UNCHANGED <<parent, status, task, failures, subject>> /\ at # "none" /\ saw \in Budgets
      /\ \/ at = "submit" /\ call'[w].at = "route" /\ call'[w].saw = saw /\ budget[saw] \in {"DRAFT", "RETURNED"}
         \/ at \in {"activateRead", "activate", "mirrorBudget"} /\ budget[saw] = "SUBMITTED"
    <2>1. /\ UNCHANGED <<parent, status, task, failures, subject>>
          /\ at \in {"submit", "activateRead", "activate", "mirrorBudget"}
          /\ at = "submit" => call'[w].at = "route" /\ call'[w].saw = saw
      BY <1>1, Stepped, Ended DEF SubmitBudgetWrite, ActivateRead, ActivateWrite, MirrorBudget, In, budgetVars
    <2>2. BudgetCall(w) /\ BudgetKnows(w)
      BY <1>1 DEF BudgetInv, BudgetFine
    <2> QED
      BY <2>1, <2>2 DEF BudgetCall, Made, BudgetKnows, Resolved
<1>3. ~AwaitedFor(saw) /\ task[w].phase # "due"
  BY <1>1, <1>2 DEF BudgetFine, BudgetKnows, Resolved, OneSubmission, AwaitedFor, Engine
<1>4. \A b \in Budgets : parent[b] # None => parent[b] # saw
  BY <1>1, <1>2 DEF BudgetFine, Revised, BudgetTypeOK
<1>5. ASSUME NEW s, budget' = [budget EXCEPT ![saw] = s], s # "APPROVED"
      PROVE  OneSubmission' /\ Revised' /\ BudgetsKept
  <2>1. budget'[saw] = s /\ \A b \in Budgets \ {saw} : budget'[b] = budget[b]
    BY <1>1, <1>2, <1>5 DEF BudgetTypeOK
  <2>2. \A c \in Chains : status[c] = "PENDING" => subject[c] \in Budgets \ {saw}
    BY <1>1, <1>3 DEF BudgetInv, Made, AwaitedFor
  <2>3. OneSubmission'
    BY <1>1, <1>2, <2>1, <2>2 DEF BudgetFine, OneSubmission
  <2>4. Revised'
    BY <1>1, <1>2, <1>4, <1>5, <2>1 DEF BudgetFine, Revised, BudgetTypeOK
  <2>5. BudgetsKept
    BY <1>2, <2>1 DEF BudgetsKept
  <2> QED
    BY <2>3, <2>4, <2>5
<1>6. CASE SubmitBudgetWrite(w)
  <2>1. budget' = [budget EXCEPT ![saw] = "SUBMITTED"] /\ at = "submit"
    BY <1>6 DEF SubmitBudgetWrite, In
  <2>2. /\ budget'[saw] = "SUBMITTED" /\ \A b \in Budgets \ {saw} : budget'[b] = budget[b]
        /\ call'[w].at = "route" /\ call'[w].saw = saw
    BY <1>1, <1>2, <2>1 DEF BudgetTypeOK
  <2>3. BudgetKnows(w)'
    BY <1>2, <1>3, <2>2 DEF BudgetKnows, Resolved, AwaitedFor
  <2>4. BudgetsWritten(w)'
    BY <1>1, <1>2, <1>3, <1>4, <2>1, <2>2 DEF BudgetFine, BudgetsWritten, BudgetsSettled, AwaitedFor, BudgetTypeOK
  <2> QED
    BY <1>5, <2>1, <2>3, <2>4 DEF BudgetFine
<1>7. CASE ActivateRead(w)
  <2>1. at = "activateRead" /\ UNCHANGED budget
    BY <1>7 DEF ActivateRead, In, budgetVars
  <2>2. call'[w].at = "activate" /\ call'[w].saw = saw
    BY <1>1, <1>2, <1>7, <2>1, Stepped DEF ActivateRead
  <2>3. OneSubmission' /\ Revised' /\ BudgetsKept
    BY <1>1, <1>2, <2>1 DEF BudgetFine, OneSubmission, Revised, BudgetsKept
  <2>4. BudgetKnows(w)'
    BY <1>2, <1>3, <2>1, <2>2 DEF BudgetKnows, Resolved, AwaitedFor
  <2>5. BudgetsWritten(w)'
    BY <1>1, <1>2, <2>1, <2>2 DEF BudgetFine, BudgetsWritten, BudgetsSettled, AwaitedFor
  <2> QED
    BY <2>3, <2>4, <2>5 DEF BudgetFine
<1>8. CASE ActivateWrite(w)
  <2>1. budget' = [budget EXCEPT ![saw] = "ACTIVE"] /\ at = "activate"
    BY <1>8 DEF ActivateWrite, In
  <2>2. /\ budget'[saw] = "ACTIVE" /\ \A b \in Budgets \ {saw} : budget'[b] = budget[b]
        /\ IF parent[saw] # None THEN call'[w].at = "supersede" /\ call'[w].saw = saw
                                 ELSE call'[w].at = "none"
    BY <1>1, <1>2, <1>8, <2>1, Stepped, Ended DEF ActivateWrite, BudgetTypeOK
  <2>3. BudgetKnows(w)'
    BY <1>2, <1>3, <2>2 DEF BudgetKnows
  <2>4. BudgetsWritten(w)'
    BY <1>1, <1>2, <1>3, <1>4, <2>1, <2>2 DEF BudgetFine, BudgetsWritten, BudgetsSettled, AwaitedFor, BudgetTypeOK
  <2> QED
    BY <1>5, <2>1, <2>3, <2>4 DEF BudgetFine
<1>9. CASE MirrorBudget(w)
  <2>1. budget' = [budget EXCEPT ![saw] = task[w].outcome] /\ at = "mirrorBudget"
    BY <1>9 DEF MirrorBudget, In
  <2>2. task[w].outcome \in {"REJECTED", "RETURNED"}
    BY <1>1, <2>1 DEF BudgetFine, BudgetKnows, Calling, Engine, Outcomes
  <2>3. /\ budget'[saw] = task[w].outcome /\ \A b \in Budgets \ {saw} : budget'[b] = budget[b]
        /\ call'[w].at = "none"
    BY <1>1, <1>2, <1>9, <2>1, Ended DEF MirrorBudget, BudgetTypeOK
  <2>4. BudgetKnows(w)'
    BY <1>2, <1>3, <2>3 DEF BudgetKnows
  <2>5. BudgetsWritten(w)'
    BY <1>1, <1>2, <1>3, <1>4, <2>1, <2>2, <2>3 DEF BudgetFine, BudgetsWritten, BudgetsSettled, AwaitedFor, BudgetTypeOK
  <2> QED
    BY <1>5, <2>1, <2>2, <2>4, <2>5 DEF BudgetFine
<1> QED
  BY <1>6, <1>7, <1>8, <1>9

\* The version that came into force, and the next one.
LEMMA BudgetRevisesAlone ==
    ASSUME BudgetInv, ~overlapped, NEW w \in Workers, BudgetFine(w),
           Supersede(w) \/ \E b \in Budgets : ReviseWrite(w, b)
    PROVE  BudgetsKept /\ BudgetFine(w)'
<1> DEFINE saw == call[w].saw
           at == call[w].at
<1>1. Engine /\ BudgetTypeOK /\ BudgetFine(w) /\ BudgetCall(w)
  BY DEF BudgetInv
<1>2. ASSUME at \in {"supersede", "clone"} PROVE budget[saw] = "ACTIVE" /\ saw \in Budgets /\ task[w].phase # "due"
  BY <1>1, <1>2 DEF BudgetFine, BudgetKnows, BudgetCall, Made, Engine
<1>3. CASE Supersede(w)
  <2> DEFINE p == parent[saw]
  <2>1. /\ at = "supersede" /\ UNCHANGED <<parent, status, task, failures, subject>> /\ call'[w].at = "none"
        /\ budget' = [budget EXCEPT ![p] = IF @ = "ACTIVE" THEN "SUPERSEDED" ELSE @]
    BY <1>1, <1>3, Ended DEF Supersede, In
  <2>2. p \in Budgets /\ budget[p] \in {"ACTIVE", "SUPERSEDED"}
    BY <1>1, <1>2, <2>1 DEF BudgetCall, BudgetFine, BudgetKnows, Revised, BudgetTypeOK
  <2>3. budget'[p] = "SUPERSEDED" /\ \A b \in Budgets \ {p} : budget'[b] = budget[b]
    BY <1>1, <2>1, <2>2 DEF BudgetTypeOK
  <2>4. OneSubmission'
    <3>1. \A c \in Chains : status[c] = "PENDING" => subject[c] \in Budgets \ {p}
      BY <1>1, <2>2 DEF BudgetInv, Made, BudgetFine, OneSubmission
    <3> QED
      BY <1>1, <2>1, <2>3, <3>1 DEF BudgetFine, OneSubmission
  <2>5. Revised'
    BY <1>1, <2>1, <2>2, <2>3 DEF BudgetFine, Revised, BudgetTypeOK
  <2>6. BudgetKnows(w)'
    BY <1>2, <2>1 DEF BudgetKnows
  <2>7. BudgetsWritten(w)'
    BY <1>1, <1>2, <2>1, <2>2, <2>3 DEF BudgetFine, BudgetsWritten, BudgetsSettled, AwaitedFor, BudgetTypeOK
  <2>8. BudgetsKept
    BY <1>2, <2>1, <2>2, <2>3 DEF BudgetsKept
  <2> QED
    BY <2>4, <2>5, <2>6, <2>7, <2>8 DEF BudgetFine
<1>4. ASSUME NEW new \in Budgets, ReviseWrite(w, new) PROVE BudgetsKept /\ BudgetFine(w)'
  <2>1. /\ at = "clone" /\ UNCHANGED <<status, task, failures, subject>> /\ call'[w].at = "none"
        /\ budget[new] = "NONE" /\ budget' = [budget EXCEPT ![new] = "DRAFT"]
        /\ parent' = [parent EXCEPT ![new] = saw]
    BY <1>1, <1>4, Ended DEF ReviseWrite, In
  <2>2. /\ budget'[new] = "DRAFT" /\ parent'[new] = saw
        /\ \A b \in Budgets \ {new} : budget'[b] = budget[b] /\ parent'[b] = parent[b]
    BY <1>1, <2>1 DEF BudgetTypeOK
  <2>3. \A b \in Budgets : parent[b] # None => parent[b] \in Budgets /\ parent[b] # new
    BY <1>1, <2>1 DEF BudgetFine, Revised, BudgetTypeOK
  <2>4. OneSubmission'
    <3>1. \A c \in Chains : status[c] = "PENDING" => subject[c] \in Budgets \ {new}
      BY <1>1, <2>1 DEF BudgetInv, Made
    <3> QED
      BY <1>1, <2>1, <2>2, <3>1 DEF BudgetFine, OneSubmission
  <2>5. Revised'
    BY <1>1, <1>2, <2>1, <2>2, <2>3 DEF BudgetFine, Revised, BudgetTypeOK
  <2>6. BudgetKnows(w)'
    BY <1>2, <2>1 DEF BudgetKnows
  <2>7. BudgetsWritten(w)'
    BY <1>1, <1>2, <2>1, <2>2, <2>3 DEF BudgetFine, BudgetsWritten, BudgetsSettled, AwaitedFor, BudgetTypeOK
  <2>8. BudgetsKept
    BY <2>1, <2>2 DEF BudgetsKept
  <2> QED
    BY <2>4, <2>5, <2>6, <2>7, <2>8 DEF BudgetFine
<1> QED
  BY <1>3, <1>4

LEMMA BudgetActs ==
    ASSUME NEW w \in Workers, BudgetRequested(w) \/ BudgetProceeds(w) \/ Crash(w),
           \A b \in Budgets : ~CreateBudget(w, b)
    PROVE  Acts(w)
BY DEF Acts, BudgetRequested, SubmitBudgetRead, ReviseRead, BudgetProceeds, SubmitBudgetWrite,
       ActivateRead, ActivateWrite, Supersede, MirrorBudget, ReviseWrite, In

LEMMA BudgetGoesOnAlone ==
    ASSUME BudgetInv, OneAtATime, BudgetAlone, BudgetNext
    PROVE  BudgetsKept /\ OneAtATime' /\ BudgetAlone'
<1>1. PICK w \in Workers : BudgetRequested(w) \/ BudgetProceeds(w) \/ (Crash(w) /\ UNCHANGED budgetVars)
  BY DEF BudgetNext
<1>2. ASSUME NEW b \in Budgets, CreateBudget(w, b)
      PROVE  BudgetsKept /\ OneAtATime' /\ BudgetAlone'
  <2>1. /\ UNCHANGED <<status, task, delivered, call, failures, subject, overlapped, parent>>
        /\ (\A x \in Budgets : budget[x] = "NONE") /\ budget' = [budget EXCEPT ![b] = "DRAFT"]
        /\ BudgetTypeOK /\ Engine
    BY <1>2 DEF CreateBudget, handlerVars, outcomeVars, BudgetInv
  <2>2. OneAtATime' /\ BudgetsKept
    BY <2>1 DEF OneAtATime, Free, BudgetsKept
  <2>3. budget'[b] = "DRAFT" /\ \A x \in Budgets \ {b} : budget'[x] = "NONE"
    BY <2>1 DEF BudgetTypeOK
  <2>4. (\A c \in Chains : status[c] = "NONE") /\ \A v \in Workers : task[v].phase = "none"
    BY <2>1 DEF BudgetInv, Made, Engine
  <2>5. ASSUME ~overlapped PROVE OneSubmission' /\ Revised' /\ \A v \in Workers : BudgetKnows(v)'
    <3>1. \A x \in Budgets : parent[x] = None
      BY <2>1, <2>5 DEF BudgetAlone, Revised, BudgetTypeOK
    <3>2. Revised'
      BY <2>1, <2>3, <3>1 DEF Revised
    <3>3. ASSUME NEW v \in Workers PROVE BudgetKnows(v)'
      <4>1. call[v].at \notin {"submit", "route", "activateRead", "activate", "supersede", "mirrorBudget"}
        BY <2>1 DEF BudgetInv, BudgetCall, Made
      <4>2. call[v].at # "clone"
        BY <2>1, <2>5 DEF BudgetInv, BudgetCall, BudgetAlone, BudgetKnows
      <4> QED
        BY <2>1, <2>4, <4>1, <4>2 DEF BudgetKnows
    <3> QED
      BY <2>1, <2>4, <3>2, <3>3 DEF OneSubmission
  <2>6. \A x, y, z, t : BudgetsSettled(x, y, z, t)'
    BY <2>3 DEF BudgetsSettled
  <2> QED
    BY <2>1, <2>2, <2>5, <2>6 DEF BudgetAlone
<1>3. CASE \A b \in Budgets : ~CreateBudget(w, b)
  <2>1. Solo(w) /\ OneAtATime'
    BY <1>1, <1>3, BudgetActs, AloneActs DEF BudgetInv
  <2>2. ASSUME ~overlapped' PROVE BudgetsKept /\ BudgetFine(w)'
    <3>1. ~overlapped /\ BudgetFine(w)
      BY <2>1, <2>2, BudgetNow DEF Solo
    <3>2. CASE BudgetRequested(w)
      BY <1>3, <2>2, <3>1, <3>2, BudgetRequestsAlone DEF BudgetRequested
    <3>3. CASE Crash(w) /\ UNCHANGED budgetVars
      BY <3>1, <3>3, BudgetEngineAlone
    <3>4. CASE BudgetProceeds(w)
      BY <3>1, <3>4, BudgetEngineAlone, BudgetWritesAlone, BudgetRevisesAlone DEF BudgetProceeds
    <3> QED
      BY <1>1, <3>2, <3>3, <3>4
  <2> QED
    BY <2>1, <2>2, BudgetThen DEF BudgetsKept
<1> QED
  BY <1>2, <1>3

LEMMA BudgetStartsAlone == HandlersInit /\ BudgetInit => BudgetAlone
<1> SUFFICES ASSUME HandlersInit, BudgetInit PROVE BudgetAlone
  OBVIOUS
<1>1. /\ \A c \in Chains : status[c] = "NONE"
      /\ \A w \in Workers : call[w].at = "none" /\ task[w].phase = "none" /\ Free(w)
  BY DEF HandlersInit, RequestsInit, OutcomesInit, NoCall, NoTask, Free
<1> QED
  BY <1>1 DEF BudgetInit, BudgetAlone, OneSubmission, Revised, BudgetKnows, BudgetsSettled

LEMMA BudgetsAgreeAlone == ASSUME BudgetAlone PROVE BudgetsAgree
BY DEF BudgetAlone, AtRest, Orderly, BudgetsAgree, BudgetsSettled

-----------------------------------------------------------------------------
(* Back pay and acting allowances. *)

LEMMA AdjustmentThen ==
    ASSUME NEW w \in Workers, Solo(w), BackPayAgrees', ActingApart', ~overlapped' => AdjustmentKnows(w)'
    PROVE  AdjustmentAlone'
<1>1. ~overlapped' => \A v \in Workers \ {w} : AdjustmentKnows(v)'
  BY DEF Solo, Free, AdjustmentKnows
<1> QED
  BY <1>1 DEF AdjustmentAlone

LEMMA BackPayAlone ==
    ASSUME AdjustmentInv, AdjustmentAlone, NEW w \in Workers, Solo(w),
           \/ SubmitBatchRead(w) \/ SubmitBatchWrite(w)
           \/ ApproveBatchRead(w) \/ ApproveBatchWrite(w)
           \/ Crash(w) /\ UNCHANGED adjustmentVars
    PROVE  AdjustmentsKept /\ AdjustmentAlone'
<1>1. Engine /\ BatchPays /\ AdjustmentCall(w) /\ (~overlapped' => ~overlapped /\ AdjustmentKnows(w))
  BY DEF AdjustmentInv, AdjustmentAlone, Solo
<1>2. UNCHANGED <<owed, acting, allowances>>
  BY DEF SubmitBatchRead, SubmitBatchWrite, ApproveBatchRead, ApproveBatchWrite,
         adjustmentVars, batchVars, actingVars
<1>3. ActingApart'
  BY <1>1, <1>2 DEF AdjustmentAlone, ActingApart
<1>4. CASE SubmitBatchRead(w) \/ ApproveBatchRead(w) \/ (Crash(w) /\ UNCHANGED adjustmentVars)
  <2>1. UNCHANGED <<batch, raised>>
    BY <1>4 DEF SubmitBatchRead, ApproveBatchRead, adjustmentVars, batchVars
  <2>2. BackPayAgrees' /\ AdjustmentsKept
    BY <1>1, <1>2, <2>1 DEF AdjustmentAlone, BackPayAgrees, AdjustmentsKept
  <2>3. AdjustmentKnows(w)'
    <3>1. CASE SubmitBatchRead(w)
      BY <1>1, <2>1, <3>1, Began DEF SubmitBatchRead, AdjustmentKnows
    <3>2. CASE ApproveBatchRead(w)
      BY <1>1, <2>1, <3>2, Began DEF ApproveBatchRead, AdjustmentKnows
    <3>3. CASE Crash(w)
      BY <1>1, <3>3 DEF Crash, Stop, Leave, NoCall, Engine, AdjustmentKnows
    <3> QED
      BY <1>4, <3>1, <3>2, <3>3
  <2> QED
    BY <1>3, <2>2, <2>3, AdjustmentThen
<1>5. CASE SubmitBatchWrite(w)
  <2>1. call[w].at = "submitBatch" /\ batch' = "SUBMITTED" /\ UNCHANGED raised /\ call'[w].at = "none"
    BY <1>1, <1>5, Ended DEF SubmitBatchWrite, In
  <2>2. ~overlapped' => batch = "DRAFT"
    BY <1>1, <2>1 DEF AdjustmentKnows
  <2>3. BackPayAgrees'
    BY <1>1, <1>2, <2>1, <2>2 DEF AdjustmentAlone, BackPayAgrees
  <2>4. AdjustmentsKept
    BY <1>2, <2>2 DEF AdjustmentsKept
  <2> QED
    BY <1>3, <2>1, <2>3, <2>4, AdjustmentThen DEF AdjustmentKnows
<1>6. CASE ApproveBatchWrite(w)
  <2>1. /\ call[w].at = "approveBatch" /\ batch' = "APPROVED" /\ call'[w].at = "none"
        /\ raised' = [e \in Employees |-> IF e \in call[w].saw.owed THEN raised[e] + 1 ELSE raised[e]]
    BY <1>1, <1>6, Ended DEF ApproveBatchWrite, In
  <2>2. call[w].saw.owed = owed /\ (~overlapped' => batch = "SUBMITTED")
    BY <1>1, <2>1 DEF AdjustmentKnows, AdjustmentCall
  <2>3. BackPayAgrees'
    BY <1>1, <1>2, <2>1, <2>2 DEF AdjustmentAlone, BackPayAgrees
  <2>4. AdjustmentsKept
    BY <1>2, <2>1 DEF AdjustmentsKept
  <2> QED
    BY <1>3, <2>1, <2>3, <2>4, AdjustmentThen DEF AdjustmentKnows
<1> QED
  BY <1>4, <1>5, <1>6

LEMMA ActingAlone ==
    ASSUME AdjustmentInv, AdjustmentAlone, NEW w \in Workers, Solo(w),
           \/ \E x \in Assignments :
                \/ \E from, to \in Days : CreateActingRead(w, x, from, to)
                \/ \E next \in {"SUBMITTED", "APPROVED"} : PromoteActingRead(w, x, next)
           \/ CreateActingWrite(w) \/ PromoteActingWrite(w)
           \/ \E m \in Months : ComputeActingRead(w, m)
           \/ ComputeActingWrite(w)
           \/ Crash(w) /\ UNCHANGED adjustmentVars
    PROVE  AdjustmentsKept /\ AdjustmentAlone'
<1>1. Engine /\ ActingPays /\ AdjustmentCall(w) /\ (~overlapped' => ~overlapped /\ AdjustmentKnows(w))
  BY DEF AdjustmentInv, AdjustmentAlone, Solo
<1>2. UNCHANGED <<batch, owed, raised>>
  BY DEF CreateActingRead, PromoteActingRead, CreateActingWrite, PromoteActingWrite,
         ComputeActingRead, ComputeActingWrite, adjustmentVars, batchVars
<1>3. BackPayAgrees'
  BY <1>1, <1>2 DEF AdjustmentAlone, BackPayAgrees
<1>4. ASSUME UNCHANGED acting, AdjustmentKnows(w)' PROVE AdjustmentsKept /\ AdjustmentAlone'
  <2>1. ActingApart' /\ AdjustmentsKept
    BY <1>1, <1>2, <1>4 DEF AdjustmentAlone, ActingApart, AdjustmentsKept
  <2> QED
    BY <1>3, <1>4, <2>1, AdjustmentThen
<1>5. ASSUME NEW x \in Assignments, NEW from \in Days, NEW to \in Days, CreateActingRead(w, x, from, to)
      PROVE  AdjustmentsKept /\ AdjustmentAlone'
  <2>1. /\ UNCHANGED acting /\ from <= to /\ \A y \in Assignments : ~Meet(acting[y], from, to)
        /\ call'[w].at = "createActing" /\ call'[w].saw = [id |-> x, from |-> from, to |-> to]
    BY <1>1, <1>5, Began DEF CreateActingRead, adjustmentVars, actingVars
  <2> QED
    BY <1>4, <2>1 DEF AdjustmentKnows, Meet
<1>6. ASSUME NEW x \in Assignments, NEW next \in {"SUBMITTED", "APPROVED"}, PromoteActingRead(w, x, next)
      PROVE  AdjustmentsKept /\ AdjustmentAlone'
  <2>1. /\ UNCHANGED acting /\ acting[x].status = (IF next = "SUBMITTED" THEN "DRAFT" ELSE "SUBMITTED")
        /\ call'[w].at = next /\ call'[w].saw = x
    BY <1>1, <1>6, Began DEF PromoteActingRead, adjustmentVars, actingVars
  <2> QED
    BY <1>4, <2>1 DEF AdjustmentKnows
<1>7. CASE (\E m \in Months : ComputeActingRead(w, m)) \/ ComputeActingWrite(w) \/ (Crash(w) /\ UNCHANGED adjustmentVars)
  <2>1. UNCHANGED acting
    BY <1>7 DEF ComputeActingRead, ComputeActingWrite, adjustmentVars, actingVars
  <2>2. call'[w].at \in {"computeActing", "none"}
    <3>1. CASE \E m \in Months : ComputeActingRead(w, m)
      BY <1>1, <3>1, Began DEF ComputeActingRead
    <3>2. CASE ComputeActingWrite(w)
      BY <1>1, <3>2, Ended DEF ComputeActingWrite
    <3>3. CASE Crash(w)
      BY <1>1, <3>3 DEF Crash, Stop, Leave, NoCall, Engine
    <3> QED
      BY <1>7, <3>1, <3>2, <3>3
  <2> QED
    BY <1>4, <2>1, <2>2 DEF AdjustmentKnows
<1>8. CASE CreateActingWrite(w)
  <2> DEFINE new == call[w].saw
  <2>1. /\ call[w].at = "createActing" /\ call'[w].at = "none"
        /\ acting' = [acting EXCEPT ![new.id] = [status |-> "DRAFT", from |-> new.from, to |-> new.to]]
    BY <1>1, <1>8, Ended DEF CreateActingWrite, In
  <2>2. new.id \in Assignments /\ new.from \in Nat /\ new.to \in Nat /\ acting[new.id].status = "NONE"
    BY <1>1, <2>1 DEF AdjustmentCall, Days
  <2>3. /\ acting'[new.id].status = "DRAFT" /\ acting'[new.id].from = new.from /\ acting'[new.id].to = new.to
        /\ \A x \in Assignments \ {new.id} : acting'[x] = acting[x]
    BY <1>1, <2>1, <2>2 DEF ActingPays
  <2>4. \A x \in Assignments : acting[x].from \in Nat /\ acting[x].to \in Nat
    BY <1>1 DEF ActingPays, Assignment
  <2>5. ASSUME ~overlapped', NEW x \in Assignments, NEW y \in Assignments, x # y, acting'[x].status # "NONE"
        PROVE  ~Meet(acting'[y], acting'[x].from, acting'[x].to)
    <3>1. \A z \in Assignments : ~Meet(acting[z], new.from, new.to)
      BY <1>1, <2>1, <2>5 DEF AdjustmentKnows
    <3>2. CASE x = new.id
      BY <2>3, <2>5, <3>1, <3>2
    <3>3. CASE y = new.id
      BY <2>2, <2>3, <2>4, <2>5, <3>1, <3>3 DEF Meet
    <3>4. CASE x # new.id /\ y # new.id
      BY <1>1, <2>3, <2>5, <3>4 DEF AdjustmentAlone, ActingApart
    <3> QED
      BY <3>2, <3>3, <3>4
  <2>6. ActingApart'
    BY <2>5 DEF ActingApart
  <2>7. AdjustmentsKept
    BY <1>2, <2>2, <2>3 DEF AdjustmentsKept
  <2>8. AdjustmentKnows(w)'
    BY <2>1 DEF AdjustmentKnows
  <2> QED
    BY <1>3, <2>6, <2>7, <2>8, AdjustmentThen
<1>9. CASE PromoteActingWrite(w)
  <2> DEFINE x == call[w].saw
             next == call[w].at
  <2>1. /\ next \in {"SUBMITTED", "APPROVED"} /\ call'[w].at = "none"
        /\ acting' = [acting EXCEPT ![x].status = next]
    BY <1>1, <1>9, Ended DEF PromoteActingWrite
  <2>2. x \in Assignments /\ acting[x].status # "NONE" /\ (~overlapped' => acting[x].status # "APPROVED")
    BY <1>1, <2>1 DEF AdjustmentCall, AdjustmentKnows
  <2>3. \A y \in Assignments :
          /\ acting'[y].from = acting[y].from /\ acting'[y].to = acting[y].to
          /\ acting'[y].status = IF y = x THEN next ELSE acting[y].status
    BY <1>1, <2>1, <2>2 DEF ActingPays, Assignment
  <2>4. ActingApart'
    BY <1>1, <2>1, <2>2, <2>3 DEF AdjustmentAlone, ActingApart, Meet
  <2>5. AdjustmentsKept
    BY <1>2, <2>2, <2>3 DEF AdjustmentsKept
  <2>6. AdjustmentKnows(w)'
    BY <2>1 DEF AdjustmentKnows
  <2> QED
    BY <1>3, <2>4, <2>5, <2>6, AdjustmentThen
<1> QED
  BY <1>5, <1>6, <1>7, <1>8, <1>9

LEMMA AdjustmentActs ==
    ASSUME NEW w \in Workers,
           \/ SubmitBatchRead(w) \/ SubmitBatchWrite(w)
           \/ ApproveBatchRead(w) \/ ApproveBatchWrite(w)
           \/ \E x \in Assignments :
                \/ \E from, to \in Days : CreateActingRead(w, x, from, to)
                \/ \E next \in {"SUBMITTED", "APPROVED"} : PromoteActingRead(w, x, next)
           \/ CreateActingWrite(w) \/ PromoteActingWrite(w)
           \/ \E m \in Months : ComputeActingRead(w, m)
           \/ ComputeActingWrite(w)
           \/ Crash(w)
    PROVE  Acts(w)
BY DEF Acts, In, SubmitBatchRead, SubmitBatchWrite, ApproveBatchRead, ApproveBatchWrite,
       CreateActingRead, PromoteActingRead, CreateActingWrite, PromoteActingWrite,
       ComputeActingRead, ComputeActingWrite

LEMMA AdjustmentsGoOnAlone ==
    ASSUME AdjustmentInv, OneAtATime, AdjustmentAlone, BackPayNext \/ ActingNext
    PROVE  AdjustmentsKept /\ OneAtATime' /\ AdjustmentAlone'
<1>1. ASSUME NEW w \in Workers, NEW some \in SUBSET Employees, CreateBatch(w, some)
      PROVE  AdjustmentsKept /\ OneAtATime' /\ AdjustmentAlone'
  <2>1. /\ batch = "NONE" /\ batch' = "DRAFT"
        /\ UNCHANGED <<status, task, delivered, call, failures, subject, overlapped, raised, acting, allowances>>
    BY <1>1 DEF CreateBatch, handlerVars, outcomeVars, actingVars
  <2>2. \A e \in Employees : raised[e] = 0
    BY <2>1 DEF AdjustmentInv, BatchPays
  <2>3. \A v \in Workers : call[v].at \notin {"submitBatch", "approveBatch"}
    BY <2>1 DEF AdjustmentInv, AdjustmentCall
  <2>4. ASSUME ~overlapped, NEW v \in Workers PROVE AdjustmentKnows(v)'
    BY <2>1, <2>3, <2>4 DEF AdjustmentAlone, AdjustmentKnows
  <2>5. BackPayAgrees' /\ ActingApart'
    BY <2>1, <2>2 DEF AdjustmentAlone, BackPayAgrees, ActingApart
  <2>6. OneAtATime' /\ AdjustmentsKept
    BY <2>1 DEF OneAtATime, Free, AdjustmentsKept
  <2> QED
    BY <2>1, <2>4, <2>5, <2>6 DEF AdjustmentAlone
<1>2. CASE BackPayNext
  <2>1. PICK w \in Workers :
             \/ \E some \in SUBSET Employees : CreateBatch(w, some)
             \/ SubmitBatchRead(w) \/ SubmitBatchWrite(w)
             \/ ApproveBatchRead(w) \/ ApproveBatchWrite(w)
             \/ Crash(w) /\ UNCHANGED adjustmentVars
    BY <1>2 DEF BackPayNext
  <2>2. ASSUME \A some \in SUBSET Employees : ~CreateBatch(w, some)
        PROVE  AdjustmentsKept /\ OneAtATime' /\ AdjustmentAlone'
    <3>1. Solo(w) /\ OneAtATime'
      BY <2>1, <2>2, AdjustmentActs, AloneActs DEF AdjustmentInv
    <3> QED
      BY <2>1, <2>2, <3>1, BackPayAlone
  <2> QED
    BY <1>1, <2>2
<1>3. CASE ActingNext
  <2>1. PICK w \in Workers :
             \/ \E x \in Assignments :
                  \/ \E from, to \in Days : CreateActingRead(w, x, from, to)
                  \/ \E next \in {"SUBMITTED", "APPROVED"} : PromoteActingRead(w, x, next)
             \/ CreateActingWrite(w) \/ PromoteActingWrite(w)
             \/ \E m \in Months : ComputeActingRead(w, m)
             \/ ComputeActingWrite(w)
             \/ Crash(w) /\ UNCHANGED adjustmentVars
    BY <1>3 DEF ActingNext
  <2>2. Solo(w) /\ OneAtATime'
    BY <2>1, AdjustmentActs, AloneActs DEF AdjustmentInv
  <2> QED
    BY <2>1, <2>2, ActingAlone
<1> QED
  BY <1>2, <1>3

LEMMA AdjustmentsStartAlone == HandlersInit /\ AdjustmentInit => AdjustmentAlone
<1> SUFFICES ASSUME HandlersInit, AdjustmentInit PROVE AdjustmentAlone
  OBVIOUS
<1>1. \A w \in Workers : call[w].at = "none"
  BY DEF HandlersInit, RequestsInit, NoCall
<1> QED
  BY <1>1 DEF AdjustmentInit, AdjustmentAlone, BackPayAgrees, ActingApart, AdjustmentKnows

-----------------------------------------------------------------------------
(* Receipts. *)

OneAccountEach == \A a \in AccountTypes : accounts[a] <= 1
ReceiptsWritten(w) == failures = 0 => ReceiptsSettled(call[w].at, call[w].saw)

LEMMA ReceiptNow ==
    ASSUME ReceiptAlone, NEW w \in Workers, Solo(w), ~overlapped'
    PROVE  OneAccountEach /\ ReceiptKnows(w) /\ ReceiptsWritten(w)
<1>1. ~overlapped /\ (Free(w) => AllFree)
  BY DEF Solo, AllFree
<1>2. CASE Free(w)
  BY <1>1, <1>2 DEF ReceiptAlone, OneAccountEach, ReceiptsWritten, ReceiptsSettled, Free, Posting
<1>3. CASE ~Free(w)
  BY <1>1, <1>3 DEF ReceiptAlone, OneAccountEach, ReceiptsWritten
<1> QED
  BY <1>2, <1>3

LEMMA ReceiptThen ==
    ASSUME NEW w \in Workers, Solo(w),
           ~overlapped' => OneAccountEach' /\ ReceiptKnows(w)' /\ ReceiptsWritten(w)'
    PROVE  ReceiptAlone'
<1> SUFFICES ASSUME ~overlapped' PROVE ReceiptAlone'
  BY DEF ReceiptAlone
<1>1. \A v \in Workers \ {w} : Free(v)' /\ ReceiptKnows(v)'
  BY DEF Solo, Free, ReceiptKnows
<1>2. ASSUME AllFree', failures' = 0 PROVE ReceiptsSettled("none", None)'
  <2>1. call'[w].at = "none"
    BY <1>2 DEF AllFree, Free
  <2> QED
    BY <1>2, <2>1 DEF ReceiptsWritten, ReceiptsSettled, Posting
<1> QED
  BY <1>1, <1>2 DEF ReceiptAlone, OneAccountEach, ReceiptsWritten

LEMMA ReceiptsGoOnAlone ==
    ASSUME ReceiptInv, OneAtATime, ReceiptAlone, ReceiptsNext
    PROVE  OneAtATime' /\ ReceiptAlone'
<1>1. PICK w \in Workers : ReceiptsStep(w)
  BY DEF ReceiptsNext
<1>2. Engine /\ ReceiptsTypeOK /\ ReceiptCall(w)
  BY DEF ReceiptInv
<1>3. Acts(w)
  BY <1>1 DEF Acts, ReceiptsStep, RecordReceipt, AddClaim, Record, PostedRead, FindAsset, FindRevenue, Find,
              CreateAsset, CreateRevenue, Create, PostEntries, In
<1>4. Solo(w) /\ OneAtATime'
  BY <1>2, <1>3, AloneActs
<1> SUFFICES ASSUME ~overlapped' PROVE OneAccountEach' /\ ReceiptKnows(w)' /\ ReceiptsWritten(w)'
  BY <1>4, ReceiptThen
<1>5. OneAccountEach /\ ReceiptKnows(w) /\ ReceiptsWritten(w)
  BY <1>4, ReceiptNow
<1> DEFINE saw == call[w].saw
           at == call[w].at
<1>6. AssetType(saw) \in AccountTypes /\ "REVENUE" \in AccountTypes
  BY DEF AssetType, AccountTypes
<1>7. ASSUME NEW x \in Receipts, Record(w, x)
      PROVE  OneAccountEach' /\ ReceiptKnows(w)' /\ ReceiptsWritten(w)'
  <2>1. /\ recorded' = recorded \cup {x} /\ UNCHANGED <<postings, accounts, failures>>
        /\ at = "none" /\ call'[w].at = "posted?" /\ call'[w].saw = x
    BY <1>2, <1>7, Began DEF Record
  <2> QED
    BY <1>5, <2>1 DEF OneAccountEach, ReceiptKnows, ReceiptsWritten, ReceiptsSettled, Posting
<1>8. ASSUME UNCHANGED <<recorded, postings, accounts, failures>>, at \in Posting,
             call'[w].at \in Posting, call'[w].saw = saw,
             call'[w].at = "newAsset" => accounts[AssetType(saw)] = 0,
             call'[w].at = "newRevenue" => accounts["REVENUE"] = 0
      PROVE  OneAccountEach' /\ ReceiptKnows(w)' /\ ReceiptsWritten(w)'
  BY <1>5, <1>8 DEF OneAccountEach, ReceiptKnows, ReceiptsWritten, ReceiptsSettled, AssetType
<1>9. CASE PostedRead(w)
  <2>1. at = "posted?" /\ postings[saw] = 0 /\ UNCHANGED receiptVars
    BY <1>2, <1>9 DEF PostedRead, In, ReceiptCall, Posting
  <2>2. call'[w].at = "asset" /\ call'[w].saw = saw /\ UNCHANGED failures
    BY <1>2, <1>9, <2>1, Stepped DEF PostedRead
  <2> QED
    BY <1>8, <2>1, <2>2 DEF Posting, receiptVars
<1>10. CASE FindAsset(w) \/ FindRevenue(w)
  <2>1. /\ UNCHANGED receiptVars /\ UNCHANGED failures /\ call'[w].saw = saw
        /\ \/ at = "asset" /\ call'[w].at = (IF accounts[AssetType(saw)] > 0 THEN "revenue" ELSE "newAsset")
           \/ at = "revenue" /\ call'[w].at = (IF accounts["REVENUE"] > 0 THEN "entries" ELSE "newRevenue")
    BY <1>2, <1>10, Stepped DEF FindAsset, FindRevenue, Find, In
  <2> QED
    BY <1>2, <1>6, <1>8, <2>1 DEF Posting, receiptVars, ReceiptsTypeOK
<1>11. ASSUME NEW type \in AccountTypes, NEW next, next \in {"revenue", "entries"}, Create(w, at, type, next),
              at \in {"newAsset", "newRevenue"}, accounts[type] = 0
       PROVE  OneAccountEach' /\ ReceiptKnows(w)' /\ ReceiptsWritten(w)'
  <2>1. /\ UNCHANGED <<recorded, postings, failures>> /\ accounts' = [accounts EXCEPT ![type] = @ + 1]
        /\ call'[w].at = next /\ call'[w].saw = saw
    BY <1>2, <1>11, Stepped DEF Create
  <2>2. OneAccountEach'
    BY <1>2, <1>5, <1>11, <2>1 DEF OneAccountEach, ReceiptsTypeOK
  <2> QED
    BY <1>5, <1>11, <2>1, <2>2 DEF ReceiptKnows, ReceiptsWritten, ReceiptsSettled, Posting
<1>12. CASE CreateAsset(w)
  <2>1. at = "newAsset" /\ accounts[AssetType(saw)] = 0
    BY <1>5, <1>12 DEF CreateAsset, Create, In, ReceiptKnows
  <2> QED
    BY <1>6, <1>11, <1>12, <2>1 DEF CreateAsset
<1>13. CASE CreateRevenue(w)
  <2>1. at = "newRevenue" /\ accounts["REVENUE"] = 0
    BY <1>5, <1>13 DEF CreateRevenue, Create, In, ReceiptKnows
  <2> QED
    BY <1>6, <1>11, <1>13, <2>1 DEF CreateRevenue
<1>14. CASE PostEntries(w)
  <2>1. /\ at = "entries" /\ postings' = [postings EXCEPT ![saw] = @ + 1] /\ call'[w].at = "none"
        /\ UNCHANGED <<recorded, accounts, failures>>
    BY <1>2, <1>14, Ended DEF PostEntries, In
  <2>2. saw \in recorded /\ postings[saw] = 0
    BY <1>2, <2>1 DEF ReceiptCall, Posting
  <2>3. \A x \in recorded : postings'[x] = IF x = saw THEN 1 ELSE postings[x]
    BY <1>2, <2>1, <2>2 DEF ReceiptsTypeOK
  <2> QED
    BY <1>5, <2>1, <2>3 DEF OneAccountEach, ReceiptKnows, ReceiptsWritten, ReceiptsSettled
<1>15. CASE Crash(w) /\ UNCHANGED receiptVars
  BY <1>2, <1>5, <1>15, Crashed DEF receiptVars, OneAccountEach, ReceiptKnows, ReceiptsWritten
<1> QED
  BY <1>1, <1>7, <1>9, <1>10, <1>12, <1>13, <1>14, <1>15 DEF ReceiptsStep, RecordReceipt, AddClaim

LEMMA ReceiptsStartAlone == HandlersInit /\ ReceiptsInit => ReceiptAlone
<1> SUFFICES ASSUME HandlersInit, ReceiptsInit PROVE ReceiptAlone
  OBVIOUS
<1>1. \A w \in Workers : call[w].at = "none"
  BY DEF HandlersInit, RequestsInit, NoCall
<1> QED
  BY <1>1 DEF ReceiptsInit, ReceiptAlone, ReceiptKnows, ReceiptsSettled

LEMMA ReceiptsAgreeAlone == ASSUME ReceiptAlone PROVE ReceiptsAgree
BY DEF ReceiptAlone, ReceiptsAgree, AtRest, Orderly, ReceiptsSettled, Posting

-----------------------------------------------------------------------------
(* The nightly accruals. *)

HealthKnows(w) == call[w].at = "health" => call[w].saw.was = health /\ health # "PAID"
HealthWritten(w) == failures = 0 => HealthSettled(call[w].at)

LEMMA HealthNow ==
    ASSUME HealthAlone, NEW w \in Workers, Solo(w), ~overlapped'
    PROVE  HealthKnows(w) /\ HealthWritten(w)
<1>1. ~overlapped /\ (Free(w) => AllFree)
  BY DEF Solo, AllFree
<1> QED
  BY <1>1 DEF HealthAlone, HealthKnows, HealthWritten, HealthSettled, Free

LEMMA HealthThen ==
    ASSUME NEW w \in Workers, Solo(w), reds' \in Nat, alerted' \in Nat,
           ~overlapped' => HealthKnows(w)' /\ HealthWritten(w)'
    PROVE  HealthAlone'
<1>1. ~overlapped' => \A v \in Workers \ {w} : Free(v)' /\ HealthKnows(v)'
  BY DEF Solo, Free, HealthKnows
<1> QED
  BY <1>1 DEF HealthAlone, HealthKnows, HealthWritten, HealthSettled, AllFree, Free

LEMMA AccrualsGoOnAlone ==
    ASSUME AccrualInv, OneAtATime, HealthAlone, LoanNext \/ DebtNext \/ HealthNext
    PROVE  AccrualsKept /\ OneAtATime' /\ HealthAlone'
<1>1. Engine /\ reds \in Nat /\ alerted \in Nat
  BY DEF AccrualInv, HealthAlone
<1>2. CASE SettleLoan \/ PayDebt \/ ReceivePart \/ MarkServiced \/ NightFalls
  <2>1. UNCHANGED <<status, task, delivered, call, failures, subject, overlapped, health, reds, alerted, accrued>>
    BY <1>2 DEF SettleLoan, PayDebt, ReceivePart, MarkServiced, NightFalls, handlerVars, outcomeVars,
                orderVars, loanVars
  <2>2. OneAtATime' /\ AccrualsKept
    BY <2>1 DEF OneAtATime, Free, AccrualsKept
  <2> QED
    BY <2>1, <2>2 DEF HealthAlone, HealthSettled, AllFree, Free
<1>3. ASSUME NEW w \in Workers,
             \/ AccrueRead(w) \/ AccrueWrite(w)
             \/ DebtRead(w) \/ DebtWrite(w)
             \/ RecalcRead(w) \/ RecalcWrite(w) \/ RaiseRedAlert(w)
             \/ Crash(w) /\ UNCHANGED accrualVars
      PROVE  AccrualsKept /\ OneAtATime' /\ HealthAlone'
  <2>1. Acts(w)
    BY <1>3 DEF Acts, AccrueRead, AccrueWrite, DebtRead, DebtWrite, RecalcRead, RecalcWrite, RaiseRedAlert, In
  <2>2. Solo(w) /\ OneAtATime'
    BY <1>1, <2>1, AloneActs
  <2>3. ~overlapped' => HealthKnows(w) /\ HealthWritten(w)
    BY <2>2, HealthNow
  <2>4. accrued \subseteq accrued'
    BY <1>3 DEF AccrueRead, AccrueWrite, DebtRead, DebtWrite, RecalcRead, RecalcWrite, RaiseRedAlert,
                accrualVars, loanVars
  <2>5. ASSUME UNCHANGED <<health, reds, alerted>>, overlapped' \/ (HealthKnows(w)' /\ HealthWritten(w)')
        PROVE  AccrualsKept /\ OneAtATime' /\ HealthAlone'
    BY <1>1, <2>2, <2>4, <2>5, HealthThen DEF AccrualsKept
  <2>6. CASE AccrueRead(w) \/ DebtRead(w) \/ RecalcRead(w)
    <3>1. /\ UNCHANGED <<health, reds, alerted, failures>> /\ call[w].at = "none"
          /\ \/ call'[w].at \in {"accrue", "debt"}
             \/ call'[w].at = "health" /\ call'[w].saw.was = health /\ health # "PAID"
      BY <1>1, <2>6, Began DEF AccrueRead, DebtRead, RecalcRead, accrualVars, orderVars
    <3>2. overlapped' \/ (HealthKnows(w)' /\ HealthWritten(w)')
      BY <2>3, <3>1 DEF HealthKnows, HealthWritten, HealthSettled
    <3> QED
      BY <2>5, <3>1, <3>2
  <2>7. CASE AccrueWrite(w) \/ DebtWrite(w)
    <3>1. /\ UNCHANGED <<health, reds, alerted, failures>> /\ call[w].at \in {"accrue", "debt"}
          /\ call'[w].at = "none"
      BY <1>1, <2>7, Ended DEF AccrueWrite, DebtWrite, In, orderVars
    <3>2. overlapped' \/ (HealthKnows(w)' /\ HealthWritten(w)')
      BY <2>3, <3>1 DEF HealthKnows, HealthWritten, HealthSettled
    <3> QED
      BY <2>5, <3>1, <3>2
  <2>8. CASE Crash(w) /\ UNCHANGED accrualVars
    <3>1. UNCHANGED <<health, reds, alerted>> /\ failures' # 0 /\ call'[w].at = "none"
      BY <1>1, <2>8, Crashed DEF accrualVars, orderVars
    <3> QED
      BY <2>5, <3>1 DEF HealthKnows, HealthWritten
  <2>9. CASE RecalcWrite(w)
    <3> DEFINE saw == call[w].saw
               one == IF saw.next \in Red /\ health \notin Red THEN 1 ELSE 0
    <3>1. /\ call[w].at = "health" /\ reds' = reds + one /\ UNCHANGED alerted
      BY <2>9 DEF RecalcWrite, In
    <3>2. /\ UNCHANGED failures
          /\ IF saw.next \in Red /\ saw.was \notin Red THEN call'[w].at = "redAlert" ELSE call'[w].at = "none"
      BY <1>1, <2>9, Stepped, Ended DEF RecalcWrite
    <3>3. reds' \in Nat /\ alerted' \in Nat
      BY <1>1, <3>1
    <3>4. ASSUME ~overlapped' PROVE saw.was = health /\ health # "PAID" /\ HealthKnows(w)' /\ HealthWritten(w)'
      <4>1. saw.was = health /\ health # "PAID"
        BY <2>3, <3>1, <3>4 DEF HealthKnows
      <4>2. failures = 0 => reds = alerted
        BY <1>1, <2>3, <3>1, <3>4 DEF HealthWritten, HealthSettled
      <4>3. HealthWritten(w)'
        BY <1>1, <3>1, <3>2, <4>1, <4>2 DEF HealthWritten, HealthSettled
      <4> QED
        BY <3>2, <4>1, <4>3 DEF HealthKnows
    <3> QED
      BY <2>2, <2>4, <3>3, <3>4, HealthThen DEF AccrualsKept
  <2>10. CASE RaiseRedAlert(w)
    <3>1. /\ call[w].at = "redAlert" /\ alerted' = alerted + 1 /\ UNCHANGED <<health, reds, failures>>
          /\ call'[w].at = "none"
      BY <1>1, <2>10, Ended DEF RaiseRedAlert, In
    <3>2. ASSUME ~overlapped' PROVE HealthKnows(w)' /\ HealthWritten(w)'
      BY <1>1, <2>3, <3>1, <3>2 DEF HealthKnows, HealthWritten, HealthSettled
    <3>3. reds' \in Nat /\ alerted' \in Nat
      BY <1>1, <3>1
    <3> QED
      BY <2>2, <2>4, <3>1, <3>2, <3>3, HealthThen DEF AccrualsKept
  <2> QED
    BY <1>3, <2>2, <2>6, <2>7, <2>8, <2>9, <2>10
<1> QED
  BY <1>2, <1>3 DEF LoanNext, DebtNext, HealthNext

LEMMA AccrualsStartAlone == HandlersInit /\ AccrualsInit => HealthAlone
<1> SUFFICES ASSUME HandlersInit, AccrualsInit PROVE HealthAlone
  OBVIOUS
<1>1. \A w \in Workers : call[w].at = "none"
  BY DEF HandlersInit, RequestsInit, NoCall
<1> QED
  BY <1>1 DEF AccrualsInit, HealthAlone, HealthSettled

LEMMA AccrualsAgreeAlone == ASSUME HealthAlone PROVE AccrualsAgree
BY DEF HealthAlone, AccrualsAgree, AtRest, Orderly, HealthSettled

-----------------------------------------------------------------------------
(* Returns. *)

StatusTells ==
    \A h \in Heads : IF Exists(h) THEN ret[h].status = "PAID" <=> ret[h].paid >= ret[h].due
                                  ELSE ret[h] = NoReturn
ReturnsWritten(w) == failures = 0 => ReturnsSettled(call[w].at, call[w].saw)
ReturnFine(w) == StatusTells /\ ReturnKnows(w) /\ ReturnsWritten(w)

LEMMA ReturnNow ==
    ASSUME ReturnAlone, NEW w \in Workers, Solo(w), ~overlapped'
    PROVE  ReturnFine(w)
<1>1. ~overlapped /\ (Free(w) => AllFree)
  BY DEF Solo, AllFree
<1>2. StatusTells /\ ReturnKnows(w)
  BY <1>1 DEF ReturnAlone, StatusTells
<1>3. ReturnsWritten(w)
  BY <1>1 DEF ReturnAlone, ReturnsWritten, ReturnsSettled, Free
<1> QED
  BY <1>2, <1>3 DEF ReturnFine

LEMMA ReturnThen ==
    ASSUME NEW w \in Workers, Solo(w), ~overlapped' => ReturnFine(w)'
    PROVE  ReturnAlone'
<1> SUFFICES ASSUME ~overlapped' PROVE ReturnAlone'
  BY DEF ReturnAlone
<1>1. \A v \in Workers \ {w} : Free(v)' /\ ReturnKnows(v)'
  BY DEF Solo, Free, ReturnKnows
<1>2. ASSUME AllFree', failures' = 0 PROVE ReturnsSettled("none", None)'
  <2>1. call'[w].at = "none"
    BY <1>2 DEF AllFree, Free
  <2> QED
    BY <1>2, <2>1 DEF ReturnFine, ReturnsWritten, ReturnsSettled
<1> QED
  BY <1>1, <1>2 DEF ReturnAlone, ReturnFine, StatusTells, ReturnsWritten

LEMMA PaidIs ==
    ASSUME NEW due \in Nat, NEW paid \in Nat
    PROVE  State(due, paid) # "NONE" /\ (State(due, paid) = "PAID" <=> paid >= due)
BY DEF State

\* What a request reads, and a failure.
LEMMA ReturnReadsAlone ==
    ASSUME ReturnInv, OneAtATime, NEW w \in Workers, ReturnFine(w),
           \/ Payable(w) \/ WhtFind(w)
           \/ PostRuns(w, Sites) \/ (\E s \in Sites : PostRuns(w, {s})) \/ HeadFind(w)
           \/ (\E h \in Heads : RemitRead(w, h)) \/ RemitCreate(w)
           \/ PersistRead(w)
           \/ Crash(w) /\ UNCHANGED returnVars
    PROVE  UNCHANGED ret /\ ReturnFine(w)'
<1>1. Engine /\ ret \in [Heads -> Row] /\ withheld \in Nat /\ remitted \in [Heads -> Nat] /\ ReturnFine(w)
  BY DEF ReturnInv
<1>2. UNCHANGED ret
  BY DEF Payable, WhtFind, PostRuns, HeadFind, RemitRead, RemitCreate, PersistRead, returnVars
<1>3. StatusTells'
  BY <1>1, <1>2 DEF ReturnFine, StatusTells, Exists
<1>4. CASE Payable(w)
  <2>1. /\ withheld' = withheld + 1 /\ UNCHANGED <<remitted, failures>>
        /\ call[w].at = "none" /\ call'[w].at = "whtFind"
    BY <1>1, <1>4, Began DEF Payable
  <2>2. ReturnKnows(w)'
    BY <2>1 DEF ReturnKnows
  <2>3. ReturnsWritten(w)'
    BY <1>1, <1>2, <2>1 DEF ReturnFine, ReturnsWritten, ReturnsSettled, Row, Heads
  <2> QED
    BY <1>2, <1>3, <2>2, <2>3 DEF ReturnFine
<1>5. CASE WhtFind(w)
  <2>1. /\ UNCHANGED <<withheld, remitted, failures>>
        /\ call[w].at = "whtFind" /\ call'[w].at = "whtWrite" /\ call'[w].saw = ret["WHT"]
    BY <1>1, <1>5, Stepped DEF WhtFind, In, returnVars
  <2>2. ReturnKnows(w)'
    BY <1>2, <2>1 DEF ReturnKnows
  <2>3. ReturnsWritten(w)'
    BY <1>1, <1>2, <2>1 DEF ReturnFine, ReturnsWritten, ReturnsSettled
  <2> QED
    BY <1>2, <1>3, <2>2, <2>3 DEF ReturnFine
<1>6. ASSUME NEW sites, PostRuns(w, sites) PROVE ReturnFine(w)'
  <2>1. /\ UNCHANGED <<withheld, remitted, failures>>
        /\ call[w].at = "none" /\ call'[w].at = "headFind"
    BY <1>1, <1>6, Began DEF PostRuns, returnVars
  <2>2. ReturnKnows(w)'
    BY <2>1 DEF ReturnKnows
  <2>3. ReturnsWritten(w)'
    BY <1>1, <1>2, <2>1 DEF ReturnFine, ReturnsWritten, ReturnsSettled
  <2> QED
    BY <1>3, <2>2, <2>3 DEF ReturnFine
<1>7. CASE HeadFind(w)
  <2>1. /\ UNCHANGED <<withheld, remitted, failures>>
        /\ call[w].at = "headFind" /\ call'[w].at = "headWrite" /\ call'[w].saw.row = ret["PAYE"]
    BY <1>1, <1>7, Stepped DEF HeadFind, In, returnVars
  <2>2. ReturnKnows(w)'
    BY <1>2, <2>1 DEF ReturnKnows
  <2>3. ReturnsWritten(w)'
    BY <1>1, <1>2, <2>1 DEF ReturnFine, ReturnsWritten, ReturnsSettled
  <2> QED
    BY <1>2, <1>3, <2>2, <2>3 DEF ReturnFine
<1>8. ASSUME NEW h \in Heads, RemitRead(w, h) PROVE ReturnFine(w)'
  <2>1. /\ UNCHANGED <<withheld, remitted, failures>> /\ Exists(h)
        /\ call[w].at = "none" /\ call'[w].at = "remit" /\ call'[w].saw = [head |-> h, row |-> ret[h]]
    BY <1>1, <1>8, Began DEF RemitRead, returnVars
  <2>2. ReturnKnows(w)'
    BY <1>2, <2>1 DEF ReturnKnows, Exists
  <2>3. ReturnsWritten(w)'
    BY <1>1, <1>2, <2>1 DEF ReturnFine, ReturnsWritten, ReturnsSettled
  <2> QED
    BY <1>3, <2>2, <2>3 DEF ReturnFine
<1>9. CASE RemitCreate(w)
  <2> DEFINE h == call[w].saw.head
  <2>1. /\ UNCHANGED <<withheld, failures>> /\ remitted' = [remitted EXCEPT ![h] = @ + 1]
        /\ call[w].at = "remit" /\ call'[w].at = "remitWrite" /\ call'[w].saw = call[w].saw
    BY <1>1, <1>9, Stepped DEF RemitCreate, In
  <2>2. Exists(h) /\ call[w].saw.row = ret[h]
    BY <1>1, <2>1 DEF ReturnFine, ReturnKnows
  <2>3. ReturnKnows(w)'
    BY <1>2, <2>1, <2>2 DEF ReturnKnows, Exists
  <2>4. \A k \in Heads : remitted'[k] = remitted[k] + (IF k = h THEN 1 ELSE 0)
    BY <1>1, <2>1
  <2>5. ReturnsWritten(w)'
    BY <1>1, <1>2, <2>1, <2>4 DEF ReturnFine, ReturnsWritten, ReturnsSettled, Row
  <2> QED
    BY <1>2, <1>3, <2>3, <2>5 DEF ReturnFine
<1>10. CASE PersistRead(w)
  <2>1. /\ UNCHANGED <<withheld, remitted, failures>>
        /\ call[w].at = "none" /\ call'[w].at = "persist" /\ call'[w].saw = ret
    BY <1>1, <1>10, Began DEF PersistRead, returnVars
  <2>2. ReturnKnows(w)'
    BY <1>2, <2>1 DEF ReturnKnows
  <2>3. ReturnsWritten(w)'
    BY <1>1, <1>2, <2>1 DEF ReturnFine, ReturnsWritten, ReturnsSettled
  <2> QED
    BY <1>2, <1>3, <2>2, <2>3 DEF ReturnFine
<1>11. CASE Crash(w) /\ UNCHANGED returnVars
  <2>1. call'[w].at = "none" /\ failures' # 0
    BY <1>1, <1>11, Crashed
  <2> QED
    BY <1>2, <1>3, <2>1 DEF ReturnFine, ReturnKnows, ReturnsWritten
<1> QED
  BY <1>2, <1>4, <1>5, <1>6, <1>7, <1>8, <1>9, <1>10, <1>11

\* What it writes: one row, whose status tells again.
LEMMA ReturnWritesAlone ==
    ASSUME ReturnInv, NEW w \in Workers, ReturnFine(w),
           WhtWrite(w) \/ HeadWrite(w) \/ RemitWrite(w) \/ PersistWrite(w)
    PROVE  (\A h \in Heads : ret'[h].paid >= ret[h].paid) /\ ReturnFine(w)'
<1> DEFINE saw == call[w].saw
           at == call[w].at
<1>1. /\ Engine /\ ret \in [Heads -> Row] /\ withheld \in Nat /\ remitted \in [Heads -> Nat]
      /\ ReturnCall(w) /\ StatusTells /\ ReturnKnows(w) /\ ReturnsWritten(w)
  BY DEF ReturnInv, ReturnFine
<1>2. \A h \in Heads : ret[h].paid \in Nat /\ ret[h].due \in Nat /\ ret[h].status \in ReturnStatuses
  BY <1>1 DEF Row
<1>3. ASSUME NEW h \in Heads, \A k \in Heads \ {h} : ret'[k] = ret[k],
             ret'[h].status # "NONE", ret'[h].status = "PAID" <=> ret'[h].paid >= ret'[h].due,
             ret'[h].paid >= ret[h].paid
      PROVE  StatusTells' /\ \A k \in Heads : ret'[k].paid >= ret[k].paid
  BY <1>1, <1>2, <1>3 DEF StatusTells, Exists
<1>4. ASSUME call'[w].at = "none", UNCHANGED <<withheld, remitted, failures>>, ret' \in [Heads -> Row],
             failures = 0 => withheld = ret'["WHT"].due /\ \A k \in Heads : remitted[k] = ret'[k].paid
      PROVE  ReturnKnows(w)' /\ ReturnsWritten(w)'
  <2>1. ret'["WHT"].due \in Nat /\ \A k \in Heads : ret'[k].paid \in Nat
    BY <1>4 DEF Row, Heads
  <2> QED
    BY <1>4, <2>1 DEF ReturnKnows, ReturnsWritten, ReturnsSettled
<1>5. CASE WhtWrite(w)
  <2> DEFINE old == ret["WHT"]
             due == old.due + 1
             to == IF old.paid >= due THEN "PAID" ELSE IF old.status = "PAID" THEN "PARTIAL" ELSE old.status
  <2>1. at = "whtWrite" /\ saw = old
    BY <1>1, <1>5 DEF WhtWrite, In, ReturnKnows
  <2>2. /\ old \in Row /\ "WHT" \in Heads /\ (old.status = "NONE" => old = NoReturn)
        /\ old.status # "NONE" => (old.status = "PAID" <=> old.paid >= old.due)
        /\ old.due \in Nat /\ old.paid \in Nat
    BY <1>1 DEF StatusTells, Exists, Heads, Row
  <2>3. /\ ret' \in [Heads -> Row] /\ ret'["PAYE"] = ret["PAYE"]
        /\ ret'["WHT"].due = old.due + 1 /\ ret'["WHT"].paid = old.paid
        /\ ret'["WHT"].status # "NONE"
        /\ ret'["WHT"].status = "PAID" <=> old.paid >= old.due + 1
    <3>1. CASE old.status = "NONE"
      <4>1. ret' = [ret EXCEPT !["WHT"] = [due |-> 1, paid |-> 0, status |-> "DUE"]]
        BY <1>5, <2>1, <3>1 DEF WhtWrite, Exists
      <4> QED
        BY <1>1, <2>2, <3>1, <4>1 DEF NoReturn, Row, ReturnStatuses, Heads
    <3>2. CASE old.status # "NONE"
      <4>1. ret' = [ret EXCEPT !["WHT"].due = due, !["WHT"].status = to]
        BY <1>5, <2>1, <3>2 DEF WhtWrite
      <4>2. /\ due \in Nat /\ due = old.due + 1 /\ to \in ReturnStatuses /\ to # "NONE"
            /\ to = "PAID" <=> old.paid >= due
        BY <2>2, <3>2 DEF Row, ReturnStatuses
      <4> HIDE DEF to, due
      <4> QED
        BY <1>1, <2>2, <4>1, <4>2 DEF Row, Heads
    <3> QED
      BY <3>1, <3>2
  <2>4. StatusTells' /\ \A k \in Heads : ret'[k].paid >= ret[k].paid
    BY <1>3, <2>2, <2>3 DEF Heads
  <2>5. call'[w].at = "none" /\ UNCHANGED <<withheld, remitted, failures>>
    BY <1>1, <1>5, Ended DEF WhtWrite
  <2>6. failures = 0 => withheld = old.due + 1 /\ \A k \in Heads : remitted[k] = ret[k].paid
    BY <1>1, <1>2, <2>1 DEF ReturnsWritten, ReturnsSettled
  <2>7. failures = 0 => withheld = ret'["WHT"].due /\ \A k \in Heads : remitted[k] = ret'[k].paid
    BY <2>3, <2>6 DEF Heads
  <2> QED
    BY <1>4, <2>3, <2>4, <2>5, <2>7 DEF ReturnFine
<1>6. CASE HeadWrite(w)
  <2> DEFINE old == ret["PAYE"]
             due == Cardinality(saw.sites)
             to == State(due, old.paid)
  <2>1. at = "headWrite" /\ saw.row = old
    BY <1>1, <1>6 DEF HeadWrite, In, ReturnKnows
  <2>2. "PAYE" \in Heads /\ due \in Nat /\ old.paid \in Nat
    <3>1. IsFiniteSet(saw.sites)
      BY <1>1, <2>1, ReturnsAssumption, FS_Subset DEF ReturnCall
    <3> QED
      BY <1>1, <3>1, FS_CardinalityType DEF Heads, Row
  <2>3. ret' = [ret EXCEPT !["PAYE"].due = due, !["PAYE"].status = to]
    BY <1>6, <2>1 DEF HeadWrite, Exists
  <2>4. to \in ReturnStatuses /\ to # "NONE" /\ (to = "PAID" <=> old.paid >= due)
    BY <2>2, PaidIs, StateIs
  <2>5. /\ ret' \in [Heads -> Row] /\ ret'["WHT"] = ret["WHT"]
        /\ ret'["PAYE"].due = due /\ ret'["PAYE"].paid = old.paid /\ ret'["PAYE"].status = to
    <3> HIDE DEF to, due
    <3> QED
      BY <1>1, <2>2, <2>3, <2>4 DEF Row, Heads
  <2>6. StatusTells' /\ \A k \in Heads : ret'[k].paid >= ret[k].paid
    BY <1>3, <2>2, <2>4, <2>5 DEF Heads
  <2>7. call'[w].at = "none" /\ UNCHANGED <<withheld, remitted, failures>>
    BY <1>1, <1>6, Ended DEF HeadWrite
  <2>8. failures = 0 => withheld = ret["WHT"].due /\ \A k \in Heads : remitted[k] = ret[k].paid
    BY <1>1, <1>2, <2>1 DEF ReturnsWritten, ReturnsSettled, Heads
  <2>9. failures = 0 => withheld = ret'["WHT"].due /\ \A k \in Heads : remitted[k] = ret'[k].paid
    BY <2>5, <2>8 DEF Heads
  <2> QED
    BY <1>4, <2>5, <2>6, <2>7, <2>9 DEF ReturnFine
<1>7. ASSUME NEW h \in Heads, saw.head = h, RemitWrite(w)
      PROVE  (\A k \in Heads : ret'[k].paid >= ret[k].paid) /\ ReturnFine(w)'
  <2> DEFINE old == ret[h]
             paid == old.paid + 1
             to == State(old.due, old.paid + 1)
  <2>1. at = "remitWrite" /\ saw.row = old
    BY <1>1, <1>7 DEF RemitWrite, In, ReturnKnows
  <2>2. old.due \in Nat /\ old.paid \in Nat /\ paid \in Nat /\ paid >= old.paid
    BY <1>2
  <2>3. ret' = [ret EXCEPT ![h].paid = paid, ![h].status = to]
    BY <1>7, <2>1 DEF RemitWrite
  <2>4. to \in ReturnStatuses /\ to # "NONE" /\ (to = "PAID" <=> paid >= old.due)
    BY <2>2, PaidIs, StateIs
  <2>5. /\ ret' \in [Heads -> Row]
        /\ \A k \in Heads \ {h} : ret'[k] = ret[k]
        /\ ret'[h].due = old.due /\ ret'[h].paid = paid /\ ret'[h].status = to
    <3> HIDE DEF to, paid
    <3> QED
      BY <1>1, <2>2, <2>3, <2>4 DEF Row
  <2>6. StatusTells' /\ \A k \in Heads : ret'[k].paid >= ret[k].paid
    BY <1>3, <2>2, <2>4, <2>5
  <2>7. call'[w].at = "none" /\ UNCHANGED <<withheld, remitted, failures>>
    BY <1>1, <1>7, Ended DEF RemitWrite
  <2>8. failures = 0 => /\ withheld = ret["WHT"].due
                        /\ \A k \in Heads : remitted[k] = IF k = h THEN paid ELSE ret[k].paid
    BY <1>1, <1>2, <1>7, <2>1 DEF ReturnsWritten, ReturnsSettled, Heads
  <2>9. failures = 0 => withheld = ret'["WHT"].due /\ \A k \in Heads : remitted[k] = ret'[k].paid
    <3>1. \A k \in Heads : ret'[k].due = ret[k].due /\ ret'[k].paid = IF k = h THEN paid ELSE ret[k].paid
      BY <2>5
    <3> QED
      BY <2>8, <3>1 DEF Heads
  <2> QED
    BY <1>4, <2>5, <2>6, <2>7, <2>9 DEF ReturnFine
<1>8. CASE RemitWrite(w)
  <2>1. saw.head \in Heads
    BY <1>1, <1>8 DEF RemitWrite, In, ReturnCall
  <2> QED
    BY <1>7, <1>8, <2>1
<1>9. CASE PersistWrite(w)
  <2>1. at = "persist" /\ saw = ret /\ UNCHANGED <<withheld, remitted>>
    BY <1>1, <1>9 DEF PersistWrite, In, ReturnKnows
  <2>2. CASE Done(w) /\ UNCHANGED ret
    <3>1. call'[w].at = "none" /\ UNCHANGED failures
      BY <1>1, <2>2, Ended
    <3>2. StatusTells' /\ ReturnKnows(w)'
      BY <1>1, <2>2, <3>1 DEF StatusTells, Exists, ReturnKnows
    <3>3. ReturnsWritten(w)'
      BY <1>1, <2>1, <2>2, <3>1 DEF ReturnsWritten, ReturnsSettled
    <3> QED
      BY <1>2, <2>2, <3>2, <3>3 DEF ReturnFine
  <2>3. ASSUME NEW h \in Heads,
               ret' = [ret EXCEPT ![h].status = State(ret[h].due, ret[h].paid)],
               Step(w, "persist", [saw EXCEPT ![h].status = State(ret[h].due, ret[h].paid)])
        PROVE  (\A k \in Heads : ret'[k].paid >= ret[k].paid) /\ ReturnFine(w)'
    <3> DEFINE to == State(ret[h].due, ret[h].paid)
    <3>1. call'[w].at = "persist" /\ call'[w].saw = ret' /\ UNCHANGED failures
      BY <1>1, <2>1, <2>3, Stepped
    <3>2. to \in ReturnStatuses /\ to # "NONE" /\ (to = "PAID" <=> ret[h].paid >= ret[h].due)
      BY <1>2, PaidIs, StateIs
    <3>3. ret' = [ret EXCEPT ![h].status = to]
      BY <2>3
    <3>4. /\ \A k \in Heads \ {h} : ret'[k] = ret[k]
          /\ ret'[h].due = ret[h].due /\ ret'[h].paid = ret[h].paid /\ ret'[h].status = to
      <4> HIDE DEF to
      <4> QED
        BY <1>1, <3>2, <3>3 DEF Row
    <3>5. StatusTells' /\ \A k \in Heads : ret'[k].paid >= ret[k].paid
      BY <1>2, <1>3, <3>2, <3>4
    <3>6. \A k \in Heads : ret'[k].paid = ret[k].paid /\ ret'[k].due = ret[k].due
      BY <3>4
    <3>7. ReturnKnows(w)'
      BY <3>1 DEF ReturnKnows
    <3>8. ReturnsWritten(w)'
      BY <1>1, <2>1, <3>1, <3>6 DEF ReturnsWritten, ReturnsSettled, Heads
    <3> QED
      BY <3>5, <3>7, <3>8 DEF ReturnFine
  <2> QED
    BY <1>9, <2>1, <2>2, <2>3 DEF PersistWrite
<1> QED
  BY <1>5, <1>6, <1>8, <1>9

LEMMA ReturnsGoOnAlone ==
    ASSUME ReturnInv, OneAtATime, ReturnAlone, ReturnsNext
    PROVE  ReturnsKept /\ OneAtATime' /\ ReturnAlone'
<1>1. Engine /\ \A h \in Heads : ret[h].paid \in Nat
  BY DEF ReturnInv, Row
<1>2. CASE (\E s \in Sites : RunApproved(s)) \/ DeadlinePasses
  <2>1. UNCHANGED <<status, task, delivered, call, failures, subject, overlapped, ret, withheld, remitted>>
    BY <1>2 DEF RunApproved, DeadlinePasses, handlerVars, outcomeVars
  <2>2. OneAtATime' /\ ReturnsKept
    BY <1>1, <2>1 DEF OneAtATime, Free, ReturnsKept
  <2>3. ReturnAlone'
    BY <2>1 DEF ReturnAlone, ReturnKnows, ReturnsSettled, Exists, AllFree, Free
  <2> QED
    BY <2>2, <2>3
<1>3. ASSUME NEW w \in Workers, ReturnsStep(w)
      PROVE  ReturnsKept /\ OneAtATime' /\ ReturnAlone'
  <2>1. Acts(w)
    BY <1>3 DEF Acts, ReturnsStep, Payable, WhtFind, WhtWrite, PostRuns, HeadFind, HeadWrite,
                RemitRead, RemitCreate, RemitWrite, PersistRead, PersistWrite, In
  <2>2. Solo(w) /\ OneAtATime'
    BY <1>1, <2>1, AloneActs
  <2>3. ASSUME ~overlapped' PROVE (\A h \in Heads : ret'[h].paid >= ret[h].paid) /\ ReturnFine(w)'
    <3>1. ReturnFine(w)
      BY <2>2, <2>3, ReturnNow
    <3>2. CASE UNCHANGED ret /\ ReturnFine(w)'
      BY <1>1, <3>2
    <3> QED
      BY <1>3, <3>1, <3>2, ReturnReadsAlone, ReturnWritesAlone DEF ReturnsStep
  <2> QED
    BY <2>2, <2>3, ReturnThen DEF ReturnsKept
<1> QED
  BY <1>2, <1>3 DEF ReturnsNext

LEMMA ReturnsStartAlone == HandlersInit /\ ReturnsInit => ReturnAlone
<1> SUFFICES ASSUME HandlersInit, ReturnsInit PROVE ReturnAlone
  OBVIOUS
<1>1. \A w \in Workers : call[w].at = "none" /\ Free(w)
  BY DEF HandlersInit, RequestsInit, OutcomesInit, NoCall, NoTask, Free
<1> QED
  BY <1>1 DEF ReturnsInit, ReturnAlone, ReturnKnows, ReturnsSettled, NoReturn, Exists, Heads

LEMMA ReturnsAgreeAlone == ASSUME ReturnInv, ReturnAlone PROVE ReturnsAgree
<1>1. /\ ret["WHT"].due \in Nat
      /\ \A h \in Heads : ret[h].paid \in Nat
  BY DEF ReturnInv, Row, Heads
<1> QED
  BY <1>1 DEF ReturnAlone, ReturnsAgree, AtRest, Orderly, ReturnsSettled

-----------------------------------------------------------------------------
(* The sum of the allowances of a month: an induction over the sets of them *)
(* that are summed, as a smallest set for which something fails.            *)

\* What the sum over a finite set is made of.
SumStep(g, s) == IF s = {} THEN 0 ELSE LET x == CHOOSE x \in s : TRUE IN x.days + g[s \ {x}]

LEMMA SumUnfolds ==
    ASSUME NEW S, IsFiniteSet(S)
    PROVE  \E g : /\ \A s \in SUBSET S : g[s] = SumStep(g, s)
                  /\ MapThenSumSet(LAMBDA a : a.days, S) = g[S]
<1> DEFINE Upto(n) == \E g : DOMAIN g = SUBSET S /\ \A s \in SUBSET S : Cardinality(s) <= n => g[s] = SumStep(g, s)
           N == {n \in Nat : Upto(n)}
<1>1. \A s \in SUBSET S : IsFiniteSet(s) /\ Cardinality(s) \in Nat /\ (Cardinality(s) = 0 <=> s = {})
  BY FS_Subset, FS_CardinalityType, FS_EmptySet
<1>2. \A s \in SUBSET S : s # {} =>
        LET x == CHOOSE x \in s : TRUE
        IN  s \ {x} \in SUBSET S /\ Cardinality(s \ {x}) = Cardinality(s) - 1
  <2> TAKE s \in SUBSET S
  <2> HAVE s # {}
  <2> DEFINE x == CHOOSE x \in s : TRUE
  <2>1. x \in s
    OBVIOUS
  <2> HIDE DEF x
  <2> QED
    BY <1>1, <2>1, FS_RemoveElement DEF x
<1>3. Upto(0)
  <2> DEFINE g == [s \in SUBSET S |-> 0]
  <2>1. \A s \in SUBSET S : Cardinality(s) <= 0 => g[s] = SumStep(g, s)
    BY <1>1 DEF SumStep
  <2> QED
    BY <2>1
<1>4. ASSUME NEW n \in Nat, Upto(n) PROVE Upto(n + 1)
  <2>1. PICK g : DOMAIN g = SUBSET S /\ \A s \in SUBSET S : Cardinality(s) <= n => g[s] = SumStep(g, s)
    BY <1>4
  <2> DEFINE h == [s \in SUBSET S |-> IF Cardinality(s) <= n THEN g[s] ELSE SumStep(g, s)]
  <2>2. \A s \in SUBSET S : Cardinality(s) <= n + 1 => h[s] = SumStep(h, s)
    <3> TAKE s \in SUBSET S
    <3> HAVE Cardinality(s) <= n + 1
    <3>1. h[s] = SumStep(g, s)
      BY <2>1
    <3>2. SumStep(g, s) = SumStep(h, s)
      <4> DEFINE x == CHOOSE x \in s : TRUE
      <4>1. s # {} => s \ {x} \in SUBSET S /\ Cardinality(s \ {x}) <= n
        BY <1>1, <1>2
      <4>2. s # {} => h[s \ {x}] = g[s \ {x}]
        BY <4>1
      <4> HIDE DEF h
      <4> QED
        BY <4>2 DEF SumStep
    <3> QED
      BY <3>1, <3>2
  <2>3. DOMAIN h = SUBSET S
    OBVIOUS
  <2> HIDE DEF h
  <2> QED
    BY <2>2, <2>3
<1>5. Cardinality(S) \in N
  <2>1. 0 \in N
    BY <1>3
  <2>2. \A n \in Nat : n \in N => n + 1 \in N
    <3> HIDE DEF Upto
    <3> QED
      BY <1>4
  <2> HIDE DEF N
  <2> QED
    BY <1>1, <2>1, <2>2, NatSet
<1>6. PICK g : DOMAIN g = SUBSET S /\ \A s \in SUBSET S : Cardinality(s) <= Cardinality(S) => g[s] = SumStep(g, s)
  BY <1>5
<1>7. \A s \in SUBSET S : Cardinality(s) <= Cardinality(S)
  BY FS_Subset
<1> DEFINE P(f) == f = [s \in SUBSET S |-> SumStep(f, s)]
           f == CHOOSE f : P(f)
<1>8. \E h : P(h)
  <2> DEFINE h == [s \in SUBSET S |-> g[s]]
  <2>1. \A s \in SUBSET S : h[s] = SumStep(h, s)
    <3> TAKE s \in SUBSET S
    <3>1. g[s] = SumStep(g, s)
      BY <1>6, <1>7
    <3>2. SumStep(g, s) = SumStep(h, s)
      BY <1>2 DEF SumStep
    <3> QED
      BY <3>1, <3>2
  <2>2. h = [s \in SUBSET S |-> h[s]]
    OBVIOUS
  <2> HIDE DEF h
  <2>3. P(h)
    BY <2>1, <2>2
  <2> QED
    BY <2>3
<1>9. P(f)
  <2> HIDE DEF P
  <2> QED
    BY <1>8
<1>10. MapThenSumSet(LAMBDA a : a.days, S) = f[S]
  BY DEF MapThenSumSet, MapThenFoldSet, SumStep
<1>11. \A s \in SUBSET S : f[s] = SumStep(f, s)
  <2> HIDE DEF f
  <2> QED
    BY <1>9
<1> HIDE DEF f
<1> QED
  BY <1>10, <1>11

\* What pays for days that do not meet pays for no more days than there are.
LEMMA SumFits ==
    ASSUME NEW B, IsFiniteSet(B), NEW M, IsFiniteSet(M), NEW D,
           \A b \in B : D[b] \subseteq M /\ b.days = Cardinality(D[b]),
           \A b, c \in B : b # c => D[b] \cap D[c] = {}
    PROVE  MapThenSumSet(LAMBDA a : a.days, B) <= Cardinality(M)
<1>1. PICK g : /\ \A s \in SUBSET B : g[s] = SumStep(g, s)
               /\ MapThenSumSet(LAMBDA a : a.days, B) = g[B]
  BY SumUnfolds
<1> DEFINE U(s) == UNION {D[b] : b \in s}
           T == {s \in SUBSET B : g[s] # Cardinality(U(s))}
           R == StrictSubsetOrdering(B)
<1>2. T = {}
  <2> SUFFICES ASSUME T # {} PROVE FALSE
    OBVIOUS
  <2>1. IsWellFoundedOn(R, SUBSET B)
    BY FS_StrictSubsetOrderingWellFounded, FS_FiniteSubsetsOfFinite
  <2>2. PICK s \in T : \A t \in T : ~(<<t, s>> \in R)
    <3>1. T \subseteq SUBSET B
      OBVIOUS
    <3> HIDE DEF T, R
    <3> QED
      BY <2>1, <3>1, WFMin
  <2>3. s # {}
    <3>1. U({}) = {}
      OBVIOUS
    <3>2. {} \in SUBSET B /\ SumStep(g, {}) = 0
      BY DEF SumStep
    <3>3. g[{}] = 0
      BY <1>1, <3>2
    <3> HIDE DEF U
    <3> QED
      BY <3>1, <3>3, FS_EmptySet
  <2> DEFINE x == CHOOSE x \in s : TRUE
             t == s \ {x}
  <2>4. x \in s /\ x \in B
    BY <2>3
  <2>5. g[s] = x.days + g[t]
    BY <1>1, <2>3 DEF SumStep
  <2> HIDE DEF x
  <2>6. t \in SUBSET B /\ t \subseteq s /\ t # s
    BY <2>4
  <2>7. g[t] = Cardinality(U(t))
    BY <2>2, <2>6 DEF StrictSubsetOrdering
  <2>8. IsFiniteSet(D[x]) /\ IsFiniteSet(U(t))
    <3>1. D[x] \subseteq M /\ U(t) \subseteq M
      BY <2>4, <2>6
    <3> HIDE DEF U
    <3> QED
      BY <3>1, FS_Subset
  <2>9. U(s) = D[x] \cup U(t) /\ D[x] \cap U(t) = {}
    BY <2>4
  <2>10. Cardinality(U(s)) = Cardinality(D[x]) + Cardinality(U(t))
    <3> HIDE DEF U
    <3>1. Cardinality(D[x] \cap U(t)) = 0 /\ Cardinality(D[x]) \in Nat /\ Cardinality(U(t)) \in Nat
      BY <2>8, <2>9, FS_EmptySet, FS_CardinalityType
    <3>2. Cardinality(D[x] \cup U(t)) = Cardinality(D[x]) + Cardinality(U(t)) - Cardinality(D[x] \cap U(t))
      BY <2>8, FS_Union
    <3>3. Cardinality(U(s)) = Cardinality(D[x] \cup U(t))
      BY <2>9
    <3> QED
      BY <3>1, <3>2, <3>3
  <2>11. g[s] = Cardinality(U(s))
    <3> HIDE DEF U
    <3> QED
      BY <2>4, <2>5, <2>7, <2>10
  <2> QED
    BY <2>11
<1>3. g[B] = Cardinality(U(B))
  BY <1>2
<1>4. U(B) \subseteq M
  OBVIOUS
<1> HIDE DEF U
<1> QED
  BY <1>1, <1>3, <1>4, FS_Subset

LEMMA AllowancesFitAlone == ASSUME AdjustmentInv, ActingApart PROVE AllowancesFit
<1> SUFFICES ASSUME ~overlapped, NEW m \in Months
             PROVE  MapThenSumSet(LAMBDA a : a.days, {b \in BagToSet(allowances) : b.month = m})
                      <= MonthEnds[m] - MonthStart(m) + 1
  BY DEF AllowancesFit
<1> DEFINE B == {b \in BagToSet(allowances) : b.month = m}
           M == MonthStart(m) .. MonthEnds[m]
           D == [b \in B |-> {d \in Days :
                   acting[b.assignment].from <= d /\ d <= acting[b.assignment].to
                   /\ MonthStart(b.month) <= d /\ d <= MonthEnds[b.month]}]
<1>1. MonthStart(m) \in Nat /\ MonthEnds[m] \in Nat /\ MonthStart(m) <= MonthEnds[m]
  <2>1. /\ m \in DOMAIN MonthEnds /\ m \in Nat /\ MonthEnds[m] \in Nat \ {0}
        /\ m # 1 => m - 1 \in DOMAIN MonthEnds /\ m - 1 < m
    BY AdjustmentsAssumption DEF Months
  <2>2. m # 1 => MonthEnds[m - 1] \in Nat /\ MonthEnds[m - 1] < MonthEnds[m]
    BY <2>1, AdjustmentsAssumption
  <2> QED
    BY <2>1, <2>2 DEF MonthStart
<1>2. IsFiniteSet(M) /\ Cardinality(M) = MonthEnds[m] - MonthStart(m) + 1
  <2> DEFINE start == MonthStart(m)
             end == MonthEnds[m]
  <2>1. start \in Int /\ end \in Int /\ start <= end
    BY <1>1
  <2> HIDE DEF start, end
  <2>2. IsFiniteSet(start..end) /\ Cardinality(start..end) = IF start > end THEN 0 ELSE end - start + 1
    BY <2>1, FS_Interval
  <2>3. Cardinality(start..end) = end - start + 1
    BY <2>1, <2>2
  <2> QED
    BY <2>2, <2>3 DEF start, end
<1>3. IsFiniteSet(B)
  <2>1. B \subseteq BagToSet(allowances) /\ IsFiniteSet(BagToSet(allowances))
    BY DEF AdjustmentInv, ActingPays
  <2> HIDE DEF B
  <2> QED
    BY <2>1, FS_Subset
<1>4. \A b \in B : D[b] \subseteq M /\ b.days = Cardinality(D[b])
  <2>1. \A b \in B : b.days = Cardinality(D[b])
    BY PaidAsOwed DEF AdjustmentsAuthorised
  <2>2. \A b \in B : \A d \in Days :
          MonthStart(b.month) <= d /\ d <= MonthEnds[b.month] => d \in M
    BY <1>1, MonthsAreDays DEF Days
  <2> QED
    BY <2>1, <2>2
<1>5. ASSUME NEW b \in B, NEW c \in B, b # c PROVE D[b] \cap D[c] = {}
  <2> DEFINE x == b.assignment
             y == c.assignment
  <2>1. Earned(b) /\ Earned(c)
    BY DEF AdjustmentInv, ActingPays
  <2>2. x \in Assignments /\ y \in Assignments /\ acting[x].status # "NONE" /\ acting[y].status # "NONE"
    BY <2>1 DEF Earned
  <2>3. x # y
    BY <1>5, <2>1 DEF Earned
  <2>4. ~Meet(acting[y], acting[x].from, acting[x].to)
    BY <2>2, <2>3 DEF ActingApart
  <2>5. /\ acting[x].from \in Days /\ acting[x].to \in Days
        /\ acting[y].from \in Days /\ acting[y].to \in Days
    BY <2>2 DEF AdjustmentInv, ActingPays
  <2>6. \A d \in Days : ~(/\ acting[x].from <= d /\ d <= acting[x].to
                          /\ acting[y].from <= d /\ d <= acting[y].to)
    <3>1. \A d \in Days : d \in Nat
      BY MonthsAreDays DEF Days
    <3> QED
      BY <2>2, <2>4, <2>5, <3>1 DEF Meet
  <2> QED
    BY <2>6
<1> HIDE DEF B, M, D
<1>6. MapThenSumSet(LAMBDA a : a.days, B) <= Cardinality(M)
  BY <1>2, <1>3, <1>4, <1>5, SumFits
<1> QED
  BY <1>2, <1>6 DEF B

-----------------------------------------------------------------------------
(* Types: what the invariants above do not say of them. *)

LEMMA ActsStay ==
    ASSUME Engine, NEW w \in Workers, Acts(w)
    PROVE  \A v \in Workers \ {w} : call'[v] = call[v] /\ task'[v] = task[v]
<1>1. /\ call' = call \/ \E r : call' = [call EXCEPT ![w] = r]
      /\ task' = task \/ \E t : task' = [task EXCEPT ![w] = t]
  BY DEF Acts, Begin, Step, Done, Route, Open, DecideChain, Resolve, StartCallback, Deliver, EndCallback,
         Return, Crash, Stop, Go, Leave, outcomeVars
<1> QED
  BY <1>1 DEF Engine

PettyRest ==
    /\ locked \in BOOLEAN /\ leg \in {"NONE", "SUBMITTED", "POSTED"} \cup Outcomes
    /\ \A w \in Workers :
         /\ call[w].at = "count" => call[w].saw.locked \in BOOLEAN
         /\ call[w].at = "mirrorLeg" => task[w].phase = "calling"

LEMMA PettyRestGoesOn == ASSUME PettyInv, PettyRest, PettyNext PROVE PettyRest'
<1>1. Engine
  BY DEF PettyInv
<1>2. CASE ThresholdMoves
  BY <1>2 DEF ThresholdMoves, PettyRest, handlerVars, outcomeVars
<1>3. ASSUME NEW w \in Workers, PettyRequested(w) \/ PettyProceeds(w) \/ (Crash(w) /\ UNCHANGED pettyVars)
      PROVE  PettyRest'
  <2>1. \A v \in Workers \ {w} : call'[v] = call[v] /\ task'[v] = task[v]
    BY <1>1, <1>3, PettyActs, ActsStay
  <2> DEFINE Fine == /\ call'[w].at = "count" => call'[w].saw.locked \in BOOLEAN
                     /\ call'[w].at = "mirrorLeg" => task'[w].phase = "calling"
  <2>2. Fine /\ locked' \in BOOLEAN /\ leg' \in {"NONE", "SUBMITTED", "POSTED"} \cup Outcomes => PettyRest'
    BY <2>1 DEF PettyRest
  <2>3. CASE UNCHANGED <<locked, leg>> /\ call'[w].at \notin {"count", "mirrorLeg"}
    BY <2>2, <2>3 DEF PettyRest
  <2>4. CASE CountRead(w)
    BY <1>1, <2>2, <2>4, Began DEF CountRead, pettyVars, PettyRest
  <2>5. CASE MirrorTxn(w)
    <3>1. task[w].phase = "calling"
      BY <2>5 DEF MirrorTxn, In, PettyInv, PostingCall
    <3>2. call'[w].at \in {"mirrorLeg", "none"} /\ UNCHANGED task
      BY <1>1, <2>5, Stepped, Ended DEF MirrorTxn
    <3> QED
      BY <2>2, <2>5, <3>1, <3>2 DEF MirrorTxn, PettyRest
  <2>6. CASE CreateLeg(w) \/ PostLeg(w)
    <3>1. call'[w].at \in {"route", "none"}
      BY <1>1, <2>6, Stepped, Ended DEF CreateLeg, PostLeg
    <3> QED
      BY <2>2, <2>6, <3>1 DEF CreateLeg, PostLeg, PettyRest
  <2>7. CASE MirrorLeg(w)
    <3>1. call'[w].at = "none" /\ task[w].outcome \in Outcomes
      BY <1>1, <2>7, Ended DEF MirrorLeg, In, PettyRest, Engine
    <3> QED
      BY <2>2, <2>7, <3>1 DEF MirrorLeg, PettyRest
  <2>8. ASSUME NEW beyond \in BOOLEAN, CountWrite(w, beyond) PROVE PettyRest'
    <3>1. call'[w].at = "none" /\ call[w].saw.locked \in BOOLEAN
      BY <1>1, <2>8, Ended DEF CountWrite, In, PettyRest
    <3> QED
      BY <2>2, <2>8, <3>1 DEF CountWrite, PettyRest
  <2>9. CASE UnlockWrite(w)
    BY <1>1, <2>2, <2>9, Ended DEF UnlockWrite, PettyRest
  <2>10. CASE \/ CreateWithdrawal(w) \/ CreateConversion(w) \/ CreateTopUp(w) \/ UnlockRead(w)
              \/ \E u \in People : ConfirmRead(w, u)
    <3>1. /\ UNCHANGED pettyVars
          /\ \E at, saw : at \notin {"count", "mirrorLeg"} /\ Begin(w, at, saw)
      BY <2>10 DEF CreateWithdrawal, CreateConversion, CreateTopUp, CreateRead, UnlockRead, ConfirmRead
    <3>2. call'[w].at \notin {"count", "mirrorLeg"}
      BY <1>1, <3>1, Began
    <3> QED
      BY <2>3, <3>1, <3>2 DEF pettyVars
  <2>11. CASE \/ ThresholdRead(w) \/ CreateTxn(w) \/ ConfirmFloat(w) \/ ConfirmThreshold(w)
              \/ ApprovedRead(w) \/ PostStatus(w) \/ PostToLedger(w)
    <3>1. UNCHANGED <<locked, leg>>
      BY <2>11 DEF ThresholdRead, CreateTxn, ConfirmFloat, ConfirmThreshold, ApprovedRead, PostStatus,
                   PostToLedger, pettyVars
    <3>2. Done(w) \/ \E at, saw : at \notin {"count", "mirrorLeg"} /\ Step(w, at, saw)
      BY <2>11 DEF ThresholdRead, CreateTxn, ConfirmFloat, ConfirmThreshold, ApprovedRead, PostStatus,
                   PostToLedger
    <3>3. call'[w].at \notin {"count", "mirrorLeg"}
      BY <1>1, <3>2, Stepped, Ended
    <3> QED
      BY <2>3, <3>1, <3>3
  <2>12. CASE /\ UNCHANGED pettyVars
              /\ \/ \E c \in Chains : Route(w, c)
                 \/ \E c \in Chains, s \in Outcomes : DecideChain(w, c, s)
                 \/ StartCallback(w, "approved", "mirrorTxn") \/ EndCallback(w) \/ Crash(w)
    <3>1. call'[w].at \notin {"count", "mirrorLeg"}
      BY <1>1, <2>12
         DEF Route, DecideChain, Free, StartCallback, Go, EndCallback, In, Crash, Stop, Leave, NoCall, Engine
    <3> QED
      BY <2>3, <2>12, <3>1 DEF pettyVars
  <2> QED
    BY <1>3, <2>4, <2>5, <2>6, <2>7, <2>8, <2>9, <2>10, <2>11, <2>12 DEF PettyRequested, PettyProceeds
<1> QED
  BY <1>2, <1>3 DEF PettyNext

ReturnRest ==
    /\ withheld \in 0..MaxMoney
    /\ runs \subseteq Sites /\ posted \subseteq runs /\ late \in BOOLEAN
    /\ \A w \in Workers : call[w].at \in {"headFind", "headWrite"} => call[w].saw.sites \subseteq runs

LEMMA ReturnRestGoesOn == ASSUME Engine, ReturnRest, ReturnsNext PROVE ReturnRest'
<1>1. CASE DeadlinePasses \/ \E s \in Sites : RunApproved(s)
  BY <1>1 DEF DeadlinePasses, RunApproved, handlerVars, ReturnRest
<1>2. ASSUME NEW w \in Workers, ReturnsStep(w) PROVE ReturnRest'
  <2>1. Acts(w)
    BY <1>2 DEF Acts, ReturnsStep, Payable, WhtFind, WhtWrite, PostRuns, HeadFind, HeadWrite,
                RemitRead, RemitCreate, RemitWrite, PersistRead, PersistWrite, In
  <2>2. \A v \in Workers \ {w} : call'[v] = call[v]
    BY <2>1, ActsStay
  <2>3. UNCHANGED <<runs, late>>
    BY <1>2 DEF ReturnsStep, Payable, WhtFind, WhtWrite, PostRuns, HeadFind, HeadWrite,
                RemitRead, RemitCreate, RemitWrite, PersistRead, PersistWrite, returnVars
  <2>4. /\ withheld' \in 0..MaxMoney
        /\ UNCHANGED posted \/ (call[w].at = "headWrite" /\ posted' = call[w].saw.sites)
    <3>1. UNCHANGED withheld \/ (withheld < MaxMoney /\ withheld' = withheld + 1)
      BY <1>2 DEF ReturnsStep, Payable, WhtFind, WhtWrite, PostRuns, HeadFind, HeadWrite,
                  RemitRead, RemitCreate, RemitWrite, PersistRead, PersistWrite, returnVars
    <3>2. UNCHANGED posted \/ (call[w].at = "headWrite" /\ posted' = call[w].saw.sites)
      BY <1>2 DEF ReturnsStep, Payable, WhtFind, WhtWrite, PostRuns, HeadFind, HeadWrite, In,
                  RemitRead, RemitCreate, RemitWrite, PersistRead, PersistWrite, returnVars
    <3> QED
      BY <3>1, <3>2, ReturnsAssumption DEF ReturnRest
  <2>5. posted' \subseteq runs
    BY <2>4 DEF ReturnRest
  <2>6. call'[w].at \in {"headFind", "headWrite"} => call'[w].saw.sites \subseteq runs
    <3>1. CASE PostRuns(w, Sites) \/ \E s \in Sites : PostRuns(w, {s})
      <4>1. PICK sites : PostRuns(w, sites)
        BY <3>1
      <4>2. call'[w].saw = [sites |-> runs \cap sites]
        BY <4>1, Began DEF PostRuns
      <4> QED
        BY <4>2
    <3>2. CASE HeadFind(w)
      BY <3>2, Stepped DEF HeadFind, In, ReturnRest
    <3>3. CASE Payable(w) \/ PersistRead(w) \/ \E h \in Heads : RemitRead(w, h)
      <4>1. \E at, saw : at \notin {"headFind", "headWrite"} /\ Begin(w, at, saw)
        BY <3>3 DEF Payable, PersistRead, RemitRead
      <4> QED
        BY <4>1, Began
    <3>4. CASE \/ WhtFind(w) \/ WhtWrite(w) \/ HeadWrite(w)
               \/ RemitCreate(w) \/ RemitWrite(w) \/ PersistWrite(w)
      <4>1. Done(w) \/ \E at, saw : at \notin {"headFind", "headWrite"} /\ Step(w, at, saw)
        BY <3>4 DEF WhtFind, WhtWrite, HeadWrite, RemitCreate, RemitWrite, PersistWrite
      <4> QED
        BY <4>1, Stepped, Ended
    <3>5. CASE Crash(w)
      BY <3>5 DEF Crash, Stop, Leave, NoCall, Engine
    <3> QED
      BY <1>2, <3>1, <3>2, <3>3, <3>4, <3>5 DEF ReturnsStep
  <2> QED
    BY <2>2, <2>3, <2>4, <2>5, <2>6 DEF ReturnRest
<1> QED
  BY <1>1, <1>2 DEF ReturnsNext

AccrualRest ==
    /\ day \in 1..LastDay /\ active \in BOOLEAN /\ reds \in Nat /\ alerted \in Nat
    /\ order \in [received : Nat, serviced : BOOLEAN]

LEMMA AccrualRestGoesOn == ASSUME AccrualRest, LoanNext \/ DebtNext \/ HealthNext PROVE AccrualRest'
<1>1. CASE NightFalls
  BY <1>1, AccrualsAssumption DEF NightFalls, loanVars, debtVars, orderVars, AccrualRest
<1>2. CASE SettleLoan \/ PayDebt \/ ReceivePart \/ MarkServiced
  <2>1. /\ UNCHANGED <<day, reds, alerted>>
        /\ active' \in {active, FALSE}
        /\ \/ UNCHANGED order
           \/ order' = [order EXCEPT !.received = @ + 1] \/ order' = [order EXCEPT !.serviced = TRUE]
    BY <1>2 DEF SettleLoan, PayDebt, ReceivePart, MarkServiced, loanVars, debtVars, orderVars
  <2> DEFINE Orders == [received : Nat, serviced : BOOLEAN]
  <2>2. order' \in Orders
    <3>1. order \in Orders
      BY DEF AccrualRest
    <3>2. CASE order' = [order EXCEPT !.received = @ + 1]
      <4>1. order.received + 1 \in Nat
        BY <3>1
      <4> QED
        BY <3>1, <3>2, <4>1
    <3>3. CASE order' = [order EXCEPT !.serviced = TRUE]
      BY <3>1, <3>3
    <3> QED
      BY <2>1, <3>1, <3>2, <3>3
  <2> QED
    BY <2>1, <2>2 DEF AccrualRest
<1>3. ASSUME NEW w \in Workers,
             \/ AccrueRead(w) \/ AccrueWrite(w) \/ DebtRead(w) \/ DebtWrite(w)
             \/ RecalcRead(w) \/ RecalcWrite(w) \/ RaiseRedAlert(w) \/ UNCHANGED accrualVars
      PROVE  AccrualRest'
  <2>1. /\ UNCHANGED <<day, active, order>>
        /\ reds' \in {reds, reds + 1} /\ alerted' \in {alerted, alerted + 1}
    BY <1>3 DEF AccrueRead, AccrueWrite, DebtRead, DebtWrite, RecalcRead, RecalcWrite, RaiseRedAlert,
                accrualVars, loanVars, debtVars, orderVars, AccrualRest
  <2> QED
    BY <2>1 DEF AccrualRest
<1> QED
  BY <1>1, <1>2, <1>3 DEF LoanNext, DebtNext, HealthNext

-----------------------------------------------------------------------------
(* All of them at rest, and their types.                                   *)

\* The tables of the importer while it does nothing.
NothingImported ==
    /\ book \in Books /\ today = 1
    /\ db = [t \in Tables |-> <<>>] /\ imported = "no" /\ corrected = FALSE

RestInv ==
    /\ part \in Parts
    /\ IF part = "petty" THEN PettyRest ELSE PettyInit
    /\ IF part = "returns" THEN ReturnRest ELSE ReturnsInit
    /\ IF part \in {"loan", "debt", "health"} THEN AccrualRest ELSE AccrualsInit
    /\ IF part = "import" THEN ImportInv /\ RepeatInv ELSE NothingImported

LEMMA RestStarts == MoneyInit => RestInv
<1> SUFFICES ASSUME MoneyInit PROVE RestInv
  OBVIOUS
<1>1. PettyRest
  BY DEF MoneyInit, HandlersInit, RequestsInit, NoCall, PettyInit, PettyRest
<1>2. ReturnRest
  BY ReturnsAssumption DEF MoneyInit, HandlersInit, RequestsInit, NoCall, ReturnsInit, ReturnRest
<1>3. AccrualRest
  BY AccrualsAssumption DEF MoneyInit, AccrualsInit, AccrualRest
<1>4. ImportInv /\ RepeatInv
  BY ImportStarts, RepeatStarts DEF MoneyInit
<1>5. NothingImported
  BY DEF MoneyInit, ImportInit, NothingImported
<1> QED
  BY <1>1, <1>2, <1>3, <1>4, <1>5 DEF MoneyInit, RestInv

LEMMA RestGoesOn == MoneyInv /\ RestInv /\ [MoneyNext]_vars => RestInv'
<1> SUFFICES ASSUME MoneyInv, RestInv, [MoneyNext]_vars PROVE RestInv'
  OBVIOUS
<1>1. UNCHANGED importVars => (NothingImported => NothingImported')
  BY DEF NothingImported, importVars
<1>2. CASE UNCHANGED vars
  <2>1. UNCHANGED <<part, call, task, pettyVars, returnVars, accrualVars, importVars>>
    BY <1>2 DEF vars, handlerVars, outcomeVars
  <2>2. PettyRest => PettyRest'
    BY <2>1 DEF pettyVars, PettyRest
  <2>3. ReturnRest => ReturnRest'
    BY <2>1 DEF returnVars, ReturnRest
  <2>4. AccrualRest => AccrualRest'
    BY <2>1 DEF accrualVars, loanVars, orderVars, AccrualRest
  <2>5. ImportInv /\ RepeatInv => ImportInv' /\ RepeatInv'
    BY <2>1 DEF importVars, ImportInv, RepeatInv
  <2> QED
    BY <1>1, <2>1, <2>2, <2>3, <2>4, <2>5, IdleStay DEF RestInv
<1>3. CASE PettyPart
  BY <1>1, <1>3, IdleStay, PettyRestGoesOn DEF MoneyInv, RestInv, PettyPart
<1>4. CASE ReturnsPart
  BY <1>1, <1>4, IdleStay, ReturnRestGoesOn DEF MoneyInv, ReturnInv, RestInv, ReturnsPart
<1>5. CASE LoanPart \/ DebtPart \/ HealthPart
  BY <1>1, <1>5, IdleStay, AccrualRestGoesOn DEF RestInv, LoanPart, DebtPart, HealthPart
<1>6. CASE BudgetPart \/ BackPayPart \/ ActingPart \/ ReceiptsPart
  BY <1>1, <1>6, IdleStay DEF RestInv, BudgetPart, BackPayPart, ActingPart, ReceiptsPart
<1>7. CASE ImportPart
  BY <1>7, IdleStay, ImportGoesOn, RepeatGoesOn DEF RestInv, ImportPart
<1> QED
  BY <1>2, <1>3, <1>4, <1>5, <1>6, <1>7 DEF MoneyNext

LEMMA RestIsTyped == MoneyInv /\ RestInv => MoneyTypeOK
<1> SUFFICES ASSUME MoneyInv, RestInv PROVE MoneyTypeOK
  OBVIOUS
<1>1. PettyTypeOK
  <2>1. CASE part = "petty"
    BY <2>1 DEF MoneyInv, RestInv, PettyInv, PettyShape, PettyRest, PettyTypeOK
  <2>2. CASE part # "petty"
    <3>1. PettyInit
      BY <2>2 DEF MoneyInv
    <3>2. txn.status = "NONE"
      BY <3>1 DEF PettyInit, NoTxn
    <3> QED
      BY <3>1, <3>2 DEF PettyInit, PettyTypeOK
  <2> QED
    BY <2>1, <2>2
<1>2. BudgetTypeOK
  BY DEF MoneyInv, BudgetInv, BudgetInit, BudgetTypeOK, BudgetStatus
<1>3. AdjustmentTypeOK
  <2>1. CASE AdjustmentInv
    BY <2>1 DEF AdjustmentInv, BatchPays, ActingPays, Earned, AdjustmentTypeOK
  <2>2. CASE AdjustmentInit
    BY <2>2 DEF AdjustmentInit, AdjustmentTypeOK, Assignment, EmptyBag, SetToBag, BagToSet
  <2> QED
    BY <2>1, <2>2 DEF MoneyInv
<1>4. ReceiptsTypeOK
  BY DEF MoneyInv, ReceiptInv, ReceiptsInit, ReceiptsTypeOK
<1>5. ReturnsTypeOK
  <2>1. CASE part = "returns"
    BY <2>1 DEF MoneyInv, RestInv, ReturnInv, ReturnRest, Row, ReturnsTypeOK
  <2>2. CASE part # "returns"
    BY <2>2, ReturnsAssumption DEF MoneyInv, ReturnsInit, NoReturn, ReturnStatuses, ReturnsTypeOK
  <2> QED
    BY <2>1, <2>2
<1>6. AccrualsTypeOK
  <2>1. CASE part \in {"loan", "debt", "health"}
    <3>1. \A d \in accrued : d \in Nat \ {0} /\ d < day
      BY <2>1 DEF MoneyInv, AccrualInv, AccrualsFounded
    <3>2. day \in 1..LastDay
      BY <2>1 DEF RestInv, AccrualRest
    <3>3. accrued \subseteq 1..LastDay
      BY <3>1, <3>2, AccrualsAssumption
    <3>4. unpaid \in Nat /\ interest \in Nat /\ capped \in BOOLEAN
      BY <2>1 DEF MoneyInv, AccrualInv, Due
    <3> QED
      BY <2>1, <3>2, <3>3, <3>4 DEF RestInv, AccrualRest, AccrualsTypeOK
  <2>2. CASE part \notin {"loan", "debt", "health"}
    <3>1. AccrualsInit
      BY <2>2 DEF MoneyInv
    <3>2. day \in 1..LastDay /\ accrued \subseteq 1..LastDay
      BY <3>1, AccrualsAssumption DEF AccrualsInit
    <3>3. order.received = 0 /\ order.serviced = FALSE
      BY <3>1 DEF AccrualsInit
    <3>4. {active, capped, order.serviced} \subseteq BOOLEAN
      BY <3>1, <3>3, Zenon DEF AccrualsInit
    <3>5. {unpaid, interest, order.received, reds, alerted} \subseteq Nat
      BY <3>1, <3>3 DEF AccrualsInit, Due
    <3> QED
      BY <3>2, <3>4, <3>5 DEF AccrualsTypeOK
  <2> QED
    BY <2>1, <2>2
<1>7. ImportTypeOK
  <2>1. ASSUME NothingImported PROVE ImportTypeOK
    <3>1. DOMAIN db = Tables /\ \A t \in Tables : db[t] \in Seq(TableRow[t])
      BY <2>1 DEF NothingImported
    <3>2. today \in 1..LastImportDay
      BY <2>1, ImportAssumption DEF NothingImported
    <3> QED
      BY <2>1, <3>1, <3>2 DEF NothingImported, ImportTypeOK
  <2> QED
    BY <2>1, ImportIsTyped DEF RestInv
<1> QED
  BY <1>1, <1>2, <1>3, <1>4, <1>5, <1>6, <1>7 DEF RestInv, MoneyTypeOK

-----------------------------------------------------------------------------
(* All of them, one request at a time.  The importer has its own way of     *)
(* running alone, and nothing to say of the workers.                        *)

AloneInv ==
    /\ part # "import" => OneAtATime
    /\ part = "petty" => PettyAlone
    /\ part = "budgets" => BudgetAlone
    /\ part \in {"backPay", "acting"} => AdjustmentAlone
    /\ part = "receipts" => ReceiptAlone
    /\ part = "returns" => ReturnAlone
    /\ part \in {"loan", "debt", "health"} => HealthAlone

LEMMA AloneInvStarts == MoneyInit => AloneInv
BY AloneStarts, PettyStartsAlone, BudgetStartsAlone, AdjustmentsStartAlone, ReceiptsStartAlone,
   ReturnsStartAlone, AccrualsStartAlone
   DEF MoneyInit, AloneInv

LEMMA AloneInvStutters == UNCHANGED vars /\ AloneInv => AloneInv'
<1> SUFFICES ASSUME UNCHANGED vars, AloneInv PROVE AloneInv'
  OBVIOUS
<1>1. UNCHANGED <<part, outcomeVars, call, failures, subject, overlapped, pettyVars, budgetVars,
                  adjustmentVars, receiptVars, returnVars, accrualVars>>
  BY DEF vars, handlerVars
<1>2. (\A w \in Workers : Free(w) <=> Free(w)') /\ (AllFree <=> AllFree')
  BY <1>1 DEF Free, AllFree, outcomeVars
<1>3. OneAtATime => OneAtATime'
  BY <1>1, <1>2 DEF OneAtATime, outcomeVars, Free
<1>4. PettyAlone => PettyAlone'
  BY <1>1, <1>2
     DEF PettyAlone, OneVoucher, PettyKnows, PettySettled, Unopened, Calling, outcomeVars, pettyVars
<1>5. BudgetAlone => BudgetAlone'
  BY <1>1, <1>2
     DEF BudgetAlone, OneSubmission, Revised, BudgetKnows, BudgetsSettled, Resolved, Calling, AwaitedFor,
         outcomeVars, budgetVars
<1>6. AdjustmentAlone => AdjustmentAlone'
  BY <1>1
     DEF AdjustmentAlone, AdjustmentKnows, BackPayAgrees, ActingApart, Meet, adjustmentVars, batchVars, actingVars
<1>7. ReceiptAlone => ReceiptAlone'
  BY <1>1, <1>2 DEF ReceiptAlone, ReceiptKnows, ReceiptsSettled, receiptVars
<1>8. ReturnAlone => ReturnAlone'
  BY <1>1, <1>2 DEF ReturnAlone, ReturnKnows, ReturnsSettled, Exists, returnVars
<1>9. HealthAlone => HealthAlone'
  BY <1>1, <1>2 DEF HealthAlone, HealthSettled, accrualVars, orderVars
<1> QED
  BY <1>1, <1>3, <1>4, <1>5, <1>6, <1>7, <1>8, <1>9 DEF AloneInv

\* What is kept, of what the workers do.
Kept == PettyKept /\ BudgetsKept /\ AdjustmentsKept /\ ReturnsKept /\ AccrualsKept

\* A part that is idle keeps what it has.
LEMMA IdleKeep ==
    ASSUME MoneyInv
    PROVE  /\ UNCHANGED pettyVars => PettyKept
           /\ UNCHANGED budgetVars => BudgetsKept
           /\ UNCHANGED adjustmentVars => AdjustmentsKept
           /\ UNCHANGED returnVars => ReturnsKept
           /\ UNCHANGED accrualVars => AccrualsKept
<1>1. UNCHANGED pettyVars => PettyKept
  BY DEF pettyVars, PettyKept
<1>2. UNCHANGED budgetVars => BudgetsKept
  BY DEF budgetVars, BudgetsKept
<1>3. UNCHANGED adjustmentVars => AdjustmentsKept
  BY DEF adjustmentVars, batchVars, actingVars, AdjustmentsKept
<1>4. \A h \in Heads : ret[h].paid \in Nat
  BY DEF MoneyInv, ReturnInv, Row, ReturnsInit, NoReturn
<1>5. UNCHANGED returnVars => ReturnsKept
  BY <1>4 DEF returnVars, ReturnsKept
<1>6. UNCHANGED accrualVars => AccrualsKept
  BY DEF accrualVars, loanVars, orderVars, AccrualsKept
<1> QED
  BY <1>1, <1>2, <1>3, <1>5, <1>6

LEMMA AloneInvGoesOn == MoneyInv /\ AloneInv /\ [MoneyNext]_vars => Kept /\ AloneInv'
<1> SUFFICES ASSUME MoneyInv, AloneInv, [MoneyNext]_vars PROVE Kept /\ AloneInv'
  OBVIOUS
<1>1. CASE UNCHANGED vars
  BY <1>1, AloneInvStutters, IdleKeep DEF vars, Kept
<1>2. CASE PettyPart
  BY <1>2, PettyGoesOnAlone, IdleKeep DEF MoneyInv, AloneInv, Kept, PettyPart
<1>3. CASE BudgetPart
  BY <1>3, BudgetGoesOnAlone, IdleKeep DEF MoneyInv, AloneInv, Kept, BudgetPart
<1>4. CASE BackPayPart \/ ActingPart
  BY <1>4, AdjustmentsGoOnAlone, IdleKeep DEF MoneyInv, AloneInv, Kept, BackPayPart, ActingPart
<1>5. CASE ReceiptsPart
  BY <1>5, ReceiptsGoOnAlone, IdleKeep DEF MoneyInv, AloneInv, Kept, ReceiptsPart
<1>6. CASE ReturnsPart
  BY <1>6, ReturnsGoOnAlone, IdleKeep DEF MoneyInv, AloneInv, Kept, ReturnsPart
<1>7. CASE LoanPart \/ DebtPart \/ HealthPart
  BY <1>7, AccrualsGoOnAlone, IdleKeep DEF MoneyInv, AloneInv, Kept, LoanPart, DebtPart, HealthPart
<1>8. CASE ImportPart
  BY <1>8, IdleKeep DEF AloneInv, Kept, ImportPart
<1> QED
  BY <1>1, <1>2, <1>3, <1>4, <1>5, <1>6, <1>7, <1>8 DEF MoneyNext

LEMMA IdleAllowances == ASSUME AdjustmentInit PROVE AllowancesFit
<1>1. BagToSet(allowances) = {}
  BY DEF AdjustmentInit, EmptyBag, SetToBag, BagToSet
<1>2. MapThenSumSet(LAMBDA a : a.days, {}) = 0
  <2>1. PICK g : g[{}] = SumStep(g, {}) /\ MapThenSumSet(LAMBDA a : a.days, {}) = g[{}]
    BY SumUnfolds, FS_EmptySet
  <2> QED
    BY <2>1 DEF SumStep
<1>3. ASSUME NEW m \in Months PROVE 0 <= MonthEnds[m] - MonthStart(m) + 1
  <2>1. /\ m \in DOMAIN MonthEnds /\ m \in Nat /\ MonthEnds[m] \in Nat \ {0}
        /\ m # 1 => m - 1 \in DOMAIN MonthEnds /\ m - 1 < m
    BY <1>3, AdjustmentsAssumption DEF Months
  <2>2. m # 1 => MonthEnds[m - 1] \in Nat /\ MonthEnds[m - 1] < MonthEnds[m]
    BY <2>1, AdjustmentsAssumption
  <2> QED
    BY <2>1, <2>2 DEF MonthStart
<1>4. ASSUME NEW m \in Months PROVE {b \in BagToSet(allowances) : b.month = m} = {}
  BY <1>1
<1> QED
  BY <1>2, <1>3, <1>4 DEF AllowancesFit

LEMMA AloneInvAgrees == ASSUME MoneyInv, RestInv, AloneInv PROVE MoneyAgrees
<1>1. PettyAgrees
  <2>1. PettyInit => PettyAgrees
    BY DEF PettyInit, NoTxn, PettyAgrees
  <2> QED
    BY <2>1, PettyAgreesAlone DEF MoneyInv, AloneInv
<1>2. BudgetsAgree
  <2>1. BudgetInit => BudgetsAgree
    BY DEF BudgetInit, BudgetsAgree
  <2> QED
    BY <2>1, BudgetsAgreeAlone DEF MoneyInv, AloneInv
<1>3. AdjustmentsAgree
  <2>1. AdjustmentInit => BackPayAgrees /\ ActingApart
    BY DEF AdjustmentInit, BackPayAgrees, ActingApart
  <2>2. BackPayAgrees /\ ActingApart
    BY <2>1 DEF MoneyInv, AloneInv, AdjustmentAlone
  <2>3. AllowancesFit
    BY <2>2, AllowancesFitAlone, IdleAllowances DEF MoneyInv
  <2> QED
    BY <2>2, <2>3 DEF AdjustmentsAgree
<1>4. ReceiptsAgree
  <2>1. ReceiptsInit => ReceiptsAgree
    BY DEF ReceiptsInit, ReceiptsAgree
  <2> QED
    BY <2>1, ReceiptsAgreeAlone DEF MoneyInv, AloneInv
<1>5. ReturnsAgree
  <2>1. ReturnsInit => ReturnsAgree
    BY DEF ReturnsInit, NoReturn, ReturnsAgree, Heads, Exists
  <2> QED
    BY <2>1, ReturnsAgreeAlone DEF MoneyInv, AloneInv
<1>6. AccrualsAgree
  <2>1. AccrualsInit => AccrualsAgree
    BY DEF AccrualsInit, AccrualsAgree
  <2> QED
    BY <2>1, AccrualsAgreeAlone DEF MoneyInv, AloneInv
<1>7. ImportPosted /\ ImportComplete
  <2>1. ASSUME NothingImported PROVE ImportPosted /\ ImportComplete
    <3>1. db.claims = <<>> /\ db.receipts = <<>> /\ imported = "no"
      BY <2>1 DEF NothingImported, Tables
    <3> QED
      BY <3>1 DEF ImportPosted, ImportComplete
  <2> QED
    BY <2>1, ImportIsPosted, ImportIsComplete DEF RestInv
<1> QED
  BY <1>1, <1>2, <1>3, <1>4, <1>5, <1>6, <1>7 DEF MoneyAgrees

\* Every table of the services, and every table the importer writes from a
\* workbook of any length, has the shape its columns give it.
THEOREM MoneyTypeCorrect == Spec => []MoneyTypeOK
BY RestIsTyped, MoneyStarts, MoneyGoesOn, RestStarts, RestGoesOn, PTL DEF Spec

\* One request at a time, and none failed: both legs of a conversion, the float and its journal agree, a
\* version in force has superseded the one it revises and a submitted one waits
\* for an open approval, the approved batch has raised each employee once, no two
\* acting assignments meet and no month pays for more days than it has, every
\* receipt is posted once and to one account, every return counts what was
\* withheld and remitted, and every order that turned red raised its alert.  And
\* whatever failed: every receipt and claim imported has its journal, with its
\* own amount unless the workbook was corrected or has two rows about the order,
\* and no row of a workbook whose import has ended is lost.
THEOREM MoneyAgreesAlone == Spec => []MoneyAgrees
<1>1. MoneyInv /\ RestInv /\ AloneInv => MoneyAgrees
  BY AloneInvAgrees
<1>2. MoneyInv /\ AloneInv /\ [MoneyNext]_vars => AloneInv'
  BY AloneInvGoesOn
<1> QED
  BY <1>1, <1>2, MoneyStarts, MoneyGoesOn, RestStarts, RestGoesOn, AloneInvStarts, PTL DEF Spec

\* Unless requests overlap, no step of a request undoes what is final: a
\* transaction posted, a batch or an assignment approved, a version in force or
\* superseded, what was paid to an office, an order paid; the days a loan bore
\* interest for stay accrued however requests overlap.  And importing a workbook
\* of exact rows again, of any length and on any day, changes no table.
THEOREM MoneyStays == Spec => MoneyKept
<1>1. MoneyInv /\ RestInv /\ AloneInv /\ [MoneyNext]_vars =>
          [/\ PettyKept /\ BudgetsKept /\ AdjustmentsKept
           /\ ReturnsKept /\ AccrualsKept /\ ImportRepeats]_vars
  <2>1. RestInv /\ ImportPart => ImportRepeats
    BY RepeatGoesOn DEF RestInv, ImportPart
  <2>2. [MoneyNext]_vars /\ ~ImportPart => UNCHANGED db
    BY DEF MoneyNext, PettyPart, BudgetPart, BackPayPart, ActingPart, ReceiptsPart, ReturnsPart,
           LoanPart, DebtPart, HealthPart, vars, importVars
  <2>3. UNCHANGED db => ImportRepeats
    BY DEF ImportRepeats
  <2> QED
    BY <2>1, <2>2, <2>3, AloneInvGoesOn DEF Kept
<1>2. MoneyInv /\ AloneInv /\ [MoneyNext]_vars => AloneInv'
  BY AloneInvGoesOn
<1> QED
  BY <1>1, <1>2, MoneyStarts, MoneyGoesOn, RestStarts, RestGoesOn, AloneInvStarts, PTL DEF Spec, MoneyKept

=============================================================================
