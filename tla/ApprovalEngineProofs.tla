------------------------ MODULE ApprovalEngineProofs ------------------------
(***************************************************************************)
(* Proofs about ApprovalEngine, for every matrix, every set of users and   *)
(* delegations, any number of chains and of overlapping requests, and with *)
(* requests that fail at any point.                                        *)
(***************************************************************************)
EXTENDS ApprovalEngine, FiniteSetTheorems, WellFoundedInduction, TLAPS

-----------------------------------------------------------------------------
(* Lemmas about the operators. *)

\* The least element of a non-empty set of naturals is one, and is least.
LEMMA MinOfNaturals ==
    ASSUME NEW S \in SUBSET Nat, S # {}
    PROVE  Min(S) \in S /\ \A x \in S : Min(S) <= x
<1> DEFINE LessThan == {ss \in Nat \X Nat : ss[1] < ss[2]}
<1>1. IsWellFoundedOn(LessThan, Nat)
  BY NatLessThanWellFounded DEF OpToRel
<1>2. \E x \in S : \A y \in S : ~ (<<y, x>> \in LessThan)
  <2> HIDE DEF LessThan
  <2> QED BY <1>1, WFMin
<1>3. \A x, y \in S : y < x => <<y, x>> \in LessThan
  OBVIOUS
<1>4. \E x \in S : \A y \in S : x <= y
  <2>1. PICK x \in S : \A y \in S : ~ (<<y, x>> \in LessThan)
    BY <1>2
  <2>2. \A y \in S : ~ (y < x)
    BY <2>1, <1>3, Zenon
  <2>3. \A y \in S : x \in Nat /\ y \in Nat
    OBVIOUS
  <2> QED
    BY <2>2, <2>3
<1> QED
  BY <1>4 DEF Min

\* A step order that is satisfied stays so when more steps are approved.
LEMMA SatisfiedMonotone ==
    ASSUME NEW mode, NEW here, NEW A, NEW B, A \subseteq B, Satisfied(mode, here, A)
    PROVE  Satisfied(mode, here, B)
BY DEF Satisfied

\* Matching picks rows of the matrix; the orders of rows are naturals.
LEMMA OrdersAreNaturals ==
    ASSUME NEW S \in SUBSET Rules
    PROVE  /\ Orders(S) \subseteq Nat \ {0}
           /\ S # {} => Orders(S) # {}
BY TablesAssumption DEF Orders, RuleRow

LEMMA FirstOrder ==
    ASSUME NEW S \in SUBSET Rules, S # {}
    PROVE  /\ Min(Orders(S)) \in Nat
           /\ \A o \in Orders(S) : ~ (o < Min(Orders(S)))
<1>1. Orders(S) \subseteq Nat /\ Orders(S) # {}
  BY OrdersAreNaturals
<1>2. Min(Orders(S)) \in Orders(S) /\ \A o \in Orders(S) : Min(Orders(S)) <= o
  BY <1>1, MinOfNaturals
<1> QED
  BY <1>1, <1>2

LEMMA NextOrder ==
    ASSUME NEW S \in SUBSET Rules, NEW cur \in Nat, Later(S, cur) # {}
    PROVE  /\ Min(Later(S, cur)) \in Nat
           /\ \A o \in Orders(S) : o < Min(Later(S, cur)) => o <= cur
<1>1. Later(S, cur) \subseteq Nat /\ Orders(S) \subseteq Nat
  BY OrdersAreNaturals DEF Later
<1>2. /\ Min(Later(S, cur)) \in Later(S, cur)
      /\ \A o \in Later(S, cur) : Min(Later(S, cur)) <= o
  BY <1>1, MinOfNaturals
<1> QED
  BY <1>1, <1>2 DEF Later

\* Whoever may decide a step and is not the requester holds the role, is told as the
\* delegate of a holder who is, or stands in for the requester.
LEMMA AbleOrTold ==
    ASSUME NEW u \in Users, NEW role, NEW site, NEW requester, NEW t,
           u # requester, MayDecide(u, role, site, t)
    PROVE  u \in Approvers(role, site, requester, t) \cup DelegatesFor({requester}, t)
<1>1. PICK p \in {u} \cup DelegatorsOf(u, t) : HoldsRole(p, role, site)
  BY DEF MayDecide
<1>2. CASE p = u
  BY <1>1, <1>2 DEF Approvers
<1>3. CASE p \in DelegatorsOf(u, t)
  <2>1. PICK d \in Delegations : d.delegate = u /\ d.approver = p /\ d.from <= t /\ t <= d.to
    BY <1>3 DEF DelegatorsOf
  <2>2. p \in Users
    BY <2>1, PeopleAssumption
  <2> QED
    BY <1>1, <2>1, <2>2 DEF Approvers, DelegatesFor
<1> QED
  BY <1>1, <1>2, <1>3

\* Whoever is told is a user who may decide.
LEMMA ToldIsAble ==
    ASSUME NEW role, NEW site, NEW requester, NEW t,
           NEW u \in Approvers(role, site, requester, t)
    PROVE  u \in Users /\ u # requester /\ MayDecide(u, role, site, t)
<1>1. CASE u \in Users /\ HoldsRole(u, role, site)
  BY <1>1 DEF Approvers, MayDecide
<1>2. ASSUME NEW d \in Delegations, d.delegate = u, HoldsRole(d.approver, role, site),
             d.from <= t, t <= d.to
      PROVE  u \in Users /\ MayDecide(u, role, site, t)
  BY <1>2, PeopleAssumption DEF MayDecide, DelegatorsOf
<1> QED
  BY <1>1, <1>2 DEF Approvers, DelegatesFor

\* A notice is right when it is sent.
LEMMA AudienceIsRight ==
    ASSUME NEW ch, NEW o, NEW t
    PROVE  /\ Audience(ch, o, t) \subseteq Users
           /\ NoticeRight(ch, [order |-> o, at |-> t, users |-> Audience(ch, o, t)])
<1>1. ASSUME NEW u \in Audience(ch, o, t)
      PROVE  u \in Users /\ \E r \in At(ch.rules, o) : u \in Able(ch, r, t)
  <2>1. PICK r \in At(ch.rules, o) : u \in Approvers(Rule[r].role, ch.site, ch.requester, t)
    BY DEF Audience
  <2> QED
    BY <2>1, ToldIsAble DEF Able
<1>2. ASSUME NEW r \in At(ch.rules, o), NEW u \in Able(ch, r, t)
      PROVE  u \in Audience(ch, o, t) \cup DelegatesFor({ch.requester}, t)
  <2>1. u \in Approvers(Rule[r].role, ch.site, ch.requester, t) \cup DelegatesFor({ch.requester}, t)
    BY AbleOrTold DEF Able
  <2> QED
    BY <2>1 DEF Audience
<1> QED
  BY <1>1, <1>2 DEF NoticeRight

-----------------------------------------------------------------------------
(* Type correctness. *)

LEMMA TypeInit == Init => TypeOK
<1> SUFFICES ASSUME Init PROVE TypeOK
  OBVIOUS
<1>1. matrix \in [Rules -> MatrixStatus]
  BY DEF Init, MatrixStatus
<1>2. chain \in [Chains -> Chain]
  BY DEF Init, Chain, NoChain, ChainStatus
<1>3. step \in [Chains -> [Rules -> Step]]
  BY DEF Init, Step, OpenStep
<1>4. /\ votes \in [Chains -> SUBSET Vote] /\ fired \in [Chains -> [Decisions -> Nat]] /\ now \in Nat
      /\ told \in [Chains -> SUBSET Notice]
  BY DEF Init
<1>5. job \in [Workers -> Job]
  BY DEF Init, Job, IdleJob, PC
<1> QED
  BY <1>1, <1>2, <1>3, <1>4, <1>5 DEF TypeOK

\* A handler that moves on keeps a well-typed job; the others are untouched.
LEMMA JobMoves ==
    ASSUME TypeOK, NEW w \in Workers, NEW pc \in PC
    PROVE  [job EXCEPT ![w].pc = pc] \in [Workers -> Job]
<1>1. job[w] \in Job
  BY DEF TypeOK
<1>2. [job[w] EXCEPT !.pc = pc] \in Job
  BY <1>1 DEF Job
<1> QED
  BY <1>2 DEF TypeOK

LEMMA GoesTo ==
    ASSUME TypeOK, NEW w \in Workers, NEW pc, GoTo(w, pc)
    PROVE  job'[w].pc = pc /\ job'[w].chain = job[w].chain
BY DEF TypeOK, GoTo, Job

LEMMA ChainReplaced ==
    ASSUME TypeOK, NEW c \in Chains, NEW s \in ChainStatus, NEW n \in Nat
    PROVE  /\ [chain[c] EXCEPT !.status = s, !.currentStep = n] \in Chain
           /\ [chain EXCEPT ![c].status = s] \in [Chains -> Chain]
           /\ [chain EXCEPT ![c].currentStep = n] \in [Chains -> Chain]
<1>1. chain[c] \in Chain
  BY DEF TypeOK
<1>2. /\ [chain[c] EXCEPT !.status = s] \in Chain
      /\ [chain[c] EXCEPT !.currentStep = n] \in Chain
      /\ [chain[c] EXCEPT !.status = s, !.currentStep = n] \in Chain
  BY <1>1 DEF Chain
<1> QED
  BY <1>2 DEF TypeOK

\* Matrix rows, chains and jobs a submission builds are well typed.
LEMMA TypeSubmitRead ==
    ASSUME TypeOK, NEW w \in Workers, NEW q \in Requests, SubmitRead(w, q)
    PROVE  TypeOK'
<1>1. Matching(q) \subseteq Rules
  BY DEF Matching
<1>2. job' \in [Workers -> Job]
  BY <1>1 DEF TypeOK, SubmitRead, Job, IdleJob, PC
<1> QED
  BY <1>2 DEF TypeOK, SubmitRead

LEMMA TypeSubmitCreate ==
    ASSUME TypeOK, HandlersSound, NEW w \in Workers, NEW c \in Chains, SubmitCreate(w, c)
    PROVE  TypeOK'
<1>1. job[w] \in Job /\ job[w].request \in Requests /\ job[w].rules # {}
  BY DEF TypeOK, HandlersSound, HandlerSound, SubmitCreate
<1>2. job[w].rules \in SUBSET Rules /\ job[w].request \in Request
  BY <1>1, TablesAssumption DEF Job
<1>3. Min(Orders(job[w].rules)) \in Nat
  BY <1>1, <1>2, FirstOrder
<1>4. chain' \in [Chains -> Chain]
  BY <1>2, <1>3 DEF TypeOK, SubmitCreate, Chain, ChainStatus, Request
<1>5. step' \in [Chains -> [Rules -> Step]]
  BY DEF TypeOK, SubmitCreate, Step, OpenStep
<1>6. job' \in [Workers -> Job]
  <2> DEFINE n == Min(Orders(job[w].rules))
             j == [IdleJob EXCEPT !.pc = "notify", !.chain = c, !.cur = n]
  <2>1. job' = [job EXCEPT ![w] = j]
    BY DEF SubmitCreate
  <2>2. n \in Nat
    BY <1>3
  <2> HIDE DEF n
  <2>3. j \in Job
    BY <2>2 DEF Job, IdleJob, PC
  <2> QED
    BY <2>1, <2>3 DEF TypeOK
<1> QED
  BY <1>4, <1>5, <1>6 DEF TypeOK, SubmitCreate

LEMMA TypeDecide ==
    ASSUME TypeOK, HandlersSound, NEW w \in Workers,
           \/ \E u \in Users, c \in Chains, r \in Rules, d \in Decisions : DecideRead(w, u, c, r, d)
           \/ DecideWrite(w)
    PROVE  TypeOK'
<1>1. ASSUME NEW u \in Users, NEW c \in Chains, NEW r \in Rules, NEW d \in Decisions,
             DecideRead(w, u, c, r, d)
      PROVE  TypeOK'
  <2>1. ApprovedSteps(c) \subseteq Rules /\ chain[c].currentStep \in Nat
    BY DEF ApprovedSteps, TypeOK, Chain
  <2>2. job' \in [Workers -> Job]
    BY <1>1, <2>1 DEF TypeOK, DecideRead, Job, PC
  <2> QED
    BY <1>1, <2>2 DEF TypeOK, DecideRead
<1>2. CASE DecideWrite(w)
  <2>1. job[w] \in Job /\ job[w].pc = "authorised"
    BY <1>2 DEF TypeOK, DecideWrite
  <2>2. /\ job[w].chain \in Chains /\ job[w].rule \in Rules /\ job[w].at \in Nat
        /\ job[w].user \in Users /\ job[w].decision \in Decisions /\ job[w].seen \subseteq Rules
    <3>1. job[w].chain \in Chains /\ Authorised(job[w], chain[job[w].chain], votes[job[w].chain])
      BY <2>1 DEF HandlersSound, HandlerSound
    <3>2. chain[job[w].chain].rules \subseteq Rules
      BY <3>1 DEF TypeOK, Chain
    <3> QED
      BY <2>1, <3>1, <3>2 DEF Authorised, Job
  <2>3. step' \in [Chains -> [Rules -> Step]]
    <3>1. step[job[w].chain][job[w].rule] \in Step
      BY <2>2 DEF TypeOK
    <3>2. [step[job[w].chain][job[w].rule] EXCEPT !.decision = job[w].decision, !.by = job[w].user]
            \in Step
      BY <2>2, <3>1 DEF Step
    <3> QED
      BY <1>2, <2>2, <3>2 DEF TypeOK, DecideWrite
  <2>4. votes' \in [Chains -> SUBSET Vote]
    BY <1>2, <2>2 DEF TypeOK, DecideWrite, Vote
  <2>5. job' \in [Workers -> Job]
    <3> DEFINE seen == IF job[w].decision = "APPROVED" THEN job[w].seen \cup {job[w].rule}
                       ELSE job[w].seen
    <3>1. seen \in SUBSET Rules
      BY <2>2
    <3>2. job' = [job EXCEPT ![w] = [job[w] EXCEPT !.pc = "decided", !.seen = seen]]
      BY <1>2 DEF DecideWrite
    <3> HIDE DEF seen
    <3>3. [job[w] EXCEPT !.pc = "decided", !.seen = seen] \in Job
      BY <2>1, <3>1 DEF Job, PC
    <3> QED
      BY <3>2, <3>3 DEF TypeOK
  <2> QED
    BY <1>2, <2>3, <2>4, <2>5 DEF TypeOK, DecideWrite
<1> QED
  BY <1>1, <1>2

\* The rest of a handler: what it writes to the chain, the steps and its job.
LEMMA TypeOutcome ==
    ASSUME TypeOK, HandlersSound, NEW w \in Workers,
           \/ Reject(w) \/ ReturnChain(w) \/ Fire(w)
           \/ \E mode \in Modes : Approve(w, mode)
    PROVE  TypeOK'
<1> DEFINE j == job[w]
<1>1. j \in Job /\ j.chain \in Chains
  <2>1. j.pc \in {"decided", "fire"}
    BY DEF Reject, ReturnChain, Fire, Approve, ApprovalOf
  <2> QED
    BY <2>1 DEF TypeOK, HandlersSound, HandlerSound
<1>2. ASSUME NEW s \in Decisions, CloseChain(w, s)
      PROVE  TypeOK'
  <2>1. chain' \in [Chains -> Chain]
    BY <1>1, <1>2, ChainReplaced DEF CloseChain, ChainStatus
  <2>2. job' \in [Workers -> Job]
    BY <1>2, JobMoves DEF CloseChain, GoTo, PC
  <2> QED
    BY <1>2, <2>1, <2>2 DEF TypeOK, CloseChain
<1>3. CASE ReturnChain(w)
  <2>1. [chain[j.chain] EXCEPT !.status = "RETURNED", !.currentStep = 1] \in Chain
    BY <1>1, ChainReplaced DEF ChainStatus, Decisions
  <2>2. chain' \in [Chains -> Chain]
    BY <1>3, <2>1 DEF TypeOK, ReturnChain
  <2>3. job' \in [Workers -> Job]
    BY <1>3, JobMoves DEF ReturnChain, GoTo, PC
  <2> QED
    BY <1>3, <2>2, <2>3 DEF TypeOK, ReturnChain
<1>4. CASE Fire(w)
  <2>1. j.decision \in Decisions
    BY <1>1, <1>4 DEF Fire, HandlersSound, HandlerSound
  <2>2. fired' \in [Chains -> [Decisions -> Nat]]
    BY <1>1, <1>4, <2>1 DEF TypeOK, Fire
  <2>3. job' \in [Workers -> Job]
    BY <1>4, JobMoves DEF Fire, GoTo, PC
  <2> QED
    BY <1>4, <2>2, <2>3 DEF TypeOK, Fire
<1> QED
  BY <1>2, <1>3, <1>4 DEF Reject, Approve, Decisions

LEMMA TypeAdvance ==
    ASSUME TypeOK, HandlersSound, NEW w \in Workers,
           ActivateStep(w) \/ \E mode \in Modes : AdvanceStep(w, mode)
    PROVE  TypeOK'
<1> DEFINE j == job[w]
<1>1. /\ j \in Job /\ j.chain \in Chains /\ j.cur \in Nat
      /\ chain[j.chain] \in Chain /\ chain[j.chain].rules \in SUBSET Rules
  <2>1. j.pc \in {"decided", "activate"}
    BY DEF ActivateStep, AdvanceStep, ApprovalOf
  <2>2. j \in Job /\ j.chain \in Chains
    BY <2>1 DEF TypeOK, HandlersSound, HandlerSound
  <2> QED
    BY <2>2 DEF TypeOK, Job, Chain
<1>2. ASSUME NEW mode \in Modes, AdvanceStep(w, mode)
      PROVE  TypeOK'
  <2> DEFINE n == Min(Later(chain[j.chain].rules, j.cur))
  <2>1. n \in Nat
    BY <1>1, <1>2, NextOrder DEF AdvanceStep
  <2>2. /\ chain' = [chain EXCEPT ![j.chain].currentStep = n]
        /\ job' = [job EXCEPT ![w] = [@ EXCEPT !.pc = "activate", !.cur = n]]
        /\ UNCHANGED <<matrix, step, votes, fired, told, now>>
    BY <1>2 DEF AdvanceStep
  <2> HIDE DEF n
  <2>3. chain' \in [Chains -> Chain]
    BY <1>1, <2>1, <2>2, ChainReplaced DEF ChainStatus
  <2>4. [job[w] EXCEPT !.pc = "activate", !.cur = n] \in Job
    BY <1>1, <2>1 DEF Job, PC
  <2>5. job' \in [Workers -> Job]
    BY <2>2, <2>4 DEF TypeOK
  <2> QED
    BY <2>2, <2>3, <2>5 DEF TypeOK
<1>3. CASE ActivateStep(w)
  <2>1. \A r \in Rules : /\ step[j.chain][r] \in Step
                        /\ [step[j.chain][r] EXCEPT !.activatedAt = now] \in Step
    <3>1. \A r \in Rules : step[j.chain][r] \in Step
      BY <1>1 DEF TypeOK
    <3>2. now \in Nat
      BY DEF TypeOK
    <3> QED
      BY <3>1, <3>2 DEF Step
  <2>2. step' \in [Chains -> [Rules -> Step]]
    BY <1>1, <1>3, <2>1 DEF TypeOK, ActivateStep
  <2>3. job' \in [Workers -> Job]
    BY <1>3, JobMoves DEF ActivateStep, GoTo, PC
  <2> QED
    BY <1>3, <2>2, <2>3 DEF TypeOK, ActivateStep
<1> QED
  BY <1>2, <1>3

LEMMA TypeNotify ==
    ASSUME TypeOK, HandlersSound, NEW w \in Workers, NotifyStep(w)
    PROVE  TypeOK'
<1> DEFINE j == job[w]
           n == [order |-> j.cur, at |-> now, users |-> Audience(chain[j.chain], j.cur, now)]
<1>1. j \in Job /\ j.chain \in Chains /\ j.cur \in Nat /\ now \in Nat
  BY DEF NotifyStep, TypeOK, HandlersSound, HandlerSound, Job
<1>2. n \in Notice
  BY <1>1, AudienceIsRight DEF Notice
<1>3. told' = [told EXCEPT ![j.chain] = @ \cup {n}]
  BY DEF NotifyStep
<1> HIDE DEF n
<1>4. told' \in [Chains -> SUBSET Notice]
  BY <1>1, <1>2, <1>3 DEF TypeOK
<1>5. job' \in [Workers -> Job]
  BY DEF NotifyStep, TypeOK, Done, Job, IdleJob, PC
<1> QED
  BY <1>4, <1>5 DEF TypeOK, NotifyStep

LEMMA TypeRest ==
    ASSUME TypeOK,
           \/ \E w \in Workers : \/ CallbackReturn(w) \/ Fail(w)
                                \/ \E mode \in Modes : KeepWaiting(w, mode)
           \/ Administer
           \/ Tick
           \/ UNCHANGED engineVars
    PROVE  TypeOK'
<1>1. ASSUME NEW w \in Workers, Done(w), UNCHANGED <<matrix, chain, step, votes, fired, told, now>>
      PROVE  TypeOK'
  <2>1. job' \in [Workers -> Job]
    BY <1>1 DEF TypeOK, Done, Job, IdleJob, PC
  <2> QED
    BY <1>1, <2>1 DEF TypeOK
<1>2. CASE Administer
  <2>1. PICK r \in Rules, to \in MatrixStatus : matrix' = [matrix EXCEPT ![r] = to]
    BY <1>2, TablesAssumption
       DEF Administer, CreateRule, UpdateRule, RemoveRule, SetRule, MatrixStatus
  <2>2. matrix' \in [Rules -> MatrixStatus]
    BY <2>1 DEF TypeOK
  <2> QED
    BY <1>2, <2>2 DEF TypeOK, Administer, CreateRule, UpdateRule, RemoveRule, SetRule
<1>3. CASE Tick
  BY <1>3 DEF TypeOK, Tick
<1>4. CASE UNCHANGED engineVars
  BY <1>4 DEF TypeOK, engineVars
<1> QED
  BY <1>1, <1>2, <1>3, <1>4 DEF CallbackReturn, Fail, KeepWaiting

\* Every step of the engine keeps the types; the handlers' own invariant is
\* needed because a job's fields are only nullable while it is idle.
LEMMA TypeStep == TypeOK /\ HandlersSound /\ [Next]_engineVars => TypeOK'
BY TypeSubmitRead, TypeSubmitCreate, TypeDecide, TypeOutcome, TypeAdvance, TypeNotify, TypeRest
   DEF Next, Call, Continue

-----------------------------------------------------------------------------
(* What is known stays known. *)

LEMMA KnowledgeGrows ==
    ASSUME NEW rules, NEW V, NEW W, V \subseteq W
    PROVE  /\ Granted(V) \subseteq Granted(W)
           /\ \A o : OrderGranted(rules, V, o) => OrderGranted(rules, W, o)
           /\ \A n : AllGrantedBelow(rules, V, n) => AllGrantedBelow(rules, W, n)
           /\ \A s : Earned(rules, V, s) => Earned(rules, W, s)
<1>1. Granted(V) \subseteq Granted(W)
  BY DEF Granted
<1>2. ASSUME NEW o, OrderGranted(rules, V, o)
      PROVE  OrderGranted(rules, W, o)
  BY <1>1, <1>2, SatisfiedMonotone DEF OrderGranted
<1> QED
  BY <1>1, <1>2 DEF AllGrantedBelow, Earned

LEMMA AuthorityStays ==
    ASSUME NEW j, NEW ch, NEW ch2, NEW V, NEW W, V \subseteq W,
           ch2.rules = ch.rules, ch2.requester = ch.requester, ch2.site = ch.site,
           Authorised(j, ch, V)
    PROVE  Authorised(j, ch2, W)
BY KnowledgeGrows DEF Authorised

\* A step order judged satisfied on a snapshot was granted; with it either the
\* whole chain is, or every order below the next one.
LEMMA SnapshotSuffices ==
    ASSUME NEW rules \in SUBSET Rules, NEW V, NEW cur \in Nat, NEW seen,
           seen \subseteq Granted(V), AllGrantedBelow(rules, V, cur),
           NEW mode \in ModesAt(rules, cur), Satisfied(mode, At(rules, cur), seen)
    PROVE  /\ Later(rules, cur) = {} => Earned(rules, V, "APPROVED")
           /\ Later(rules, cur) # {} => AllGrantedBelow(rules, V, Min(Later(rules, cur)))
<1>1. OrderGranted(rules, V, cur)
  BY SatisfiedMonotone DEF OrderGranted
<1>2. Orders(rules) \subseteq Nat
  BY OrdersAreNaturals
<1>3. \A o \in Orders(rules) : o <= cur => OrderGranted(rules, V, o)
  BY <1>1, <1>2 DEF AllGrantedBelow
<1>4. ASSUME Later(rules, cur) = {}
      PROVE  Earned(rules, V, "APPROVED")
  BY <1>2, <1>3, <1>4 DEF Later, Earned
<1>5. ASSUME Later(rules, cur) # {}
      PROVE  AllGrantedBelow(rules, V, Min(Later(rules, cur)))
  BY <1>3, <1>5, NextOrder DEF AllGrantedBelow
<1> QED
  BY <1>4, <1>5

-----------------------------------------------------------------------------
(* The invariant, chain by chain and handler by handler. *)

\* IInv, of one chain.
ChainSound(c) ==
    /\ chain[c].status = "NONE" => NoChainYet(c)
    /\ AllGrantedBelow(chain[c].rules, votes[c], chain[c].currentStep)
    /\ \A v \in votes[c] :
          /\ v.rule \in chain[c].rules
          /\ v.user # chain[c].requester
          /\ MayDecide(v.user, Rule[v.rule].role, chain[c].site, v.at)
          /\ AllGrantedBelow(chain[c].rules, votes[c], Rule[v.rule].order)
    /\ \A r \in Rules : step[c][r].decision # None =>
          \E v \in votes[c] : /\ v.rule = r /\ v.user = step[c][r].by
                              /\ v.decision = step[c][r].decision
    /\ chain[c].status \in Decisions => Earned(chain[c].rules, votes[c], chain[c].status)
    /\ \A s \in Decisions : fired[c][s] > 0 => Earned(chain[c].rules, votes[c], s)

LEMMA InvariantByParts ==
    /\ IInv <=> TypeOK /\ (\A c \in Chains : ChainSound(c)) /\ HandlersSound
    /\ IInv' <=> TypeOK' /\ (\A c \in Chains : ChainSound(c)') /\ HandlersSound'
BY DEF IInv, ChainSound, DecisionsAuthorised, VotesInOrder, OutcomesEarned, AdvancedInOrder

\* What no step does to a chain that exists: change what it was created with,
\* forget a vote, or make it disappear.
Kept(c) ==
    /\ chain'[c].rules = chain[c].rules
    /\ chain'[c].requester = chain[c].requester
    /\ chain'[c].site = chain[c].site
    /\ votes[c] \subseteq votes'[c]
    /\ chain'[c].status # "NONE"

\* A handler that does not run stays sound while others do.
LEMMA OthersStay ==
    ASSUME NEW w \in Workers, HandlerSound(w), job'[w] = job[w],
           \A c \in Chains : chain[c].status # "NONE" => Kept(c)
    PROVE  HandlerSound(w)'
<1> DEFINE j == job[w]
           c == j.chain
<1>1. CASE j.pc \in {"idle", "routed"}
  BY <1>1 DEF HandlerSound
<1>2. CASE j.pc \notin {"idle", "routed"}
  <2>1. c \in Chains /\ Kept(c)
    BY <1>2 DEF HandlerSound
  <2>2. j.pc \in {"authorised", "decided"} => Authorised(j, chain'[c], votes'[c])
    BY <2>1, AuthorityStays DEF HandlerSound, Kept
  <2>3. j.pc \in {"fire", "callback"} =>
          j.decision \in Decisions /\ Earned(chain'[c].rules, votes'[c], j.decision)
    <3>1. votes[c] \subseteq votes'[c] /\ chain'[c].rules = chain[c].rules
      BY <2>1 DEF Kept
    <3>2. Earned(chain[c].rules, votes[c], j.decision)
            => Earned(chain'[c].rules, votes'[c], j.decision)
      BY <3>1, KnowledgeGrows
    <3> QED
      BY <3>2 DEF HandlerSound
  <2>4. j.pc = "decided" =>
          [rule |-> j.rule, user |-> j.user, decision |-> j.decision, at |-> j.at] \in votes'[c]
    BY <2>1 DEF HandlerSound, Kept
  <2> QED
    BY <1>2, <2>1, <2>2, <2>3, <2>4 DEF HandlerSound, Kept
<1> QED
  BY <1>1, <1>2

\* So does a chain that nobody writes.
LEMMA ChainStays ==
    ASSUME NEW c \in Chains, ChainSound(c),
           chain'[c] = chain[c], votes'[c] = votes[c], fired'[c] = fired[c],
           \A r \in Rules : /\ step'[c][r].decision = step[c][r].decision
                           /\ step'[c][r].by = step[c][r].by
    PROVE  ChainSound(c)'
BY DEF ChainSound, NoChainYet

\* An idle handler knows nothing, and nothing wrong.
LEMMA DoneIsSound ==
    ASSUME TypeOK, NEW w \in Workers, Done(w)
    PROVE  /\ HandlerSound(w)'
           /\ \A x \in Workers \ {w} : job'[x] = job[x]
BY DEF Done, TypeOK, HandlerSound, IdleJob

-----------------------------------------------------------------------------
(* The steps, one by one. *)

\* Requests that read, wait, return or fail, the clock and the administrator
\* write no chain.
LEMMA InvReadOnly ==
    ASSUME IInv, TypeOK', UNCHANGED <<chain, votes, fired>>,
           \A c \in Chains, r \in Rules : /\ step'[c][r].decision = step[c][r].decision
                                        /\ step'[c][r].by = step[c][r].by,
           \A w \in Workers : job'[w] = job[w] \/ HandlerSound(w)'
    PROVE  IInv'
<1>1. \A c \in Chains : ChainSound(c)'
  BY ChainStays, InvariantByParts
<1>2. ASSUME NEW w \in Workers
      PROVE  HandlerSound(w)'
  <2>1. \A c \in Chains : chain[c].status # "NONE" => Kept(c)
    BY DEF Kept
  <2>2. CASE job'[w] = job[w]
    BY <2>1, <2>2, OthersStay, InvariantByParts DEF HandlersSound
  <2> QED
    BY <2>2
<1> QED
  BY <1>1, <1>2, InvariantByParts DEF HandlersSound

LEMMA InvSubmitRead ==
    ASSUME IInv, NEW w \in Workers, NEW q \in Requests, SubmitRead(w, q)
    PROVE  IInv'
<1>1. TypeOK'
  BY TypeSubmitRead DEF IInv
<1>2. job \in [Workers -> Job]
  BY DEF IInv, TypeOK
<1>3. HandlerSound(w)'
  BY <1>2 DEF SubmitRead, HandlerSound, IdleJob
<1>4. \A x \in Workers \ {w} : job'[x] = job[x]
  BY <1>2 DEF SubmitRead
<1> QED
  BY <1>1, <1>3, <1>4, InvReadOnly DEF SubmitRead

LEMMA InvDecideRead ==
    ASSUME IInv, NEW w \in Workers, NEW u \in Users, NEW c \in Chains, NEW r \in Rules,
           NEW d \in Decisions, DecideRead(w, u, c, r, d)
    PROVE  IInv'
<1>1. TypeOK'
  BY TypeDecide DEF IInv
<1>2. job \in [Workers -> Job] /\ ChainSound(c)
  BY InvariantByParts DEF TypeOK
<1> DEFINE j == [pc |-> "authorised", request |-> None, rules |-> {}, chain |-> c,
                 rule |-> r, user |-> u, decision |-> d,
                 cur |-> chain[c].currentStep, seen |-> ApprovedSteps(c), at |-> now]
<1>3. job' = [job EXCEPT ![w] = j] /\ UNCHANGED <<chain, step, votes, fired>>
  BY DEF DecideRead
<1>4. ApprovedSteps(c) \subseteq Granted(votes[c])
  <2>1. chain[c].rules \subseteq Rules
    BY DEF IInv, TypeOK, Chain
  <2>2. ASSUME NEW s \in ApprovedSteps(c)
        PROVE  s \in Granted(votes[c])
    <3>1. s \in Rules /\ step[c][s].decision = "APPROVED"
      BY <2>1 DEF ApprovedSteps
    <3>2. step[c][s].decision # None
      BY <3>1, TablesAssumption DEF Decisions
    <3>3. \E v \in votes[c] : v.rule = s /\ v.decision = "APPROVED"
      BY <1>2, <3>1, <3>2 DEF ChainSound
    <3> QED
      BY <3>3 DEF Granted
  <2> QED
    BY <2>2
<1>5. Authorised(j, chain[c], votes[c])
  BY <1>2, <1>4 DEF DecideRead, Actionable, Authorised, ChainSound
<1>6. HandlerSound(w)'
  <2>1. job'[w] = j
    BY <1>2, <1>3
  <2>2. j.chain = c /\ j.pc = "authorised"
    OBVIOUS
  <2>3. chain[c].status # "NONE"
    BY DEF DecideRead, Actionable
  <2> HIDE DEF j
  <2> QED
    BY <1>3, <1>5, <2>1, <2>2, <2>3 DEF HandlerSound
<1>7. \A x \in Workers \ {w} : job'[x] = job[x]
  BY <1>2, <1>3
<1> QED
  BY <1>1, <1>3, <1>6, <1>7, InvReadOnly

\* A new chain has no votes, and no order lies below its first one; no handler
\* refers to it.
LEMMA InvSubmitCreate ==
    ASSUME IInv, NEW w \in Workers, NEW c \in Chains, SubmitCreate(w, c)
    PROVE  IInv'
<1>1. TypeOK'
  BY TypeSubmitCreate DEF IInv
<1>2. TypeOK /\ ChainSound(c) /\ HandlerSound(w)
  BY InvariantByParts DEF HandlersSound
<1>3. chain[c].status = "NONE" /\ NoChainYet(c)
  BY <1>2 DEF SubmitCreate, ChainSound
<1>4. job[w].rules \in SUBSET Rules /\ job[w].rules # {}
  BY <1>2 DEF TypeOK, Job, HandlerSound, SubmitCreate
<1>5. ChainSound(c)'
  <2>1. /\ chain'[c].status = "PENDING" /\ chain'[c].rules = job[w].rules
        /\ chain'[c].currentStep = Min(Orders(job[w].rules))
    BY <1>2 DEF SubmitCreate, TypeOK
  <2>2. AllGrantedBelow(chain'[c].rules, votes'[c], chain'[c].currentStep)
    BY <1>4, <2>1, FirstOrder DEF AllGrantedBelow
  <2>3. votes'[c] = {} /\ \A s \in Decisions : fired'[c][s] = 0
    BY <1>3 DEF SubmitCreate, NoChainYet
  <2>4. \A r \in Rules : step'[c][r].decision = None
    BY <1>2 DEF SubmitCreate, TypeOK, OpenStep
  <2> QED
    BY <2>1, <2>2, <2>3, <2>4 DEF ChainSound, Decisions
<1>6. ASSUME NEW d \in Chains \ {c}
      PROVE  ChainSound(d)'
  <2>1. chain'[d] = chain[d] /\ step'[d] = step[d] /\ UNCHANGED <<votes, fired>>
    BY <1>2 DEF SubmitCreate, TypeOK
  <2> QED
    BY <2>1, ChainStays, InvariantByParts
<1>7. ASSUME NEW x \in Workers
      PROVE  HandlerSound(x)'
  <2>1. HandlerSound(w)' /\ \A y \in Workers \ {w} : job'[y] = job[y]
    <3>1. /\ job'[w].pc = "notify" /\ job'[w].chain = c
          /\ \A y \in Workers \ {w} : job'[y] = job[y]
      BY <1>2 DEF SubmitCreate, TypeOK, IdleJob
    <3>2. chain'[c].status = "PENDING"
      BY <1>2 DEF SubmitCreate, TypeOK
    <3> QED
      BY <3>1, <3>2 DEF HandlerSound
  <2>2. \A d \in Chains : chain[d].status # "NONE" => Kept(d)
    BY <1>2, <1>3 DEF SubmitCreate, Kept, TypeOK
  <2> QED
    BY <2>1, <2>2, OthersStay, InvariantByParts DEF HandlersSound
<1> QED
  BY <1>1, <1>5, <1>6, <1>7, InvariantByParts DEF HandlersSound

\* A decision adds a vote that the handler's authority covers.
LEMMA InvDecideWrite ==
    ASSUME IInv, NEW w \in Workers, DecideWrite(w)
    PROVE  IInv'
<1>1. TypeOK' /\ TypeOK /\ HandlerSound(w) /\ job[w] \in Job
  BY TypeDecide, InvariantByParts DEF HandlersSound, IInv, TypeOK
<1>2. PICK j \in Job, c \in Chains :
        /\ j = job[w] /\ c = j.chain /\ j.pc = "authorised"
        /\ chain[c].status # "NONE" /\ Authorised(j, chain[c], votes[c])
  BY <1>1 DEF DecideWrite, HandlerSound
<1> DEFINE v == [rule |-> j.rule, user |-> j.user, decision |-> j.decision, at |-> j.at]
<1>3. ChainSound(c)
  BY <1>2, InvariantByParts
<1>4. /\ UNCHANGED <<chain, fired>>
      /\ votes'[c] = votes[c] \cup {v}
      /\ \A d \in Chains \ {c} : step'[d] = step[d] /\ votes'[d] = votes[d]
      /\ \A x \in Workers \ {w} : job'[x] = job[x]
  BY <1>1, <1>2 DEF DecideWrite, TypeOK
<1>5. \A d \in Chains : chain[d].status # "NONE" => Kept(d)
  BY <1>4 DEF Kept
<1>6. /\ \A o : AllGrantedBelow(chain[c].rules, votes[c], o)
                => AllGrantedBelow(chain[c].rules, votes'[c], o)
      /\ \A s : Earned(chain[c].rules, votes[c], s) => Earned(chain[c].rules, votes'[c], s)
  BY <1>4, KnowledgeGrows
<1>7. ChainSound(c)'
  <2>1. \A x \in votes'[c] : /\ x.rule \in chain[c].rules
                             /\ x.user # chain[c].requester
                             /\ MayDecide(x.user, Rule[x.rule].role, chain[c].site, x.at)
                             /\ AllGrantedBelow(chain[c].rules, votes'[c], Rule[x.rule].order)
    <3>1. ASSUME NEW x \in votes[c]
          PROVE  /\ x.rule \in chain[c].rules
                 /\ x.user # chain[c].requester
                 /\ MayDecide(x.user, Rule[x.rule].role, chain[c].site, x.at)
                 /\ AllGrantedBelow(chain[c].rules, votes'[c], Rule[x.rule].order)
      BY <1>3, <1>6 DEF ChainSound
    <3>2. /\ v.rule \in chain[c].rules
          /\ v.user # chain[c].requester
          /\ MayDecide(v.user, Rule[v.rule].role, chain[c].site, v.at)
          /\ AllGrantedBelow(chain[c].rules, votes'[c], Rule[v.rule].order)
      BY <1>2, <1>6 DEF Authorised
    <3> HIDE DEF v
    <3> QED
      BY <1>4, <3>1, <3>2
  <2>2. ASSUME NEW r \in Rules, step'[c][r].decision # None
        PROVE  \E x \in votes'[c] : /\ x.rule = r /\ x.user = step'[c][r].by
                                   /\ x.decision = step'[c][r].decision
    <3>1. CASE r = j.rule
      <4>1. step'[c][r].by = j.user /\ step'[c][r].decision = j.decision
        BY <1>1, <1>2, <3>1 DEF DecideWrite, TypeOK, Step
      <4>2. v \in votes'[c] /\ v.rule = r /\ v.user = j.user /\ v.decision = j.decision
        BY <1>4, <3>1
      <4> QED
        BY <4>1, <4>2
    <3>2. CASE r # j.rule
      <4>1. step'[c][r] = step[c][r]
        BY <1>1, <1>2, <3>2 DEF DecideWrite, TypeOK
      <4> QED
        BY <1>3, <1>4, <2>2, <4>1 DEF ChainSound
    <3> QED
      BY <3>1, <3>2
  <2> QED
    BY <1>2, <1>3, <1>4, <1>6, <2>1, <2>2 DEF ChainSound
<1>8. ASSUME NEW d \in Chains \ {c}
      PROVE  ChainSound(d)'
  BY <1>4, ChainStays, InvariantByParts
<1>9. HandlerSound(w)'
  <2>1. \E seen : /\ job'[w] = [j EXCEPT !.pc = "decided", !.seen = seen]
                  /\ seen \subseteq Granted(votes'[c])
    <3>1. Granted(votes[c]) \subseteq Granted(votes'[c])
      BY <1>4, KnowledgeGrows
    <3>2. j.decision = "APPROVED" => j.rule \in Granted(votes'[c])
      <4>1. v \in votes'[c] /\ v.rule = j.rule /\ v.decision = j.decision
        BY <1>4
      <4> QED
        BY <4>1 DEF Granted
    <3> DEFINE seen == IF j.decision = "APPROVED" THEN j.seen \cup {j.rule} ELSE j.seen
    <3>3. seen \subseteq Granted(votes'[c])
      BY <1>2, <3>1, <3>2 DEF Authorised
    <3>4. job'[w] = [j EXCEPT !.pc = "decided", !.seen = seen]
      BY <1>1, <1>2 DEF DecideWrite, TypeOK
    <3> QED
      BY <3>3, <3>4
  <2>2. /\ job'[w].pc = "decided" /\ job'[w].chain = c /\ job'[w].rule = j.rule
        /\ job'[w].user = j.user /\ job'[w].decision = j.decision
        /\ job'[w].at = j.at /\ job'[w].cur = j.cur
        /\ job'[w].seen \subseteq Granted(votes'[c])
    BY <1>2, <2>1 DEF Job
  <2>3. Authorised(job'[w], chain'[c], votes'[c])
    BY <1>2, <1>4, <1>6, <2>2 DEF Authorised
  <2>4. v \in votes'[c]
    BY <1>4
  <2> QED
    BY <1>2, <1>4, <2>2, <2>3, <2>4 DEF HandlerSound
<1>10. \A x \in Workers : HandlerSound(x)'
  BY <1>4, <1>5, <1>9, OthersStay, InvariantByParts DEF HandlersSound
<1> QED
  BY <1>1, <1>7, <1>8, <1>10, InvariantByParts DEF HandlersSound

\* A handler that writes nothing but one chain's status or current step, and
\* its own job: what is left to show is that both still rest on the votes.
LEMMA InvChainWrite ==
    ASSUME IInv, TypeOK', NEW w \in Workers, NEW c \in Chains,
           chain[c].status # "NONE",
           chain'[c].status # "NONE",
           chain'[c].rules = chain[c].rules,
           chain'[c].requester = chain[c].requester,
           chain'[c].site = chain[c].site,
           \A d \in Chains \ {c} : chain'[d] = chain[d],
           \A x \in Workers \ {w} : job'[x] = job[x],
           UNCHANGED <<step, votes, fired>>,
           AllGrantedBelow(chain[c].rules, votes[c], chain'[c].currentStep),
           chain'[c].status \in Decisions => Earned(chain[c].rules, votes[c], chain'[c].status),
           HandlerSound(w)'
    PROVE  IInv'
<1>1. \A d \in Chains : chain[d].status # "NONE" => Kept(d)
  BY DEF Kept
<1>2. ChainSound(c)'
  BY InvariantByParts DEF ChainSound
<1>3. \A d \in Chains \ {c} : ChainSound(d)'
  BY ChainStays, InvariantByParts
<1>4. \A x \in Workers : HandlerSound(x)'
  BY <1>1, OthersStay, InvariantByParts DEF HandlersSound
<1> QED
  BY <1>2, <1>3, <1>4, InvariantByParts DEF HandlersSound

\* A rejection rests on the vote the handler wrote, an approval on what it saw.
LEMMA InvClose ==
    ASSUME IInv, NEW w \in Workers,
           Reject(w) \/ \E mode \in Modes : Approve(w, mode)
    PROVE  IInv'
<1>1. TypeOK' /\ TypeOK /\ HandlerSound(w) /\ job[w] \in Job /\ job[w].pc = "decided"
  BY TypeOutcome, InvariantByParts DEF HandlersSound, IInv, TypeOK, Reject, Approve, ApprovalOf
<1>2. PICK j \in Job, c \in Chains :
        /\ j = job[w] /\ c = j.chain /\ j.pc = "decided" /\ j.decision \in Decisions
        /\ chain[c].status # "NONE" /\ Authorised(j, chain[c], votes[c])
        /\ [rule |-> j.rule, user |-> j.user, decision |-> j.decision, at |-> j.at] \in votes[c]
  BY <1>1 DEF HandlerSound, Authorised
<1>3. chain[c] \in Chain /\ chain[c].rules \in SUBSET Rules /\ j.cur \in Nat
  BY <1>1, <1>2 DEF TypeOK, Chain, Job
<1>4. CloseChain(w, j.decision) /\ Earned(chain[c].rules, votes[c], j.decision)
  <2>1. CASE Reject(w)
    BY <1>2, <2>1 DEF Reject, Earned
  <2>2. ASSUME NEW mode \in Modes, Approve(w, mode)
        PROVE  CloseChain(w, j.decision) /\ Earned(chain[c].rules, votes[c], j.decision)
    <3>1. /\ j.decision = "APPROVED" /\ mode \in ModesAt(chain[c].rules, j.cur)
          /\ Satisfied(mode, At(chain[c].rules, j.cur), j.seen)
          /\ Later(chain[c].rules, j.cur) = {}
      BY <1>2, <2>2 DEF Approve, ApprovalOf
    <3>2. Earned(chain[c].rules, votes[c], "APPROVED")
      BY <1>2, <1>3, <3>1, SnapshotSuffices DEF Authorised
    <3> QED
      BY <2>2, <3>1, <3>2 DEF Approve
  <2> QED
    BY <2>1, <2>2
<1>5. /\ chain'[c] = [chain[c] EXCEPT !.status = j.decision]
      /\ \A d \in Chains \ {c} : chain'[d] = chain[d]
      /\ job'[w] = [j EXCEPT !.pc = "fire"]
      /\ \A x \in Workers \ {w} : job'[x] = job[x]
      /\ UNCHANGED <<step, votes, fired>>
  BY <1>1, <1>2, <1>4 DEF CloseChain, GoTo, TypeOK
<1>6. /\ chain'[c].rules = chain[c].rules /\ chain'[c].requester = chain[c].requester
      /\ chain'[c].site = chain[c].site /\ chain'[c].currentStep = chain[c].currentStep
      /\ chain'[c].status = j.decision
  BY <1>3, <1>5 DEF Chain
<1>7. HandlerSound(w)'
  <2>1. job'[w].pc = "fire" /\ job'[w].chain = c /\ job'[w].decision = j.decision
    BY <1>2, <1>5 DEF Job
  <2> QED
    BY <1>2, <1>4, <1>5, <1>6, <2>1 DEF HandlerSound, Decisions
<1>8. AllGrantedBelow(chain[c].rules, votes[c], chain'[c].currentStep)
  BY <1>6, InvariantByParts DEF ChainSound
<1> QED
  BY <1>1, <1>2, <1>4, <1>5, <1>6, <1>7, <1>8, InvChainWrite DEF Decisions

LEMMA InvReturnChain ==
    ASSUME IInv, NEW w \in Workers, ReturnChain(w)
    PROVE  IInv'
<1>1. TypeOK' /\ TypeOK /\ HandlerSound(w) /\ job[w] \in Job
  BY TypeOutcome, InvariantByParts DEF HandlersSound, IInv, TypeOK
<1>2. PICK j \in Job, c \in Chains :
        /\ j = job[w] /\ c = j.chain /\ j.pc = "decided" /\ j.decision = "RETURNED"
        /\ chain[c].status # "NONE"
        /\ [rule |-> j.rule, user |-> j.user, decision |-> j.decision, at |-> j.at] \in votes[c]
  BY <1>1 DEF HandlerSound, ReturnChain
<1>3. chain[c] \in Chain /\ chain[c].rules \in SUBSET Rules
  BY <1>1, <1>2 DEF TypeOK, Chain
<1>4. Earned(chain[c].rules, votes[c], "RETURNED")
  BY <1>2 DEF Earned
<1>5. /\ chain'[c] = [chain[c] EXCEPT !.status = "RETURNED", !.currentStep = 1]
      /\ \A d \in Chains \ {c} : chain'[d] = chain[d]
      /\ job'[w] = [j EXCEPT !.pc = "fire"]
      /\ \A x \in Workers \ {w} : job'[x] = job[x]
      /\ UNCHANGED <<step, votes, fired>>
  BY <1>1, <1>2 DEF ReturnChain, GoTo, TypeOK
<1>6. /\ chain'[c].rules = chain[c].rules /\ chain'[c].requester = chain[c].requester
      /\ chain'[c].site = chain[c].site /\ chain'[c].currentStep = 1
      /\ chain'[c].status = "RETURNED"
  BY <1>3, <1>5 DEF Chain
<1>7. HandlerSound(w)'
  <2>1. job'[w].pc = "fire" /\ job'[w].chain = c /\ job'[w].decision = "RETURNED"
    BY <1>2, <1>5 DEF Job
  <2> QED
    BY <1>2, <1>4, <1>5, <1>6, <2>1 DEF HandlerSound, Decisions
<1>8. AllGrantedBelow(chain[c].rules, votes[c], chain'[c].currentStep)
  <2>1. \A o \in Orders(chain[c].rules) : ~ (o < 1)
    BY <1>3, OrdersAreNaturals
  <2> QED
    BY <1>6, <2>1 DEF AllGrantedBelow
<1>9. Earned(chain[c].rules, votes[c], chain'[c].status) /\ chain'[c].status # "NONE"
  BY <1>4, <1>6
<1> QED
  BY <1>1, <1>2, <1>5, <1>6, <1>7, <1>8, <1>9, InvChainWrite

\* Advancing rests on what the handler saw: the order it leaves is granted.
LEMMA InvAdvanceStep ==
    ASSUME IInv, NEW w \in Workers, NEW mode \in Modes, AdvanceStep(w, mode)
    PROVE  IInv'
<1>1. TypeOK' /\ TypeOK /\ HandlerSound(w) /\ job[w] \in Job
  BY TypeAdvance, InvariantByParts DEF HandlersSound, IInv, TypeOK
<1>2. PICK j \in Job, c \in Chains :
        /\ j = job[w] /\ c = j.chain /\ j.pc = "decided"
        /\ chain[c].status # "NONE" /\ Authorised(j, chain[c], votes[c])
  BY <1>1 DEF HandlerSound, AdvanceStep, ApprovalOf
<1>3. chain[c] \in Chain /\ chain[c].rules \in SUBSET Rules /\ j.cur \in Nat
  BY <1>1, <1>2 DEF TypeOK, Chain, Job
<1> DEFINE n == Min(Later(chain[c].rules, j.cur))
<1>4. AllGrantedBelow(chain[c].rules, votes[c], n)
  <2>1. /\ mode \in ModesAt(chain[c].rules, j.cur)
        /\ Satisfied(mode, At(chain[c].rules, j.cur), j.seen)
        /\ Later(chain[c].rules, j.cur) # {}
    BY <1>2 DEF AdvanceStep, ApprovalOf
  <2> QED
    BY <1>2, <1>3, <2>1, SnapshotSuffices DEF Authorised
<1>5. /\ chain'[c] = [chain[c] EXCEPT !.currentStep = n]
      /\ \A d \in Chains \ {c} : chain'[d] = chain[d]
      /\ job'[w] = [j EXCEPT !.pc = "activate", !.cur = n]
      /\ \A x \in Workers \ {w} : job'[x] = job[x]
      /\ UNCHANGED <<step, votes, fired>>
  BY <1>1, <1>2 DEF AdvanceStep, TypeOK
<1> HIDE DEF n
<1>6. /\ chain'[c].rules = chain[c].rules /\ chain'[c].requester = chain[c].requester
      /\ chain'[c].site = chain[c].site /\ chain'[c].currentStep = n
      /\ chain'[c].status = chain[c].status
  BY <1>3, <1>5 DEF Chain
<1>7. HandlerSound(w)'
  <2>1. job'[w].pc = "activate" /\ job'[w].chain = c
    BY <1>2, <1>5 DEF Job
  <2> QED
    BY <1>2, <1>6, <2>1 DEF HandlerSound
<1>8. chain[c].status \in Decisions => Earned(chain[c].rules, votes[c], chain[c].status)
  BY InvariantByParts DEF ChainSound
<1> QED
  BY <1>1, <1>2, <1>4, <1>5, <1>6, <1>7, <1>8, InvChainWrite

\* The outcome a handler delivers is the one it earned when it wrote it.
LEMMA InvFire ==
    ASSUME IInv, NEW w \in Workers, Fire(w)
    PROVE  IInv'
<1>1. TypeOK' /\ TypeOK /\ HandlerSound(w) /\ job[w] \in Job
  BY TypeOutcome, InvariantByParts DEF HandlersSound, IInv, TypeOK
<1>2. PICK j \in Job, c \in Chains :
        /\ j = job[w] /\ c = j.chain /\ j.pc = "fire" /\ j.decision \in Decisions
        /\ chain[c].status # "NONE" /\ Earned(chain[c].rules, votes[c], j.decision)
  BY <1>1 DEF HandlerSound, Fire
<1>3. /\ \A d \in Chains \ {c} : fired'[d] = fired[d]
      /\ \A s \in Decisions \ {j.decision} : fired'[c][s] = fired[c][s]
      /\ job'[w] = [j EXCEPT !.pc = "callback"]
      /\ \A x \in Workers \ {w} : job'[x] = job[x]
      /\ UNCHANGED <<chain, step, votes>>
  BY <1>1, <1>2 DEF Fire, GoTo, TypeOK
<1>4. ChainSound(c)'
  <2>1. ASSUME NEW s \in Decisions, fired'[c][s] > 0
        PROVE  Earned(chain[c].rules, votes[c], s)
    <3>1. CASE s = j.decision
      BY <1>2, <3>1
    <3>2. CASE s # j.decision
      BY <1>3, <2>1, <3>2, InvariantByParts DEF ChainSound
    <3> QED
      BY <3>1, <3>2
  <2> QED
    BY <1>2, <1>3, <2>1, InvariantByParts DEF ChainSound
<1>5. \A d \in Chains \ {c} : ChainSound(d)'
  BY <1>3, ChainStays, InvariantByParts
<1>6. HandlerSound(w)'
  <2>1. /\ job'[w].pc = "callback" /\ job'[w].chain = c
        /\ job'[w].decision = j.decision
    BY <1>2, <1>3 DEF Job
  <2> QED
    BY <1>2, <1>3, <2>1 DEF HandlerSound
<1>7. \A d \in Chains : chain[d].status # "NONE" => Kept(d)
  BY <1>3 DEF Kept
<1>8. \A x \in Workers : HandlerSound(x)'
  BY <1>3, <1>6, <1>7, OthersStay, InvariantByParts DEF HandlersSound
<1> QED
  BY <1>1, <1>4, <1>5, <1>8, InvariantByParts DEF HandlersSound

\* Activating steps writes no decision.
LEMMA InvActivate ==
    ASSUME IInv, NEW w \in Workers, ActivateStep(w)
    PROVE  IInv'
<1>1. TypeOK' /\ TypeOK
  BY TypeAdvance, InvariantByParts DEF HandlersSound, IInv
<1>2. \A c \in Chains, r \in Rules : /\ step'[c][r].decision = step[c][r].decision
                                   /\ step'[c][r].by = step[c][r].by
  <2>1. ASSUME NEW c \in Chains, NEW r \in Rules
        PROVE  /\ step'[c][r].decision = step[c][r].decision
               /\ step'[c][r].by = step[c][r].by
    <3>1. \/ step'[c][r] = step[c][r]
          \/ step'[c][r] = [step[c][r] EXCEPT !.activatedAt = now]
      BY <1>1 DEF ActivateStep, TypeOK
    <3>2. step[c][r] \in Step
      BY <1>1 DEF TypeOK
    <3> QED
      BY <3>1, <3>2 DEF Step
  <2> QED
    BY <2>1
<1>3. HandlerSound(w)' /\ \A x \in Workers \ {w} : job'[x] = job[x]
  <2>1. /\ job'[w].pc = "notify" /\ job'[w].chain = job[w].chain /\ job[w].pc = "activate"
        /\ \A x \in Workers \ {w} : job'[x] = job[x]
    BY <1>1, GoesTo DEF ActivateStep, GoTo, TypeOK
  <2>2. HandlerSound(w)
    BY DEF IInv, HandlersSound
  <2> QED
    BY <2>1, <2>2 DEF HandlerSound, ActivateStep
<1>4. UNCHANGED <<chain, votes, fired>>
  BY DEF ActivateStep
<1> QED
  BY <1>1, <1>2, <1>3, <1>4, InvReadOnly

\* Nor does telling.
LEMMA InvNotify ==
    ASSUME IInv, NEW w \in Workers, NotifyStep(w)
    PROVE  IInv'
<1>1. TypeOK' /\ TypeOK
  BY TypeNotify DEF IInv
<1>2. HandlerSound(w)' /\ \A x \in Workers \ {w} : job'[x] = job[x]
  BY <1>1, DoneIsSound DEF NotifyStep
<1> QED
  BY <1>1, <1>2, InvReadOnly DEF NotifyStep

LEMMA InvRest ==
    ASSUME IInv,
           \/ \E w \in Workers : \/ CallbackReturn(w) \/ Fail(w)
                                \/ \E mode \in Modes : KeepWaiting(w, mode)
           \/ Administer
           \/ Tick
           \/ UNCHANGED engineVars
    PROVE  IInv'
<1>1. TypeOK' /\ TypeOK
  BY TypeRest DEF IInv
<1>2. CASE \E w \in Workers : Done(w) /\ UNCHANGED <<chain, step, votes, fired>>
  <2>1. PICK w \in Workers : Done(w) /\ UNCHANGED <<chain, step, votes, fired>>
    BY <1>2
  <2>2. HandlerSound(w)' /\ \A x \in Workers \ {w} : job'[x] = job[x]
    BY <1>1, <2>1, DoneIsSound
  <2> QED
    BY <1>1, <2>1, <2>2, InvReadOnly
<1>3. CASE UNCHANGED <<chain, step, votes, fired, job>>
  BY <1>1, <1>3, InvReadOnly
<1> QED
  BY <1>2, <1>3 DEF CallbackReturn, Fail, KeepWaiting, Administer, CreateRule,
     UpdateRule, RemoveRule, SetRule, Tick, engineVars

LEMMA InvInit == Init => IInv
<1> SUFFICES ASSUME Init PROVE IInv
  OBVIOUS
<1>1. TypeOK
  BY TypeInit
<1>2. ASSUME NEW c \in Chains
      PROVE  ChainSound(c)
  <2>1. /\ chain[c] = NoChain /\ votes[c] = {}
        /\ \A r \in Rules : step[c][r].decision = None
        /\ \A s \in Decisions : fired[c][s] = 0
    BY DEF Init, OpenStep
  <2>2. chain[c].status = "NONE" /\ chain[c].rules = {} /\ Orders({}) = {}
    BY <2>1 DEF NoChain, Orders
  <2> QED
    BY <2>1, <2>2 DEF ChainSound, NoChainYet, AllGrantedBelow, Decisions
<1>3. HandlersSound
  BY DEF Init, HandlersSound, HandlerSound, IdleJob
<1> QED
  BY <1>1, <1>2, <1>3, InvariantByParts

LEMMA InvStep == IInv /\ [Next]_engineVars => IInv'
<1> SUFFICES ASSUME IInv, [Next]_engineVars PROVE IInv'
  OBVIOUS
<1>1. CASE \E w \in Workers : Call(w)
  BY <1>1, InvSubmitRead, InvDecideRead DEF Call
<1>2. CASE \E w \in Workers : Continue(w)
  BY <1>2, InvSubmitCreate, InvDecideWrite, InvClose, InvReturnChain, InvAdvanceStep,
     InvActivate, InvNotify, InvFire, InvRest DEF Continue
<1>3. CASE (\E w \in Workers : Fail(w)) \/ Administer \/ Tick \/ UNCHANGED engineVars
  BY <1>3, InvRest
<1> QED
  BY <1>1, <1>2, <1>3 DEF Next

-----------------------------------------------------------------------------
(* The inbox and the notifications. *)

\* Who decides by a role finds the step by the same role.
LEMMA AbleFindsIt ==
    ASSUME NEW u \in Users, NEW c \in Chains, NEW r \in Rules, Actionable(u, c, r),
           MayDecide(u, Rule[r].role, chain[c].site, now)
    PROVE  InInbox(u, c, r)
BY DEF MayDecide, InInbox, HoldsRole

\* A chain that waits has its current order announced, or a handler is about to.
Announcing(c) ==
    \E w \in Workers : /\ job[w].pc \in {"activate", "notify"}
                       /\ job[w].chain = c /\ job[w].cur = chain[c].currentStep

Announced(c) == \E n \in told[c] : n.order = chain[c].currentStep

ToldOf(c) ==
    /\ chain[c].status = "NONE" => told[c] = {}
    /\ \A n \in told[c] : NoticeRight(chain[c], n)
    /\ failures = 0 /\ chain[c].status = "PENDING" => Announced(c) \/ Announcing(c)

ToldInv == \A c \in Chains : ToldOf(c)

AnnounceInv == IInv /\ ToldInv /\ failures \in Nat

LEMMA InboxFollows == IInv /\ ToldInv => InboxAndAudienceAgree
<1> SUFFICES ASSUME IInv, ToldInv, NEW c \in Chains
             PROVE  /\ \A r \in chain[c].rules : \A u \in Able(chain[c], r, now) :
                          Actionable(u, c, r) => InInbox(u, c, r)
                    /\ \A n \in told[c] : NoticeRight(chain[c], n)
                    /\ failures = 0 /\ chain[c].status = "PENDING" /\ ~Working(c) =>
                          \E n \in told[c] : n.order = chain[c].currentStep
  BY DEF InboxAndAudienceAgree
<1>1. chain[c].rules \subseteq Rules
  BY DEF IInv, TypeOK, Chain
<1>2. ASSUME NEW r \in chain[c].rules, NEW u \in Able(chain[c], r, now), Actionable(u, c, r)
      PROVE  InInbox(u, c, r)
  BY <1>1, <1>2, AbleFindsIt DEF Able
<1>3. Announcing(c) => Working(c)
  BY DEF Announcing, Working, Idle
<1> QED
  BY <1>2, <1>3 DEF ToldInv, ToldOf, Announced

LEMMA ToldInit == Init => ToldInv
BY DEF Init, ToldInv, ToldOf, NoChain

\* A notice stays right as long as its chain exists.
LEMMA NoticeStays ==
    ASSUME NEW ch, NEW ch2, ch2.rules = ch.rules, ch2.requester = ch.requester,
           ch2.site = ch.site, NEW n, NoticeRight(ch, n)
    PROVE  NoticeRight(ch2, n)
BY DEF NoticeRight, Able

\* A chain nothing is announced of and whose step does not move, while a handler moves on
\* that announces nothing, or goes on to announce the same.
LEMMA ToldStays ==
    ASSUME ToldInv, NEW c \in Chains, NEW w \in Workers,
           chain'[c] = chain[c], told'[c] = told[c],
           failures' = 0 => failures = 0,
           \A x \in Workers \ {w} : job'[x] = job[x],
           \/ failures' # 0
           \/ job[w].pc \notin {"activate", "notify"} \/ job[w].chain # c
           \/ /\ job'[w].pc \in {"activate", "notify"}
              /\ job'[w].chain = job[w].chain /\ job'[w].cur = job[w].cur
    PROVE  ToldOf(c)'
<1>1. ToldOf(c)
  BY DEF ToldInv
<1>2. failures' = 0 /\ Announcing(c) => Announcing(c)'
  BY DEF Announcing
<1> QED
  BY <1>1, <1>2 DEF ToldOf, Announced

\* A chain another outcome is written to, or whose step moves and is then announced.
LEMMA ToldMoves ==
    ASSUME ToldInv, NEW c \in Chains, NEW w \in Workers,
           chain[c].status # "NONE", chain'[c].status # "NONE",
           chain'[c].rules = chain[c].rules, chain'[c].requester = chain[c].requester,
           chain'[c].site = chain[c].site, told'[c] = told[c],
           \/ chain'[c].status # "PENDING"
           \/ /\ job'[w].pc \in {"activate", "notify"} /\ job'[w].chain = c
              /\ job'[w].cur = chain'[c].currentStep
    PROVE  ToldOf(c)'
<1>1. \A n \in told[c] : NoticeRight(chain'[c], n)
  BY NoticeStays DEF ToldInv, ToldOf
<1>2. chain'[c].status # "PENDING" \/ Announcing(c)'
  BY DEF Announcing
<1> QED
  BY <1>1, <1>2 DEF ToldOf

LEMMA ToldSubmitCreate ==
    ASSUME IInv, ToldInv, UNCHANGED failures, NEW w \in Workers, NEW c \in Chains,
           SubmitCreate(w, c)
    PROVE  ToldInv'
<1>1. /\ chain'[c].currentStep = Min(Orders(job[w].rules)) /\ chain'[c].status = "PENDING"
      /\ job'[w].pc = "notify" /\ job'[w].chain = c /\ job'[w].cur = Min(Orders(job[w].rules))
      /\ \A x \in Workers \ {w} : job'[x] = job[x]
      /\ \A d \in Chains \ {c} : chain'[d] = chain[d]
      /\ told' = told /\ job[w].pc = "routed" /\ chain[c].status = "NONE"
  BY DEF IInv, TypeOK, SubmitCreate, IdleJob
<1>2. ToldOf(c)'
  <2>1. told[c] = {}
    BY <1>1 DEF ToldInv, ToldOf
  <2>2. Announcing(c)'
    BY <1>1 DEF Announcing
  <2> QED
    BY <1>1, <2>1, <2>2 DEF ToldOf
<1>3. \A d \in Chains \ {c} : ToldOf(d)'
  BY <1>1, ToldStays
<1> QED
  BY <1>2, <1>3 DEF ToldInv

LEMMA ToldNotify ==
    ASSUME IInv, ToldInv, UNCHANGED failures, NEW w \in Workers, NotifyStep(w)
    PROVE  ToldInv'
<1>1. PICK c \in Chains : c = job[w].chain /\ chain[c].status # "NONE"
  BY DEF IInv, HandlersSound, HandlerSound, NotifyStep
<1> DEFINE o == job[w].cur
           n == [order |-> o, at |-> now, users |-> Audience(chain[c], o, now)]
<1>2. /\ told'[c] = told[c] \cup {n}
      /\ \A d \in Chains \ {c} : told'[d] = told[d]
      /\ \A x \in Workers \ {w} : job'[x] = job[x]
      /\ UNCHANGED chain
  BY <1>1 DEF IInv, TypeOK, NotifyStep, Done
<1>3. NoticeRight(chain[c], n) /\ n.order = o
  BY AudienceIsRight
<1> HIDE DEF n
<1>4. ToldOf(c)'
  <2>1. ToldOf(c)
    BY DEF ToldInv
  <2>2. Announced(c) => Announced(c)'
    BY <1>2 DEF Announced
  <2>3. Announcing(c) => Announcing(c)' \/ Announced(c)'
    <3>1. ASSUME NEW x \in Workers, job[x].pc \in {"activate", "notify"},
                 job[x].chain = c, job[x].cur = chain[c].currentStep
          PROVE  Announcing(c)' \/ Announced(c)'
      <4>1. CASE x = w
        BY <1>2, <1>3, <3>1, <4>1 DEF Announced
      <4>2. CASE x # w
        BY <1>2, <3>1, <4>2 DEF Announcing
      <4> QED
        BY <4>1, <4>2
    <3> QED
      BY <3>1 DEF Announcing
  <2>4. \A m \in told'[c] : NoticeRight(chain[c], m)
    BY <1>2, <1>3, <2>1 DEF ToldOf
  <2> QED
    BY <1>1, <1>2, <2>1, <2>2, <2>3, <2>4 DEF ToldOf
<1>5. \A d \in Chains \ {c} : ToldOf(d)'
  BY <1>1, <1>2, ToldStays
<1> QED
  BY <1>4, <1>5 DEF ToldInv

LEMMA ToldOutcome ==
    ASSUME IInv, ToldInv, UNCHANGED failures, NEW w \in Workers, job[w].pc = "decided",
           ReturnChain(w) \/ \E s \in Decisions : CloseChain(w, s)
    PROVE  ToldInv'
<1>1. PICK c \in Chains : c = job[w].chain /\ chain[c].status # "NONE" /\ chain[c] \in Chain
  BY DEF IInv, HandlersSound, HandlerSound, TypeOK
<1>2. /\ chain'[c].status \in Decisions
      /\ chain'[c].rules = chain[c].rules /\ chain'[c].requester = chain[c].requester
      /\ chain'[c].site = chain[c].site
      /\ \A d \in Chains \ {c} : chain'[d] = chain[d]
      /\ \A x \in Workers \ {w} : job'[x] = job[x]
      /\ UNCHANGED told
  <2>1. CASE ReturnChain(w)
    BY <1>1, <2>1 DEF ReturnChain, GoTo, IInv, TypeOK, Chain, Decisions
  <2>2. ASSUME NEW s \in Decisions, CloseChain(w, s)
        PROVE  /\ chain'[c].status \in Decisions
               /\ chain'[c].rules = chain[c].rules /\ chain'[c].requester = chain[c].requester
               /\ chain'[c].site = chain[c].site
               /\ \A d \in Chains \ {c} : chain'[d] = chain[d]
               /\ \A x \in Workers \ {w} : job'[x] = job[x]
               /\ UNCHANGED told
    BY <1>1, <2>2 DEF CloseChain, GoTo, IInv, TypeOK, Chain
  <2> QED
    BY <2>1, <2>2
<1>3. ToldOf(c)'
  BY <1>1, <1>2, ToldMoves DEF Decisions
<1>4. \A d \in Chains \ {c} : ToldOf(d)'
  BY <1>2, ToldStays
<1> QED
  BY <1>3, <1>4 DEF ToldInv

LEMMA ToldAdvance ==
    ASSUME IInv, ToldInv, UNCHANGED failures, NEW w \in Workers, NEW mode \in Modes,
           AdvanceStep(w, mode)
    PROVE  ToldInv'
<1>1. PICK c \in Chains : c = job[w].chain /\ chain[c].status # "NONE" /\ chain[c] \in Chain
  BY DEF IInv, HandlersSound, HandlerSound, TypeOK, AdvanceStep, ApprovalOf
<1> DEFINE n == Min(Later(chain[c].rules, job[w].cur))
<1>2. /\ chain' = [chain EXCEPT ![c].currentStep = n]
      /\ job' = [job EXCEPT ![w] = [@ EXCEPT !.pc = "activate", !.cur = n]]
      /\ UNCHANGED told /\ job[w].pc = "decided"
  BY <1>1 DEF AdvanceStep, ApprovalOf
<1> HIDE DEF n
<1>3. /\ chain'[c].status = chain[c].status /\ chain'[c].currentStep = n
      /\ chain'[c].rules = chain[c].rules /\ chain'[c].requester = chain[c].requester
      /\ chain'[c].site = chain[c].site
      /\ \A d \in Chains \ {c} : chain'[d] = chain[d]
  BY <1>1, <1>2 DEF IInv, TypeOK, Chain
<1>4. /\ job'[w].pc = "activate" /\ job'[w].chain = c /\ job'[w].cur = n
      /\ \A x \in Workers \ {w} : job'[x] = job[x]
  <2>1. job[w] \in Job
    BY DEF IInv, TypeOK
  <2> QED
    BY <1>1, <1>2, <2>1 DEF IInv, TypeOK, Job
<1>5. ToldOf(c)'
  BY <1>1, <1>2, <1>3, <1>4, ToldMoves
<1>6. \A d \in Chains \ {c} : ToldOf(d)'
  BY <1>2, <1>3, <1>4, ToldStays
<1> QED
  BY <1>5, <1>6 DEF ToldInv

LEMMA ToldStep ==
    ASSUME IInv, ToldInv, failures \in Nat, [Next]_engineVars
    PROVE  ToldInv' /\ failures' \in Nat
<1>1. TypeOK
  BY DEF IInv
<1>2. ASSUME NEW w \in Workers, UNCHANGED <<chain, told, failures>>,
             \A x \in Workers \ {w} : job'[x] = job[x],
             job[w].pc \notin {"activate", "notify"}
      PROVE  ToldInv'
  BY <1>2, ToldStays DEF ToldInv
<1>3. ASSUME NEW w \in Workers, UNCHANGED failures, Call(w)
      PROVE  ToldInv'
  BY <1>1, <1>2, <1>3 DEF Call, SubmitRead, DecideRead, Idle, TypeOK
<1>4. ASSUME NEW w \in Workers, UNCHANGED failures, Continue(w)
      PROVE  ToldInv'
  <2>1. CASE Reject(w) \/ ReturnChain(w) \/ \E mode \in Modes : Approve(w, mode)
    BY <1>4, <2>1, ToldOutcome DEF Reject, ReturnChain, Approve, ApprovalOf, Decisions
  <2>2. CASE DecideWrite(w) \/ Fire(w) \/ CallbackReturn(w) \/ \E mode \in Modes : KeepWaiting(w, mode)
    <3>1. /\ UNCHANGED <<chain, told>> /\ \A x \in Workers \ {w} : job'[x] = job[x]
          /\ job[w].pc \in {"authorised", "fire", "callback", "decided"}
      BY <1>1, <2>2 DEF DecideWrite, Fire, CallbackReturn, KeepWaiting, ApprovalOf, GoTo, Done, TypeOK
    <3> QED
      BY <1>2, <1>4, <3>1
  <2>3. CASE ActivateStep(w)
    <3>1. job[w] \in Job
      BY <1>1 DEF TypeOK
    <3>2. /\ UNCHANGED <<chain, told>> /\ \A x \in Workers \ {w} : job'[x] = job[x]
          /\ job'[w].pc = "notify" /\ job'[w].chain = job[w].chain /\ job'[w].cur = job[w].cur
      BY <1>1, <2>3, <3>1 DEF ActivateStep, GoTo, TypeOK, Job
    <3> QED
      BY <1>4, <3>2, ToldStays DEF ToldInv
  <2> QED
    BY <1>4, <2>1, <2>2, <2>3, ToldSubmitCreate, ToldAdvance, ToldNotify DEF Continue
<1>5. CASE (Administer \/ Tick \/ UNCHANGED engineVars) /\ UNCHANGED failures
  <2>1. UNCHANGED <<chain, told, job, failures>>
    BY <1>5 DEF Administer, CreateRule, UpdateRule, RemoveRule, SetRule, Tick, engineVars
  <2> QED
    BY <2>1 DEF ToldInv, ToldOf, Announced, Announcing
<1>6. ASSUME NEW w \in Workers, Fail(w)
      PROVE  ToldInv' /\ failures' \in Nat
  <2>1. /\ UNCHANGED <<chain, told>> /\ failures' # 0 /\ failures' \in Nat
        /\ \A x \in Workers \ {w} : job'[x] = job[x]
    BY <1>1, <1>6 DEF Fail, Done, TypeOK
  <2> QED
    BY <2>1, ToldStays DEF ToldInv
<1> QED
  BY <1>3, <1>4, <1>5, <1>6 DEF Next, engineVars

-----------------------------------------------------------------------------
(* The theorems. *)

\* Every behaviour keeps the inductive invariant.
THEOREM Invariance == Spec => []IInv
<1>1. Init => IInv
  BY InvInit
<1>2. IInv /\ [Next]_engineVars => IInv'
  BY InvStep
<1> QED
  BY <1>1, <1>2, PTL DEF Spec

\* Every table and every handler keeps its type.
THEOREM TypeCorrect == Spec => []TypeOK
<1>1. IInv => TypeOK
  BY DEF IInv
<1> QED
  BY <1>1, Invariance, PTL

\* Whatever requests race, every decision was made by somebody entitled to it
\* who is not the requester (decide, lines 162-192).
THEOREM DecisionsAreAuthorised == Spec => []DecisionsAuthorised
<1>1. IInv => DecisionsAuthorised
  BY DEF IInv
<1> QED
  BY <1>1, Invariance, PTL

\* No step is decided before the step orders below its own are granted.
THEOREM VotesAreInOrder == Spec => []VotesInOrder
<1>1. IInv => VotesInOrder
  BY DEF IInv
<1> QED
  BY <1>1, Invariance, PTL

\* No outcome is written or delivered that the decisions do not justify.
THEOREM OutcomesAreEarned == Spec => []OutcomesEarned
<1>1. IInv => OutcomesEarned
  BY DEF IInv
<1> QED
  BY <1>1, Invariance, PTL

\* The current step of a chain never passes an order that was not granted.
THEOREM AdvancesAreInOrder == Spec => []AdvancedInOrder
<1>1. IInv => AdvancedInOrder
  BY DEF IInv
<1> QED
  BY <1>1, Invariance, PTL

\* Every handler in flight acts on knowledge that still holds.
THEOREM HandlersAreSound == Spec => []HandlersSound
<1>1. IInv => HandlersSound
  BY DEF IInv
<1> QED
  BY <1>1, Invariance, PTL

\* However requests overlap: whoever may decide a waiting step finds it in the inbox,
\* those told when a step order opens are those who may decide it then, but for who only
\* stands in for the requester, and without a failure no chain waits at an order that was
\* not announced (notifyStep, lines 509-529, called from submit and advanceOnApproval).
THEOREM InboxAgrees == Spec => []InboxAndAudienceAgree
<1>1. Init => AnnounceInv
  BY InvInit, ToldInit DEF Init, AnnounceInv
<1>2. AnnounceInv /\ [Next]_engineVars => AnnounceInv'
  BY InvStep, ToldStep DEF AnnounceInv
<1>3. AnnounceInv => InboxAndAudienceAgree
  BY InboxFollows DEF AnnounceInv
<1> QED
  BY <1>1, <1>2, <1>3, PTL DEF Spec

-----------------------------------------------------------------------------
(* One request at a time. *)

\* The steps of a chain that goes on: none refused, none decided ahead of its turn.
Regular(c) ==
    \A r \in chain[c].rules :
        /\ step[c][r].decision \in {None, "APPROVED"}
        /\ Rule[r].order > chain[c].currentStep => step[c][r].decision = None

Waiting(c) == Regular(c) /\ Undecided(c) \cap At(chain[c].rules, chain[c].currentStep) # {}

\* The snapshot of the only handler is the table.
Fresh(w) ==
    LET j == job[w] IN
    /\ j.cur = chain[j.chain].currentStep
    /\ j.seen = ApprovedSteps(j.chain)

AloneInv ==
    \A w \in Workers :
        job[w].pc \in {"authorised", "decided"} => chain[job[w].chain].status = "PENDING"

\* Until a request fails: a pending chain waits, unless its handler has just written a
\* decision; and then, of an approval, the chain goes on from what the handler sees.
WaitInv ==
    failures = 0 =>
        /\ \A c \in Chains :
             \/ chain[c].status # "PENDING" \/ Waiting(c)
             \/ \E w \in Workers : job[w].pc = "decided" /\ job[w].chain = c
        /\ \A w \in Workers :
             /\ job[w].pc = "authorised" => Fresh(w)
             /\ job[w].pc = "decided" /\ job[w].decision = "APPROVED" =>
                    Fresh(w) /\ Regular(job[w].chain) /\ job[w].rule \in job[w].seen

Alone == \A v, w \in Workers : v = w

LEMMA AloneInit == Init => AloneInv
BY DEF Init, AloneInv, IdleJob

LEMMA AloneStep ==
    ASSUME Alone, IInv, AloneInv, [Next]_engineVars
    PROVE  AloneInv'
<1>1. TypeOK
  BY DEF IInv
<1>2. ASSUME NEW w \in Workers, Call(w)
      PROVE  AloneInv'
  <2>1. CASE \E q \in Requests : SubmitRead(w, q)
    BY <1>1, <2>1 DEF SubmitRead, Alone, AloneInv, TypeOK, IdleJob
  <2>2. CASE \E u \in Users, c \in Chains, r \in Rules, d \in Decisions : DecideRead(w, u, c, r, d)
    BY <1>1, <2>2 DEF DecideRead, Actionable, Alone, AloneInv, TypeOK
  <2> QED
    BY <1>2, <2>1, <2>2 DEF Call
<1>3. ASSUME NEW w \in Workers, Done(w)
      PROVE  AloneInv'
  BY <1>1, <1>3 DEF Done, Alone, AloneInv, TypeOK, IdleJob
<1>4. ASSUME NEW w \in Workers, DecideWrite(w)
      PROVE  AloneInv'
  <2>1. job'[w].chain = job[w].chain /\ job[w].pc = "authorised" /\ UNCHANGED chain
    BY <1>1, <1>4 DEF DecideWrite, TypeOK
  <2> QED
    BY <2>1 DEF Alone, AloneInv
<1>5. ASSUME NEW w \in Workers, NEW pc \in PC \ {"authorised", "decided"}, job'[w].pc = pc
      PROVE  AloneInv'
  BY <1>5 DEF Alone, AloneInv
<1>6. CASE UNCHANGED <<job, chain>>
  BY <1>6 DEF AloneInv
<1>7. ASSUME NEW w \in Workers, Continue(w)
      PROVE  AloneInv'
  <2>1. ASSUME NEW s, CloseChain(w, s)
        PROVE  AloneInv'
    BY <1>1, <1>5, <2>1, GoesTo DEF CloseChain, PC
  <2>2. CASE ReturnChain(w) \/ Fire(w)
    BY <1>1, <1>5, <2>2, GoesTo DEF ReturnChain, Fire, PC
  <2>3. ASSUME NEW mode \in Modes, AdvanceStep(w, mode)
        PROVE  AloneInv'
    <3>1. job[w] \in Job
      BY <1>1 DEF TypeOK
    <3>2. job'[w].pc = "activate"
      BY <1>1, <2>3, <3>1 DEF AdvanceStep, TypeOK, Job
    <3> QED
      BY <1>5, <3>2 DEF PC
  <2>4. ASSUME NEW c \in Chains, SubmitCreate(w, c)
        PROVE  AloneInv'
    <3>1. job'[w].pc = "notify"
      BY <1>1, <2>4 DEF SubmitCreate, TypeOK, IdleJob
    <3> QED
      BY <1>5, <3>1 DEF PC
  <2>5. CASE ActivateStep(w)
    BY <1>1, <1>5, <2>5, GoesTo DEF ActivateStep, PC
  <2> QED
    BY <1>3, <1>4, <1>7, <2>1, <2>2, <2>3, <2>4, <2>5
       DEF Continue, Reject, KeepWaiting, Approve, NotifyStep, CallbackReturn
<1>8. CASE Administer \/ Tick \/ UNCHANGED engineVars
  BY <1>6, <1>8 DEF Administer, CreateRule, UpdateRule, RemoveRule, SetRule, Tick, engineVars
<1>9. CASE \E w \in Workers : Fail(w)
  BY <1>3, <1>9 DEF Fail
<1> QED
  BY <1>2, <1>7, <1>8, <1>9 DEF Next


-----------------------------------------------------------------------------

LEMMA WaitInit == Init => WaitInv
BY DEF Init, WaitInv, IdleJob, NoChain

\* A chain that is not written, nor its steps' decisions, stays as it is.
LEMMA WaitingStays ==
    ASSUME NEW c \in Chains, chain'[c] = chain[c],
           \A r \in chain[c].rules : step'[c][r].decision = step[c][r].decision
    PROVE  /\ Regular(c)' <=> Regular(c)
           /\ Waiting(c)' <=> Waiting(c)
           /\ ApprovedSteps(c)' = ApprovedSteps(c)
BY DEF Regular, Waiting, Undecided, ApprovedSteps

\* A handler that reads, waits for nothing, ends or goes on to tell.
LEMMA WaitReadOnly ==
    ASSUME IInv, WaitInv, UNCHANGED chain,
           \A c \in Chains, r \in Rules : step'[c][r].decision = step[c][r].decision,
           failures' = 0 => failures = 0,
           \A w \in Workers :
              \/ job'[w] = job[w]
              \/ /\ job[w].pc = "decided" => failures' # 0
                 /\ job'[w].pc = "authorised" => Fresh(w)'
                 /\ job'[w].pc # "decided"
    PROVE  WaitInv'
<1>1. TypeOK /\ \A c \in Chains : chain[c].rules \subseteq Rules
  BY DEF IInv, TypeOK, Chain
<1>2. \A c \in Chains : /\ Regular(c)' <=> Regular(c)
                        /\ Waiting(c)' <=> Waiting(c)
                        /\ ApprovedSteps(c)' = ApprovedSteps(c)
  BY <1>1, WaitingStays
<1> SUFFICES ASSUME failures' = 0 PROVE WaitInv'
  BY DEF WaitInv
<1>3. failures = 0
  OBVIOUS
<1>4. ASSUME NEW c \in Chains
      PROVE  \/ chain'[c].status # "PENDING" \/ Waiting(c)'
             \/ \E w \in Workers : job'[w].pc = "decided" /\ job'[w].chain = c
  BY <1>2, <1>3 DEF WaitInv
<1>5. ASSUME NEW w \in Workers
      PROVE  /\ job'[w].pc = "authorised" => Fresh(w)'
             /\ job'[w].pc = "decided" /\ job'[w].decision = "APPROVED" =>
                    Fresh(w)' /\ Regular(job[w].chain)' /\ job'[w].rule \in job'[w].seen
  <2>1. CASE job'[w] = job[w]
    <3>1. job[w].pc \in {"authorised", "decided"} => job[w].chain \in Chains
      BY DEF IInv, HandlersSound, HandlerSound
    <3>2. job[w].chain \in Chains /\ Fresh(w) => Fresh(w)'
      BY <1>2, <2>1 DEF Fresh
    <3> QED
      BY <1>2, <1>3, <2>1, <3>1, <3>2 DEF WaitInv
  <2> QED
    BY <2>1
<1> QED
  BY <1>4, <1>5 DEF WaitInv


\* Of the only handler nothing needs to be known once it neither is authorised nor
\* has decided: every pending chain waits again.
LEMMA WaitsAgain ==
    ASSUME Alone, IInv, AloneInv, WaitInv, NEW w \in Workers,
           job'[w].pc \notin {"authorised", "decided"},
           failures' = failures,
           \A c \in Chains : chain'[c].status # "PENDING" \/ Waiting(c)'
    PROVE  WaitInv'
BY DEF Alone, WaitInv

\* A chain other than the one the handler writes.
LEMMA OtherWaits ==
    ASSUME Alone, IInv, WaitInv, failures = 0, NEW w \in Workers, NEW d \in Chains,
           job[w].pc # "decided" \/ job[w].chain # d,
           chain'[d] = chain[d], step'[d] = step[d]
    PROVE  chain'[d].status # "PENDING" \/ Waiting(d)'
<1>1. chain[d].status # "PENDING" \/ Waiting(d)
  BY DEF Alone, WaitInv
<1>2. chain[d].rules \subseteq Rules
  BY DEF IInv, TypeOK, Chain
<1> QED
  BY <1>1, <1>2, WaitingStays

LEMMA WaitSubmitCreate ==
    ASSUME Alone, IInv, AloneInv, WaitInv, UNCHANGED failures,
           NEW w \in Workers, NEW c \in Chains, SubmitCreate(w, c)
    PROVE  WaitInv'
<1>1. TypeOK /\ HandlerSound(w)
  BY DEF IInv, HandlersSound
<1> SUFFICES ASSUME failures' = 0 PROVE WaitInv'
  BY DEF WaitInv
<1>2. ASSUME NEW d \in Chains \ {c}
      PROVE  chain'[d].status # "PENDING" \/ Waiting(d)'
  <2>1. chain'[d] = chain[d] /\ step'[d] = step[d] /\ job[w].pc = "routed"
    BY <1>1 DEF SubmitCreate, TypeOK
  <2> QED
    BY <2>1, OtherWaits
<1>3. Waiting(c)'
  <2> DEFINE rules == job[w].rules
  <2>1. rules \in SUBSET Rules /\ rules # {}
    BY <1>1 DEF TypeOK, Job, HandlerSound, SubmitCreate
  <2>2. Min(Orders(rules)) \in Orders(rules)
    BY <2>1, OrdersAreNaturals, MinOfNaturals
  <2>3. /\ chain'[c].rules = rules /\ chain'[c].currentStep = Min(Orders(rules))
        /\ \A r \in Rules : step'[c][r].decision = None
    BY <1>1 DEF SubmitCreate, TypeOK, OpenStep
  <2>4. \E r \in rules : Rule[r].order = chain'[c].currentStep
    BY <2>2, <2>3 DEF Orders
  <2> HIDE DEF rules
  <2> QED
    BY <2>1, <2>3, <2>4 DEF Waiting, Regular, Undecided, At
<1>4. job'[w].pc = "notify"
  BY <1>1 DEF SubmitCreate, TypeOK, IdleJob
<1> QED
  BY <1>2, <1>3, <1>4, WaitsAgain

LEMMA WaitDecideRead ==
    ASSUME Alone, IInv, WaitInv, UNCHANGED failures, NEW w \in Workers,
           NEW u \in Users, NEW c \in Chains, NEW r \in Rules, NEW d \in Decisions,
           DecideRead(w, u, c, r, d)
    PROVE  WaitInv'
<1>1. job \in [Workers -> Job] /\ UNCHANGED <<chain, step>> /\ job[w].pc = "idle"
  BY DEF IInv, TypeOK, DecideRead, Idle
<1>2. /\ job'[w].pc = "authorised" /\ job'[w].chain = c
      /\ job'[w].cur = chain[c].currentStep /\ job'[w].seen = ApprovedSteps(c)
  BY <1>1 DEF DecideRead
<1>3. ApprovedSteps(c)' = ApprovedSteps(c)
  BY <1>1 DEF ApprovedSteps
<1>4. Fresh(w)'
  BY <1>1, <1>2, <1>3 DEF Fresh
<1>5. \A v \in Workers : v = w
  BY DEF Alone
<1> QED
  BY <1>1, <1>2, <1>4, <1>5, WaitReadOnly

LEMMA WaitDecideWrite ==
    ASSUME Alone, IInv, AloneInv, WaitInv, UNCHANGED failures,
           NEW w \in Workers, DecideWrite(w)
    PROVE  WaitInv'
<1>1. TypeOK /\ HandlerSound(w) /\ job[w] \in Job /\ \A v \in Workers : v = w
  BY DEF IInv, HandlersSound, TypeOK, Alone
<1> SUFFICES ASSUME failures' = 0 PROVE WaitInv'
  BY DEF WaitInv
<1>2. PICK j \in Job, c \in Chains :
        /\ j = job[w] /\ c = j.chain /\ j.pc = "authorised" /\ chain[c].status = "PENDING"
        /\ Authorised(j, chain[c], votes[c])
  BY <1>1 DEF DecideWrite, HandlerSound, AloneInv
<1>3. Waiting(c) /\ Fresh(w)
  BY <1>1, <1>2 DEF WaitInv
<1>4. /\ j.rule \in chain[c].rules /\ Rule[j.rule].order = chain[c].currentStep
      /\ j.rule \in Rules /\ chain[c].rules \subseteq Rules /\ j.seen = ApprovedSteps(c)
      /\ chain[c].currentStep \in Nat
  BY <1>1, <1>2, <1>3 DEF Authorised, Fresh, TypeOK, Chain
<1>5. /\ UNCHANGED chain
      /\ \A d \in Chains \ {c} : step'[d] = step[d]
      /\ step'[c][j.rule].decision = j.decision
      /\ \A r \in Rules \ {j.rule} : step'[c][r] = step[c][r]
  <2>1. step[c][j.rule] \in Step
    BY <1>1, <1>4 DEF TypeOK
  <2>2. [step[c][j.rule] EXCEPT !.decision = j.decision, !.by = j.user].decision = j.decision
    BY <2>1 DEF Step
  <2> QED
    BY <1>1, <1>2, <1>4, <2>2 DEF DecideWrite, TypeOK
<1>6. /\ job'[w].pc = "decided" /\ job'[w].chain = c /\ job'[w].cur = j.cur
      /\ job'[w].decision = j.decision /\ job'[w].rule = j.rule
      /\ j.decision = "APPROVED" => job'[w].seen = j.seen \cup {j.rule}
  BY <1>1, <1>2 DEF DecideWrite, TypeOK, Job
<1>7. ASSUME j.decision = "APPROVED"
      PROVE  Fresh(w)' /\ Regular(c)' /\ job'[w].rule \in job'[w].seen
  <2>1. ApprovedSteps(c)' = ApprovedSteps(c) \cup {j.rule}
    BY <1>4, <1>5, <1>7 DEF ApprovedSteps
  <2>2. Fresh(w)'
    BY <1>2, <1>3, <1>4, <1>5, <1>6, <1>7, <2>1 DEF Fresh
  <2>3. Regular(c)'
    BY <1>3, <1>4, <1>5, <1>7 DEF Waiting, Regular
  <2> QED
    BY <1>6, <1>7, <2>2, <2>3
<1>8. \A d \in Chains \ {c} : chain'[d].status # "PENDING" \/ Waiting(d)'
  BY <1>2, <1>5, OtherWaits
<1> QED
  BY <1>1, <1>6, <1>7, <1>8 DEF WaitInv

LEMMA WaitOutcome ==
    ASSUME Alone, IInv, AloneInv, WaitInv, UNCHANGED failures, NEW w \in Workers,
           ReturnChain(w) \/ \E s \in Decisions : CloseChain(w, s) /\ job[w].pc = "decided"
    PROVE  WaitInv'
<1>1. TypeOK /\ HandlerSound(w) /\ job[w].pc = "decided"
  BY DEF IInv, HandlersSound, TypeOK, ReturnChain
<1>2. PICK c \in Chains : c = job[w].chain
  BY <1>1 DEF HandlerSound
<1> SUFFICES ASSUME failures' = 0 PROVE WaitInv'
  BY DEF WaitInv
<1>3. /\ chain'[c].status # "PENDING" /\ UNCHANGED step
      /\ \A d \in Chains \ {c} : chain'[d] = chain[d]
  <2>1. chain[c] \in Chain
    BY <1>1 DEF TypeOK
  <2>2. CASE ReturnChain(w)
    BY <1>1, <1>2, <2>1, <2>2 DEF ReturnChain, TypeOK, Chain
  <2>3. ASSUME NEW s \in Decisions, CloseChain(w, s)
        PROVE  /\ chain'[c].status # "PENDING" /\ UNCHANGED step
               /\ \A d \in Chains \ {c} : chain'[d] = chain[d]
    BY <1>1, <1>2, <2>1, <2>3 DEF CloseChain, TypeOK, Chain, Decisions
  <2> QED
    BY <2>2, <2>3
<1>4. job'[w].pc = "fire"
  BY <1>1, GoesTo DEF ReturnChain, CloseChain
<1>5. \A d \in Chains \ {c} : chain'[d].status # "PENDING" \/ Waiting(d)'
  BY <1>2, <1>3, OtherWaits
<1> QED
  BY <1>3, <1>4, <1>5, WaitsAgain

LEMMA WaitKeepWaiting ==
    ASSUME Alone, IInv, AloneInv, WaitInv, UNCHANGED failures, NEW w \in Workers,
           NEW mode \in Modes, KeepWaiting(w, mode)
    PROVE  WaitInv'
<1>1. /\ TypeOK /\ HandlerSound(w) /\ job[w].pc = "decided" /\ job[w].decision = "APPROVED"
      /\ UNCHANGED <<chain, step>>
  BY DEF IInv, HandlersSound, KeepWaiting, ApprovalOf
<1>2. PICK c \in Chains : c = job[w].chain /\ Authorised(job[w], chain[c], votes[c])
  BY <1>1 DEF HandlerSound
<1> SUFFICES ASSUME failures' = 0 PROVE WaitInv'
  BY DEF WaitInv
<1>3. Fresh(w) /\ Regular(c) /\ job[w].rule \in job[w].seen
  BY <1>1, <1>2 DEF WaitInv
<1>4. Waiting(c)'
  <2> DEFINE here == At(chain[c].rules, chain[c].currentStep)
             seen == ApprovedSteps(c)
  <2>1. /\ ~Satisfied(mode, here, seen)
        /\ job[w].rule \in here /\ job[w].rule \in seen
    BY <1>1, <1>2, <1>3 DEF KeepWaiting, ApprovalOf, Fresh, Authorised, At
  <2>2. PICK r \in here : r \notin seen
    BY <2>1 DEF Satisfied
  <2>3. r \in Undecided(c)
    BY <1>3, <2>2 DEF At, ApprovedSteps, Undecided, Regular
  <2>4. Waiting(c)
    BY <1>3, <2>2, <2>3 DEF Waiting
  <2> QED
    BY <1>1, <2>4 DEF Waiting, Regular, Undecided
<1>5. \A d \in Chains \ {c} : chain'[d].status # "PENDING" \/ Waiting(d)'
  BY <1>1, <1>2, OtherWaits
<1>6. job'[w].pc = "idle"
  BY <1>1 DEF KeepWaiting, Done, TypeOK, IdleJob
<1> QED
  BY <1>4, <1>5, <1>6, WaitsAgain

LEMMA WaitAdvance ==
    ASSUME Alone, IInv, AloneInv, WaitInv, UNCHANGED failures, NEW w \in Workers,
           NEW mode \in Modes, AdvanceStep(w, mode)
    PROVE  WaitInv'
<1>1. /\ TypeOK /\ HandlerSound(w) /\ job[w].pc = "decided" /\ job[w].decision = "APPROVED"
      /\ UNCHANGED step /\ job[w] \in Job
  BY DEF IInv, HandlersSound, AdvanceStep, ApprovalOf, TypeOK
<1>2. PICK c \in Chains : c = job[w].chain
  BY <1>1 DEF HandlerSound
<1> SUFFICES ASSUME failures' = 0 PROVE WaitInv'
  BY DEF WaitInv
<1>3. Fresh(w) /\ Regular(c)
  BY <1>1, <1>2 DEF WaitInv
<1> DEFINE later == Later(chain[c].rules, chain[c].currentStep)
<1>4. /\ later # {} /\ later \subseteq Nat /\ chain[c] \in Chain
      /\ chain'[c] = [chain[c] EXCEPT !.currentStep = Min(later)]
      /\ \A d \in Chains \ {c} : chain'[d] = chain[d]
      /\ job'[w].pc = "activate"
  <2>1. chain[c] \in Chain
    BY <1>1 DEF TypeOK
  <2>2. Orders(chain[c].rules) \subseteq Nat
    BY <2>1, OrdersAreNaturals DEF Chain
  <2>3. job[w].cur = chain[c].currentStep
    BY <1>2, <1>3 DEF Fresh
  <2>4. job'[w].pc = "activate"
    BY <1>1 DEF AdvanceStep, TypeOK, Job
  <2> QED
    BY <1>1, <1>2, <2>1, <2>2, <2>3, <2>4 DEF AdvanceStep, TypeOK, Later
<1>5. Waiting(c)'
  <2>1. Min(later) \in later
    BY <1>4, MinOfNaturals
  <2>2. PICK r \in chain[c].rules : Rule[r].order = Min(later) /\ Rule[r].order > chain[c].currentStep
    BY <2>1 DEF Later, Orders
  <2>3. /\ chain'[c].rules = chain[c].rules /\ chain'[c].currentStep = Min(later)
    BY <1>4 DEF Chain
  <2>4. step[c][r].decision = None
    BY <1>3, <2>2 DEF Regular
  <2>5. \A s \in chain[c].rules : Rule[s].order \in Nat
    BY <1>4, TablesAssumption DEF Chain, RuleRow
  <2>6. chain[c].currentStep \in Nat /\ Min(later) \in Nat /\ Min(later) > chain[c].currentStep
    BY <1>4, <2>1, <2>2 DEF Chain
  <2>7. \A s \in chain[c].rules : Rule[s].order > Min(later) => Rule[s].order > chain[c].currentStep
    BY <2>5, <2>6
  <2> HIDE DEF later
  <2>8. Regular(c)'
    BY <1>1, <1>3, <2>3, <2>7 DEF Regular
  <2> QED
    BY <1>1, <2>2, <2>3, <2>4, <2>8 DEF Waiting, Undecided, At
<1>6. \A d \in Chains \ {c} : chain'[d].status # "PENDING" \/ Waiting(d)'
  BY <1>1, <1>2, <1>4, OtherWaits
<1> QED
  BY <1>4, <1>5, <1>6, WaitsAgain

LEMMA WaitStep ==
    ASSUME Alone, IInv, AloneInv, WaitInv, failures \in Nat, [Next]_engineVars
    PROVE  WaitInv' /\ failures' \in Nat
<1>1. TypeOK /\ \A v, w \in Workers : v = w
  BY DEF IInv, Alone
<1>2. ASSUME NEW w \in Workers, job'[w].pc \in {"idle", "routed", "notify", "fire", "callback"},
             job[w].pc # "decided" \/ failures' # 0, failures' = 0 => failures = 0,
             UNCHANGED chain,
             \A c \in Chains, r \in Rules : step'[c][r].decision = step[c][r].decision
      PROVE  WaitInv'
  BY <1>1, <1>2, WaitReadOnly
<1>3. ASSUME NEW w \in Workers, UNCHANGED failures, Call(w)
      PROVE  WaitInv'
  <2>1. ASSUME NEW q \in Requests, SubmitRead(w, q)
        PROVE  WaitInv'
    <3>1. /\ job'[w].pc = "routed" /\ job[w].pc = "idle" /\ UNCHANGED <<chain, step>>
      BY <1>1, <2>1 DEF SubmitRead, TypeOK, IdleJob, Idle
    <3> QED
      BY <1>2, <1>3, <3>1
  <2> QED
    BY <1>3, <2>1, WaitDecideRead DEF Call
<1>4. ASSUME NEW w \in Workers, UNCHANGED failures, Continue(w)
      PROVE  WaitInv'
  <2>1. CASE Reject(w) \/ \E mode \in Modes : Approve(w, mode)
    BY <1>4, <2>1, WaitOutcome DEF Reject, Approve, ApprovalOf, Decisions
  <2>2. CASE ActivateStep(w)
    <3>1. /\ job'[w].pc = "notify" /\ job[w].pc = "activate" /\ UNCHANGED chain
      BY <1>1, <2>2, GoesTo DEF ActivateStep
    <3>2. ASSUME NEW c \in Chains, NEW r \in Rules
          PROVE  step'[c][r].decision = step[c][r].decision
      <4>1. step[c][r] \in Step /\ job[w].chain \in Chains
        <5>1. HandlerSound(w)
          BY DEF IInv, HandlersSound
        <5> QED
          BY <1>1, <3>1, <5>1 DEF TypeOK, HandlerSound
      <4>2. step'[c][r] \in {step[c][r], [step[c][r] EXCEPT !.activatedAt = now]}
        BY <1>1, <2>2, <4>1 DEF ActivateStep, TypeOK
      <4> QED
        BY <4>1, <4>2 DEF Step
    <3> QED
      BY <1>2, <1>4, <3>1, <3>2
  <2>3. CASE Fire(w)
    <3>1. job'[w].pc = "callback" /\ job[w].pc = "fire" /\ UNCHANGED <<chain, step>>
      BY <1>1, <2>3, GoesTo DEF Fire
    <3> QED
      BY <1>2, <1>4, <3>1
  <2>4. CASE CallbackReturn(w) \/ NotifyStep(w)
    <3>1. job'[w].pc = "idle" /\ job[w].pc # "decided" /\ UNCHANGED <<chain, step>>
      BY <1>1, <2>4 DEF CallbackReturn, NotifyStep, Done, TypeOK, IdleJob
    <3> QED
      BY <1>2, <1>4, <3>1
  <2> QED
    BY <1>4, <2>1, <2>2, <2>3, <2>4, WaitSubmitCreate, WaitDecideWrite, WaitOutcome,
       WaitKeepWaiting, WaitAdvance DEF Continue
<1>5. CASE (Administer \/ Tick \/ UNCHANGED engineVars) /\ UNCHANGED failures
  <2>1. UNCHANGED <<chain, step, job>>
    BY <1>5 DEF Administer, CreateRule, UpdateRule, RemoveRule, SetRule, Tick, engineVars
  <2> QED
    BY <1>5, <2>1, WaitReadOnly
<1>6. ASSUME NEW w \in Workers, Fail(w)
      PROVE  WaitInv' /\ failures' \in Nat
  <2>1. /\ job'[w].pc = "idle" /\ UNCHANGED <<chain, step>>
        /\ failures' # 0 /\ failures' \in Nat
    BY <1>1, <1>6 DEF Fail, Done, TypeOK, IdleJob
  <2> QED
    BY <1>2, <2>1
<1> QED
  BY <1>3, <1>4, <1>5, <1>6 DEF Next, engineVars

SerialInv == IInv /\ AloneInv /\ WaitInv /\ failures \in Nat

\* One request at a time, and none failed: a pending chain waits for somebody.
THEOREM ChainsWait ==
    ASSUME \A v, w \in Workers : v = w
    PROVE  Spec => []StillWaiting
<1>1. Init => SerialInv
  BY InvInit, AloneInit, WaitInit DEF SerialInv, Init
<1>2. SerialInv /\ [Next]_engineVars => SerialInv'
  BY InvStep, AloneStep, WaitStep DEF SerialInv, Alone
<1>3. SerialInv => StillWaiting
  BY DEF SerialInv, WaitInv, StillWaiting, Working, Idle, Waiting, Regular
<1> QED
  BY <1>1, <1>2, <1>3, PTL DEF Spec

-----------------------------------------------------------------------------
(* ApprovalEngine implements ApprovalOutcomes. *)

\* What the mapped variables become.
LEMMA MappedJob ==
    ASSUME NEW w \in Workers, \A x \in Workers \ {w} : job'[x] = job[x]
    PROVE  [x \in Workers |-> Carried(x)]' = [[x \in Workers |-> Carried(x)] EXCEPT ![w] = Carried(w)']
BY DEF Carried

LEMMA Stutters ==
    ASSUME UNCHANGED fired, \A c \in Chains : chain'[c].status = chain[c].status,
           \A w \in Workers : Carried(w)' = Carried(w)
    PROVE  UNCHANGED O!outcomeVars
BY DEF O!outcomeVars

\* A handler that carries no outcome before and after.
LEMMA SilentStep ==
    ASSUME NEW w \in Workers, UNCHANGED fired,
           \A c \in Chains : chain'[c].status = chain[c].status,
           \A x \in Workers \ {w} : job'[x] = job[x],
           job[w].pc \notin {"fire", "callback"}, job'[w].pc \notin {"fire", "callback"}
    PROVE  UNCHANGED O!outcomeVars
<1>1. \A x \in Workers : Carried(x)' = Carried(x)
  BY DEF Carried
<1> QED
  BY <1>1, Stutters

LEMMA OutcomeWritten ==
    ASSUME TypeOK, HandlersSound, Cardinality(Workers) > 1 \/ AloneInv,
           NEW w \in Workers, NEW s \in Decisions,
           job[w].pc = "decided", job[w].decision = s, 
           (ReturnChain(w) /\ s = "RETURNED") \/ CloseChain(w, s)
    PROVE  \E c \in Chains : O!Resolve(w, c, s)
<1>1. PICK c \in Chains : c = job[w].chain /\ chain[c].status # "NONE" /\ chain[c] \in Chain
  BY DEF HandlersSound, HandlerSound, TypeOK
<1>2. /\ job \in [Workers -> Job] /\ job[w] \in Job /\ UNCHANGED fired
      /\ job' = [job EXCEPT ![w].pc = "fire"]
  BY DEF TypeOK, ReturnChain, CloseChain, GoTo
<1>3. /\ chain'[c].status = s
      /\ \A d \in Chains \ {c} : chain'[d] = chain[d]
  <2>1. \/ chain' = [chain EXCEPT ![c].status = s]
        \/ s = "RETURNED" /\ chain' = [chain EXCEPT ![c] = [@ EXCEPT !.status = "RETURNED", !.currentStep = 1]]
    BY <1>1 DEF ReturnChain, CloseChain
  <2>2. DOMAIN chain = Chains /\ "status" \in DOMAIN chain[c]
    BY <1>1 DEF TypeOK, Chain
  <2> QED
    BY <1>1, <2>1, <2>2
<1>4. [d \in Chains |-> chain[d].status]' = [[d \in Chains |-> chain[d].status] EXCEPT ![c] = s]
  BY <1>3
<1>5. job'[w].pc = "fire" /\ job'[w].chain = c /\ job'[w].decision = s /\ \A x \in Workers \ {w} : job'[x] = job[x]
  BY <1>1, <1>2 DEF Job
<1>6. Carried(w)' = [phase |-> "due", chain |-> c, outcome |-> s] /\ Carried(w).phase = "none"
  BY <1>5 DEF Carried
<1>7. [x \in Workers |-> Carried(x)]' = [[x \in Workers |-> Carried(x)] EXCEPT ![w] = [phase |-> "due", chain |-> c, outcome |-> s]]
  BY <1>5, <1>6, MappedJob
<1>8. IF Cardinality(Workers) > 1 THEN chain[c].status # "NONE" ELSE chain[c].status = "PENDING"
  BY <1>1 DEF AloneInv
<1> QED
  BY <1>2, <1>4, <1>6, <1>7, <1>8 DEF O!Resolve

LEMMA ChainOpened ==
    ASSUME TypeOK, HandlersSound, NEW w \in Workers, NEW c \in Chains, SubmitCreate(w, c)
    PROVE  O!Open(c)
<1>1. /\ chain'[c].status = "PENDING" /\ chain[c].status = "NONE"
      /\ \A d \in Chains \ {c} : chain'[d] = chain[d]
      /\ job[w].pc = "routed" /\ job'[w].pc = "notify" /\ UNCHANGED fired
      /\ \A x \in Workers \ {w} : job'[x] = job[x]
  BY DEF SubmitCreate, TypeOK, IdleJob
<1>2. [d \in Chains |-> chain[d].status]' = [[d \in Chains |-> chain[d].status] EXCEPT ![c] = "PENDING"]
  BY <1>1
<1>3. \A x \in Workers : Carried(x)' = Carried(x)
  BY <1>1 DEF Carried
<1>4. UNCHANGED [x \in Workers |-> Carried(x)]
  BY <1>3
<1> QED
  BY <1>1, <1>2, <1>4 DEF O!Open

LEMMA OutcomeFired ==
    ASSUME TypeOK, HandlersSound, NEW w \in Workers, Fire(w)
    PROVE  O!Deliver(w)
<1>1. /\ job[w] \in Job /\ job[w].pc = "fire" /\ job[w].chain \in Chains
      /\ job[w].decision \in Decisions /\ UNCHANGED chain
      /\ job' = [job EXCEPT ![w].pc = "callback"]
      /\ fired' = [fired EXCEPT ![job[w].chain][job[w].decision] = @ + 1]
  BY DEF TypeOK, HandlersSound, HandlerSound, Fire, GoTo
<1>2. /\ job'[w].pc = "callback" /\ job'[w].chain = job[w].chain /\ job'[w].decision = job[w].decision
      /\ \A x \in Workers \ {w} : job'[x] = job[x]
  BY <1>1 DEF TypeOK, Job
<1> DEFINE task == [phase |-> "due", chain |-> job[w].chain, outcome |-> job[w].decision]
<1>3. Carried(w) = task /\ Carried(w)' = [task EXCEPT !.phase = "calling"]
  BY <1>1, <1>2 DEF Carried
<1>4. [x \in Workers |-> Carried(x)]'
        = [[x \in Workers |-> Carried(x)] EXCEPT ![w] = Carried(w)']
  BY <1>2, MappedJob
<1>5. [x \in Workers |-> Carried(x)]'
        = [[x \in Workers |-> Carried(x)] EXCEPT ![w].phase = "calling"]
  BY <1>3, <1>4
<1>6. UNCHANGED [c \in Chains |-> chain[c].status]
  BY <1>1
<1>7. /\ [x \in Workers |-> Carried(x)][w].phase = "due"
      /\ [x \in Workers |-> Carried(x)][w].chain = job[w].chain
      /\ [x \in Workers |-> Carried(x)][w].outcome = job[w].decision
  BY <1>3
<1> QED
  BY <1>1, <1>5, <1>6, <1>7 DEF O!Deliver

LEMMA HandlerEnds ==
    ASSUME TypeOK, NEW w \in Workers, Done(w), UNCHANGED <<chain, fired>>
    PROVE  /\ job[w].pc \notin {"fire", "callback"} => UNCHANGED O!outcomeVars
           /\ job[w].pc = "callback" => O!Return(w)
           /\ job[w].pc \in {"fire", "callback"} => O!Lose(w)
<1>1. job'[w].pc = "idle" /\ \A x \in Workers \ {w} : job'[x] = job[x]
  BY DEF Done, TypeOK, IdleJob
<1>2. Carried(w)' = O!NoTask
  BY <1>1 DEF Carried, O!NoTask
<1>3. [x \in Workers |-> Carried(x)]'
        = [[x \in Workers |-> Carried(x)] EXCEPT ![w] = O!NoTask]
  BY <1>1, <1>2, MappedJob
<1>4. UNCHANGED [c \in Chains |-> chain[c].status]
  OBVIOUS
<1>5. CASE job[w].pc \notin {"fire", "callback"}
  BY <1>1, <1>5, SilentStep
<1>6. CASE job[w].pc \in {"fire", "callback"}
  BY <1>3, <1>4, <1>6 DEF Carried, O!Return, O!Lose
<1> QED
  BY <1>5, <1>6

LEMMA StepIsMapped ==
    ASSUME IInv, Cardinality(Workers) > 1 \/ AloneInv, [Next]_engineVars
    PROVE  [O!OutcomesNext]_O!outcomeVars
<1>1. TypeOK /\ HandlersSound /\ job \in [Workers -> Job]
  BY DEF IInv, TypeOK
<1>2. ASSUME NEW w \in Workers, Call(w)
      PROVE  UNCHANGED O!outcomeVars
  <2>1. /\ UNCHANGED <<chain, fired>> /\ \A x \in Workers \ {w} : job'[x] = job[x]
        /\ job[w].pc = "idle" /\ job'[w].pc \in {"routed", "authorised"}
    <3>1. CASE \E q \in Requests : SubmitRead(w, q)
      BY <1>1, <3>1 DEF SubmitRead, Idle, IdleJob
    <3>2. CASE \E u \in Users, c \in Chains, r \in Rules, d \in Decisions : DecideRead(w, u, c, r, d)
      <4>1. job[w] \in Job
        BY <1>1
      <4> QED
        BY <1>1, <3>2, <4>1 DEF DecideRead, Idle, IdleJob, Job
    <3> QED
      BY <1>2, <3>1, <3>2 DEF Call
  <2> QED
    BY <2>1, SilentStep
<1>3. ASSUME NEW w \in Workers, Continue(w)
      PROVE  [O!OutcomesNext]_O!outcomeVars
  <2>1. CASE \E c \in Chains : SubmitCreate(w, c)
    BY <1>1, <2>1, ChainOpened DEF O!OutcomesNext
  <2>2. CASE DecideWrite(w)
    <3>1. /\ UNCHANGED <<chain, fired>> /\ \A x \in Workers \ {w} : job'[x] = job[x]
          /\ job[w].pc = "authorised" /\ job'[w].pc = "decided"
      <4>1. job[w] \in Job
        BY <1>1
      <4> QED
        BY <1>1, <2>2, <4>1 DEF DecideWrite, Job
    <3> QED
      BY <3>1, SilentStep
  <2>3. CASE Reject(w) \/ ReturnChain(w) \/ \E mode \in Modes : Approve(w, mode)
    <3>1. \E s \in Decisions : /\ job[w].pc = "decided" /\ job[w].decision = s
                               /\ (ReturnChain(w) /\ s = "RETURNED") \/ CloseChain(w, s)
      BY <2>3 DEF Reject, ReturnChain, Approve, ApprovalOf, Decisions
    <3>2. Decisions = O!Outcomes
      BY DEF Decisions, O!Outcomes
    <3> QED
      BY <1>1, <3>1, <3>2, OutcomeWritten DEF O!OutcomesNext
  <2>4. ASSUME NEW mode \in Modes, AdvanceStep(w, mode)
        PROVE  UNCHANGED O!outcomeVars
    <3>1. job[w] \in Job /\ chain \in [Chains -> Chain]
      BY <1>1 DEF TypeOK
    <3>2. /\ UNCHANGED fired /\ \A x \in Workers \ {w} : job'[x] = job[x]
          /\ job[w].pc = "decided" /\ job'[w].pc = "activate"
      <4>1. /\ UNCHANGED fired /\ \A x \in Workers \ {w} : job'[x] = job[x]
            /\ job[w].pc = "decided"
        BY <1>1, <2>4 DEF AdvanceStep, ApprovalOf
      <4>2. job'[w].pc = "activate"
        BY <1>1, <2>4, <3>1 DEF AdvanceStep, Job
      <4> QED
        BY <4>1, <4>2
    <3>3. \A c \in Chains : chain'[c].status = chain[c].status
      BY <2>4, <3>1 DEF AdvanceStep, Chain
    <3> QED
      BY <3>2, <3>3, SilentStep
  <2>5. CASE (\E mode \in Modes : KeepWaiting(w, mode)) \/ NotifyStep(w)
    <3>1. Done(w) /\ UNCHANGED <<chain, fired>> /\ job[w].pc \in {"decided", "notify"}
      BY <2>5 DEF KeepWaiting, ApprovalOf, NotifyStep
    <3> QED
      BY <1>1, <3>1, HandlerEnds
  <2>6. CASE Fire(w)
    BY <1>1, <2>6, OutcomeFired DEF O!OutcomesNext
  <2>7. CASE CallbackReturn(w)
    BY <1>1, <2>7, HandlerEnds DEF CallbackReturn, O!OutcomesNext
  <2>8. CASE ActivateStep(w)
    <3>1. /\ UNCHANGED <<chain, fired>> /\ \A x \in Workers \ {w} : job'[x] = job[x]
          /\ job[w].pc = "activate" /\ job'[w].pc = "notify"
      BY <1>1, <2>8, GoesTo DEF ActivateStep, GoTo
    <3> QED
      BY <3>1, SilentStep
  <2> QED
    BY <1>3, <2>1, <2>2, <2>3, <2>4, <2>5, <2>6, <2>7, <2>8 DEF Continue
<1>4. CASE Administer \/ Tick \/ UNCHANGED engineVars
  <2>1. UNCHANGED <<chain, fired, job>>
    BY <1>4 DEF Administer, CreateRule, UpdateRule, RemoveRule, SetRule, Tick, engineVars
  <2> QED
    BY <2>1, Stutters DEF Carried
<1>5. ASSUME NEW w \in Workers, Fail(w)
      PROVE  [O!OutcomesNext]_O!outcomeVars
  BY <1>1, <1>5, HandlerEnds DEF Fail, O!OutcomesNext
<1> QED
  BY <1>2, <1>3, <1>4, <1>5 DEF Next

LEMMA InitIsMapped == Init => O!OutcomesInit
<1> SUFFICES ASSUME Init PROVE O!OutcomesInit
  OBVIOUS
<1>1. /\ \A c \in Chains : chain[c].status = "NONE"
      /\ \A w \in Workers : job[w].pc = "idle"
      /\ fired = [c \in Chains |-> [s \in Decisions |-> 0]]
  BY DEF Init, NoChain, IdleJob
<1>2. \A w \in Workers : Carried(w) = O!NoTask
  BY <1>1 DEF Carried, O!NoTask
<1> QED
  BY <1>1, <1>2 DEF O!OutcomesInit, O!Outcomes, Decisions

LEMMA OneWorkerIsAlone ==
    ASSUME IsFiniteSet(Workers), ~(Cardinality(Workers) > 1)
    PROVE  Alone
<1> SUFFICES ASSUME NEW v \in Workers, NEW w \in Workers, v # w PROVE FALSE
  BY DEF Alone
<1>1. Cardinality({v}) = 1 /\ IsFiniteSet({v})
  BY FS_Singleton
<1>2. Cardinality({v} \cup {w}) = 2
  BY <1>1, FS_AddElement
<1>3. Cardinality({v} \cup {w}) <= Cardinality(Workers) /\ Cardinality(Workers) \in Nat
  BY FS_Subset, FS_CardinalityType
<1> QED
  BY <1>2, <1>3

\* Every behaviour of the engine, whatever the number of workers, is one of the engine it
\* promises.
THEOREM EngineKeepsItsPromise ==
    ASSUME IsFiniteSet(Workers)
    PROVE  Spec => ImplementsOutcomes
<1> DEFINE Inv == IInv /\ (Cardinality(Workers) > 1 \/ AloneInv)
<1>1. Init => Inv /\ O!OutcomesInit
  BY InvInit, AloneInit, InitIsMapped
<1>2. Inv /\ [Next]_engineVars => Inv'
  BY InvStep, AloneStep, OneWorkerIsAlone
<1>3. Inv /\ [Next]_engineVars => [O!OutcomesNext]_O!outcomeVars
  BY StepIsMapped
<1> QED
  BY <1>1, <1>2, <1>3, PTL DEF Spec, ImplementsOutcomes, O!OutcomesSpec

=============================================================================
