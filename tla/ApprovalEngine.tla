--------------------------- MODULE ApprovalEngine ---------------------------
(***************************************************************************)
(* The generic approval engine every workflow of the platform goes through *)
(* (apps/api/src/approvals/approval.service.ts).                           *)
(*                                                                         *)
(* A subject is submitted; the engine instantiates a chain with one step   *)
(* per matching row of the approval matrix, and drives it, decision by     *)
(* decision, to APPROVED, REJECTED or RETURNED.  Then it fires the status  *)
(* transition that the subject's module registered.                        *)
(*                                                                         *)
(* A request is served by a worker.  Every database call of a handler is a *)
(* transaction of its own, so other requests run between any two of them:  *)
(* a handler is cut into one action per database call, and what it read    *)
(* earlier it keeps in its job.  With one worker requests do not overlap.  *)
(* A worker may also stop between two calls: a call throws, or the process *)
(* goes down.                                                              *)
(***************************************************************************)
EXTENDS Integers, FiniteSets, FiniteSetsExt

CONSTANTS
    Users, Roles, Sites, Currencies,
    None,           \* the null of every nullable column
    Assignments,    \* user_site_roles: records [user, role, site]
    Delegations,    \* delegation_rules: records [approver, delegate, from, to]
    Rules,          \* identities of the approval_matrix rows
    Rule,           \* their contents, see RuleRow
    EditableRules,  \* bound: the rows an administrator touches during a run
    Requests,       \* bound: the submissions that occur, see Request
    Chains,         \* bound: identities for the chains that get created
    Workers,        \* requests in progress at a time; one: they do not overlap
    MaxTime,        \* bound: the clock stops here
    MaxFailures     \* bound: how often workers stop between two calls

VARIABLES
    matrix,     \* [Rules -> absent, active or inactive]
    chain,      \* approval_chains
    step,       \* approvals: step[c][r] is the step of chain c made from row r
    votes,      \* history: every decision ever written, overwritten or not
    fired,      \* history: the outcomes delivered to the subject's module
    told,       \* history: the notices sent that a step is waiting, see Notice
    job,        \* what each worker is doing and what it has read
    now,
    failures    \* history: how often a worker stopped between two calls

engineVars == <<matrix, chain, step, votes, fired, told, job, now, failures>>

-----------------------------------------------------------------------------
(* Tables and handler states. *)

Modes == {"SEQUENTIAL", "PARALLEL", "EITHER"}
Decisions == {"APPROVED", "REJECTED", "RETURNED"}
MatrixStatus == {"absent", "active", "inactive"}
ChainStatus == {"NONE", "PENDING"} \cup Decisions

RuleRow == [order : Nat \ {0}, role : Roles, mode : Modes, site : Sites \cup {None},
            currency : Currencies \cup {None},
            min : Nat \cup {None}, max : Nat \cup {None}]

Request == [requester : Users, site : Sites \cup {None},
            currency : Currencies \cup {None}, amount : Nat \cup {None}]

Chain == [status : ChainStatus, currentStep : Nat, requester : Users \cup {None},
          site : Sites \cup {None}, rules : SUBSET Rules]

Step == [decision : Decisions \cup {None}, by : Users \cup {None}, activatedAt : Nat]

Vote == [rule : Rules, user : Users, decision : Decisions, at : Nat]

\* Sent once, when a step order opens: to whom, and when.
Notice == [order : Nat, at : Nat, users : SUBSET Users]

PC == {"idle", "routed", "authorised", "decided", "activate", "notify", "fire", "callback"}

\* seen: the steps of the chain that were approved in the handler's snapshot;
\* cur: the current step in that snapshot; at: when the caller was authorised.
Job == [pc : PC, request : Requests \cup {None}, rules : SUBSET Rules,
        chain : Chains \cup {None}, rule : Rules \cup {None},
        user : Users \cup {None}, decision : Decisions \cup {None},
        cur : Nat, seen : SUBSET Rules, at : Nat]

ASSUME TablesAssumption ==
    /\ None \notin Users \cup Roles \cup Sites \cup Currencies \cup Rules \cup Chains
    /\ None \notin Nat /\ None \notin Requests /\ None \notin Decisions
    /\ Rule \in [Rules -> RuleRow]
    /\ Requests \subseteq Request
    /\ EditableRules \subseteq Rules

ASSUME PeopleAssumption ==
    /\ Assignments \subseteq [user : Users, role : Roles, site : Sites \cup {None}]
    /\ Delegations \subseteq [approver : Users, delegate : Users, from : Nat, to : Nat]
    /\ \A d \in Delegations : d.approver # d.delegate /\ d.from <= d.to

ASSUME BoundsAssumption ==
    /\ IsFiniteSet(Rules)
    /\ MaxTime \in Nat /\ MaxFailures \in Nat

IdleJob == [pc |-> "idle", request |-> None, rules |-> {}, chain |-> None,
            rule |-> None, user |-> None, decision |-> None,
            cur |-> 0, seen |-> {}, at |-> 0]

OpenStep == [decision |-> None, by |-> None, activatedAt |-> 0]

NoChain == [status |-> "NONE", currentStep |-> 0, requester |-> None,
            site |-> None, rules |-> {}]

-----------------------------------------------------------------------------
(* Who may decide what. *)

\* A global assignment, or a subject without a site, matches any site.
HoldsRole(u, role, site) ==
    \E a \in Assignments :
        /\ a.user = u /\ a.role = role
        /\ a.site = None \/ site = None \/ a.site = site

\* The users u stands in for at time t.
DelegatorsOf(u, t) ==
    {d.approver : d \in {x \in Delegations : x.delegate = u /\ x.from <= t /\ t <= x.to}}

\* The users who stand in for someone in S at time t.
DelegatesFor(S, t) ==
    {d.delegate : d \in {x \in Delegations : x.approver \in S /\ x.from <= t /\ t <= x.to}}

MayDecide(u, role, site, t) ==
    \E p \in {u} \cup DelegatorsOf(u, t) : HoldsRole(p, role, site)

\* Whom the engine tells that a step is waiting.
Approvers(role, site, requester, t) ==
    LET holders == {u \in Users : HoldsRole(u, role, site)} \ {requester}
    IN  (holders \cup DelegatesFor(holders, t)) \ {requester}

\* The matrix rows that apply to a submission; a submission without a currency
\* is not filtered by currency, one without a site only meets global rows.
InBand(amount, row) ==
    amount # None =>
        /\ row.min # None => amount >= row.min
        /\ row.max # None => amount <= row.max

Matching(q) ==
    {r \in Rules : /\ matrix[r] = "active"
                   /\ Rule[r].site \in {q.site, None}
                   /\ q.currency # None => Rule[r].currency \in {q.currency, None}
                   /\ InBand(q.amount, Rule[r])}

-----------------------------------------------------------------------------
(* Where a chain stands.  Here and below, a definition named for a mistake *)
(* (LaterOrSame, ActionableAgain, FireAgain, ...) is what its successor    *)
(* must not be: it shows which properties notice the difference.           *)

At(rules, order) == {r \in rules : Rule[r].order = order}
Orders(rules) == {Rule[r].order : r \in rules}
LaterOrSame(rules, order) == {o \in Orders(rules) : o >= order}
Later(rules, order) == {o \in Orders(rules) : o > order}

\* EITHER needs one approval of the step order; PARALLEL and SEQUENTIAL all.
Satisfied(mode, here, approved) ==
    IF mode = "EITHER" THEN here \cap approved # {} ELSE here \subseteq approved

\* Rows of one step order may disagree on the mode: the engine takes that of
\* whichever row comes first in a result the query does not order.
ModesAt(rules, order) == {Rule[r].mode : r \in At(rules, order)}

Undecided(c) == {r \in chain[c].rules : step[c][r].decision = None}
ApprovedSteps(c) == {r \in chain[c].rules : step[c][r].decision = "APPROVED"}

\* The steps some approver approved, whatever was written over it later.
Granted(V) == {v.rule : v \in {x \in V : x.decision = "APPROVED"}}

Idle(w) == job[w].pc = "idle"
GoTo(w, pc) == job' = [job EXCEPT ![w].pc = pc]
Done(w) == job' = [job EXCEPT ![w] = IdleJob]

Init ==
    /\ matrix = [r \in Rules |-> "active"]
    /\ chain = [c \in Chains |-> NoChain]
    /\ step = [c \in Chains |-> [r \in Rules |-> OpenStep]]
    /\ votes = [c \in Chains |-> {}]
    /\ fired = [c \in Chains |-> [s \in Decisions |-> 0]]
    /\ told = [c \in Chains |-> {}]
    /\ job = [w \in Workers |-> IdleJob]
    /\ now = 0
    /\ failures = 0

-----------------------------------------------------------------------------
(* submit *)

\* The matrix is read; with no matching row the call throws and nothing happens.
\* Bound: only while an identity for the new chain is left.
SubmitRead(w, q) ==
    /\ Idle(w)
    /\ \E c \in Chains : chain[c].status = "NONE"
    /\ Matching(q) # {}
    /\ job' = [job EXCEPT ![w] = [IdleJob EXCEPT !.pc = "routed", !.request = q,
                                                !.rules = Matching(q)]]
    /\ UNCHANGED <<matrix, chain, step, votes, fired, told, now>>

SubmitCreateSwapped(w, c) ==
    LET j == job[w] IN
    /\ j.pc = "routed"
    /\ chain[c].status = "NONE"
    /\ chain' = [chain EXCEPT ![c] =
                    [status |-> "PENDING", currentStep |-> Min(Orders(j.rules)),
                     requester |-> j.request.requester, site |-> j.request.currency,
                     rules |-> j.rules]]
    /\ Done(w)
    /\ UNCHANGED <<matrix, step, votes, fired, told, now>>

\* The chain and one step per row read are created in one transaction; then the
\* approvers of its first step order are told.
SubmitCreate(w, c) ==
    LET j == job[w] IN
    /\ j.pc = "routed"
    /\ chain[c].status = "NONE"
    /\ chain' = [chain EXCEPT ![c] =
                    [status |-> "PENDING", currentStep |-> Min(Orders(j.rules)),
                     requester |-> j.request.requester, site |-> j.request.site,
                     rules |-> j.rules]]
    /\ step' = [step EXCEPT ![c] = [r \in Rules |->
                    IF r \in j.rules THEN [OpenStep EXCEPT !.activatedAt = now] ELSE OpenStep]]
    /\ job' = [job EXCEPT ![w] = [IdleJob EXCEPT !.pc = "notify", !.chain = c,
                                                !.cur = Min(Orders(j.rules))]]
    /\ UNCHANGED <<matrix, votes, fired, told, now>>

-----------------------------------------------------------------------------
(* decide *)

ActionableByRequester(u, c, r) ==
    /\ r \in chain[c].rules /\ chain[c].status = "PENDING" /\ step[c][r].decision = None
    /\ Rule[r].order = chain[c].currentStep

ActionableInAnyOrder(u, c, r) ==
    /\ r \in chain[c].rules /\ chain[c].status = "PENDING" /\ step[c][r].decision = None
    /\ chain[c].requester # u

\* A step that somebody other than the requester may be asked to decide now.
Actionable(u, c, r) ==
    /\ r \in chain[c].rules /\ chain[c].status = "PENDING" /\ step[c][r].decision = None
    /\ Rule[r].order = chain[c].currentStep /\ chain[c].requester # u

\* The step, its chain and the chain's steps are read, and every guard is
\* evaluated on what was read.
DecideRead(w, u, c, r, d) ==
    /\ Idle(w)
    /\ Actionable(u, c, r)
    /\ MayDecide(u, Rule[r].role, chain[c].site, now)
    /\ job' = [job EXCEPT ![w] =
                  [pc |-> "authorised", request |-> None, rules |-> {}, chain |-> c,
                   rule |-> r, user |-> u, decision |-> d,
                   cur |-> chain[c].currentStep, seen |-> ApprovedSteps(c), at |-> now]]
    /\ UNCHANGED <<matrix, chain, step, votes, fired, told, now>>

\* The step is updated by its id alone, and folded into the snapshot.
DecideWrite(w) ==
    LET j == job[w] IN
    /\ j.pc = "authorised"
    /\ step' = [step EXCEPT ![j.chain][j.rule] =
                   [@ EXCEPT !.decision = j.decision, !.by = j.user]]
    /\ votes' = [votes EXCEPT ![j.chain] = @ \cup
                   {[rule |-> j.rule, user |-> j.user, decision |-> j.decision, at |-> j.at]}]
    /\ job' = [job EXCEPT ![w] =
                  [j EXCEPT !.pc = "decided",
                            !.seen = IF j.decision = "APPROVED" THEN j.seen \cup {j.rule}
                                     ELSE j.seen]]
    /\ UNCHANGED <<matrix, chain, fired, told, now>>

CloseChainSilently(w, status) ==
    /\ chain' = [chain EXCEPT ![job[w].chain].status = status]
    /\ Done(w)
    /\ UNCHANGED <<matrix, step, votes, fired, told, now>>

\* closeChain: the status is written unconditionally.
CloseChain(w, status) ==
    LET j == job[w] IN
    /\ chain' = [chain EXCEPT ![j.chain].status = status]
    /\ GoTo(w, "fire")
    /\ UNCHANGED <<matrix, step, votes, fired, told, now>>

Reject(w) ==
    /\ job[w].pc = "decided"
    /\ job[w].decision = "REJECTED"
    /\ CloseChain(w, "REJECTED")

\* returnChain: the update of the undecided steps writes the nulls they hold.
ReturnChain(w) ==
    LET j == job[w] IN
    /\ j.pc = "decided"
    /\ j.decision = "RETURNED"
    /\ chain' = [chain EXCEPT ![j.chain] =
                    [@ EXCEPT !.status = "RETURNED", !.currentStep = 1]]
    /\ GoTo(w, "fire")
    /\ UNCHANGED <<matrix, step, votes, fired, told, now>>

ApprovalByAnyone(w, mode, satisfied) ==
    LET j == job[w]
        here == At(chain[j.chain].rules, j.cur)
    IN  /\ j.pc = "decided"
        /\ j.decision = "APPROVED"
        /\ satisfied = (here \cap j.seen # {})

\* advanceOnApproval, all of it judged on the snapshot.
ApprovalOf(w, mode, satisfied) ==
    LET j == job[w]
        here == At(chain[j.chain].rules, j.cur)
    IN  /\ j.pc = "decided"
        /\ j.decision = "APPROVED"
        /\ mode \in ModesAt(chain[j.chain].rules, j.cur)
        /\ satisfied = Satisfied(mode, here, j.seen)

KeepWaiting(w, mode) ==
    /\ ApprovalOf(w, mode, FALSE)
    /\ Done(w)
    /\ UNCHANGED <<matrix, chain, step, votes, fired, told, now>>

ApproveAtFirstOrder(w, mode) ==
    /\ ApprovalOf(w, mode, TRUE)
    /\ CloseChain(w, "APPROVED")

Approve(w, mode) ==
    /\ ApprovalOf(w, mode, TRUE)
    /\ Later(chain[job[w].chain].rules, job[w].cur) = {}
    /\ CloseChain(w, "APPROVED")

AdvanceStep(w, mode) ==
    LET j == job[w]
        later == Later(chain[j.chain].rules, j.cur)
    IN  /\ ApprovalOf(w, mode, TRUE)
        /\ later # {}
        /\ chain' = [chain EXCEPT ![j.chain].currentStep = Min(later)]
        /\ job' = [job EXCEPT ![w] = [@ EXCEPT !.pc = "activate", !.cur = Min(later)]]
        /\ UNCHANGED <<matrix, step, votes, fired, told, now>>

ActivateUntold(w) ==
    LET j == job[w] IN
    /\ j.pc = "activate"
    /\ step' = [step EXCEPT ![j.chain] = [r \in Rules |->
                   IF r \in At(chain[j.chain].rules, j.cur) /\ @[r].decision = None
                   THEN [@[r] EXCEPT !.activatedAt = now] ELSE @[r]]]
    /\ Done(w)
    /\ UNCHANGED <<matrix, chain, votes, fired, told, now>>

\* The SLA clock of the newly active steps starts.
ActivateStep(w) ==
    LET j == job[w] IN
    /\ j.pc = "activate"
    /\ step' = [step EXCEPT ![j.chain] = [r \in Rules |->
                   IF r \in At(chain[j.chain].rules, j.cur) /\ @[r].decision = None
                   THEN [@[r] EXCEPT !.activatedAt = now] ELSE @[r]]]
    /\ GoTo(w, "notify")
    /\ UNCHANGED <<matrix, chain, votes, fired, told, now>>

\* Those who may approve any step of the order, as things stand at time t; with
\* nobody to tell, nothing is sent, which is a notice to nobody here.
Audience(ch, order, t) ==
    UNION {Approvers(Rule[r].role, ch.site, ch.requester, t) : r \in At(ch.rules, order)}

\* notifyStep: the one time the approvers of the order are told that it opened.
NotifyStep(w) ==
    LET j == job[w] IN
    /\ j.pc = "notify"
    /\ told' = [told EXCEPT ![j.chain] = @ \cup
                   {[order |-> j.cur, at |-> now, users |-> Audience(chain[j.chain], j.cur, now)]}]
    /\ Done(w)
    /\ UNCHANGED <<matrix, chain, step, votes, fired, now>>

-----------------------------------------------------------------------------
(* The status transition registry. *)

FireAgain(w) ==
    /\ job[w].pc \in {"fire", "callback"}
    /\ fired' = [fired EXCEPT ![job[w].chain][job[w].decision] = @ + 1]
    /\ GoTo(w, "callback")
    /\ UNCHANGED <<matrix, chain, step, votes, told, now>>

\* The callback registered for the subject's table is called with the outcome
\* the handler decided on; its body belongs to the subject's module.
Fire(w) ==
    LET j == job[w] IN
    /\ j.pc = "fire"
    /\ fired' = [fired EXCEPT ![j.chain][j.decision] = @ + 1]
    /\ GoTo(w, "callback")
    /\ UNCHANGED <<matrix, chain, step, votes, told, now>>

\* A callback that throws is logged and swallowed: either way the handler
\* notifies the requester and returns.
CallbackReturn(w) ==
    /\ job[w].pc = "callback"
    /\ Done(w)
    /\ UNCHANGED <<matrix, chain, step, votes, fired, told, now>>

-----------------------------------------------------------------------------
(* Failures, matrix administration, the clock. *)

Fail(w) ==
    /\ failures < MaxFailures
    /\ failures' = failures + 1
    /\ ~Idle(w)
    /\ Done(w)
    /\ UNCHANGED <<matrix, chain, step, votes, fired, told, now>>

SetRule(r, from, to) ==
    /\ matrix[r] \in from
    /\ matrix' = [matrix EXCEPT ![r] = to]
    /\ UNCHANGED <<chain, step, votes, fired, told, job, now>>

CreateRule(r) == \E to \in {"active", "inactive"} : SetRule(r, {"absent"}, to)
UpdateRule(r) == \E to \in {"active", "inactive"} : SetRule(r, {"active", "inactive"}, to)
RemoveRule(r) == SetRule(r, {"active", "inactive"}, "absent")

Tick ==
    /\ now < MaxTime
    /\ now' = now + 1
    /\ UNCHANGED <<matrix, chain, step, votes, fired, told, job>>

-----------------------------------------------------------------------------

\* What a user asks for.
Call(w) ==
    \/ \E q \in Requests : SubmitRead(w, q)
    \/ \E u \in Users, c \in Chains, r \in Rules, d \in Decisions : DecideRead(w, u, c, r, d)

\* What the server then does of itself.
Continue(w) ==
    \/ \E c \in Chains : SubmitCreate(w, c)
    \/ DecideWrite(w)
    \/ Reject(w)
    \/ ReturnChain(w)
    \/ \E mode \in Modes : KeepWaiting(w, mode) \/ Approve(w, mode) \/ AdvanceStep(w, mode)
    \/ ActivateStep(w)
    \/ NotifyStep(w)
    \/ Fire(w)
    \/ CallbackReturn(w)

Administer == \E r \in EditableRules : CreateRule(r) \/ UpdateRule(r) \/ RemoveRule(r)

Next ==
    \/ /\ \/ \E w \in Workers : Call(w) \/ Continue(w)
          \/ Administer
          \/ Tick
       /\ UNCHANGED failures
    \/ \E w \in Workers : Fail(w)

Spec == Init /\ [][Next]_engineVars

\* A request that was accepted is served to its end, unless it fails.
FairSpec == Spec /\ \A w \in Workers : WF_engineVars(Continue(w) /\ UNCHANGED failures)

-----------------------------------------------------------------------------
(* What the engine promises even when requests overlap and fail. *)

TypeOK ==
    /\ matrix \in [Rules -> MatrixStatus]
    /\ chain \in [Chains -> Chain]
    /\ step \in [Chains -> [Rules -> Step]]
    /\ votes \in [Chains -> SUBSET Vote]
    /\ fired \in [Chains -> [Decisions -> Nat]]
    /\ told \in [Chains -> SUBSET Notice]
    /\ job \in [Workers -> Job]
    /\ now \in Nat

OrderGranted(rules, V, order) ==
    \E mode \in ModesAt(rules, order) : Satisfied(mode, At(rules, order), Granted(V))

AllGrantedBelow(rules, V, order) ==
    \A o \in Orders(rules) : o < order => OrderGranted(rules, V, o)

\* What the votes V must contain before outcome s of a chain is justified.
Earned(rules, V, s) ==
    IF s = "APPROVED" THEN \A o \in Orders(rules) : OrderGranted(rules, V, o)
    ELSE \E v \in V : v.decision = s

(***************************************************************************)
(* Nobody decides a step of a chain they requested, and whoever decides    *)
(* holds the step's role for the subject's site, or stood in for somebody  *)
(* who does at the time the request was authorised; a step never carries a *)
(* decision that no such person made.  (decide, lines 167-192: the guards  *)
(* run on rows read before the write, and two of them may race.)           *)
(***************************************************************************)
DecisionsAuthorised ==
    \A c \in Chains :
        /\ \A v \in votes[c] :
              /\ v.rule \in chain[c].rules
              /\ v.user # chain[c].requester
              /\ MayDecide(v.user, Rule[v.rule].role, chain[c].site, v.at)
        /\ \A r \in Rules : step[c][r].decision # None =>
              \E v \in votes[c] : /\ v.rule = r /\ v.user = step[c][r].by
                                  /\ v.decision = step[c][r].decision

(***************************************************************************)
(* A step is only ever decided after every earlier step order of its chain *)
(* got the approvals its mode asks for, also when the decision was judged  *)
(* on a snapshot that is out of date.                                      *)
(***************************************************************************)
VotesInOrder ==
    \A c \in Chains : \A v \in votes[c] :
        AllGrantedBelow(chain[c].rules, votes[c], Rule[v.rule].order)

(***************************************************************************)
(* A chain is approved, and its subject is told so, only if every step     *)
(* order received the approvals its mode asks for; it is rejected or       *)
(* returned, and its subject told so, only if an approver decided that.    *)
(* Overlapping handlers can overwrite each other's outcome (see Overlap in *)
(* ApprovalOutcomes), but none of them invents one.                        *)
(***************************************************************************)
OutcomesEarned ==
    \A c \in Chains :
        /\ chain[c].status \in Decisions => Earned(chain[c].rules, votes[c], chain[c].status)
        /\ \A s \in Decisions : fired[c][s] > 0 => Earned(chain[c].rules, votes[c], s)

\* The current step of a chain never moves past a step order that was not
\* granted, although handlers write it from snapshots (line 376) and a return
\* sets it back to 1 (line 435).
NoChainYet(c) ==
    /\ chain[c] = NoChain /\ votes[c] = {}
    /\ \A r \in Rules : step[c][r].decision = None
    /\ \A s \in Decisions : fired[c][s] = 0

AdvancedInOrder ==
    \A c \in Chains :
        /\ chain[c].status = "NONE" => NoChainYet(c)
        /\ AllGrantedBelow(chain[c].rules, votes[c], chain[c].currentStep)

\* What a handler that passed the guards knows, and goes on knowing while
\* other handlers run.
Authorised(j, ch, V) ==
    /\ j.rule \in ch.rules /\ Rule[j.rule].order = j.cur
    /\ j.user \in Users \ {ch.requester}
    /\ j.decision \in Decisions
    /\ MayDecide(j.user, Rule[j.rule].role, ch.site, j.at)
    /\ j.seen \subseteq Granted(V)
    /\ AllGrantedBelow(ch.rules, V, j.cur)

HandlerSound(w) ==
    LET j == job[w] IN
    /\ j.pc = "routed" => j.request \in Requests /\ j.rules # {}
    /\ j.pc \notin {"idle", "routed"} => j.chain \in Chains /\ chain[j.chain].status # "NONE"
    /\ j.pc \in {"authorised", "decided"} => Authorised(j, chain[j.chain], votes[j.chain])
    /\ j.pc = "decided" =>
          [rule |-> j.rule, user |-> j.user, decision |-> j.decision, at |-> j.at]
              \in votes[j.chain]
    /\ j.pc \in {"fire", "callback"} =>
          j.decision \in Decisions /\ Earned(chain[j.chain].rules, votes[j.chain], j.decision)

(***************************************************************************)
(* Every handler in flight acts on knowledge that is still good, whatever  *)
(* the others did since it read: its caller is authorised, the approvals   *)
(* it has seen were granted, the orders below its step are complete, and   *)
(* an outcome it delivers was earned.                                      *)
(***************************************************************************)
HandlersSound == \A w \in Workers : HandlerSound(w)

\* The inductive invariant behind the theorems of ApprovalEngineProofs.
IInv ==
    /\ TypeOK /\ DecisionsAuthorised /\ VotesInOrder /\ OutcomesEarned
    /\ AdvancedInOrder /\ HandlersSound

-----------------------------------------------------------------------------
(* What it promises when requests do not overlap and none fails half-way. *)

Working(c) == \E w \in Workers : ~Idle(w) /\ job[w].chain = c

(***************************************************************************)
(* A chain that stays PENDING while nobody works on it is waiting for      *)
(* somebody: a step of the current order is undecided, and no step is      *)
(* rejected or returned (advanceOnApproval, line 363: "Still waiting on    *)
(* other approvers within this step_order; chain stays PENDING").          *)
(***************************************************************************)
StillWaiting ==
    failures = 0 => \A c \in Chains : chain[c].status = "PENDING" /\ ~Working(c) =>
        /\ Undecided(c) \cap At(chain[c].rules, chain[c].currentStep) # {}
        /\ \A r \in chain[c].rules : step[c][r].decision \in {None, "APPROVED"}

\* Every outcome reaches the subject's module (closeChain line 414 and
\* returnChain line 451 fire the transition after the status is written).
OutcomesDelivered ==
    [](failures = 0) => \A c \in Chains, s \in Decisions :
        chain[c].status = s ~> fired[c][s] > 0

-----------------------------------------------------------------------------
(* The inbox and the notifications, against who may really decide. *)

\* Own roles are compared by name; only delegated ones by site too.
InInbox(u, c, r) ==
    /\ Actionable(u, c, r)
    /\ \/ \E a \in Assignments : a.user = u /\ a.role = Rule[r].role
       \/ \E p \in DelegatorsOf(u, now) : HoldsRole(p, Rule[r].role, chain[c].site)

\* The users who may decide step r of a chain at time t.
Able(ch, r, t) ==
    {u \in Users \ {ch.requester} : MayDecide(u, Rule[r].role, ch.site, t)}

\* A notice told nobody who could not decide a step of its order when it was sent,
\* and left out nobody who could, except who only stood in for the requester.
NoticeRight(ch, n) ==
    /\ \A u \in n.users : \E r \in At(ch.rules, n.order) : u \in Able(ch, r, n.at)
    /\ \A r \in At(ch.rules, n.order) :
          Able(ch, r, n.at) \subseteq n.users \cup DelegatesFor({ch.requester}, n.at)

(***************************************************************************)
(* Every step a user may decide is in that user's inbox.  When a step      *)
(* order opens, those who may decide its steps at that moment are told,    *)
(* and only those; a chain that waits at a step order had it announced,    *)
(* unless a request failed on the way.  notifyStep removes the requester   *)
(* before it looks for delegates, so whose only authority is to stand in   *)
(* for the requester is not told; and who may decide only from a later     *)
(* time on (a delegation that begins) finds the step in the inbox without  *)
(* having been told of it.                                                 *)
(***************************************************************************)
InboxAndAudienceAgree ==
    \A c \in Chains :
        /\ \A r \in chain[c].rules : \A u \in Able(chain[c], r, now) :
              Actionable(u, c, r) => InInbox(u, c, r)
        /\ \A n \in told[c] : NoticeRight(chain[c], n)
        /\ failures = 0 /\ chain[c].status = "PENDING" /\ ~Working(c) =>
              \E n \in told[c] : n.order = chain[c].currentStep

-----------------------------------------------------------------------------
(* ApprovalEngine implements ApprovalOutcomes: reading, authorising, voting, *)
(* advancing and administering are stutters; writing the status, firing the  *)
(* transition and returning from the callback are the steps.                 *)

\* The outcome a handler carries once it wrote the chain's status.
Carried(w) ==
    IF job[w].pc \in {"fire", "callback"}
    THEN [phase |-> IF job[w].pc = "fire" THEN "due" ELSE "calling",
          chain |-> job[w].chain, outcome |-> job[w].decision]
    ELSE [phase |-> "none", chain |-> None, outcome |-> None]

O == INSTANCE ApprovalOutcomes WITH
        status <- [c \in Chains |-> chain[c].status],
        task <- [w \in Workers |-> Carried(w)],
        delivered <- fired,
        Overlap <- Cardinality(Workers) > 1

\* With one worker a chain that reached an outcome keeps it ("Chain is already
\* <status>; no further decisions", decide, line 168), and its subject's module
\* is told of it at most once; with several, outcomes replace each other, and
\* each may be told.
ImplementsOutcomes == O!OutcomesSpec

=============================================================================
