------------------------------- MODULE Clients -------------------------------
(***************************************************************************)
(* A session of one of the two React clients, seen by one cached answer:   *)
(* the user moves between the pages, opens and closes what shows the       *)
(* answer, makes the calls the pages offer, and signs out for someone else *)
(* to sign in; the cache of RTK Query drops or asks again what the tags of *)
(* a call tell it to.                                                      *)
(*                                                                         *)
(* One answer is followed: another endpoint's, or another argument's, is   *)
(* followed in other behaviours.  A connection that breaks while the       *)
(* server goes on is not in the model.                                     *)
(***************************************************************************)
EXTENDS Naturals, FiniteSets, Footprint, TLAPS

CONSTANTS
    Slots,    \* for the calls that are under way: as many as overlap
    Apis,     \* [the clients -> their endpoints] (Api of AdminScreens and WebScreens)
    Screens,  \* the pages of each, with the roles their routes let in and what is on them
    Menus,    \* the roles that find each page
    Frame     \* what is on every page

VARIABLES
    app,      \* the client
    watched,  \* the query whose answer is followed
    role,     \* of the user who is signed in
    page,     \* the page that is open
    shown,    \* a component that reads the answer is mounted
    entry,    \* the cache's entry for the answer
    held,     \* the entry has an answer, were it one before the last request
    behind,   \* that answer lacks a write that the client has to show
    call,     \* the mutations under way, and what is left of each
    stale     \* a finished call invalidated the entry and nothing was done about it yet

vars == <<app, watched, role, page, shown, entry, held, behind, call, stale>>
chosen == <<app, watched>>
cache == <<entry, held, behind, stale>>

-----------------------------------------------------------------------------
(* What the two clients read and offer. *)

Client == {"admin", "web"}

Endpoints(api, kind) == {n \in DOMAIN api : api[n].kind = kind}

\* What the pages that a user of a role comes to hold for that role, of either kind.
On(api, uses, r, kind) == {u \in uses : r \in u.roles /\ api[u.does].kind = kind}
ToDo(api, pages, menu, frame, kind) == [r \in Role |->
    LET open == {p \in DOMAIN pages : r \in menu[p] \cap pages[p].roles}
    IN  [p \in open |-> On(api, pages[p].uses \cup frame, r, kind)]]

Shown == [a \in Client |-> ToDo(Apis[a], Screens[a], Menus[a], Frame[a], "query")]
Offered == [a \in Client |-> ToDo(Apis[a], Screens[a], Menus[a], Frame[a], "mutation")]
Open(a, r) == DOMAIN Shown[a][r]

\* How many of the call's writes the answer would show.
Touching(api, m, q) ==
    LET w == api[m].route.writes
    IN  Cardinality({i \in DOMAIN w : w[i] \cap api[q].route.reads # {}})

\* The call's tags invalidate the query's.
Tells(api, m, q) == api[m].tags \cap api[q].tags # {}

\* Calls on a resource that no tag ties to an answer of the same resource.  Boards,
\* projects and, on the web, customers: the page runs the query again by hand, or does
\* not (a project's health, the portfolio).  A row that is added while another is shown:
\* nothing to do.  The rest are missed until the answer leaves the cache.
Untold ==
    LET project == {"createProject", "addProjectNode", "updateNodeProgress"}
        both ==
            [getBoards |-> {"createBoard", "reclassifyBoard"},
             getBoard |-> {"createBoard", "reclassifyBoard", "createList", "createCard", "moveCard",
                           "addChecklistItem", "toggleChecklistItem", "addComment"},
             getProject |-> project, getProjectHealth |-> project, getPortfolio |-> project,
             getManhours |-> {"createTimesheetPeriod"},
             getChannels |-> {"createCampaign"}, getMetrics |-> {"createChannel"},
             getWhtCredits |-> {"whtPayable"},
             getSiteReportPeriod |-> {"openSiteReportPeriod"},
             getSiteReportPeriods |-> {"updateSiteReportSection"},
             getSitePerformance |-> {"submitSiteReport"}, getCrossSite |-> {"submitSiteReport"}]
    IN  [admin |-> both @@
            [getPayrollRun |-> {"createPayrollRun"},
             getBudget |-> {"createBudget", "submitBudget"},
             getEntityHolidays |-> {"createEntity"},
             getBackPayBatch |-> {"createBackPayBatch"}],
         web |-> both @@
            [getCrmOrganisations |-> {"createCrmOrganisation", "updateCrmOrganisation"},
             getMktOrganisations |-> {"createCrmOrganisation", "updateCrmOrganisation"},
             getCrmContacts |-> {"createCrmContact", "updateCrmContact"},
             getCrmInteractions |-> {"createCrmInteraction"},
             getCrmOpportunityBoard |->
                {"createCrmOpportunity", "moveCrmOpportunity", "convertCrmOpportunity"}]]

\* The client has to show what the call writes.
Owed(api, untold, m, q) ==
    \/ Tells(api, m, q)
    \/ /\ api[m].route.path = api[q].route.path
       /\ ~(q \in DOMAIN untold /\ m \in untold[q])

\* What a call is to an answer, where it is anything.
Effects(api, untold) == [q \in Endpoints(api, "query") |->
    LET matter == {m \in Endpoints(api, "mutation") : Tells(api, m, q) \/ Touching(api, m, q) > 0}
    IN  [m \in matter |->
            [on |-> TRUE, left |-> Touching(api, m, q), owed |-> Owed(api, untold, m, q),
             tells |-> Tells(api, m, q), again |-> FALSE]]]
Effect == [a \in Client |-> Effects(Apis[a], Untold[a])]
NoCall == [on |-> FALSE, left |-> 0, owed |-> FALSE, tells |-> FALSE, again |-> FALSE]

Holds(uses, q) == \E u \in uses : u.does = q
Matter(uses, effect) == {u \in uses : u.does \in DOMAIN effect}
Calls(a, r, p, q) == Matter(Offered[a][r][p], Effect[a][q])

\* The roles that come to read an answer and to make a call that matters to it; and the
\* pages it is about for them.  Every other page is like "/" with nothing mounted.
Ways(reading, offered, effects) == [q \in DOMAIN effects |->
    LET concerned == {r \in Role : /\ \E p \in DOMAIN reading[r] : Holds(reading[r][p], q)
                                   /\ \E p \in DOMAIN offered[r] : Matter(offered[r][p], effects[q]) # {}}
    IN  [r \in concerned |->
            {p \in DOMAIN reading[r] :
                p = "/" \/ Holds(reading[r][p], q) \/ Matter(offered[r][p], effects[q]) # {}}]]
Stops == [a \in Client |-> Ways(Shown[a], Offered[a], Effect[a])]
Concerned(a, q) == DOMAIN Stops[a][q]

\* Everybody comes to "/".  A call whose writes an answer has to show carries a tag that
\* invalidates it.
ASSUME CallsAreTold ==
    \A a \in Client : \A q \in DOMAIN Effect[a] : \A r \in Concerned(a, q) :
        /\ "/" \in Open(a, r)
        /\ \A p \in Open(a, r) : \A u \in Calls(a, r, p, q) :
             LET e == Effect[a][q][u.does] IN
             e.left \in Nat /\ (e.owed => e.tells \/ e.left = 0)

-----------------------------------------------------------------------------
(* The session. *)

Pending == entry \in {"asked", "answered"}
Settled == (\A k \in Slots : call[k] = NoCall) /\ ~Pending
Framed == Holds(Frame[app], watched)

Init ==
    /\ app \in Client
    /\ watched \in DOMAIN Effect[app]
    /\ role \in Concerned(app, watched)
    /\ page = "/" /\ shown = FALSE
    /\ entry = "none" /\ held = FALSE /\ behind = FALSE
    /\ call = [k \in Slots |-> NoCall] /\ stale = FALSE

\* A request for the answer leaves the client; what the entry held is still shown.
Ask == entry' = "asked" /\ behind' = FALSE /\ UNCHANGED held

\* A component that reads the answer is mounted: it asks only where there is none.
Mount ==
    /\ ~shown /\ Holds(Shown[app][role][page], watched)
    /\ shown' = TRUE
    /\ IF held \/ Pending THEN UNCHANGED <<entry, held, behind>> ELSE Ask
    /\ UNCHANGED <<chosen, role, page, call, stale>>

\* Mutant: what was to be run again by hand is run by whoever is there.
LeaveAgain == shown' = (shown /\ Framed) /\ UNCHANGED call

\* Once it is gone it runs no query again when its call ends.
Leave ==
    /\ shown' = (shown /\ Framed)
    /\ call' = [k \in Slots |-> [call[k] EXCEPT !.again = @ /\ shown']]

Unmount ==
    /\ shown /\ ~Framed /\ Leave
    /\ UNCHANGED <<chosen, role, page, cache>>

Go(p) ==
    /\ p # page /\ page' = p /\ Leave
    /\ UNCHANGED <<chosen, role, cache>>

\* Signing out goes to the login page and clears the tokens, not the cache.
SignIn(r) ==
    /\ r # role /\ Settled
    /\ role' = r /\ page' = "/" /\ shown' = FALSE
    /\ UNCHANGED <<chosen, cache, call>>

\* An answer nothing reads is dropped after a minute.
Expire ==
    /\ ~shown /\ ~Pending /\ entry # "none"
    /\ entry' = "none" /\ held' = FALSE /\ behind' = FALSE
    /\ UNCHANGED <<chosen, role, page, shown, call, stale>>

-----------------------------------------------------------------------------
(* Queries. *)

ServerReads ==
    /\ entry = "asked" /\ Admits(Apis[app][watched], role)
    /\ entry' = "answered"
    /\ UNCHANGED <<chosen, role, page, shown, held, behind, call, stale>>

Arrive ==
    /\ entry = "answered"
    /\ entry' = "ready" /\ held' = TRUE
    /\ UNCHANGED <<chosen, role, page, shown, behind, call, stale>>

\* Refused, or it failed: what the entry held before is kept, marked as an error.
QueryFails ==
    /\ Pending
    /\ entry' = "failed" /\ behind' = FALSE
    /\ UNCHANGED <<chosen, role, page, shown, held, call, stale>>

-----------------------------------------------------------------------------
(* Mutations. *)

Call(k, u) ==
    /\ call[k] = NoCall /\ Admits(Apis[app][u.does], role)
    /\ call' = [call EXCEPT ![k] =
            [Effect[app][watched][u.does] EXCEPT !.again = shown /\ watched \in u.again]]
    /\ UNCHANGED <<chosen, role, page, shown, cache>>

\* The guard of the route turns the call away; it ends as any call that fails.
Refused(k, u) ==
    /\ call[k] = NoCall /\ ~Admits(Apis[app][u.does], role)
    /\ stale' = (stale \/ Effect[app][watched][u.does].tells)
    /\ UNCHANGED <<chosen, role, page, shown, entry, held, behind, call>>

\* The server commits the next write, or the code leaves it out.
Write(k) ==
    /\ call[k].left > 0
    /\ call' = [call EXCEPT ![k].left = @ - 1]
    /\ \/ behind' = (behind \/ (call[k].owed /\ entry \in {"answered", "ready"}))
       \/ UNCHANGED behind
    /\ UNCHANGED <<chosen, role, page, shown, entry, held, stale>>

\* The page runs the query again by hand, unless it is under way.
Succeed(k) ==
    /\ call[k].on /\ call[k].left = 0
    /\ call' = [call EXCEPT ![k] = NoCall] /\ stale' = (stale \/ call[k].tells)
    /\ IF call[k].again /\ ~Pending THEN Ask ELSE UNCHANGED <<entry, held, behind>>
    /\ UNCHANGED <<chosen, role, page, shown>>

\* An error, before, between or after the writes.  Its tags count like those of a success.
Fail(k) ==
    /\ call[k].on
    /\ call' = [call EXCEPT ![k] = NoCall] /\ stale' = (stale \/ call[k].tells)
    /\ UNCHANGED <<chosen, role, page, shown, entry, held, behind>>

\* Mutant: the tags are acted on at once; a query that is under way is not asked again.
InvalidateAtOnce ==
    /\ stale
    /\ stale' = FALSE
    /\ IF Pending THEN UNCHANGED <<entry, held, behind>>
       ELSE IF shown THEN Ask ELSE entry' = "none" /\ held' = FALSE /\ behind' = FALSE
    /\ UNCHANGED <<chosen, role, page, shown, call>>

\* The cache acts on the tags once no request is under way: what is shown is asked again,
\* what is not is dropped.
Invalidate ==
    /\ stale /\ Settled
    /\ stale' = FALSE
    /\ IF shown THEN Ask ELSE entry' = "none" /\ held' = FALSE /\ behind' = FALSE
    /\ UNCHANGED <<chosen, role, page, shown, call>>

-----------------------------------------------------------------------------
Next ==
    \/ Mount \/ Unmount \/ Expire
    \/ \E p \in Stops[app][watched][role] : Go(p)
    \/ \E r \in Concerned(app, watched) : SignIn(r)
    \/ ServerReads \/ Arrive \/ QueryFails \/ Invalidate
    \/ \E k \in Slots, u \in Calls(app, role, page, watched) : Call(k, u) \/ Refused(k, u)
    \/ \E k \in Slots : Write(k) \/ Succeed(k) \/ Fail(k)

Spec == Init /\ [][Next]_vars

-----------------------------------------------------------------------------
(* Properties. *)

\* What the variables hold; an answer that lacks a write is one the entry has or is about
\* to have, and what is mounted has asked.
ClientsTypeOK ==
    /\ app \in Client /\ watched \in DOMAIN Effect[app] /\ role \in Role /\ page \in Open(app, role)
    /\ shown \in BOOLEAN /\ held \in BOOLEAN /\ behind \in BOOLEAN /\ stale \in BOOLEAN
    /\ entry \in {"none", "asked", "answered", "ready", "failed"}
    /\ call \in [Slots -> [on : BOOLEAN, left : Nat, owed : BOOLEAN, tells : BOOLEAN, again : BOOLEAN]]
    /\ \A k \in Slots : call[k].again => shown
    /\ entry = "ready" => held
    /\ behind => entry \in {"answered", "ready"}
    /\ shown => entry # "none"

\* Once the session is at rest, what is on the screen has every write that this session's
\* calls made to it and that the client has to show: of a call that failed between two of
\* its writes, of one that ended while the answer was being read, of one made from another
\* page or by whoever was signed in before.
ScreensKeepUp == Settled /\ ~stale /\ shown /\ entry = "ready" => ~behind

\* The calls that a page offers to a role that the route turns away.
ShownAnyway ==
    LET boards == {"createBoard", "createList", "createCard", "moveCard", "addChecklistItem",
                   "toggleChecklistItem", "addComment", "reclassifyBoard"}
        both == {<<boards, {"SITE_CLERK", "FINANCE_OFFICER", "AUDITOR"}>>,
                 <<{"reclassifyBoard"}, {"SITE_MANAGER", "OPS_STAFF", "SYS_ADMIN"}>>,
                 <<{"createWhtRate"}, {"FINANCE_OFFICER"}>>,
                 <<{"submitSiteReport"}, {"OPS_DIRECTOR"}>>,
                 <<{"createSiteKpi", "upsertKpiTarget"}, {"SITE_MANAGER"}>>}
    IN  [admin |-> both \cup
            {<<{"createAccount"}, {"FINANCE_OFFICER"}>>,
             <<{"createGeneralExpense", "createOverhead"}, {"AUDITOR"}>>,
             <<{"createOrganisation", "updateOrganisation", "createContact", "updateContact",
                "createInteraction", "createOpportunity", "moveOpportunity", "convertOpportunity"},
               {"FINANCE_DIRECTOR", "AUDITOR"}>>,
             <<{"convertOpportunity"}, {"OPS_STAFF"}>>,
             <<{"approveBackPayBatch", "approveActingAssignment"}, {"SYS_ADMIN"}>>,
             <<{"submitActingAssignment"}, {"FINANCE_DIRECTOR"}>>},
         web |-> both \cup
            {<<{"createProject", "addProjectNode", "updateNodeProgress", "createProjectFromTemplate"},
               {"SITE_CLERK", "FINANCE_OFFICER", "AUDITOR"}>>,
             <<{"createProject", "addProjectNode", "createProjectFromTemplate"}, {"OPS_STAFF"}>>,
             <<{"createCampaign", "createChannel", "createMetric", "createResponse",
                "updateResponseStatus", "convertResponse"}, {"FINANCE_OFFICER"}>>,
             <<{"createCrmOrganisation", "updateCrmOrganisation", "createCrmContact",
                "updateCrmContact", "createCrmInteraction", "createCrmOpportunity",
                "moveCrmOpportunity", "convertCrmOpportunity"},
               {"FINANCE_OFFICER", "FINANCE_DIRECTOR"}>>,
             <<{"convertCrmOpportunity"}, {"OPS_STAFF"}>>}]

\* What a page offers the user who came to it, the API does for them (rbac/roles.ts: the
\* client "hides what the caller cannot do"), but for the calls listed above.
OffersAreAllowed ==
    \A p \in Open(app, role) : \A u \in Offered[app][role][p] :
        \/ Admits(Apis[app][u.does], role)
        \/ \E x \in ShownAnyway[app] : u.does \in x[1] /\ role \in x[2]

-----------------------------------------------------------------------------
(* Why screens keep up: an answer that lacks a write is invalidated by a call that    *)
(* ended, or will be by one that is under way.                                        *)

CallTypeOK ==
    call \in [Slots -> [on : BOOLEAN, left : Nat, owed : BOOLEAN, tells : BOOLEAN, again : BOOLEAN]]

\* The session is where its user may be.
Somewhere ==
    /\ app \in Client /\ watched \in DOMAIN Effect[app]
    /\ role \in Concerned(app, watched) /\ page \in Open(app, role)

\* A call still to write what must be shown tells of it when it ends.
WillTell == \A k \in Slots : call[k].owed /\ call[k].left > 0 => call[k].on /\ call[k].tells

Noticed == behind => stale \/ \E k \in Slots : call[k].on /\ call[k].tells

KeepUpInv == CallTypeOK /\ Somewhere /\ WillTell /\ Noticed

LEMMA KeepUpStarts == Init => KeepUpInv
<1> SUFFICES ASSUME Init PROVE KeepUpInv
  OBVIOUS
<1>1. Somewhere
  BY CallsAreTold DEF Init, Somewhere
<1>2. CallTypeOK /\ WillTell /\ Noticed
  BY DEF Init, CallTypeOK, WillTell, Noticed, NoCall
<1> QED
  BY <1>1, <1>2 DEF KeepUpInv

\* What a page offers is a call of which the assumption speaks.
LEMMA OfferedIsTold ==
    ASSUME Somewhere, NEW u \in Calls(app, role, page, watched)
    PROVE  \E left \in Nat, owed \in BOOLEAN, tells \in BOOLEAN :
             /\ Effect[app][watched][u.does] =
                  [on |-> TRUE, left |-> left, owed |-> owed, tells |-> tells, again |-> FALSE]
             /\ owed => tells \/ left = 0
<1> DEFINE L == Touching(Apis[app], u.does, watched)
<1> DEFINE O == Owed(Apis[app], Untold[app], u.does, watched)
<1> DEFINE T == Tells(Apis[app], u.does, watched)
<1>1. u.does \in DOMAIN Effect[app][watched]
  BY DEF Calls, Matter
<1>2. app \in Client /\ watched \in DOMAIN Effect[app]
  BY DEF Somewhere
<1>3. Effect[app][watched][u.does] =
        [on |-> TRUE, left |-> L, owed |-> O, tells |-> T, again |-> FALSE]
  BY <1>1, <1>2 DEF Effect, Effects
<1>4. LET e == Effect[app][watched][u.does] IN e.left \in Nat /\ (e.owed => e.tells \/ e.left = 0)
  BY CallsAreTold DEF Somewhere
<1>5. O \in BOOLEAN /\ T \in BOOLEAN
  BY DEF Owed, Tells
<1> HIDE DEF L, O, T
<1>6. L \in Nat /\ (O => T \/ L = 0)
  BY <1>3, <1>4
<1>7. ASSUME NEW left \in Nat, NEW owed \in BOOLEAN, NEW tells \in BOOLEAN,
             left = L, owed = O, tells = T
      PROVE  /\ Effect[app][watched][u.does] =
                  [on |-> TRUE, left |-> left, owed |-> owed, tells |-> tells, again |-> FALSE]
             /\ owed => tells \/ left = 0
  BY <1>3, <1>6, <1>7
<1> QED
  BY <1>5, <1>6, <1>7

LEMMA KeepUpGoesOn == KeepUpInv /\ [Next]_vars => KeepUpInv'
<1> SUFFICES ASSUME KeepUpInv, [Next]_vars PROVE KeepUpInv'
  OBVIOUS
<1> USE DEF KeepUpInv
<1>1. CASE Mount \/ Expire \/ ServerReads \/ Arrive \/ QueryFails
  BY <1>1 DEF Mount, Expire, ServerReads, Arrive, QueryFails, Ask, chosen,
     CallTypeOK, Somewhere, WillTell, Noticed
<1>2. ASSUME NEW p \in Stops[app][watched][role], Go(p) PROVE KeepUpInv'
  <2>1. /\ UNCHANGED <<app, watched, role, entry, held, behind, stale>> /\ page' = p
        /\ call' = [k \in Slots |-> [call[k] EXCEPT !.again = @ /\ shown']]
    BY <1>2 DEF Go, Leave, chosen, cache
  <2>2. p \in Open(app, role)
    BY DEF Stops, Ways, Concerned, Open, Somewhere
  <2>3. CallTypeOK' /\ WillTell' /\ Noticed'
    BY <2>1 DEF CallTypeOK, WillTell, Noticed
  <2> QED
    BY <2>1, <2>2, <2>3 DEF Somewhere
<1>3. ASSUME NEW r \in Concerned(app, watched), SignIn(r) PROVE KeepUpInv'
  BY <1>3, CallsAreTold DEF SignIn, chosen, cache, CallTypeOK, Somewhere, WillTell, Noticed
<1>4. CASE Unmount
  <2>1. /\ UNCHANGED <<app, watched, role, page, entry, held, behind, stale>>
        /\ call' = [k \in Slots |-> [call[k] EXCEPT !.again = @ /\ shown']]
    BY <1>4 DEF Unmount, Leave, chosen, cache
  <2>2. CallTypeOK' /\ WillTell' /\ Noticed'
    BY <2>1 DEF CallTypeOK, WillTell, Noticed
  <2> QED
    BY <2>1, <2>2 DEF Somewhere
<1>5. CASE Invalidate
  BY <1>5 DEF Invalidate, Ask, chosen, CallTypeOK, Somewhere, WillTell, Noticed
<1>6. ASSUME NEW k \in Slots, NEW u \in Calls(app, role, page, watched), Call(k, u)
      PROVE  KeepUpInv'
  <2> DEFINE e == Effect[app][watched][u.does]
  <2>1. PICK left \in Nat, owed \in BOOLEAN, tells \in BOOLEAN :
          /\ e = [on |-> TRUE, left |-> left, owed |-> owed, tells |-> tells, again |-> FALSE]
          /\ owed => tells \/ left = 0
    BY OfferedIsTold
  <2>2. call' = [call EXCEPT ![k] = [e EXCEPT !.again = shown /\ watched \in u.again]]
    BY <1>6 DEF Call
  <2>3. call[k] = NoCall /\ UNCHANGED <<app, watched, role, page, shown, entry, held, behind, stale>>
    BY <1>6 DEF Call, chosen, cache
  <2> HIDE DEF e
  <2>4. call'[k] = [on |-> TRUE, left |-> left, owed |-> owed, tells |-> tells,
                    again |-> shown /\ watched \in u.again]
    <3>1. call'[k] = [e EXCEPT !.again = shown /\ watched \in u.again]
      BY <2>2 DEF CallTypeOK
    <3> QED
      BY <3>1, <2>1
  <2>5. \A j \in Slots \ {k} : call'[j] = call[j]
    BY <2>2 DEF CallTypeOK
  <2>6. CallTypeOK'
    <3>1. call'[k] \in [on : BOOLEAN, left : Nat, owed : BOOLEAN, tells : BOOLEAN, again : BOOLEAN]
      BY <2>1, <2>4
    <3> QED
      BY <2>2, <3>1 DEF CallTypeOK
  <2> QED
    BY <2>1, <2>3, <2>4, <2>5, <2>6 DEF NoCall, Somewhere, WillTell, Noticed
<1>7. ASSUME NEW k \in Slots, NEW u \in Calls(app, role, page, watched), Refused(k, u)
      PROVE  KeepUpInv'
  BY <1>7 DEF Refused, chosen, CallTypeOK, Somewhere, WillTell, Noticed
<1>8. ASSUME NEW k \in Slots, Write(k) PROVE KeepUpInv'
  BY <1>8 DEF Write, chosen, CallTypeOK, Somewhere, WillTell, Noticed
<1>9. ASSUME NEW k \in Slots, Succeed(k) \/ Fail(k) PROVE KeepUpInv'
  <2>1. /\ UNCHANGED <<app, watched, role, page>>
        /\ call' = [call EXCEPT ![k] = NoCall] /\ stale' = (stale \/ call[k].tells)
        /\ behind' => behind
    BY <1>9 DEF Succeed, Fail, Ask, chosen
  <2>2. CallTypeOK' /\ Somewhere'
    BY <2>1 DEF NoCall, CallTypeOK, Somewhere
  <2>3. call'[k] = NoCall /\ \A j \in Slots \ {k} : call'[j] = call[j]
    BY <2>1 DEF CallTypeOK
  <2>4. WillTell'
    BY <2>3 DEF NoCall, WillTell
  <2>5. ASSUME behind' PROVE stale' \/ \E j \in Slots : call'[j].on /\ call'[j].tells
    <3>1. stale \/ \E j \in Slots : call[j].on /\ call[j].tells
      BY <2>1, <2>5 DEF Noticed
    <3>2. CASE stale \/ call[k].tells
      BY <2>1, <3>2
    <3>3. ASSUME NEW j \in Slots \ {k}, call[j].on, call[j].tells
          PROVE  \E i \in Slots : call'[i].on /\ call'[i].tells
      BY <2>3, <3>3
    <3> QED
      BY <3>1, <3>2, <3>3
  <2> QED
    BY <2>2, <2>4, <2>5 DEF Noticed
<1>10. CASE UNCHANGED vars
  BY <1>10 DEF vars, CallTypeOK, Somewhere, WillTell, Noticed
<1> QED
  BY <1>1, <1>2, <1>3, <1>4, <1>5, <1>6, <1>7, <1>8, <1>9, <1>10 DEF Next

\* Whatever overlaps, fails or is refused, and however many calls are under way: a screen
\* at rest has what its session wrote (tags and invalidation of the two api slices).
THEOREM ScreensDoKeepUp == Spec => []ScreensKeepUp
<1>1. KeepUpInv => ScreensKeepUp
  BY DEF KeepUpInv, Noticed, ScreensKeepUp, Settled, NoCall
<1> QED
  BY KeepUpStarts, KeepUpGoesOn, <1>1, PTL DEF Spec

\* What the types and ClientsTypeOK rest on besides CallTypeOK and Somewhere.
Shape ==
    /\ shown \in BOOLEAN /\ held \in BOOLEAN /\ behind \in BOOLEAN /\ stale \in BOOLEAN
    /\ entry \in {"none", "asked", "answered", "ready", "failed"}
    /\ \A k \in Slots : call[k].again => shown
    /\ entry = "ready" => held
    /\ held \/ shown => entry # "none"
    /\ behind => entry \in {"answered", "ready"}

LEMMA ShapeGoesOn == KeepUpInv /\ Shape /\ [Next]_vars => Shape'
<1> SUFFICES ASSUME CallTypeOK, Shape, [Next]_vars PROVE Shape'
  BY DEF KeepUpInv
<1>1. CASE Mount
  BY <1>1 DEF Mount, Ask, Pending, Shape
<1>2. CASE Expire \/ ServerReads \/ Arrive \/ QueryFails \/ Invalidate
  <2>1. CASE Expire
    BY <2>1 DEF Expire, Shape
  <2>2. CASE ServerReads
    BY <2>2 DEF ServerReads, Shape
  <2>3. CASE Arrive
    BY <2>3 DEF Arrive, Shape
  <2>4. CASE QueryFails
    BY <2>4 DEF QueryFails, Shape
  <2>5. CASE Invalidate
    BY <2>5 DEF Invalidate, Ask, Shape
  <2> QED
    BY <1>2, <2>1, <2>2, <2>3, <2>4, <2>5
<1>3. CASE Unmount \/ \E p \in Stops[app][watched][role] : Go(p)
  <2>1. /\ UNCHANGED <<entry, held, behind, stale>> /\ shown' = (shown /\ Framed)
        /\ call' = [k \in Slots |-> [call[k] EXCEPT !.again = @ /\ shown']]
    BY <1>3 DEF Unmount, Go, Leave, cache
  <2>2. \A k \in Slots : call'[k].again => shown'
    BY <2>1 DEF CallTypeOK
  <2> QED
    BY <2>1, <2>2 DEF Shape
<1>4. ASSUME NEW r \in Concerned(app, watched), SignIn(r) PROVE Shape'
  <2>1. UNCHANGED <<entry, held, behind, stale, call>> /\ shown' = FALSE
    BY <1>4 DEF SignIn, cache
  <2>2. \A k \in Slots : ~call'[k].again
    BY <1>4, <2>1 DEF SignIn, Settled, NoCall
  <2> QED
    BY <2>1, <2>2 DEF Shape
<1>5. ASSUME NEW k \in Slots, NEW u, Call(k, u) PROVE Shape'
  <2> DEFINE e == Effect[app][watched][u.does]
  <2>1. /\ call' = [call EXCEPT ![k] = [e EXCEPT !.again = shown /\ watched \in u.again]]
        /\ UNCHANGED <<shown, entry, held, behind, stale>>
    BY <1>5 DEF Call, cache
  <2> HIDE DEF e
  <2> QED
    BY <2>1 DEF CallTypeOK, Shape
<1>6. ASSUME NEW k \in Slots, NEW u, Refused(k, u) PROVE Shape'
  BY <1>6 DEF Refused, Shape
<1>7. ASSUME NEW k \in Slots, Write(k) PROVE Shape'
  BY <1>7 DEF Write, CallTypeOK, Shape
<1>8. ASSUME NEW k \in Slots, Succeed(k) \/ Fail(k) PROVE Shape'
  <2>1. call' = [call EXCEPT ![k] = NoCall] /\ stale' = (stale \/ call[k].tells) /\ UNCHANGED shown
    BY <1>8 DEF Succeed, Fail
  <2>2. call[k].tells \in BOOLEAN
    BY DEF CallTypeOK
  <2>3. \A j \in Slots : call'[j].again => shown'
    BY <2>1 DEF NoCall, CallTypeOK, Shape
  <2>4. stale' \in BOOLEAN /\ UNCHANGED shown
    BY <2>1, <2>2
  <2>5. CASE Ask
    BY <2>3, <2>4, <2>5 DEF Ask, Shape
  <2>6. CASE UNCHANGED <<entry, held, behind>>
    BY <2>3, <2>4, <2>6 DEF Shape
  <2> QED
    BY <1>8, <2>5, <2>6 DEF Succeed, Fail
<1>9. CASE UNCHANGED vars
  BY <1>9 DEF vars, Shape
<1> QED
  BY <1>1, <1>2, <1>3, <1>4, <1>5, <1>6, <1>7, <1>8, <1>9 DEF Next

\* The cache's entry and what is mounted stay consistent.
THEOREM TypeCorrect == Spec => []ClientsTypeOK
<1>1. Init => Shape
  <2> SUFFICES ASSUME Init PROVE Shape
    OBVIOUS
  <2>1. \A k \in Slots : ~call[k].again
    BY DEF Init, NoCall
  <2> QED
    BY <2>1 DEF Init, Shape
<1>2. KeepUpInv /\ Shape => ClientsTypeOK
  <2>1. ASSUME Somewhere PROVE role \in Role
    BY <2>1 DEF Somewhere, Concerned, Stops, Ways
  <2> QED
    BY <2>1 DEF KeepUpInv, CallTypeOK, Somewhere, Shape, ClientsTypeOK
<1> QED
  BY KeepUpStarts, KeepUpGoesOn, ShapeGoesOn, <1>1, <1>2, PTL DEF Spec

=============================================================================
