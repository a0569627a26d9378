# TLA+ models of the AES platform

The AES platform runs the operations and the finances of a mining-services contractor: a
NestJS API on PostgreSQL (`apps/api`), two React clients (`apps/web`, `apps/admin`) and a
Flutter client (`apps/mobile`). These modules model what is approved by whom and what an
approval then moves, the services around that, and how the clients keep up with what the
server has. They are translated from the code; paths below are relative to `apps/api/src`
unless they name another directory.

Most of it shares one hazard. A handler reads rows, checks them, and writes later by id, and
each Prisma call is a transaction of its own (`prisma/prisma.service.ts` wraps every call in
one, to set the row-level-security role). So other requests run between any two calls of a
handler, and a handler that stops leaves behind what it had written. Every model of the server
cuts a handler at its database calls, lets `Workers` of them interleave, and lets one fail
between any two calls. The clients have the same hazard between a request and its answer.

## Inventory

`PROJECT.json` lists all 44 components with their sources, status and what is left out, and
40 hazards at their lines. Call by call (guards, order, failures) are modelled:

| Component | State | Operations | Hard behaviour | What makes it correct |
|---|---|---|---|---|
| Approval engine (`approvals`, `reference/delegation`) | matrix, chains, steps, delegations | submit, decide, inbox, matrix edits, callbacks | decisions on one chain race; the matrix changes below; stop between status and callback | entitled people decide, in order; outcomes are earned and delivered once; a pending chain waits for somebody |
| Approval reminders (same service, hourly) | reminded, escalated, activated times | sweep | a sweep between an advance and its clock; two sweeps | a stamp has its notice; once each; a step nobody decides is escalated |
| Requisitions, Travel, Director withdrawals (`workflows`) | status, disbursement, retirement, posting | submit, funds check, disburse, retire, complete, daily re-test | the re-test acts on an old list; journal before status | approved before paid, paid once, books agree |
| Petty cash (`workflows/petty-cash`) | floats with a lock, transactions, legs, journals | withdraw, top up, convert, confirm, count, unlock | a count against a confirmation; POSTED before the journal | nothing posted without its authority; a locked float confirms nothing; ledger and status agree |
| Budgets (`workflows/budgets`) | versions, parents | submit, activate, revise | supersession after activation, in a second call | no version in force without its own approval; one of a parent and its revision |
| Timesheets, Payroll runs (`timesheets`, `payroll`) | period, grid; run, lines, journals | save, submit, lock, reopen; open, compute, submit, post | grid changes after the check; recompute against approval | paid hours were approved; approved is frozen; posted once, for the lines of the run |
| Payroll adjustments (`payroll-adjustments`) | batches, assignments, earnings | compute, submit, approve, promote, allowance | two approvals of one batch; overlapping assignments | each difference raised once; no more days paid than a month has |
| Obligations (`compliance`), Alerts (`command-centre/danger`) | obligation, alerts | evaluate, refresh, fan out, repeat, acknowledge, resolve | evaluation beside evaluation; a stop before the fan-out | one active alert per rule and subject; a grave one is heard |
| Ledger and receipts (`ledger`, `financial`) | entries, system accounts | post a receipt or a claim | look up, then create | an entry per source; nothing posted that is not recorded |
| Returns (`returns`, with withholding tax) | returns, remittances | post a month, withhold, remit | read-modify-write of the amounts | nothing counts as paid or due that is not |
| Accruals (`financial/domain`) | last row per loan, interest, health | nightly catch-up and health | downtime, overlapping nights, a stop half-way | no day twice, none lost |
| Data migration (`data-migration`) | all the tables it writes | import, import again, import corrected, skip what fails | keys made of dates and amounts; posting while upserting; errors that are only logged | exact rows are not duplicated, nothing is lost but what was skipped, posted what is stored |
| Sessions (`auth`, the clients' mutex) | refresh tokens, mutex, waiters | sign in, rotate, refuse, sign out, download | two refreshes with one token; an expired access token at sign-out; lost answers | the client's token is the only live one but for those it let go of; revoked for good |
| CRM, Marketing (`crm`, `marketing`) | deal, lead, links | move, convert | two conversions; a move beside one | no link without its record; one each |
| Projects (`projects`) | tree, weights, percents | add, move, remove, report, roll up | percents of parents stored apart | stored is the roll-up; leaves keep their reports |
| Boards (`boards`) | boards, members, lists, cards | create, move, reclassify, delete | visibility checked before the write | cards stay on their board; only who sees it changes it |
| Notifications (`notifications`) | rows, preferences | send by severity, read | stop between two recipients | everybody told as they prefer; a send has its row |
| Mobile offline work (`apps/mobile`) | outbox, drafts | queue, flush, edit, store | lost answers, closed app, an edit under way | nothing leaves the phone that the server neither has nor refused |
| Query cache of both web clients | one cached answer, calls under way | navigate, call, invalidate, sign out | a call ends while an answer is read | a screen at rest shows what its session wrote |

By their footprint only (the tables each method reads, and those it writes, in order; the roles
of its routes) are modelled: command-centre panels, financial records, site reports and stores,
human resources, safety, reports, reference data, users and sites, and the methods of the
components above that only read or change a single row.

Not modelled:

* **Audit log**: written after each change; no modelled decision reads it.
* **Payroll calculators** (and the other arithmetic of taxes, margins, provisions): functions
  of decimals and tax tables; small instances say little of them. A pay line is modelled by
  what it was computed from.
* **Attachments, storage, encryption; configuration, health, start-up; schema, migrations,
  deployment; generated types**: calls of libraries and wiring. The schema is read for the
  unique indexes and defaults the models rely on.
* **The other mobile screens**: presentation of what the API returns, with no cache of its own.
* **Row-level policies and the site scope**: filters of SQL. What a model's roles may do is
  the guard in the code. Layout, forms and their validation in the clients.

## Modules

```
ApprovalEngine ──implements──> ApprovalOutcomes <── Requests
     │                                                 │
ApprovalEngineProofs     ┌──────────────┬──────────────┴─────────┐
                      Workflow      Timesheets                Handlers
                  ┌──────┴──────┐       │            ┌───────────┴───────────┐
             Disbursement  Director-  Payroll     PettyCash Budgets     Alerts SlaTimers
                  │        Withdrawal   │         Adjustments Import   Sessions Pipeline
                  │             │   PayrollProofs  FinancialRecords     Wbs Boards
                  └─ Documents ─┘                  Returns              Notifications MobileSync
                       │  implements Payment         │                       │
                 DocumentsProofs     Import ───>   Money                  Platform
                                       │             │                       │
                                 ImportProofs ─> MoneyProofs          PlatformProofs

Footprint <── ServerMoney <── ServerWork <── ServerRoutes <──┬── AdminScreens ──┐
    ▲                                                        └── WebScreens ────┤ INSTANCE
    └──────────────────────── Clients (with its proofs) <─────────────── MCClients
```

* **ApprovalEngine** is `approvals/approval.service.ts` but for its hourly job. `chain` and `step`
  are the two tables, `matrix` says which rules exist (`Rule` holds their contents), `job[w]` is
  the handler of a worker with what it has read. `SubmitRead`, `SubmitCreate`, `DecideRead`,
  `DecideWrite`, `CloseChain`, `ReturnChain`, `AdvanceStep`, `ActivateStep`, `Fire` and
  `CallbackReturn` are the database calls in their order, `NotifyStep` the notice an order is
  announced with when it opens (`told` keeps whom it reached, and when); `CreateRule`,
  `UpdateRule`, `RemoveRule` are `approval-matrix.service.ts`; `Fail` stops a handler between two
  calls. `votes` and `fired` are history.
* **ApprovalOutcomes** is what the engine promises its callers: a chain is opened, gets an
  outcome, and the outcome is delivered. With `Overlap = FALSE` the outcome is unique and
  delivered at most once; with `TRUE` a chain that has an outcome may get another, and both
  are delivered. The services above are composed with this promise, not with the engine;
  `ImplementsOutcomes` is what justifies it.
* **Requests** adds the workers that serve the other services: `call[w]` is the place a
  handler has reached and what it read. **Workflow** is what documents have in common (submit
  writes SUBMITTED, then calls the engine; the callback mirrors or goes on). **Disbursement**
  is requisitions and travel, with travel's retirement, **DirectorWithdrawal** posting
  and completion. **Documents** puts the three behind one registry, and **Payment** is what
  paying comes to: approved first, then paid, once.
* **Timesheets** and **Payroll** are a period and a run of one site and month. The grid is
  reduced to a version number, a pay line to the version it was computed from and the extra
  earnings in it.
* **Handlers** is the same frame for services with several rows: which outcomes were delivered
  for which chain, `failures`, and `overlapped`, which remembers that two handlers were once
  under way together. `AtRest` means: no handler under way, none failed, none overlapped.
* **Money** and **Platform** compose services that share the workers and the engine but no
  row. A behaviour is about one of them, `part`, chosen in the initial state; so one run
  checks them all, and the state space is a sum and not a product.
* **Import** is `data-migration/import.service.ts`. `db` holds the tables it writes, each a
  sequence of rows as a lookup finds them; `WriteRow` is one row of a sheet with all it upserts,
  resolves and posts, `ImportSheet` the fold over a sheet; `day` is what `new Date()` gives a cell
  without a date. `Cents` is how a stored decimal rounds,
  halves away from zero as PostgreSQL does. `CashflowTx` and `PayrollTx` are whole transactions,
  `ManhoursRow` is one row; `PayrollSkipped` and `ManhoursSkipped` are the errors and early returns
  after which the import goes on, remembered by `imported` (`partly` instead of `yes`).
* **ServerMoney, ServerWork, ServerRoutes** are the footprint of each method, then each route
  with its roles. **AdminScreens, WebScreens** are each endpoint of a client with its route
  and tags, what each component reads and offers to whom, and pages and menu. **Clients** is
  the session of a user of one of the clients, seen by one cached answer, over those tables.
  The rules of the cache are those of RTK Query 2.2.5, as the clients configure it: delayed
  invalidation, refetch of what is mounted, a minute of grace for the rest.
* The `MC*` modules hold the instances.

A definition named for a mistake (`SubmitUnchecked`, `PostReadInverted`, ...), or preceded by a
comment that says *Mutant*, is not part of any specification. It is what the definition it is
paired with in `PROJECT.json` must not be: with the mistake in its place, the run must fail.

## Runs

| Run | Instance | Shows |
|---|---|---|
| `engine_serial` | one worker, five matrix rows, five kinds of submission, four people, two delegations, one row edited, one failure (256,000 states) | unless a request failed, a pending chain waits for somebody and every outcome is delivered, and a chain waits at a step order that was announced; whoever may decide finds the step in the inbox; a notice went to those who could decide when the order opened, but for who only stands in for the requester; `ApprovalOutcomes` with a single outcome is implemented |
| `engine_overlap` | two workers, three people, one failure | racing requests may replace an outcome but never invent one: decisions authorised, in order, outcomes and advances earned; `ApprovalOutcomes` with `Overlap` is implemented |
| `documents_serial` | every kind, two chains, one worker, one failure | `Payment` is implemented; ledger and document agree, and no trip returns more than its advance; a paid document stays paid; a submitted one is in somebody's hands; every outcome arrives; the daily job finds what waits for funds |
| `documents_overlap` | every kind, one chain, two workers, one failure, an engine that replaces outcomes, a matrix that may have no row | no payment, refund or status that shows one before the approval, no recorded refund above its advance, nor a handler past its checks without what it checked |
| `payroll_serial` | three chains, one worker, one failure, two saves of the grid | paid hours were approved, also after a reopening; approved grids and runs are frozen; run and ledger agree, once per currency; approvals arrive |
| `payroll_overlap` | two chains, two workers, one extra earning | no journal without an approved run, no run without an approved timesheet and hours; nothing in a run is due again |
| `money` | the parts petty, budgets, backPay, acting, receipts, returns, loan, debt, health, import; two workers (256,000 states) | `MoneyAuthorised`: however requests overlap and fail, nothing is posted, in force, raised, due or accrued without what it takes. `MoneyAgrees`: one at a time, two tables say the same of the same money; the importer's journals are those of its rows, and whatever was skipped no row of the cashflow workbook is lost, nor a line of the payroll unless it was skipped. `MoneyKept`: what is final stays; once a workbook of dated rows in cents was imported in full, importing it again changes nothing |
| `platform` | the parts alerts, sla, sessions, pipeline, wbs, boards, notifications, outbox, drafts; two workers (249,000 states) | `PlatformAuthorised`: what is stored has its cause. `PlatformAgrees`: one at a time, what is said in two places agrees. `PlatformKept`: no step undoes what is final or does what nobody was allowed to ask for |
| `platform_live` | alerts and sla, with the scheduled jobs | `DangerIsHeard`: a grave alert is told although the process stopped before it was; `EscalationComes`: a step nobody decides is escalated |
| `clients` | both clients, every query, every role, two calls at a time (444,000 states) | `ScreensKeepUp`: at rest a screen has what the calls of its session wrote to its resource, but for the pairs in `Untold`. `OffersAreAllowed`: no page offers what the API refuses, but for those in `ShownAnyway` |

Two runs are expected to fail. Each shows that the code does something other than what it, or
its documentation, says of itself:

| Run | What happens | What is said |
|---|---|---|
| `finding_lost_advance` | two approvers of a PARALLEL step decide together, each judged on a snapshot without the other: the chain stays PENDING with nothing left to decide | `approval.service.ts` 363, `docs/AES_WORKFLOWS.md` 79 |
| `finding_stuck_wait` | two requests wait while a third refreshes the token; `release` wakes one of them and the other waits on although the mutex is free | `apps/admin/src/api/mutex.ts` 10: "Resolves once the mutex is free" (the same code without the comment is `apps/web/src/api/mutex.ts`) |

### What else the models brought up

The properties are worded so as to hold of the code; these are what the wording leaves room
for. Several were seen as counterexamples while the properties were being found.

* *Engine and documents.* Who comes to stand in for an approver after the order opened may decide
  without having been told (`notifyStep`, `approval.service.ts` 509-529), and so may the delegates
  of the requester. Two retirements of one advance both return what they claim, as does one
  repeated after a stop before its record: more cash than the advance, of which one refund is
  recorded (`travel.service.ts` 403-488). Two approvers of an EITHER step who decide together close
  the chain twice, with different outcomes (`approval.service.ts` 405 against 168). SUBMITTED is
  written before the engine finds no matrix row and throws (`requisitions.service.ts` 151, 134).
  The daily job writes READY_TO_PAY to an advance disbursed since it was listed
  (`travel.service.ts` 605). Two deliveries of an approval both post a withdrawal
  (`director-withdrawals.service.ts` 197). Computing a run again drops the extra earnings it had
  taken (`payroll.service.ts` 266). A sweep between an advance and the start of its clock escalates
  early (`approval.service.ts` 376, 381).
* *Money.* Two revisions of one budget can both be ACTIVE. Of two approved acting assignments in
  one month only the earlier is paid; asking for an allowance twice pays it twice. `remit` and
  `payable` add to what they read before; returns and system accounts have no unique key
  (`ledger.service.ts` 156 says "Idempotent under concurrency"). Posting payroll for one site
  overwrites the month's total. `lastHealth` is written before the alert, so a stop in between
  loses it. Beyond the cap of the catch-up (`financial/domain/loan-interest-accrual.service.ts`
  109) days bear no interest.
* *Import.* A row without a date is keyed by the present time, and an amount finer than a cent
  never matches the stored decimal: both are duplicated by the next import (`import.service.ts` 95
  says "re-running never duplicates"). A contract without dates is given those of each import anew
  (499-500), and so is a receipt whose order has none of three (580). Money in ZiG without a rate
  is dropped (585). A payroll file that cannot be read or written, or whose site is not found, and
  a sheet of hours that fails are logged, and the import ends normally (930-938, 953-956,
  1162-1170): nothing reaches the `errors` of the summary although a comment says failures "are
  logged into the summary" (1314). Two identical expense rows become one. A corrected receipt is
  not posted again; nor is that of an order that the sheet has twice, whose amount becomes that of
  the second row while its journal keeps that of the first. Payroll import sets returns back to DUE
  and writes lines into a run whatever its status; hours overwrite entries of locked periods.
* *Alerts.* An acknowledged DANGER alert is raised anew within the hour. A WATCH alert whose
  process stopped before the fan-out is never told. Rules about single subjects do not resolve
  their alerts. A scan beside a remittance raises an alert that nothing resolves.
* *Sessions.* The admin client's downloads refresh outside the mutex
  (`apps/admin/src/api/download.ts`): next to a refresh of the mutex that is reuse, and the user is
  signed out. So is a lost answer to a refresh, or a second browser tab. Signing out with an
  expired access token refreshes first, and leaves the new refresh token live; a refresh answered
  after a sign-out signs in again.
* *Work.* `updateNode` refuses a node as its own parent but not a cycle through a descendant:
  the roll-up then throws after the change, or completes parents for ever. `deleteNode` leaves
  children with a parent that is gone. Two moves can give cards one position. `reclassify`
  checks the role, not that the board is visible. A conversion creates its record before the
  link: a stop or a second one leaves two.
* *Mobile.* Create and submit are not idempotent: a lost answer duplicates the request.
  `_flushing` is tested before an await and set after it. A cell edited while its value is on
  the way loses the draft (`timesheet_grid_cubit.dart` 66, under `apps/mobile`).
* *Clients.* The cache is not reset when a user signs out: whoever signs in within a minute is
  shown the former user's answers. A query that failed once is not asked again on remount. A page
  that asks by hand (`projectsApi.ts` 111, under `apps/web`) does not if the query is pending or
  the page was left. About sixty offers, and many queries, are for roles the API refuses, although
  `rbac/roles.ts` 1-2 says the client "hides what the caller cannot do".

## Bounds

* `Workers`: two. A race needs a handler whose knowledge goes stale and one that makes it so;
  the theorems hold for any number.
* `Chains`: one for the engine (chains share no rows but the matrix), two for a document
  (returned, then submitted again), three for payroll (period, run, and one of them again),
  two for money (both directors of a budget), one for the timers.
* `MaxFailures`: one. A second leaves nothing behind that the first has not, and the
  properties that presuppose none say so. In the overlapping behaviours of payroll, money and
  platform there is none; the theorems on the first two allow any number.
* The matrix has a PARALLEL pair, an EITHER pair and a second order above an amount, as the
  seeded one has; one submission meets rows of different modes at one order. `MaxTime` is one
  tick, in which a delegation begins and another ends.
* `Advance` is 2 and `MCUnspent` {-1, 0, 2, 3}: an overspend, nothing, everything, and more
  than everything, which must be refused. `MaxEdits` is 2, so that a grid changes after its
  approval. `MaxPaid`, `MaxDelivered`, `MaxPosted` bound what the same handlers would repeat.
* `money`: two of each row (of a budget and its revision, of two receipts one a claim), months
  of two days and one day so that an assignment spans them, amounts up to `MaxMoney` = 2 (half
  remitted, fully remitted), four days against a catch-up of two so that the cap bites.
  Workbooks (`MCBooks`) are a client, an order and a contract with one further row in each
  sheet in turn, with and without a date (a contract: either of two) and with an amount in cents or
  not; orders paid in ZiG with a rate of 2 and without; two general expenses or two orders, equal or
  not; and pay with hours of somebody known or not. `Bounded` in `MCMoney` names the rest.
* `platform`: two people, two boards, lists and cards, three nodes (a grandparent), weights 0 and 1
  (a parent without weight), four tokens (a sign-in, refreshes, and one issued for a sign-out that
  was refused), two alerts (of a rule, and raised anew), two queued requests of which one is
  submitted too, two cells edited twice, one lost answer. `Bounded` in `MCPlatform` names the rest;
  overlapping behaviours have the smaller trees and boards, as a race needs one row.
* `platform_live`: one person, one alert.
* `clients`: one answer is followed at a time, every one in some behaviour; two calls; a page
  that neither shows the answer nor makes a call that matters to it is one page like any other
  of its kind. People with several roles are left out, and a connection that breaks while the
  server goes on; users change only at rest.
* Model values of workers, chains, rows are symmetric where a run checks no liveness.

The systems may stop (everything decided, every bound reached), so deadlock is not checked.
Waiting that does not end is stated as a property of its own (`WaitEndsWithTheMutex`).

## Fairness

A handler that has begun goes on to its end unless it fails (`WF` on the steps that continue
it: Node runs every continuation). Nobody has to ask for anything: people may never decide,
submit or disburse. What is certain are the scheduled jobs (`jobs/scheduled-jobs.service.ts`):
the daily re-test, the hourly sweep of reminders, and the four-hourly repetition of alerts
nobody acknowledged. They compete with requests for the workers of the run and come again and
again, so they are strongly fair; the hours pass (`WF` of `HoursPass`). That a stop makes
liveness fail is said in the properties of the serial runs, `[](failures = 0)`;
`DangerIsHeard` and `EscalationComes` hold although a process stops once.

## Proofs

TLAPS proves, for every value of the constants (any number of workers, chains, rows,
failures):

* **ApprovalEngineProofs**, however requests overlap: `TypeCorrect`, `DecisionsAreAuthorised`,
  `VotesAreInOrder`, `OutcomesAreEarned`, `AdvancesAreInOrder`, `HandlersAreSound`. None of the
  properties is inductive alone, since a handler writes from a snapshot that others have
  outdated. The strengthening is `HandlersSound`: what the handler saw approved was granted,
  and every order below the one it decides is complete. It survives the steps of others
  because votes are only added and every mode is monotone in them (`SatisfiedMonotone`,
  `KnowledgeGrows`). `SnapshotSuffices` is the heart: what is satisfied in an old snapshot is
  satisfied in the votes, so an advance or an outcome computed from it is justified.
  * `InboxAgrees`: whoever may decide a waiting step has it in the inbox; a notice, which is sent
    once, went to those who could decide when its order opened (`NoticeRight`; found once from the
    role to the people and once from the person to the roles), but for who only stands in for the
    requester; and without a failure the order a chain waits at was announced. `ToldInv` says
    that a pending chain has its current order announced or a handler about to do so (`Announcing`).
  * `ChainsWait`, with one request at a time: a pending chain waits for a step that somebody can
    decide. The invariant (`AloneInv`, `WaitInv`) says what each place in a handler has left
    undone, and that a chain nobody works on has its current order active and not yet granted.
  * `EngineKeepsItsPromise`: every step of the engine is a step of `ApprovalOutcomes` or changes
    nothing of it, for any finite number of workers. Two or more of them are what `Overlap`
    means, so only with one is `AloneInv` needed, to show that no outcome replaces another.
* **DocumentsProofs**, however requests overlap: `TypeCorrect`, `ApprovalComesFirst`,
  `RefundsFollowPayment`, `HandlersStandOnChecks`. The approval and the payment are never undone,
  so a place in a handler reached through a check of the status keeps its reason
  (`HandlerFounded`) although the status itself may be overwritten meanwhile.
  * With one request at a time (`Workers = {one}`) and an engine that keeps an outcome
    (`~Overlap`): `BooksAgreeAlone`, `PaidStaysPaid` and, where the matrix has a row for
    everything (`~MayRefuse`; otherwise `submit` writes SUBMITTED and then throws),
    `SubmittedAwaitsSomebody`. The invariant (`SerialInv`) says what the document is like at
    every place of a handler (`Stands`, `Deciding`), that at most one chain or one worker has it
    (`OneChainAtMost`), and, while nothing failed, that ledger and status agree but for what the
    handler has still to write (`Balanced`).
  * `PaymentIsImplemented`: every step of a document is a step of `Payment` or changes nothing
    of it. Where requests may overlap `Payment` allows for a slip, and any number of workers
    will do; where they may not, `SerialInv` excludes it.
* **PayrollProofs**, however requests overlap: `TypeCorrect`, `WagesStandOnApprovals`,
  `ExtrasArePaidOnce`, `HandlersStandOnChecks`. The same argument along a longer line: hours,
  the approval of the period, the run, its lines, the approval of the run, the journals.
  * With one request at a time: `HoursWereApproved`, `LedgerAgreesAlone`, `ApprovedStaysFrozen`.
    The invariant (`SerialInv`) says that a handler finds the period and the run as it checked
    them (`Stands`), that the grid of an approved period was approved as it is
    (`GridApproved`), and what the callback has still to post (`Balanced`). An engine that
    replaces an outcome does no harm here: nothing is posted for an APPROVED run again.
* **MoneyProofs**: `MoneyIsAuthorised`, that is `MoneyAuthorised` of the `money` run. One
  invariant per part (`PettyInv`, `BudgetInv`, `AdjustmentInv`, `ReceiptInv`, `ReturnInv`,
  `AccrualInv`), each of which says that what a call under way saw is still good enough to act
  on. For petty cash and budgets: the chain it acts for was made for a row that exists, and an
  approval is never undone. For receipts: each source has at most one poster. For returns,
  whose amounts are read and written back later, the invariant counts: what is due plus the
  requests on their way is covered by what was withheld, and what is paid by what was
  remitted. For allowances: the days of each are the number of days the assignment and the
  month share (`DaysAreCounted`). For loans: the days with interest are `1..Latest`, until a
  run was capped. Parts that are idle stay as they began. `Engine` is what all of them need of
  the abstract engine, `MoneyInv` the conjunction.
  * `MoneyTypeCorrect`, `MoneyStays` and, with one request at a time, `MoneyAgreesAlone`, that is
    the runs' `MoneyTypeOK`, `MoneyKept` and `MoneyAgrees`. For the part of the importer they come
    from `ImportProofs`; for the others `AloneInv` has one invariant per part again. Each says that
    the one worker finds the rows as it read them (`PettyKnows`, `BudgetKnows`, ...) and, while
    nothing failed, what the call under way has still to write for the tables to agree
    (`PettySettled`, `BudgetsSettled`, ...). `OneAtATime` is what "one request at a time" comes to:
    all workers but one are free, and a callback that is due finds the outcome its chain has.
  * `AllowancesFit` is about a sum over a set. The community modules define it by a recursive
    function, whose existence is shown for finite sets (`SumUnfolds`); what it adds up to is an
    induction, done by looking at a smallest set for which the claim fails (`SumFits`): the
    days of allowances that do not meet are disjoint, so they are no more than the month has.
* **ImportProofs**: what the importer writes, for workbooks of any length and any rows, over
  tables that may hold anything of their types (`IsDB`), however often a call failed. A sheet is
  a fold over its rows (`ImportSheet`), whose tables after each row are those of a recursive
  function (`SheetUnfolds`); inductions over the rows look at the least row for which the claim
  would fail (`NatSet`, `LeastNat`), in `SheetGoes` and `SheetSettles`.
  * `RowGoes`, `CashflowGoes`, and from them `ImportTypeOK`, `ImportPosted` and
    `ImportComplete`. Every upsert leaves tables of which no row is gone or found by another key
    (`Goes`), with every receipt and claim journalled; so a row that is written stays so whatever
    is written later (`RowStays`). `ImportInv` says which sheets are written by the place a call
    has reached, of the payroll only if it was not skipped, and, until a corrected workbook is
    imported, that amount and journal of a receipt are those of rows about its order: so they
    agree, unless the sheet has that order twice (`Twice`).
  * `ImportedTwice`, and `ImportRepeats` of the importer's steps: importing a workbook of exact
    rows (dated, so that no day of the import is written, and in cents) again changes no table, be
    anything skipped the second time. That a row is not created again is easy; that it is not
    *changed* needs that no other row of the workbook has written its columns meanwhile, or put
    another row before it where its key is looked up. `Wish` is what the workbook says of a row of
    a table, and an exact one says one thing (`WishesAgree`); `ShowsAt` is that the tables have it,
    as the first its key finds; `Follows` is that what is shown stays shown at the same place.
    Every write of an exact workbook follows (`PutFollows`) and what was written is from then on
    kept (`RowKept`, `SheetKept`, `CashflowKept`, `PayrollKept`). The hours depend on the employees
    there are, so they are kept as long as nobody is hired, which writing hours does not do.
    `RepeatInv` says how much is kept by the place a call has reached.
* **PlatformProofs**: `PlatformIsAuthorised` and `PlatformKeeps`, that is `PlatformAuthorised` and
  `PlatformKept` of the `platform` run, however requests overlap and fail. Again one invariant
  per part and `PlatformInv` their conjunction: the part at work has its invariant, an idle one
  is as it began. What they add to the property is mostly what a call under way has seen and may
  still rely on. Alerts: an alert that is not grave has at most one sender, its creator. Timers:
  a stamp follows its notice. Sessions: the mutex is held by the refresh that will release it,
  and a revoked token has no way back. Pipeline: a conversion that is under way has created what
  it is going to link. Tree: the parents named anywhere are nodes, so that no node comes to be
  its own parent. Boards: a card that is on its way stays on the board its lists are on.
  Notifications: what is sent was written. Mobile: what is removed from the outbox, or from
  the drafts, was answered.
  * `PlatformTypeCorrect` and `PlatformAgreesAlone`: `PlatformTypeOK` and, with one request at a
    time, `PlatformAgrees`. `PlatformAlone` adds to each part what the rows lack and the call under
    way has still to write. Alerts: what was not sent, or not cleared after a remittance, is in the
    hands of a handler (`EachSent`, `EachCleared`), and a row about to be created is the only
    active one of its rule (`FreshCall`). Timers: a notice has its stamp or its handler will set
    it, and the clock of a step is no older than its wait. Sessions: how far the tokens are at
    every place of a rotation, a refusal or a sign-out (`TokensAt`): the live ones are that of the
    client, those the call is replacing, and the strays nobody holds any more. Pipeline: a record
    is linked or about to be (`Made`). Notifications: what was used of a person's channels is what
    they want but for those the call has still to ask about (`Telling`). Drafts: what a call is
    about to clear is stored or refused (`Settled`). Tree: the percents are rolled up, or a handler
    is on its way to `recomputeProject` (`WbsAlone`).
  * `rollUp` is a recursive function over a tree of any depth. That nodes without a circle have
    exactly one such function (`RollUpIsTheOnly`), that it stays within 0 to 100
    (`RollUpFits`) and does not change when only written percents of inner nodes do
    (`RollUpSame`) is shown from the leaves up: a set of nodes that has with each node all below
    it grows one node at a time to the whole tree (`FromTheLeaves`). The averages it is made of
    are sums over sets, compared by a smallest set again (`SumsCompare`, `AverageFits`).
* **Clients** (statement and proof beside the model): `TypeCorrect` and `ScreensDoKeepUp`, for
  any endpoints, pages, roles and number of calls, from the assumption `CallsAreTold`: a call
  whose writes an answer has to show carries a tag of that answer. TLC evaluates the
  assumption for the real clients. The invariant: an answer that lacks a write is about to be
  invalidated, by a call that ended or by one under way.

The other assumptions are named `ASSUME`s too: the null is not a value, the tables have the
types of the schema, workbooks those of the parser's rows (`BooksAssumption`), sets of workers and
sites are finite, months follow each other, there is a chain to remind people of. TLC evaluates
them in the runs. The theorems about one request at a time have that as a hypothesis, because the
code does not keep these properties otherwise (see "What else the models brought up").

Model-checked only:

* liveness (`OutcomesDelivered`, `OutcomeArrives`, `FundsAreFound`, `ApprovalsArrive`,
  `PlatformAnswers`), which the prover does not treat;
* `OffersAreAllowed`: a fact about the tables of the real clients, which TLC computes.

## Plan

What is modelled now covers the server's state machines, the clients' cache and the app's
offline work. What would add most next, in this order:

1. **Row-level security and the site scope** as a filter on what a role reads and writes,
   composed with the routes.
2. A connection that breaks while the server goes on, in **Clients**; people with several roles.
3. Opening and closing periods of the site reports, and stores, call by call rather than by
   their footprints.
4. One cash position shared by several documents, so that the daily re-test may promote more
   than the cash covers (`requisitions.service.ts` 399).
