----------------------------- MODULE ServerWork -----------------------------
(***************************************************************************)
(* What the methods of the services touch: the timesheets, the payroll and *)
(* its adjustments, the importer, the projects and boards, the safety      *)
(* records and the site reports.                                           *)
(***************************************************************************)
EXTENDS ServerMoney

(* apps/api/src/projects/projects.service.ts *)
ProjectsService_listTemplates == Reads({"wbsTemplate"})
ProjectsService_getTemplate == Reads({"wbsTemplate"})
ProjectsService_createTemplate == Writes(<<"wbsTemplate">>)
ProjectsService_updateTemplate == ProjectsService_getTemplate ++ Writes(<<"wbsTemplate">>)
ProjectsService_deleteTemplate == ProjectsService_getTemplate ++ Writes(<<"wbsTemplate">>)
ProjectsService_findOne == Reads({"project", "projectNode"})
ProjectsService_fromTemplate ==
    ProjectsService_getTemplate ++ Writes(<<"project", "projectNode">>) ++
    ProjectsService_findOne
ProjectsService_portfolio == Reads({"project"})
ProjectsService_list == Reads({"project"})
ProjectsService_create == Writes(<<"project">>)
ProjectsService_update == Reads({"project"}) ++ Writes(<<"project">>)
ProjectsService_health == Reads({"project"})
ProjectsService_assertProjectExists == Reads({"project"})
ProjectsService_listNodes == Reads({"projectNode"}) ++ ProjectsService_assertProjectExists
ProjectsService_recomputeProject ==
    Reads({"projectNode"}) ++ Writes(<<"projectNode", "project">>)
ProjectsService_addNode ==
    Reads({"projectNode"}) ++ ProjectsService_assertProjectExists ++
    Writes(<<"projectNode">>) ++ ProjectsService_recomputeProject
ProjectsService_reorderNodes ==
    Reads({"projectNode"}) ++ ProjectsService_assertProjectExists ++
    Writes(<<"projectNode">>) ++ ProjectsService_listNodes
ProjectsService_updateNode ==
    Reads({"projectNode"}) ++ Writes(<<"projectNode">>) ++ ProjectsService_recomputeProject
ProjectsService_deleteNode ==
    Reads({"projectNode"}) ++ Writes(<<"projectNode">>) ++ ProjectsService_recomputeProject
ProjectsService_cascadeComplete == Reads({"projectNode"}) ++ Writes(<<"projectNode">>)
ProjectsService_updateProgress ==
    Reads({"projectNode"}) ++ ProjectsService_assertProjectExists ++ Writes(<<"projectNode",
    "projectNodeNote">>) ++ ProjectsService_cascadeComplete ++
    ProjectsService_recomputeProject ++ ProjectsService_findOne
ProjectsService_listDependencies ==
    Reads({"projectDependency"}) ++ ProjectsService_assertProjectExists
ProjectsService_addDependency ==
    Reads({"projectNode"}) ++ ProjectsService_assertProjectExists ++
    Writes(<<"projectDependency">>)
ProjectsService_deleteDependency ==
    Reads({"projectDependency"}) ++ Writes(<<"projectDependency">>)

(* apps/api/src/payroll/payroll.service.ts *)
PayrollService_loadRunLines == Reads({"employee", "payrollLine", "payrollRun"})
PayrollService_statutoryReturns == PayrollService_loadRunLines

(* apps/api/src/compliance/compliance.service.ts *)
ComplianceService_generateFromPayrollRun ==
    Reads({"complianceObligation"}) ++ PayrollService_statutoryReturns ++
    Writes(<<"complianceObligation">>) ++ ComplianceService_list

(* apps/api/src/timesheets/timesheets.service.ts *)
TimesheetsService_createPeriod ==
    Reads({"site", "timesheetPeriod"}) ++ Writes(<<"timesheetPeriod">>)
TimesheetsService_list == Reads({"timesheetPeriod"})
TimesheetsService_getGrid == Reads({"timesheetEntry", "timesheetPeriod"})
TimesheetsService_getOrThrow == Reads({"timesheetPeriod"})
TimesheetsService_upsertEntries ==
    Reads({"employee"}) ++ TimesheetsService_getOrThrow ++ Writes(<<"timesheetEntry">>)
TimesheetsService_submit ==
    Reads({"timesheetEntry"}) ++ TimesheetsService_getOrThrow ++ ApprovalService_submit
TimesheetsService_lock == TimesheetsService_getOrThrow ++ Writes(<<"timesheetPeriod">>)
TimesheetsService_requestReopen == TimesheetsService_getOrThrow
TimesheetsService_reopen ==
    Reads({"payrollRun"}) ++ TimesheetsService_getOrThrow ++ Writes(<<"timesheetPeriod">>)
TimesheetsService_manhours ==
    Reads({"employee", "timesheetEntry"}) ++ TimesheetsService_getOrThrow

(* apps/api/src/payroll-adjustments/back-pay.service.ts *)
BackPayService_list == Reads({"backPayBatch"})
BackPayService_findOne == Reads({"backPayBatch", "backPayLine"})
BackPayService_createBatch ==
    Reads({"employee", "payrollLine", "payrollRun"}) ++ Writes(<<"backPayBatch",
    "backPayLine">>)
BackPayService_transition == Reads({"backPayLine"}) ++ Writes(<<"backPayBatch">>)
BackPayService_submit == BackPayService_findOne ++ BackPayService_transition
BackPayService_approve ==
    BackPayService_findOne ++ Atomically(Reads({"backPayLine"}) ++
    Writes(<<"payrollExtraEarning", "backPayBatch">>))

(* apps/api/src/payroll-adjustments/acting.service.ts *)
ActingService_register == Reads({"actingAssignment"})
ActingService_findOne == Reads({"actingAssignment"})
ActingService_assertNoOverlap == Reads({"actingAssignment"})
ActingService_create == ActingService_assertNoOverlap ++ Writes(<<"actingAssignment">>)
ActingService_transition == Writes(<<"actingAssignment">>)
ActingService_submit == ActingService_findOne ++ ActingService_transition
ActingService_approve == ActingService_findOne ++ Writes(<<"actingAssignment">>)
ActingService_computeActingForRun ==
    Reads({"actingAssignment", "employee"}) ++ Writes(<<"payrollExtraEarning">>)

(* apps/api/src/site-reports/stores-withdrawals.service.ts *)
StoresWithdrawalsService_list == Reads({"storesWithdrawal"})
StoresWithdrawalsService_findOne == Reads({"storesWithdrawal"})
StoresWithdrawalsService_create == Reads({"site"}) ++ Writes(<<"storesWithdrawal">>)
StoresWithdrawalsService_update ==
    StoresWithdrawalsService_findOne ++ Writes(<<"storesWithdrawal">>)
StoresWithdrawalsService_remove ==
    StoresWithdrawalsService_findOne ++ Writes(<<"storesWithdrawal">>)

(* apps/api/src/site-reports/performance.service.ts *)
PerformanceService_performance == Reads({"siteKpi", "siteKpiActual", "siteKpiTarget"})
PerformanceService_siteIdsWithKpis == Reads({"siteKpi"})
PerformanceService_crossSite ==
    Reads({"site"}) ++ PerformanceService_siteIdsWithKpis ++ PerformanceService_performance
PerformanceService_contractToDate ==
    Reads({"contract", "site", "siteKpi", "siteKpiActual", "siteKpiTarget"})
PerformanceService_list == Reads({"siteKpi"})
PerformanceService_create == Writes(<<"siteKpi">>)
PerformanceService_findOne == Reads({"siteKpi"})
PerformanceService_update == PerformanceService_findOne ++ Writes(<<"siteKpi">>)
PerformanceService_remove == PerformanceService_findOne ++ Writes(<<"siteKpi">>)
PerformanceService_upsertTarget ==
    Reads({"siteKpiTarget"}) ++ PerformanceService_findOne ++ Writes(<<"siteKpiTarget">>)
PerformanceService_upsertActual ==
    Reads({"siteKpi", "siteKpiActual", "siteKpiTarget"}) ++ Writes(<<"siteKpiActual">>)

(* apps/api/src/site-reports/ppe.service.ts *)
PpeService_compliance == Reads({"employee", "ppeIssue", "ppeRequirement"})
PpeService_listRequirements == Reads({"ppeRequirement"})
PpeService_createRequirement == Writes(<<"ppeRequirement">>)
PpeService_updateRequirement == Reads({"ppeRequirement"}) ++ Writes(<<"ppeRequirement">>)
PpeService_removeRequirement == Reads({"ppeRequirement"}) ++ Writes(<<"ppeRequirement">>)
PpeService_listIssues == Reads({"ppeIssue"})
PpeService_createIssue == Reads({"ppeRequirement"}) ++ Writes(<<"ppeIssue">>)
PpeService_updateIssue == Reads({"ppeIssue"}) ++ Writes(<<"ppeIssue">>)
PpeService_removeIssue == Reads({"ppeIssue"}) ++ Writes(<<"ppeIssue">>)

(* apps/api/src/site-reports/site-reports.service.ts *)
SiteReportsService_list == Reads({"siteReportPeriod", "siteReportSection"})
SiteReportsService_open ==
    Reads({"site", "siteReportPeriod"}) ++ Writes(<<"siteReportPeriod",
    "siteReportSection">>)
SiteReportsService_longContractSiteIds == Reads({"contract", "site"})
SiteReportsService_openForMonth ==
    Reads({"siteReportPeriod"}) ++ SiteReportsService_longContractSiteIds ++
    SiteReportsService_open
SiteReportsService_findOne == Reads({"siteReportPeriod", "siteReportSection"})
SiteReportsService_autoManhours == Reads({"timesheetEntry", "timesheetPeriod"})
SiteReportsService_autoProgress == Reads({"project"})
SiteReportsService_autoPettyCash == Reads({"pettyCashFloat"})
SiteReportsService_autoCostVsBudget == Reads({"budget", "budgetLine", "storesWithdrawal"})
SiteReportsService_autoStores == Reads({"storesWithdrawal"})
SiteReportsService_buildAutoContent ==
    SiteReportsService_autoManhours ++ SiteReportsService_autoProgress ++
    SiteReportsService_autoPettyCash ++ SiteReportsService_autoCostVsBudget ++
    SiteReportsService_autoStores
SiteReportsService_autoPopulate ==
    SiteReportsService_findOne ++ SiteReportsService_buildAutoContent ++
    Writes(<<"siteReportSection">>)
SiteReportsService_addSection ==
    SiteReportsService_findOne ++ Writes(<<"siteReportSection">>)
SiteReportsService_updateSection ==
    SiteReportsService_findOne ++ Writes(<<"siteReportSection">>)
SiteReportsService_flagTimeliness ==
    Reads({"siteKpi", "siteKpiActual"}) ++ Writes(<<"siteKpiActual">>)
SiteReportsService_submit ==
    Reads({"siteReportSection"}) ++ SiteReportsService_findOne ++
    Writes(<<"siteReportPeriod">>) ++ SiteReportsService_flagTimeliness

(* apps/api/src/payroll/payroll.service.ts *)
PayrollService_resolveClientRatio == Reads({"contract", "site"})
PayrollService_openRun ==
    Reads({"exchangeRate", "payrollRun", "site", "timesheetPeriod"}) ++
    PayrollService_resolveClientRatio ++ Writes(<<"payrollRun">>)
PayrollService_getOrThrow == Reads({"payrollRun"})
PayrollService_resolveRunCountry == Reads({"entity"})
PayrollService_pct == StatutoryRatesService_valueAsOf
PayrollService_loadStatutoryConfig == StatutoryRatesService_valueAsOf ++ PayrollService_pct
PayrollService_resolveFxRate == Reads({"exchangeRate"}) ++ StatutoryRatesService_valueAsOf
PayrollService_computeRun ==
    Reads({"employee", "payrollExtraEarning", "timesheetEntry", "timesheetPeriod"}) ++
    PayrollService_getOrThrow ++ PayrollService_resolveRunCountry ++
    PayrollService_loadStatutoryConfig ++ PayrollService_resolveFxRate ++
    Atomically(Reads({"payrollLine", "payrollRun"}) ++ Writes(<<"payrollLine",
    "payrollExtraEarning", "payrollRun">>))
PayrollService_employerCost == Reads({"payrollLine"})
PayrollService_submit ==
    Reads({"payrollLine"}) ++ PayrollService_getOrThrow ++ PayrollService_employerCost ++
    ApprovalService_submit
PayrollService_list == Reads({"payrollRun"})
PayrollService_findOne == Reads({"employee", "payrollLine", "payrollRun"})
PayrollService_bankSchedule == PayrollService_loadRunLines
PayrollService_payslips == PayrollService_loadRunLines
PayrollService_sageJournal == PayrollService_loadRunLines

(* apps/api/src/data-migration/import.service.ts *)
ImportService_upsertStatutoryRate == Reads({"statutoryRate"}) ++ Writes(<<"statutoryRate">>)
ImportService_upsertExchangeRate == Reads({"exchangeRate"}) ++ Writes(<<"exchangeRate">>)
ImportService_upsertSettings ==
    ImportService_upsertStatutoryRate ++ ImportService_upsertExchangeRate
ImportService_upsertClients == Reads({"client"}) ++ Writes(<<"client">>)
ImportService_resolveClient == Reads({"client"}) ++ Writes(<<"client">>)
ImportService_upsertContracts ==
    Reads({"contract"}) ++ ImportService_resolveClient ++ Writes(<<"contract">>)
ImportService_upsertOrderReceipts ==
    Reads({"orderReceipt"}) ++ Writes(<<"orderReceipt">>) ++ LedgerService_postOrderReceipt
ImportService_upsertOrders ==
    Reads({"order"}) ++ ImportService_resolveClient ++ Writes(<<"order">>) ++
    ImportService_upsertOrderReceipts
ImportService_upsertOrderExpenses == Reads({"orderExpense"}) ++ Writes(<<"orderExpense">>)
ImportService_upsertGeneralExpenses ==
    Reads({"generalExpense"}) ++ Writes(<<"generalExpense">>)
ImportService_upsertOverheads == Reads({"overhead"}) ++ Writes(<<"overhead">>)
ImportService_upsertLoans ==
    Reads({"loan", "loanRepayment"}) ++ Writes(<<"loan", "loanRepayment">>)
ImportService_upsertContractClaims ==
    Reads({"contractClaim"}) ++ Writes(<<"contractClaim">>) ++
    LedgerService_postContractClaim
ImportService_upsertTaxDebt == Reads({"otherTaxDebt"}) ++ Writes(<<"otherTaxDebt">>)
ImportService_upsertOperationalTaxLedger == Reads({"taxLedger"}) ++ Writes(<<"taxLedger">>)
ImportService_consolidateOperationalTax == ImportService_upsertOperationalTaxLedger
ImportService_importCashflow ==
    Atomically(ImportService_upsertSettings ++ ImportService_upsertClients ++
    ImportService_upsertContracts ++ ImportService_upsertOrders ++
    ImportService_upsertOrderExpenses ++ ImportService_upsertGeneralExpenses ++
    ImportService_upsertOverheads ++ ImportService_upsertLoans ++
    ImportService_upsertContractClaims ++ ImportService_upsertTaxDebt ++
    ImportService_consolidateOperationalTax)
ImportService_upsertPayrollRun == Reads({"payrollRun"}) ++ Writes(<<"payrollRun">>)
ImportService_upsertEmployee == Reads({"employee"}) ++ Writes(<<"employee">>)
ImportService_upsertPayrollLine == Reads({"payrollLine"}) ++ Writes(<<"payrollLine">>)
ImportService_postStatutoryReturns ==
    Reads({"statutoryReturn"}) ++ Writes(<<"statutoryReturn">>)
ImportService_importOnePayroll ==
    Reads({"site"}) ++ Atomically(ImportService_upsertPayrollRun ++
    ImportService_upsertEmployee ++ ImportService_upsertPayrollLine ++
    ImportService_postStatutoryReturns)
ImportService_importPayroll == ImportService_importOnePayroll
ImportService_ensureTimesheetPeriod ==
    Reads({"timesheetPeriod"}) ++ Writes(<<"timesheetPeriod">>)
ImportService_importOneManhoursSheet ==
    Reads({"employee", "timesheetEntry"}) ++ ImportService_ensureTimesheetPeriod ++
    Writes(<<"timesheetEntry">>)
ImportService_importManhours == ImportService_importOneManhoursSheet
ImportService_run ==
    ImportService_importCashflow ++ ImportService_importPayroll ++
    ImportService_importManhours

(* apps/api/src/data-migration/parity.service.ts *)
ParityService_orderCentricProfit == Reads({"loan", "order", "orderExpense"})
ParityService_perOrderChecks ==
    Reads({"order", "orderExpense", "orderMilestone", "orderReceipt"})
ParityService_perTaxLineChecks == Reads({"taxLedger"})

(* apps/api/src/boards/boards.service.ts *)
BoardsService_listBoards == Reads({"board", "boardMember"})
BoardsService_loadVisibleBoard == Reads({"board", "boardMember"})
BoardsService_requireVisibleBoard == BoardsService_loadVisibleBoard
BoardsService_getBoard ==
    Reads({"board", "boardCard", "boardList", "boardMember", "cardChecklistItem",
    "cardComment"}) ++ BoardsService_requireVisibleBoard
BoardsService_createBoard == Writes(<<"board">>)
BoardsService_updateBoard == BoardsService_requireVisibleBoard ++ Writes(<<"board">>)
BoardsService_deleteBoard == BoardsService_requireVisibleBoard ++ Writes(<<"board">>)
BoardsService_reclassify == Reads({"board", "boardMember"}) ++ Writes(<<"board">>)
BoardsService_addMember == BoardsService_requireVisibleBoard ++ Writes(<<"boardMember">>)
BoardsService_removeMember == BoardsService_requireVisibleBoard ++ Writes(<<"boardMember">>)
BoardsService_nextListPosition == Reads({"boardList"})
BoardsService_createList ==
    BoardsService_requireVisibleBoard ++ BoardsService_nextListPosition ++
    Writes(<<"boardList">>)
BoardsService_requireVisibleList == Reads({"board", "boardList", "boardMember"})
BoardsService_updateList == BoardsService_requireVisibleList ++ Writes(<<"boardList">>)
BoardsService_deleteList == BoardsService_requireVisibleList ++ Writes(<<"boardList">>)
BoardsService_nextCardPosition == Reads({"boardCard"})
BoardsService_createCard ==
    BoardsService_requireVisibleList ++ BoardsService_nextCardPosition ++
    Writes(<<"boardCard">>)
BoardsService_requireVisibleCard ==
    Reads({"board", "boardCard", "boardList", "boardMember"})
BoardsService_updateCard == BoardsService_requireVisibleCard ++ Writes(<<"boardCard">>)
BoardsService_moveCard ==
    BoardsService_requireVisibleCard ++ BoardsService_requireVisibleList ++
    Writes(<<"boardCard">>)
BoardsService_assignCard == BoardsService_requireVisibleCard ++ Writes(<<"boardCard">>)
BoardsService_deleteCard == BoardsService_requireVisibleCard ++ Writes(<<"boardCard">>)
BoardsService_addChecklistItem ==
    Reads({"cardChecklistItem"}) ++ BoardsService_requireVisibleCard ++
    Writes(<<"cardChecklistItem">>)
BoardsService_toggleChecklistItem ==
    Reads({"cardChecklistItem"}) ++ BoardsService_requireVisibleCard ++
    Writes(<<"cardChecklistItem">>)
BoardsService_deleteChecklistItem ==
    Reads({"cardChecklistItem"}) ++ BoardsService_requireVisibleCard ++
    Writes(<<"cardChecklistItem">>)
BoardsService_addComment == BoardsService_requireVisibleCard ++ Writes(<<"cardComment">>)
BoardsService_listComments == Reads({"cardComment"}) ++ BoardsService_requireVisibleCard
BoardsService_adminGetBoardContainer == Reads({"board"})
BoardsService_adminRenameBoard == Reads({"board"}) ++ Writes(<<"board">>)

(* apps/api/src/she/she.service.ts *)
SheService_list == Reads({"sheRecord"})
SheService_stats == Reads({"sheRecord"})
SheService_create == Reads({"site"}) ++ Writes(<<"sheRecord">>)
SheService_findOne == Reads({"sheRecord"})
SheService_update == SheService_findOne ++ Writes(<<"sheRecord">>)

=============================================================================
