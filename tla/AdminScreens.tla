---------------------------- MODULE AdminScreens ----------------------------
(***************************************************************************)
(* The admin console.  Its api slice: for every endpoint the route it      *)
(* calls and the tags it provides (a query) or invalidates (a mutation).   *)
(* Its screens: what each component reads while it is shown, the calls it  *)
(* offers, the roles it offers them to, and the queries it asks again by   *)
(* hand after a call.                                                      *)
(***************************************************************************)
EXTENDS ServerRoutes

(* apps/admin/src/api/api.ts *)
AuthEndpoints ==
    LET Of(c) ==
        [login |-> Mutation(c.login, {}),
         me |-> Query(c.me, {}),
         logout |-> Mutation(c.logout, {})]
    IN  Of(AuthController)
UsersEndpoints ==
    LET Of(c) ==
        [getUsers |-> Query(c.list, {"Users"}),
         createUser |-> Mutation(c.create, {"Users"}),
         assignRole |-> Mutation(c.assignRole, {"Users"})]
    IN  Of(UsersController)
SitesEndpoints ==
    LET Of(c) ==
        [getSites |-> Query(c.list, {"Sites"}),
         createSite |-> Mutation(c.create, {"Sites"}),
         updateSite |-> Mutation(c.update, {"Sites"})]
    IN  Of(SitesController)
ExchangeRatesEndpoints ==
    LET Of(c) ==
        [getExchangeRates |-> Query(c.list, {"ExchangeRates"}),
         createExchangeRate |-> Mutation(c.create, {"ExchangeRates"})]
    IN  Of(ExchangeRatesController)
StatutoryRatesEndpoints ==
    LET Of(c) ==
        [getStatutoryRates |-> Query(c.list, {"StatutoryRates"}),
         createStatutoryRate |-> Mutation(c.create, {"StatutoryRates"})]
    IN  Of(StatutoryRatesController)
ThresholdsEndpoints ==
    LET Of(c) ==
        [getThresholds |-> Query(c.list, {"Thresholds"}),
         createThreshold |-> Mutation(c.create, {"Thresholds"})]
    IN  Of(ThresholdsController)
DelegationEndpoints ==
    LET Of(c) ==
        [getDelegations |-> Query(c.list, {"Delegations"}),
         createDelegation |-> Mutation(c.create, {"Delegations"})]
    IN  Of(DelegationController)
AuditEndpoints ==
    [getAudit |-> Query(AuditController.search, {"Audit"})]
AccountsEndpoints ==
    LET Of(c) ==
        [getAccounts |-> Query(c.list, {"Accounts"}),
         createAccount |-> Mutation(c.create, {"Accounts"})]
    IN  Of(AccountsController)
EmployeesEndpoints ==
    LET Of(c) ==
        [getEmployees |-> Query(c.list, {"Employees"}),
         createEmployee |-> Mutation(c.create, {"Employees"})]
    IN  Of(EmployeesController)
ClientsEndpoints ==
    LET Of(c) ==
        [getClients |-> Query(c.list, {"Clients"}),
         createClient |-> Mutation(c.create, {"Clients"}),
         updateClient |-> Mutation(c.update, {"Clients"})]
    IN  Of(ClientsController)
ContractsEndpoints ==
    LET Of(c) ==
        [getContracts |-> Query(c.list, {"Contracts"}),
         createContract |-> Mutation(c.create, {"Contracts"}),
         updateContract |-> Mutation(c.update, {"Contracts"})]
    IN  Of(ContractsController)
OrdersEndpoints ==
    LET Of(c) ==
        [getOrders |-> Query(c.list, {"Orders"}),
         getOrder |-> Query(c.findOne, {"Orders"}),
         createOrder |-> Mutation(c.create, {"Orders"}),
         recordReceipt |-> Mutation(c.recordReceipt, {"Orders"}),
         markServiced |-> Mutation(c.markServiced, {"Orders"}),
         addOrderExpense |-> Mutation(c.addExpense, {"Orders"})]
    IN  Of(OrdersController)
GeneralExpensesEndpoints ==
    LET Of(c) ==
        [getGeneralExpenses |-> Query(c.list, {"GeneralExpenses"}),
         createGeneralExpense |-> Mutation(c.create, {"GeneralExpenses"})]
    IN  Of(GeneralExpensesController)
OverheadsEndpoints ==
    LET Of(c) ==
        [getOverheads |-> Query(c.list, {"Overheads"}),
         createOverhead |-> Mutation(c.create, {"Overheads"})]
    IN  Of(OverheadsController)
ContractClaimsEndpoints ==
    LET Of(c) ==
        [getContractClaims |-> Query(c.listClaims, {"ContractClaims"}),
         addContractClaim |-> Mutation(c.addClaim, {"ContractClaims"})]
    IN  Of(ContractsController)
PayrollEndpoints ==
    LET Of(c) ==
        [getPayrollRuns |-> Query(c.list, {"PayrollRuns"}),
         getPayrollRun |-> Query(c.findOne, {"PayrollRun"}),
         createPayrollRun |-> Mutation(c.open, {"PayrollRuns"}),
         computePayrollRun |-> Mutation(c.compute, {"PayrollRun", "PayrollRuns"}),
         submitPayrollRun |-> Mutation(c.submit, {"PayrollRun", "PayrollRuns"})]
    IN  Of(PayrollController)
ComplianceEndpoints ==
    LET Of(c) ==
        [getComplianceObligations |-> Query(c.list, {"ComplianceObligations"}),
         generateComplianceFromRun |-> Mutation(c.generate, {"ComplianceObligations"}),
         remitComplianceObligation |-> Mutation(c.remit, {"ComplianceObligations"})]
    IN  Of(ComplianceController)
TimesheetsEndpoints ==
    LET Of(c) ==
        [getTimesheetPeriods |-> Query(c.list, {"TimesheetPeriods"}),
         getTimesheetGrid |-> Query(c.getGrid, {"TimesheetGrid"}),
         getManhours |-> Query(c.manhours, {"TimesheetGrid"}),
         createTimesheetPeriod |-> Mutation(c.createPeriod, {"TimesheetPeriods"}),
         upsertTimesheetEntries |-> Mutation(c.upsertEntries, {"TimesheetGrid"}),
         submitTimesheetPeriod |-> Mutation(c.submit, {"TimesheetGrid", "TimesheetPeriods"}),
         lockTimesheetPeriod |-> Mutation(c.lock, {"TimesheetGrid", "TimesheetPeriods"}),
         requestReopenTimesheet |-> Mutation(c.requestReopen, {"TimesheetGrid"})]
    IN  Of(TimesheetsController)
ApprovalsEndpoints ==
    LET Of(c) ==
        [getApprovalInbox |-> Query(c.inbox, {"Approvals"}),
         decideApproval |-> Mutation(c.decide, {"Approvals", "Budgets", "DirectorWithdrawals",
                 "PettyCashTxns", "Requisitions", "Travel"})]
    IN  Of(ApprovalsController)
RequisitionsEndpoints ==
    LET Of(c) ==
        [getRequisitions |-> Query(c.list, {"Requisitions"}),
         createRequisition |-> Mutation(c.create, {"Requisitions"}),
         submitRequisition |-> Mutation(c.submit, {"Approvals", "Requisitions"}),
         disburseRequisition |-> Mutation(c.disburse, {"Requisitions"}),
         reCheckRequisitionFunds |-> Mutation(c.reCheckFunds, {"Requisitions"})]
    IN  Of(RequisitionsController)
TravelEndpoints ==
    LET Of(c) ==
        [getTravelRequests |-> Query(c.list, {"Travel"}),
         createTravel |-> Mutation(c.create, {"Travel"}),
         submitTravel |-> Mutation(c.submit, {"Approvals", "Travel"}),
         disburseTravel |-> Mutation(c.disburse, {"Travel"}),
         retireTravel |-> Mutation(c.retire, {"Travel"}),
         reCheckTravelFunds |-> Mutation(c.reCheckFunds, {"Travel"})]
    IN  Of(TravelController)
BudgetsEndpoints ==
    LET Of(c) ==
        [getBudgets |-> Query(c.list, {"Budgets"}),
         getBudget |-> Query(c.findOne, {"Budget"}),
         createBudget |-> Mutation(c.create, {"Budgets"}),
         submitBudget |-> Mutation(c.submit, {"Approvals", "Budgets"})]
    IN  Of(BudgetsController)
DirectorWithdrawalsEndpoints ==
    LET Of(c) ==
        [getDirectorWithdrawals |-> Query(c.list, {"DirectorWithdrawals"}),
         createDirectorWithdrawal |-> Mutation(c.create, {"DirectorWithdrawals"}),
         submitDirectorWithdrawal |-> Mutation(c.submit, {"Approvals", "DirectorWithdrawals"}),
         completeDirectorWithdrawal |-> Mutation(c.complete, {"DirectorWithdrawals"})]
    IN  Of(DirectorWithdrawalsController)
PettyCashEndpoints ==
    LET Of(c) ==
        [getPettyCashFloats |-> Query(c.listFloats, {"PettyCashFloats"}),
         getPettyCashTxns |-> Query(c.listTxns, {"PettyCashTxns"}),
         createFloat |-> Mutation(c.createFloat, {"PettyCashFloats"}),
         createWithdrawal |-> Mutation(c.createWithdrawal, {"Approvals", "PettyCashTxns"}),
         confirmWithdrawal |-> Mutation(c.confirmWithdrawal, {"PettyCashTxns"}),
         recordCashCount |-> Mutation(c.recordCount, {"PettyCashFloats", "PettyCashTxns"}),
         topUpFloat |-> Mutation(c.createTopUp, {"Approvals", "PettyCashTxns"}),
         unlockFloat |-> Mutation(c.unlockFloat, {"PettyCashFloats"})]
    IN  Of(PettyCashController)
CommandCentreEndpoints ==
    LET Of(c) ==
        [getPerformance |-> Query(c.performancePanel, {}),
         getCashPosition |-> Query(c.cashPositionPanel, {})]
    IN  Of(CommandCentreController)
AlertsEndpoints ==
    [getActiveAlerts |-> Query(AlertsController.list, {})]
OrganisationsEndpoints ==
    LET Of(c) ==
        [getOrganisations |-> Query(c.list, {"CrmOrgs"}),
         createOrganisation |-> Mutation(c.create, {"CrmOrgs"}),
         updateOrganisation |-> Mutation(c.update, {"CrmOrgs"})]
    IN  Of(OrganisationsController)
ContactsEndpoints ==
    LET Of(c) ==
        [getContacts |-> Query(c.list, {"CrmContacts"}),
         createContact |-> Mutation(c.create, {"CrmContacts"}),
         updateContact |-> Mutation(c.update, {"CrmContacts"})]
    IN  Of(ContactsController)
InteractionsEndpoints ==
    LET Of(c) ==
        [getInteractions |-> Query(c.list, {"CrmInteractions"}),
         createInteraction |-> Mutation(c.create, {"CrmInteractions"})]
    IN  Of(InteractionsController)
OpportunitiesEndpoints ==
    LET Of(c) ==
        [getOpportunityBoard |-> Query(c.board, {"CrmOpps"}),
         createOpportunity |-> Mutation(c.create, {"CrmOpps"}),
         updateOpportunity |-> Mutation(c.update, {"CrmOpps"}),
         moveOpportunity |-> Mutation(c.move, {"CrmOpps"}),
         convertOpportunity |-> Mutation(c.convert, {"Contracts", "CrmOpps", "Orders"})]
    IN  Of(OpportunitiesController)
CrmAnalyticsEndpoints ==
    [getCrmAnalytics |-> Query(CrmAnalyticsController.conversion, {})]
ApprovalMatrixEndpoints ==
    LET Of(c) ==
        [getApprovalMatrix |-> Query(c.list, {"ApprovalMatrix"}),
         getApprovalOptions |-> Query(c.options, {}),
         createApprovalRule |-> Mutation(c.create, {"ApprovalMatrix"}),
         updateApprovalRule |-> Mutation(c.update, {"ApprovalMatrix"}),
         deleteApprovalRule |-> Mutation(c.remove, {"ApprovalMatrix"})]
    IN  Of(ApprovalMatrixController)
DangerRulesEndpoints ==
    LET Of(c) ==
        [getDangerRules |-> Query(c.list, {"DangerRules"}),
         updateDangerRule |-> Mutation(c.update, {"DangerRules"})]
    IN  Of(DangerRulesController)
SettingsEndpoints ==
    LET Of(c) ==
        [getLookups |-> Query(c.list, {"Lookups"}),
         createLookup |-> Mutation(c.create, {"Lookups"}),
         updateLookup |-> Mutation(c.update, {"Lookups"}),
         deleteLookup |-> Mutation(c.remove, {"Lookups"})]
    IN  Of(SettingsController)

(* apps/admin/src/features/boards/boardsApi.ts *)
BoardsEndpoints ==
    LET Of(c) ==
        [getBoards |-> Query(c.list, {}),
         getBoard |-> Query(c.get, {}),
         createBoard |-> Mutation(c.create, {}),
         reclassifyBoard |-> Mutation(c.reclassify, {}),
         createList |-> Mutation(c.createList, {}),
         createCard |-> Mutation(c.createCard, {}),
         moveCard |-> Mutation(c.moveCard, {}),
         addChecklistItem |-> Mutation(c.addChecklistItem, {}),
         toggleChecklistItem |-> Mutation(c.toggleChecklistItem, {}),
         addComment |-> Mutation(c.addComment, {})]
    IN  Of(BoardsController)

(* apps/admin/src/features/data-import/dataImportApi.ts *)
ImportEndpoints ==
    LET Of(c) ==
        [importWorkbook |-> Mutation(c.importWorkbook, {"ImportParity"}),
         getParity |-> Query(c.parityCheck, {"ImportParity"})]
    IN  Of(ImportController)

(* apps/admin/src/features/entities/entitiesApi.ts *)
EntitiesEndpoints ==
    LET Of(c) ==
        [getEntities |-> Query(c.list, {"Entities"}),
         getEntitySummary |-> Query(c.summary, {"Entities"}),
         createEntity |-> Mutation(c.create, {"Entities"}),
         getEntityHolidays |-> Query(c.listHolidays, {"EntityHolidays"}),
         createEntityHoliday |-> Mutation(c.createHoliday, {"EntityHolidays"}),
         deleteEntityHoliday |-> Mutation(c.deleteHoliday, {"EntityHolidays"})]
    IN  Of(EntitiesController)

(* apps/admin/src/features/marketing/marketingApi.ts *)
CampaignsEndpoints ==
    LET Of(c) ==
        [getCampaigns |-> Query(c.list, {"MktCampaigns"}),
         createCampaign |-> Mutation(c.create, {"MktCampaigns"}),
         updateCampaign |-> Mutation(c.update, {"MktCampaigns"}),
         getChannels |-> Query(c.listChannels, {"MktChannels"}),
         createChannel |-> Mutation(c.createChannel, {"MktAnalytics", "MktChannels"}),
         getMetrics |-> Query(c.listMetrics, {"MktMetrics"}),
         createMetric |-> Mutation(c.createMetric, {"MktMetrics"})]
    IN  Of(CampaignsController)
ResponsesEndpoints ==
    LET Of(c) ==
        [getResponses |-> Query(c.list, {"MktResponses"}),
         createResponse |-> Mutation(c.create, {"MktAnalytics", "MktResponses"}),
         updateResponseStatus |-> Mutation(c.updateStatus, {"MktResponses"}),
         convertResponse |-> Mutation(c.convert, {"MktAnalytics", "MktResponses"})]
    IN  Of(ResponsesController)
MarketingAnalyticsEndpoints ==
    [getMarketingAnalytics |-> Query(MarketingAnalyticsController.overview,
             {"MktAnalytics"})]

(* apps/admin/src/features/notification-settings/notificationSettingsApi.ts *)
NotificationsEndpoints ==
    LET Of(c) ==
        [getNotificationPreferences |-> Query(c.preferences, {"NotificationPreferences"}),
         setNotificationPreference |-> Mutation(c.setPreference, {"NotificationPreferences"})]
    IN  Of(NotificationsController)

(* apps/admin/src/features/payroll-adjustments/payrollAdjustmentsApi.ts *)
PayrollAdjustmentsEndpoints ==
    LET Of(c) ==
        [getBackPayBatches |-> Query(c.listBatches, {"BackPayBatches"}),
         getBackPayBatch |-> Query(c.getBatch, {"BackPayBatch"}),
         createBackPayBatch |-> Mutation(c.createBatch, {"BackPayBatches"}),
         submitBackPayBatch |-> Mutation(c.submitBatch, {"BackPayBatch", "BackPayBatches"}),
         approveBackPayBatch |-> Mutation(c.approveBatch, {"BackPayBatch", "BackPayBatches"}),
         getActingRegister |-> Query(c.register, {"ActingAssignments"}),
         createActingAssignment |-> Mutation(c.createActing, {"ActingAssignments"}),
         submitActingAssignment |-> Mutation(c.submitActing, {"ActingAssignments"}),
         approveActingAssignment |-> Mutation(c.approveActing, {"ActingAssignments"})]
    IN  Of(PayrollAdjustmentsController)

(* apps/admin/src/features/projects/projectsApi.ts *)
ProjectsEndpoints ==
    LET Of(c) ==
        [getPortfolio |-> Query(c.portfolio, {}),
         getProject |-> Query(c.findOne, {}),
         getProjectHealth |-> Query(c.health, {}),
         createProject |-> Mutation(c.create, {}),
         addProjectNode |-> Mutation(c.addNode, {}),
         updateNodeProgress |-> Mutation(c.updateProgress, {})]
    IN  Of(ProjectsController)
TemplatesEndpoints ==
    [getTemplates |-> Query(TemplatesController.list, {})]
FromTemplateEndpoints ==
    [createProjectFromTemplate |-> Mutation(FromTemplateController.fromTemplate, {})]

(* apps/admin/src/features/returns-hub/returnsHubApi.ts *)
ReturnsEndpoints ==
    LET Of(c) ==
        [getReturnsHub |-> Query(c.hub, {"Returns"}),
         getReturnsSummary |-> Query(c.summary, {"Returns"}),
         postFromPayroll |-> Mutation(c.postFromPayroll, {"Returns"}),
         postVat |-> Mutation(c.postVat, {"Returns"}),
         remitReturn |-> Mutation(c.remit, {"Returns"})]
    IN  Of(ReturnsController)
WhtEndpoints ==
    LET Of(c) ==
        [listWhtRates |-> Query(c.listRates, {"WhtRates"}),
         createWhtRate |-> Mutation(c.createRate, {"WhtRates"}),
         whtPayable |-> Mutation(c.payable, {"Returns"}),
         whtSuffered |-> Mutation(c.suffered, {"WhtCredits"}),
         getWhtCredits |-> Query(c.credits, {"WhtCredits"})]
    IN  Of(WhtController)

(* apps/admin/src/features/she/sheApi.ts *)
SheEndpoints ==
    LET Of(c) ==
        [getSheRecords |-> Query(c.list, {"ComplianceObligations"}),
         getSheStats |-> Query(c.stats, {"ComplianceObligations"}),
         createSheRecord |-> Mutation(c.create, {"ComplianceObligations"}),
         updateSheRecord |-> Mutation(c.update, {"ComplianceObligations"})]
    IN  Of(SheController)

(* apps/admin/src/features/site-reports/siteReportsApi.ts *)
SiteReportsEndpoints ==
    LET Of(c) ==
        [getSiteReportPeriods |-> Query(c.list, {"TimesheetPeriods"}),
         getSiteReportPeriod |-> Query(c.findOne, {"TimesheetGrid"}),
         openSiteReportPeriod |-> Mutation(c.open, {"TimesheetPeriods"}),
         updateSiteReportSection |-> Mutation(c.updateSection, {"TimesheetGrid"}),
         submitSiteReport |-> Mutation(c.submit, {"TimesheetGrid", "TimesheetPeriods"})]
    IN  Of(SiteReportsController)
PerformanceEndpoints ==
    LET Of(c) ==
        [getSitePerformance |-> Query(c.siteperf, {"ComplianceObligations"}),
         getCrossSite |-> Query(c.crossSite, {"ComplianceObligations"}),
         getSiteKpis |-> Query(c.listKpis, {"DangerRules"}),
         createSiteKpi |-> Mutation(c.createKpi, {"ComplianceObligations", "DangerRules"}),
         upsertKpiTarget |-> Mutation(c.upsertTarget, {"ComplianceObligations"}),
         upsertKpiActual |-> Mutation(c.upsertActual, {"ComplianceObligations"})]
    IN  Of(PerformanceController)
PpeEndpoints ==
    LET Of(c) ==
        [getPpeCompliance |-> Query(c.compliance, {"Employees"}),
         getPpeIssues |-> Query(c.listIssues, {"Employees"}),
         createPpeIssue |-> Mutation(c.createIssue, {"Employees"})]
    IN  Of(PpeController)
StoresWithdrawalsEndpoints ==
    LET Of(c) ==
        [getStoresWithdrawals |-> Query(c.list, {"Accounts"}),
         createStoresWithdrawal |-> Mutation(c.create, {"Accounts"})]
    IN  Of(StoresWithdrawalsController)

(* The whole of the api slice. *)
Api ==
    AuthEndpoints @@ UsersEndpoints @@ SitesEndpoints @@ ExchangeRatesEndpoints @@
    StatutoryRatesEndpoints @@ ThresholdsEndpoints @@ DelegationEndpoints @@ AuditEndpoints
    @@ AccountsEndpoints @@ EmployeesEndpoints @@ ClientsEndpoints @@ ContractsEndpoints @@
    OrdersEndpoints @@ GeneralExpensesEndpoints @@ OverheadsEndpoints @@
    ContractClaimsEndpoints @@ PayrollEndpoints @@ ComplianceEndpoints @@
    TimesheetsEndpoints @@ ApprovalsEndpoints @@ RequisitionsEndpoints @@ TravelEndpoints @@
    BudgetsEndpoints @@ DirectorWithdrawalsEndpoints @@ PettyCashEndpoints @@
    CommandCentreEndpoints @@ AlertsEndpoints @@ OrganisationsEndpoints @@ ContactsEndpoints
    @@ InteractionsEndpoints @@ OpportunitiesEndpoints @@ CrmAnalyticsEndpoints @@
    ApprovalMatrixEndpoints @@ DangerRulesEndpoints @@ SettingsEndpoints @@ BoardsEndpoints
    @@ ImportEndpoints @@ EntitiesEndpoints @@ CampaignsEndpoints @@ ResponsesEndpoints @@
    MarketingAnalyticsEndpoints @@ NotificationsEndpoints @@ PayrollAdjustmentsEndpoints @@
    ProjectsEndpoints @@ TemplatesEndpoints @@ FromTemplateEndpoints @@ ReturnsEndpoints @@
    WhtEndpoints @@ SheEndpoints @@ SiteReportsEndpoints @@ PerformanceEndpoints @@
    PpeEndpoints @@ StoresWithdrawalsEndpoints

-----------------------------------------------------------------------------

(* apps/admin/src/components/AppLayout.tsx *)
AppLayout == Uses({"logout"}, Anyone)

(* apps/admin/src/features/dashboard/DashboardPage.tsx *)
DashboardPage ==
    Uses({"getAccounts", "getApprovalMatrix", "getAudit", "getContracts", "getDangerRules",
    "getEmployees", "getExchangeRates", "getLookups", "getOrders", "getPerformance",
    "getSites", "getStatutoryRates", "getThresholds", "getUsers"}, Anyone) \cup
    Uses({"getActiveAlerts", "getCashPosition"}, Leadership)

(* apps/admin/src/components/LookupSelect.tsx *)
LookupSelect == Uses({"getLookups"}, Anyone)

(* apps/admin/src/features/users/UsersPage.tsx *)
UsersPage ==
    Uses({"getSites", "getUsers", "assignRole", "createUser"}, Anyone) \cup LookupSelect

(* apps/admin/src/features/sites/SitesPage.tsx *)
SitesPage == Uses({"getSites", "createSite", "updateSite"}, Anyone) \cup LookupSelect

(* apps/admin/src/features/exchange-rates/ExchangeRatesPage.tsx *)
ExchangeRatesPage == Uses({"getExchangeRates", "createExchangeRate"}, Anyone)

(* apps/admin/src/features/statutory-rates/StatutoryRatesPage.tsx *)
StatutoryRatesPage ==
    Uses({"getLookups", "getStatutoryRates", "createStatutoryRate"}, Anyone) \cup
    LookupSelect

(* apps/admin/src/features/thresholds/ThresholdsPage.tsx *)
ThresholdsPage ==
    Uses({"getLookups", "getThresholds", "createThreshold"}, Anyone) \cup LookupSelect

(* apps/admin/src/features/delegation/DelegationPage.tsx *)
DelegationPage == Uses({"getDelegations", "getUsers", "createDelegation"}, Anyone)

(* apps/admin/src/features/approval-matrix/ApprovalMatrixPage.tsx *)
ApprovalMatrixPage ==
    Uses({"getApprovalMatrix", "getApprovalOptions", "createApprovalRule",
    "deleteApprovalRule", "updateApprovalRule"}, Anyone) \cup LookupSelect

(* apps/admin/src/features/danger-rules/DangerRulesPage.tsx *)
DangerRulesPage == Uses({"getDangerRules", "updateDangerRule"}, Anyone)

(* apps/admin/src/features/accounts/AccountsPage.tsx *)
AccountsPage == Uses({"getAccounts", "getSites", "createAccount"}, Anyone) \cup LookupSelect

(* apps/admin/src/features/employees/EmployeesPage.tsx *)
EmployeesPage ==
    Uses({"getEmployees", "getSites", "createEmployee"}, Anyone) \cup LookupSelect

(* apps/admin/src/features/clients/ClientsPage.tsx *)
\* Mutant: the forms are there for everyone who comes to the page.
ClientsPageForAll == Uses({"getClients", "createClient", "updateClient"}, Anyone)
ClientsPage ==
    Uses({"getClients"}, Anyone) \cup Uses({"createClient", "updateClient"}, FinanceTeam)

(* apps/admin/src/features/contracts/ContractsPage.tsx *)
ClaimsModal ==
    Uses({"getContractClaims"}, Anyone) \cup Uses({"addContractClaim"}, FinanceTeam) \cup
    LookupSelect
ContractsPage ==
    Uses({"getClients", "getContracts"}, Anyone) \cup Uses({"createContract",
    "updateContract"}, FinanceTeam) \cup LookupSelect \cup ClaimsModal

(* apps/admin/src/features/orders/OrdersPage.tsx *)
OrdersPage ==
    Uses({"getClients", "getContracts", "getOrder", "getOrders", "getUsers"}, Anyone) \cup
    Uses({"addOrderExpense", "createOrder", "markServiced", "recordReceipt"}, FinanceTeam)
    \cup LookupSelect

(* apps/admin/src/features/expenses/ExpensesPage.tsx *)
GeneralExpensesTab ==
    Uses({"getGeneralExpenses", "createGeneralExpense"}, Anyone) \cup LookupSelect
OverheadsTab == Uses({"getOverheads", "createOverhead"}, Anyone) \cup LookupSelect
ExpensesPage == GeneralExpensesTab \cup OverheadsTab

(* apps/admin/src/features/timesheets/TimesheetsPage.tsx *)
AddEntryModal == Uses({"getEmployees", "upsertTimesheetEntries"}, Anyone)
PeriodDetail ==
    Uses({"getManhours"}, Anyone) \cup Only(SiteStaff \cup {"SYS_ADMIN"}, AddEntryModal)
TimesheetsPage ==
    Uses({"getSites", "getTimesheetPeriods"}, Anyone) \cup Uses({"createTimesheetPeriod",
    "requestReopenTimesheet", "submitTimesheetPeriod"}, SiteStaff \cup {"SYS_ADMIN"}) \cup
    Uses({"lockTimesheetPeriod"}, FinanceTeam \cup {"SITE_MANAGER"}) \cup PeriodDetail

(* apps/admin/src/features/payroll/PayrollPage.tsx *)
RunDetail == Uses({"getPayrollRun"}, Anyone)
PayrollPage ==
    Uses({"getPayrollRuns", "getSites"}, Anyone) \cup Uses({"computePayrollRun",
    "createPayrollRun", "submitPayrollRun"}, FinanceTeam) \cup RunDetail

(* apps/admin/src/features/compliance/ComplianceCalendarPage.tsx *)
ComplianceCalendarPage ==
    Uses({"getComplianceObligations", "getPayrollRuns"}, Anyone) \cup
    Uses({"generateComplianceFromRun", "remitComplianceObligation"}, FinanceTeam)

(* apps/admin/src/features/reports/ReportsPage.tsx *)
FinancialSummaryCard == LookupSelect
CashflowCard == LookupSelect
PayrollCard == Uses({"getPayrollRuns"}, Anyone)
ReportsPage == FinancialSummaryCard \cup CashflowCard \cup PayrollCard

(* apps/admin/src/features/workflows/ApprovalsInboxPage.tsx *)
ApprovalsInboxPage == Uses({"getApprovalInbox", "decideApproval"}, Anyone)

(* apps/admin/src/features/workflows/RequisitionsPage.tsx *)
RequisitionsPage ==
    Uses({"getAccounts", "getRequisitions", "getSites", "createRequisition",
    "submitRequisition"}, Anyone) \cup Uses({"disburseRequisition",
    "reCheckRequisitionFunds"}, {"FINANCE_OFFICER", "FINANCE_DIRECTOR"}) \cup LookupSelect

(* apps/admin/src/features/workflows/TravelPage.tsx *)
TravelPage ==
    Uses({"getAccounts", "getSites", "getTravelRequests", "createTravel", "submitTravel"},
    Anyone) \cup Uses({"disburseTravel", "reCheckTravelFunds", "retireTravel"},
    {"FINANCE_OFFICER", "FINANCE_DIRECTOR"}) \cup LookupSelect

(* apps/admin/src/features/workflows/PettyCashPage.tsx *)
FloatManager ==
    Uses({"getAccounts", "getPettyCashTxns"}, Anyone) \cup Uses({"confirmWithdrawal"},
    {"SITE_MANAGER"}) \cup Uses({"createWithdrawal"}, SiteStaff) \cup
    Uses({"recordCashCount", "topUpFloat"}, {"SITE_MANAGER", "FINANCE_OFFICER",
    "FINANCE_DIRECTOR"}) \cup Uses({"unlockFloat"}, {"FINANCE_DIRECTOR"})
PettyCashPage ==
    Uses({"getPettyCashFloats", "getSites", "getUsers"}, Anyone) \cup Uses({"createFloat"},
    FinanceTeam) \cup LookupSelect \cup FloatManager

(* apps/admin/src/features/workflows/BudgetsPage.tsx *)
BudgetDetailView == Uses({"getBudget"}, Anyone)
BudgetsPage ==
    Uses({"getBudgets", "getSites"}, Anyone) \cup Uses({"createBudget", "submitBudget"},
    {"FINANCE_OFFICER", "FINANCE_DIRECTOR"}) \cup BudgetDetailView \cup LookupSelect

(* apps/admin/src/features/workflows/DirectorWithdrawalsPage.tsx *)
DirectorWithdrawalsPage ==
    Uses({"getDirectorWithdrawals"}, Anyone) \cup Uses({"completeDirectorWithdrawal",
    "createDirectorWithdrawal", "submitDirectorWithdrawal"}, {"DIRECTOR", "SYS_ADMIN"}) \cup
    LookupSelect

(* apps/admin/src/features/crm/ContactsTab.tsx *)
ContactsTab ==
    Uses({"getContacts", "getOrganisations", "createContact", "updateContact"}, Anyone)

(* apps/admin/src/features/crm/AnalyticsTab.tsx *)
CrmAnalyticsTab == Uses({"getCrmAnalytics", "getUsers"}, Anyone)

(* apps/admin/src/features/crm/OrganisationsTab.tsx *)
OrganisationsTab ==
    Uses({"getOrganisations", "getUsers", "createOrganisation", "updateOrganisation"},
    Anyone)

(* apps/admin/src/features/crm/InteractionsTab.tsx *)
InteractionsTab ==
    Uses({"getContacts", "getInteractions", "getOrganisations", "createInteraction"},
    Anyone)

(* apps/admin/src/features/crm/PipelineTab.tsx *)
PipelineTab ==
    Uses({"getClients", "getOpportunityBoard", "getOrganisations", "getUsers",
    "convertOpportunity", "createOpportunity", "moveOpportunity"}, Anyone) \cup LookupSelect

(* apps/admin/src/features/crm/BusinessDevelopmentPage.tsx *)
BusinessDevelopmentPage ==
    ContactsTab \cup CrmAnalyticsTab \cup OrganisationsTab \cup InteractionsTab \cup
    PipelineTab

(* apps/admin/src/features/audit/AuditPage.tsx *)
AuditPage == Uses({"getAudit"}, Anyone)

(* apps/admin/src/features/settings/SettingsPage.tsx *)
SettingsPage == Uses({"getLookups", "createLookup", "deleteLookup", "updateLookup"}, Anyone)

(* apps/admin/src/features/data-import/DataImportPage.tsx *)
ParitySection == Uses({"getParity"}, Anyone)
ImportSection == Uses({"importWorkbook"}, Anyone)
DataImportPage == ParitySection \cup ImportSection

(* apps/admin/src/features/entities/EntitiesPage.tsx *)
HolidaysPanel ==
    Uses({"getEntityHolidays", "createEntityHoliday", "deleteEntityHoliday"}, Anyone)
EntitySummaryPanel == Uses({"getEntitySummary"}, Anyone)
ExpandedEntity == HolidaysPanel \cup EntitySummaryPanel
EntitiesPage == Uses({"getEntities", "createEntity"}, Anyone) \cup ExpandedEntity

(* apps/admin/src/features/marketing/ResponsesTab.tsx *)
ResponsesTab ==
    Uses({"getCampaigns", "getChannels", "getOrganisations", "getResponses", "getUsers",
    "convertResponse", "createResponse", "updateResponseStatus"}, Anyone)

(* apps/admin/src/features/marketing/AnalyticsTab.tsx *)
MarketingAnalyticsTab == Uses({"getMarketingAnalytics"}, Anyone)

(* apps/admin/src/features/marketing/CampaignsTab.tsx *)
MetricsPanel == Uses({"getMetrics", "createMetric"}, Anyone)
CampaignDetail == Uses({"getChannels", "createChannel"}, Anyone) \cup MetricsPanel
CampaignsTab ==
    Uses({"getCampaigns", "getUsers", "createCampaign"}, Anyone) \cup CampaignDetail

(* apps/admin/src/features/marketing/MarketingPage.tsx *)
MarketingPage == ResponsesTab \cup MarketingAnalyticsTab \cup CampaignsTab

(* apps/admin/src/features/boards/BoardsPage.tsx *)
CardDrawer ==
    Uses({"addChecklistItem", "addComment", "moveCard", "toggleChecklistItem"}, Anyone)
BoardDetailView ==
    Uses({"getBoard"}, Anyone) \cup Redo(Uses({"createCard", "createList",
    "reclassifyBoard"}, Anyone), {"getBoard"}) \cup Redo(CardDrawer, {"getBoard"})
BoardsPage ==
    Uses({"getBoards"}, Anyone) \cup Redo(Uses({"createBoard"}, Anyone), {"getBoards"}) \cup
    BoardDetailView

(* apps/admin/src/features/projects/ProjectsPage.tsx *)
HealthPanel == Uses({"getProjectHealth"}, Anyone)
UpdateProgressModal == Uses({"updateNodeProgress"}, Anyone)
AddNodeModal == Uses({"addProjectNode"}, Anyone)
ProjectDetailDrawer ==
    Uses({"getProject"}, Anyone) \cup HealthPanel \cup Redo(UpdateProgressModal,
    {"getProject"}) \cup Redo(AddNodeModal, {"getProject"})
CreateProjectModal == Uses({"getSites", "createProject"}, Anyone)
PortfolioTab ==
    Uses({"getPortfolio"}, Anyone) \cup ProjectDetailDrawer \cup Redo(CreateProjectModal,
    {"getPortfolio"})
FromTemplateModal == Uses({"getSites", "createProjectFromTemplate"}, Anyone)
TemplatesTab == Uses({"getTemplates"}, Anyone) \cup FromTemplateModal
ProjectsPage == PortfolioTab \cup TemplatesTab

(* apps/admin/src/features/returns-hub/ReturnsHubPage.tsx *)
ReturnsTab ==
    Uses({"getReturnsHub", "postFromPayroll", "postVat", "remitReturn"}, Anyone) \cup
    LookupSelect
SummaryTab == Uses({"getReturnsSummary"}, Anyone)
WhtPayableSubTab == Uses({"whtPayable"}, Anyone) \cup LookupSelect
WhtRatesSubTab == Uses({"listWhtRates", "createWhtRate"}, Anyone)
WhtSufferedSubTab == Uses({"getWhtCredits", "whtSuffered"}, Anyone) \cup LookupSelect
WhtTab == WhtPayableSubTab \cup WhtRatesSubTab \cup WhtSufferedSubTab
ReturnsHubPage == ReturnsTab \cup SummaryTab \cup WhtTab

(* apps/admin/src/features/payroll-adjustments/PayrollAdjustmentsPage.tsx *)
UseEmployeeName == Uses({"getEmployees"}, Anyone)
EmployeeSelect == Uses({"getEmployees"}, Anyone)
ActingTab ==
    Uses({"getActingRegister", "approveActingAssignment", "createActingAssignment",
    "submitActingAssignment"}, Anyone) \cup UseEmployeeName \cup LookupSelect \cup
    EmployeeSelect
ActingRegisterTab == Uses({"getActingRegister"}, Anyone) \cup UseEmployeeName
BackPayDrawer ==
    Uses({"getBackPayBatch", "approveBackPayBatch", "submitBackPayBatch"}, Anyone) \cup
    UseEmployeeName
BackPayTab ==
    Uses({"getBackPayBatches", "createBackPayBatch"}, Anyone) \cup LookupSelect \cup
    BackPayDrawer
PayrollAdjustmentsPage == ActingTab \cup ActingRegisterTab \cup BackPayTab

(* apps/admin/src/features/site-reports/SiteReportsPage.tsx *)
PpeTab == Uses({"getPpeCompliance", "getPpeIssues", "getSites", "createPpeIssue"}, Anyone)
SiteReportsUseSiteName == Uses({"getSites"}, Anyone)
StoresTab ==
    Uses({"getSites", "getStoresWithdrawals", "createStoresWithdrawal"}, Anyone) \cup
    SiteReportsUseSiteName
PpeStoresParent == PpeTab \cup StoresTab
SectionEditor == Uses({"updateSiteReportSection"}, Anyone)
ReportDrawer ==
    Uses({"getSiteReportPeriod", "submitSiteReport"}, Anyone) \cup SiteReportsUseSiteName
    \cup SectionEditor
MonthlyReportsTab ==
    Uses({"getSiteReportPeriods", "getSites", "openSiteReportPeriod"}, Anyone) \cup
    SiteReportsUseSiteName \cup ReportDrawer
KpiActualModal == Uses({"upsertKpiActual"}, Anyone)
PerformanceTab == Uses({"getSitePerformance", "getSites"}, Anyone) \cup KpiActualModal
KpiSetupTab ==
    Uses({"getSiteKpis", "getSites", "createSiteKpi", "upsertKpiTarget"}, Anyone) \cup
    SiteReportsUseSiteName
CrossSiteTab == Uses({"getCrossSite"}, Anyone)
PerformanceParent == PerformanceTab \cup KpiSetupTab \cup CrossSiteTab
SiteReportsPage == PpeStoresParent \cup MonthlyReportsTab \cup PerformanceParent

(* apps/admin/src/features/she/ShePage.tsx *)
SheUseSiteName == Uses({"getSites"}, Anyone)
ShePage ==
    Uses({"getSheRecords", "getSheStats", "getSites"}, Anyone) \cup
    Uses({"createSheRecord"}, SiteStaff \cup {"SYS_ADMIN"}) \cup Uses({"updateSheRecord"},
    {"SITE_MANAGER", "OPS_DIRECTOR", "SYS_ADMIN"}) \cup SheUseSiteName

(* apps/admin/src/features/notification-settings/NotificationSettingsPage.tsx *)
NotificationSettingsPage ==
    Uses({"getNotificationPreferences", "setNotificationPreference"}, Anyone)

-----------------------------------------------------------------------------
(* The entries of the menu of AppLayout.tsx, each with the roles it is shown to. *)
Menu ==
    "/" :> Anyone @@
    "/approvals" :> Anyone @@
    "/clients" :> FinanceTeam \cup {"AUDITOR"} @@
    "/contracts" :> FinanceTeam \cup {"AUDITOR"} @@
    "/orders" :> FinanceTeam \cup {"AUDITOR"} @@
    "/business-development" :> {"OPS_STAFF", "FINANCE_DIRECTOR", "OPS_DIRECTOR",
        "DIRECTOR", "SYS_ADMIN", "AUDITOR"} @@
    "/marketing" :> {"FINANCE_DIRECTOR", "OPS_DIRECTOR", "SYS_ADMIN"} @@
    "/boards" :> Anyone @@
    "/projects" :> {"SITE_MANAGER", "FINANCE_DIRECTOR", "OPS_DIRECTOR", "SYS_ADMIN"} @@
    "/expenses" :> FinanceTeam \cup {"AUDITOR"} @@
    "/accounts" :> FinanceTeam @@
    "/reports" :> Leadership \cup {"AUDITOR"} @@
    "/returns-hub" :> FinanceTeam @@
    "/payroll-adjustments" :> {"FINANCE_DIRECTOR", "SYS_ADMIN"} @@
    "/site-reports" :> {"SITE_MANAGER", "OPS_DIRECTOR", "SYS_ADMIN"} @@
    "/she" :> {"SITE_MANAGER", "OPS_DIRECTOR", "SYS_ADMIN"} @@
    "/requisitions" :> Anyone @@
    "/travel" :> Anyone @@
    "/petty-cash" :> Anyone @@
    "/budgets" :> Leadership \cup {"AUDITOR"} @@
    "/director-withdrawals" :> {"DIRECTOR", "SYS_ADMIN", "AUDITOR"} @@
    "/employees" :> FinanceTeam @@
    "/timesheets" :> Anyone @@
    "/payroll" :> FinanceTeam \cup {"DIRECTOR"} @@
    "/compliance-calendar" :> FinanceTeam \cup {"DIRECTOR", "AUDITOR"} @@
    "/exchange-rates" :> FinanceTeam @@
    "/notification-settings" :> Anyone @@
    "/statutory-rates" :> {"FINANCE_DIRECTOR", "SYS_ADMIN"} @@
    "/thresholds" :> {"FINANCE_DIRECTOR", "SYS_ADMIN"} @@
    "/delegation" :> {"FINANCE_DIRECTOR", "OPS_DIRECTOR", "SYS_ADMIN"} @@
    "/approval-matrix" :> {"FINANCE_DIRECTOR", "SYS_ADMIN"} @@
    "/danger-rules" :> {"FINANCE_DIRECTOR", "SYS_ADMIN"} @@
    "/users" :> {"SYS_ADMIN"} @@
    "/sites" :> {"SYS_ADMIN"} @@
    "/entities" :> {"SYS_ADMIN"} @@
    "/data-import" :> {"FINANCE_DIRECTOR", "SYS_ADMIN"} @@
    "/audit" :> {"SYS_ADMIN", "AUDITOR"} @@
    "/settings" :> {"SYS_ADMIN"}

(* The routes of App.tsx, each with the roles it lets in. *)
SetupPages ==
    "/" :> Page(Anyone, DashboardPage) @@
    "/users" :> Page({"SYS_ADMIN"}, UsersPage) @@
    "/sites" :> Page({"SYS_ADMIN"}, SitesPage) @@
    "/exchange-rates" :> Page(FinanceTeam, ExchangeRatesPage) @@
    "/statutory-rates" :> Page({"FINANCE_DIRECTOR", "SYS_ADMIN"}, StatutoryRatesPage) @@
    "/thresholds" :> Page({"FINANCE_DIRECTOR", "SYS_ADMIN"}, ThresholdsPage) @@
    "/delegation" :> Page({"FINANCE_DIRECTOR", "OPS_DIRECTOR", "SYS_ADMIN"},
        DelegationPage) @@
    "/approval-matrix" :> Page({"FINANCE_DIRECTOR", "SYS_ADMIN"}, ApprovalMatrixPage) @@
    "/danger-rules" :> Page({"FINANCE_DIRECTOR", "SYS_ADMIN"}, DangerRulesPage) @@
    "/accounts" :> Page(FinanceTeam, AccountsPage) @@
    "/employees" :> Page(FinanceTeam, EmployeesPage)
MoneyPages ==
    "/clients" :> Page(FinanceTeam \cup {"AUDITOR"}, ClientsPage) @@
    "/contracts" :> Page(FinanceTeam \cup {"AUDITOR"}, ContractsPage) @@
    "/orders" :> Page(FinanceTeam \cup {"AUDITOR"}, OrdersPage) @@
    "/expenses" :> Page(FinanceTeam \cup {"AUDITOR"}, ExpensesPage) @@
    "/timesheets" :> Page(Anyone, TimesheetsPage) @@
    "/payroll" :> Page(FinanceTeam \cup {"DIRECTOR"}, PayrollPage) @@
    "/compliance-calendar" :> Page(FinanceTeam \cup {"DIRECTOR", "AUDITOR"},
        ComplianceCalendarPage) @@
    "/reports" :> Page(Leadership \cup {"AUDITOR"}, ReportsPage) @@
    "/approvals" :> Page(Anyone, ApprovalsInboxPage) @@
    "/requisitions" :> Page(Anyone, RequisitionsPage) @@
    "/travel" :> Page(Anyone, TravelPage) @@
    "/petty-cash" :> Page(Anyone, PettyCashPage) @@
    "/budgets" :> Page(Leadership \cup {"AUDITOR"}, BudgetsPage) @@
    "/director-withdrawals" :> Page({"DIRECTOR", "SYS_ADMIN", "AUDITOR"},
        DirectorWithdrawalsPage)
WorkPages ==
    "/business-development" :> Page({"OPS_STAFF", "FINANCE_DIRECTOR", "OPS_DIRECTOR",
        "DIRECTOR", "SYS_ADMIN", "AUDITOR"}, BusinessDevelopmentPage) @@
    "/audit" :> Page({"SYS_ADMIN", "AUDITOR"}, AuditPage) @@
    "/settings" :> Page({"SYS_ADMIN"}, SettingsPage) @@
    "/data-import" :> Page({"FINANCE_DIRECTOR", "SYS_ADMIN"}, DataImportPage) @@
    "/entities" :> Page({"SYS_ADMIN"}, EntitiesPage) @@
    "/marketing" :> Page({"FINANCE_DIRECTOR", "OPS_DIRECTOR", "SYS_ADMIN"}, MarketingPage) @@
    "/boards" :> Page(Anyone, BoardsPage) @@
    "/projects" :> Page({"SITE_MANAGER", "FINANCE_DIRECTOR", "OPS_DIRECTOR", "SYS_ADMIN"},
        ProjectsPage) @@
    "/returns-hub" :> Page(FinanceTeam, ReturnsHubPage) @@
    "/payroll-adjustments" :> Page({"FINANCE_DIRECTOR", "SYS_ADMIN"},
        PayrollAdjustmentsPage) @@
    "/site-reports" :> Page({"SITE_MANAGER", "OPS_DIRECTOR", "SYS_ADMIN"},
        SiteReportsPage) @@
    "/she" :> Page({"SITE_MANAGER", "OPS_DIRECTOR", "SYS_ADMIN"}, ShePage) @@
    "/notification-settings" :> Page(Anyone, NotificationSettingsPage)
Pages == SetupPages @@ MoneyPages @@ WorkPages

=============================================================================
