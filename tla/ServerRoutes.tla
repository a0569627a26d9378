---------------------------- MODULE ServerRoutes ----------------------------
(***************************************************************************)
(* What the methods of the services touch: the customers and campaigns,    *)
(* the command centre's panels and rules and the reports; and the routes   *)
(* of every controller.                                                    *)
(***************************************************************************)
EXTENDS ServerWork

(* apps/api/src/crm/analytics.service.ts *)
CrmAnalyticsService_conversion == Reads({"crmContact", "crmOpportunity", "crmOrganisation"})

(* apps/api/src/crm/interactions.service.ts *)
InteractionsService_list == Reads({"crmInteraction"})
InteractionsService_create ==
    Reads({"crmContact", "crmOrganisation"}) ++ Writes(<<"crmInteraction">>)

(* apps/api/src/crm/contacts.service.ts *)
ContactsService_list == Reads({"crmContact"})
ContactsService_findOne == Reads({"crmContact"})
ContactsService_create == Reads({"crmOrganisation"}) ++ Writes(<<"crmContact">>)
ContactsService_update ==
    Reads({"crmOrganisation"}) ++ ContactsService_findOne ++ Writes(<<"crmContact">>)

(* apps/api/src/crm/opportunities.service.ts *)
OpportunitiesService_list == Reads({"crmOpportunity"})
OpportunitiesService_board == Reads({"crmOpportunity"})
OpportunitiesService_findOne == Reads({"crmOpportunity"})
OpportunitiesService_create == LookupService_assertValid ++ Writes(<<"crmOpportunity">>)
OpportunitiesService_update == OpportunitiesService_findOne ++ Writes(<<"crmOpportunity">>)
OpportunitiesService_move == OpportunitiesService_findOne ++ Writes(<<"crmOpportunity">>)
OpportunitiesService_convertToOrder == Writes(<<"order", "crmOpportunity">>)
OpportunitiesService_convertToContract == Writes(<<"contract", "crmOpportunity">>)
OpportunitiesService_convert ==
    Reads({"client"}) ++ OpportunitiesService_findOne ++ OpportunitiesService_convertToOrder
    ++ OpportunitiesService_convertToContract

(* apps/api/src/crm/organisations.service.ts *)
OrganisationsService_list == Reads({"crmOrganisation"})
OrganisationsService_findOne == Reads({"crmOrganisation"})
OrganisationsService_create == Reads({"client"}) ++ Writes(<<"crmOrganisation">>)
OrganisationsService_update ==
    Reads({"client"}) ++ OrganisationsService_findOne ++ Writes(<<"crmOrganisation">>)

(* apps/api/src/command-centre/danger/alert.service.ts *)
AlertService_resolve == Writes(<<"alert">>)

(* apps/api/src/compliance/compliance.service.ts *)
ComplianceService_remit ==
    Reads({"complianceObligation"}) ++ Writes(<<"complianceObligation">>) ++
    AlertService_resolve

(* apps/api/src/command-centre/panels/health-verdict.service.ts *)
HealthVerdictPanelService_officialRate == ExchangeRatesService_rateAsOf
HealthVerdictPanelService_receivablesAndCash == Reads({"order", "orderReceipt"})
HealthVerdictPanelService_taxLiability ==
    Reads({"otherTaxDebt", "taxLedger", "zimraAssessment"})
HealthVerdictPanelService_loanBalance == Reads({"loan", "loanRepayment"})
HealthVerdictPanelService_compute ==
    HealthVerdictPanelService_officialRate ++ HealthVerdictPanelService_receivablesAndCash
    ++ HealthVerdictPanelService_taxLiability ++ HealthVerdictPanelService_loanBalance

(* apps/api/src/data-migration/parity.service.ts *)
ParityService_check ==
    HealthVerdictPanelService_compute ++ ParityService_orderCentricProfit ++
    ParityService_perOrderChecks ++ ParityService_perTaxLineChecks

(* apps/api/src/command-centre/panels/cash-position.service.ts *)
CashPositionService_rate == ExchangeRatesService_rateAsOf
CashPositionService_buildTrend == Reads({"ledgerEntry"})
CashPositionService_compute ==
    LedgerService_cashPosition ++ CashPositionService_rate ++ CashPositionService_buildTrend

(* apps/api/src/command-centre/panels/money-in-out.service.ts *)
MoneyInOutService_loadInflows == Reads({"contractClaim", "orderReceipt"})
MoneyInOutService_loadOutflows ==
    Reads({"generalExpense", "loanRepayment", "orderExpense", "overhead", "taxLedger"})
MoneyInOutService_convert == ExchangeRatesService_rateAsOf
MoneyInOutService_compute ==
    MoneyInOutService_loadInflows ++ MoneyInOutService_loadOutflows ++
    MoneyInOutService_convert

(* apps/api/src/command-centre/panels/debt-interest-watch.service.ts *)
DebtInterestWatchService_computeLoans == Reads({"loan", "loanRepayment"})
DebtInterestWatchService_computeZimra == Reads({"otherTaxDebt", "zimraAssessment"})
DebtInterestWatchService_compute ==
    DebtInterestWatchService_computeLoans ++ DebtInterestWatchService_computeZimra

(* apps/api/src/command-centre/panels/coverage.service.ts *)
CoverageService_fxRate == ExchangeRatesService_rateAsOf
CoverageService_expectedIn == Reads({"order", "orderReceipt"})
CoverageService_expectedOut == Reads({"overhead", "requisition"})
CoverageService_compute ==
    CoverageService_fxRate ++ CoverageService_expectedIn ++ CoverageService_expectedOut

(* apps/api/src/command-centre/panels/receivables-ageing.service.ts *)
ReceivablesAgeingService_resolveVatPct == ThresholdsService_current
ReceivablesAgeingService_resolveOverdueDays == ThresholdsService_current
ReceivablesAgeingService_consolidateUsd == ExchangeRatesService_rateAsOf
ReceivablesAgeingService_compute ==
    Reads({"client", "order", "orderReceipt"}) ++ ReceivablesAgeingService_resolveVatPct ++
    ReceivablesAgeingService_resolveOverdueDays ++ ReceivablesAgeingService_consolidateUsd

(* apps/api/src/command-centre/panels/tax-exposure.service.ts *)
TaxExposureService_consolidateHead == Reads({"taxLedger"})
TaxExposureService_ratePct == StatutoryRatesService_valueAsOf
TaxExposureService_assessmentExposure ==
    Reads({"zimraAssessment"}) ++ TaxExposureService_ratePct
TaxExposureService_corporateIncomeTaxEstimate ==
    Reads({"contractClaim", "generalExpense", "loanInterest", "order", "orderExpense",
    "overhead"}) ++ TaxExposureService_ratePct
TaxExposureService_compute ==
    TaxExposureService_consolidateHead ++ TaxExposureService_assessmentExposure ++
    TaxExposureService_corporateIncomeTaxEstimate

(* apps/api/src/command-centre/panels/pending-obligations.service.ts *)
PendingObligationsService_foldToUsd == ExchangeRatesService_rateAsOf
PendingObligationsService_compute ==
    Reads({"requisition", "travelRequest"}) ++ LedgerService_cashPosition ++
    PendingObligationsService_foldToUsd

(* apps/api/src/command-centre/panels/performance-panel.service.ts *)
PerformancePanelService_fxRate == ExchangeRatesService_rateAsOf
PerformancePanelService_compute ==
    Reads({"contractClaim", "generalExpense", "loanInterest", "order", "orderExpense",
    "overhead"}) ++ PerformancePanelService_fxRate ++ IncomeTaxProvisionService_estimate

(* apps/api/src/command-centre/danger/danger-rules.service.ts *)
DangerRulesService_list == Reads({"dangerRule"})
DangerRulesService_create == Writes(<<"dangerRule">>)
DangerRulesService_update == Reads({"dangerRule"}) ++ Writes(<<"dangerRule">>)
DangerRulesService_listEnabled == Reads({"dangerRule"})

(* apps/api/src/command-centre/danger/alert.service.ts *)
AlertService_userIdsWithRoles == Reads({"userSiteRole"})
AlertService_fanOut == AlertService_userIdsWithRoles
AlertService_raiseOrRefresh ==
    Reads({"alert"}) ++ Writes(<<"alert">>) ++ AlertService_fanOut

(* apps/api/src/command-centre/danger/danger-engine.service.ts *)
DangerEngineService_evalCoverageRatio ==
    Reads({"requisition"}) ++ LedgerService_cashPosition ++ AlertService_resolve ++
    AlertService_raiseOrRefresh
DangerEngineService_evalZimraOverdue ==
    Reads({"zimraAssessment"}) ++ AlertService_raiseOrRefresh
DangerEngineService_evalDeadlineBreach ==
    Reads({"requisition"}) ++ AlertService_raiseOrRefresh
DangerEngineService_evalReceivables90Spike ==
    Reads({"order", "orderReceipt"}) ++ AlertService_resolve ++ AlertService_raiseOrRefresh
DangerEngineService_evalLoanInterestBurn ==
    Reads({"loan"}) ++ AlertService_resolve ++ AlertService_raiseOrRefresh
DangerEngineService_evalCashRunway ==
    Reads({"ledgerEntry"}) ++ LedgerService_cashPosition ++ AlertService_resolve ++
    AlertService_raiseOrRefresh
DangerEngineService_evalPayrollCoverage ==
    Reads({"payrollLine", "payrollRun"}) ++ AlertService_resolve ++
    LedgerService_cashPosition ++ AlertService_resolve ++ AlertService_raiseOrRefresh
DangerEngineService_evalPettyCashVariance ==
    Reads({"pettyCashFloat"}) ++ AlertService_resolve ++ AlertService_raiseOrRefresh
DangerEngineService_evalConcentrationRisk ==
    Reads({"client", "order", "orderReceipt"}) ++ AlertService_resolve ++
    AlertService_raiseOrRefresh
DangerEngineService_evalConversionLoss ==
    Reads({"pettyCashTxn"}) ++ AlertService_resolve ++ AlertService_raiseOrRefresh
DangerEngineService_evaluateRule ==
    DangerEngineService_evalCoverageRatio ++ DangerEngineService_evalZimraOverdue ++
    DangerEngineService_evalDeadlineBreach ++ DangerEngineService_evalReceivables90Spike ++
    DangerEngineService_evalLoanInterestBurn ++ DangerEngineService_evalCashRunway ++
    DangerEngineService_evalPayrollCoverage ++ DangerEngineService_evalPettyCashVariance ++
    DangerEngineService_evalConcentrationRisk ++ DangerEngineService_evalConversionLoss
DangerEngineService_evaluate ==
    DangerRulesService_listEnabled ++ DangerEngineService_evaluateRule

(* apps/api/src/command-centre/danger/alert.service.ts *)
AlertService_list == Reads({"alert"})
AlertService_ack == Reads({"alert"}) ++ Writes(<<"alert">>)

(* apps/api/src/marketing/analytics.service.ts *)
MarketingAnalyticsService_overview ==
    Reads({"campaign", "campaignChannel", "campaignResponse", "crmOpportunity"})

(* apps/api/src/marketing/campaigns.service.ts *)
CampaignsService_list == Reads({"campaign"})
CampaignsService_findOne == Reads({"campaign", "campaignChannel"})
CampaignsService_create == Writes(<<"campaign">>)
CampaignsService_assertCampaign == Reads({"campaign"})
CampaignsService_update == CampaignsService_assertCampaign ++ Writes(<<"campaign">>)
CampaignsService_listChannels ==
    Reads({"campaignChannel"}) ++ CampaignsService_assertCampaign
CampaignsService_nextFlierCode == Reads({"campaignChannel"})
CampaignsService_createChannel ==
    CampaignsService_assertCampaign ++ CampaignsService_nextFlierCode ++
    Writes(<<"campaignChannel">>)
CampaignsService_assertChannel == Reads({"campaignChannel"})
CampaignsService_updateChannel ==
    CampaignsService_assertChannel ++ Writes(<<"campaignChannel">>)
CampaignsService_deleteChannel ==
    CampaignsService_assertChannel ++ Writes(<<"campaignChannel">>)
CampaignsService_listMetrics == Reads({"channelMetric"}) ++ CampaignsService_assertChannel
CampaignsService_createMetric ==
    CampaignsService_assertChannel ++ Writes(<<"channelMetric">>)

(* apps/api/src/marketing/responses.service.ts *)
ResponsesService_list == Reads({"campaignResponse"})
ResponsesService_findOne == Reads({"campaignResponse"})
ResponsesService_create == Writes(<<"campaignResponse">>)
ResponsesService_updateStatus == ResponsesService_findOne ++ Writes(<<"campaignResponse">>)
ResponsesService_convert ==
    ResponsesService_findOne ++ Writes(<<"crmOpportunity", "campaignResponse">>)

(* apps/api/src/reports/reports.service.ts *)
ReportsService_financialSummaryXlsx == PerformancePanelService_compute
ReportsService_cashflowXlsx == MoneyInOutService_compute
ReportsService_manhoursXlsx == TimesheetsService_manhours
ReportsService_sageJournalCsv == PayrollService_sageJournal
ReportsService_payslipsPdf == PayrollService_payslips

-----------------------------------------------------------------------------
(* apps/api/src/approvals/approval-matrix.controller.ts *)
ApprovalMatrixController == At("approval-matrix",
    [create |-> Route({"FINANCE_DIRECTOR", "SYS_ADMIN"}, ApprovalMatrixService_create),
     list |-> Route({"FINANCE_DIRECTOR", "SYS_ADMIN"}, ApprovalMatrixService_list),
     options |-> Route({"FINANCE_DIRECTOR", "SYS_ADMIN"}, Nothing),
     update |-> Route({"FINANCE_DIRECTOR", "SYS_ADMIN"}, ApprovalMatrixService_update),
     remove |-> Route({"FINANCE_DIRECTOR", "SYS_ADMIN"}, ApprovalMatrixService_remove)])

(* apps/api/src/approvals/approvals.controller.ts *)
ApprovalsController == At("approvals",
    [inbox |-> Route(Anyone, ApprovalService_inbox),
     decide |-> Route(Anyone, ApprovalService_decide),
     submit |-> Route({"SYS_ADMIN"}, ApprovalService_submit)])

(* apps/api/src/attachments/attachments.controller.ts *)
AttachmentsController == At("attachments",
    [upload |-> Route(Anyone, Nothing),
     signedUrl |-> Route(Anyone, Nothing)])

(* apps/api/src/audit/audit.controller.ts *)
AuditController == At("audit",
    [search |-> Route({"SYS_ADMIN", "AUDITOR"}, Reads({"auditLog"}))])

(* apps/api/src/auth/auth.controller.ts *)
AuthController == At("auth",
    [login |-> Route(Anyone, AuthService_login),
     refresh |-> Route(Anyone, AuthService_refresh),
     logout |-> Route(Anyone, AuthService_logout),
     me |-> Route(Anyone, Nothing)])

(* apps/api/src/boards/boards.controller.ts *)
BoardsController == At("boards",
    [list |-> Route(Operations, BoardsService_listBoards),
     get |-> Route(Operations, BoardsService_getBoard),
     create |-> Route(Operations, BoardsService_createBoard),
     update |-> Route(Operations, BoardsService_updateBoard),
     remove |-> Route(Operations, BoardsService_deleteBoard),
     reclassify |-> Route({"FINANCE_DIRECTOR", "OPS_DIRECTOR", "DIRECTOR"},
         BoardsService_reclassify),
     addMember |-> Route(Operations, BoardsService_addMember),
     removeMember |-> Route(Operations, BoardsService_removeMember),
     createList |-> Route(Operations, BoardsService_createList),
     updateList |-> Route(Operations, BoardsService_updateList),
     deleteList |-> Route(Operations, BoardsService_deleteList),
     createCard |-> Route(Operations, BoardsService_createCard),
     updateCard |-> Route(Operations, BoardsService_updateCard),
     moveCard |-> Route(Operations, BoardsService_moveCard),
     assignCard |-> Route(Operations, BoardsService_assignCard),
     deleteCard |-> Route(Operations, BoardsService_deleteCard),
     addChecklistItem |-> Route(Operations, BoardsService_addChecklistItem),
     toggleChecklistItem |-> Route(Operations, BoardsService_toggleChecklistItem),
     deleteChecklistItem |-> Route(Operations, BoardsService_deleteChecklistItem),
     addComment |-> Route(Operations, BoardsService_addComment),
     listComments |-> Route(Operations, BoardsService_listComments),
     adminContainer |-> Route({"SYS_ADMIN"}, BoardsService_adminGetBoardContainer),
     adminRename |-> Route({"SYS_ADMIN"}, BoardsService_adminRenameBoard)])

(* apps/api/src/command-centre/command-centre.controller.ts *)
CommandCentreController == At("command-centre",
    [overview |-> Route(Leadership, CashPositionService_compute ++
         MoneyInOutService_compute ++ DebtInterestWatchService_compute ++
         CoverageService_compute ++ ReceivablesAgeingService_compute ++
         TaxExposureService_compute ++ PendingObligationsService_compute ++
         PerformancePanelService_compute ++ HealthVerdictPanelService_compute),
     cashPositionPanel |-> Route(Leadership, CashPositionService_compute),
     moneyInOutPanel |-> Route(Leadership, MoneyInOutService_compute),
     debtInterestWatchPanel |-> Route(Leadership, DebtInterestWatchService_compute),
     coveragePanel |-> Route(Leadership, CoverageService_compute),
     receivablesAgeingPanel |-> Route(Leadership, ReceivablesAgeingService_compute),
     taxExposurePanel |-> Route(Leadership, TaxExposureService_compute),
     pendingObligationsPanel |-> Route(Leadership, PendingObligationsService_compute),
     performancePanel |-> Route(Leadership, PerformancePanelService_compute),
     healthVerdictPanel |-> Route(Leadership, HealthVerdictPanelService_compute)])

(* apps/api/src/command-centre/danger/alerts.controller.ts *)
AlertsController == At("alerts",
    [list |-> Route(Leadership \cup {"AUDITOR"}, AlertService_list),
     ack |-> Route(Leadership, AlertService_ack)])

(* apps/api/src/command-centre/danger/danger-engine.controller.ts *)
DangerEngineController == At("danger-engine",
    [evaluate |-> Route({"SYS_ADMIN"}, DangerEngineService_evaluate)])

(* apps/api/src/command-centre/danger/danger-rules.controller.ts *)
DangerRulesController == At("danger-rules",
    [list |-> Route({"FINANCE_DIRECTOR", "SYS_ADMIN"}, DangerRulesService_list),
     create |-> Route({"FINANCE_DIRECTOR", "SYS_ADMIN"}, DangerRulesService_create),
     update |-> Route({"FINANCE_DIRECTOR", "SYS_ADMIN"}, DangerRulesService_update)])

(* apps/api/src/compliance/compliance.controller.ts *)
ComplianceController == At("compliance-obligations",
    [list |-> Route(FinanceTeam \cup {"DIRECTOR", "AUDITOR"}, ComplianceService_list),
     generate |-> Route(FinanceTeam, ComplianceService_generateFromPayrollRun),
     remit |-> Route(FinanceTeam, ComplianceService_remit)])

(* apps/api/src/crm/analytics.controller.ts *)
CrmAnalyticsController == At("crm/analytics",
    [conversion |-> Route({"FINANCE_DIRECTOR", "OPS_DIRECTOR", "DIRECTOR", "SYS_ADMIN"},
         CrmAnalyticsService_conversion)])

(* apps/api/src/crm/contacts.controller.ts *)
ContactsController == At("crm/contacts",
    [list |-> Route({"OPS_STAFF", "FINANCE_DIRECTOR", "OPS_DIRECTOR", "DIRECTOR",
         "SYS_ADMIN", "AUDITOR"}, ContactsService_list),
     findOne |-> Route({"OPS_STAFF", "FINANCE_DIRECTOR", "OPS_DIRECTOR", "DIRECTOR",
         "SYS_ADMIN", "AUDITOR"}, ContactsService_findOne),
     create |-> Route({"OPS_STAFF", "OPS_DIRECTOR", "DIRECTOR", "SYS_ADMIN"},
         ContactsService_create),
     update |-> Route({"OPS_STAFF", "OPS_DIRECTOR", "DIRECTOR", "SYS_ADMIN"},
         ContactsService_update)])

(* apps/api/src/crm/interactions.controller.ts *)
InteractionsController == At("crm/interactions",
    [list |-> Route({"OPS_STAFF", "FINANCE_DIRECTOR", "OPS_DIRECTOR", "DIRECTOR",
         "SYS_ADMIN", "AUDITOR"}, InteractionsService_list),
     create |-> Route({"OPS_STAFF", "OPS_DIRECTOR", "DIRECTOR", "SYS_ADMIN"},
         InteractionsService_create)])

(* apps/api/src/crm/opportunities.controller.ts *)
OpportunitiesController == At("crm/opportunities",
    [list |-> Route({"OPS_STAFF", "FINANCE_DIRECTOR", "OPS_DIRECTOR", "DIRECTOR",
         "SYS_ADMIN", "AUDITOR"}, OpportunitiesService_list),
     board |-> Route({"OPS_STAFF", "FINANCE_DIRECTOR", "OPS_DIRECTOR", "DIRECTOR",
         "SYS_ADMIN", "AUDITOR"}, OpportunitiesService_board),
     findOne |-> Route({"OPS_STAFF", "FINANCE_DIRECTOR", "OPS_DIRECTOR", "DIRECTOR",
         "SYS_ADMIN", "AUDITOR"}, OpportunitiesService_findOne),
     create |-> Route({"OPS_STAFF", "OPS_DIRECTOR", "DIRECTOR", "SYS_ADMIN"},
         OpportunitiesService_create),
     update |-> Route({"OPS_STAFF", "OPS_DIRECTOR", "DIRECTOR", "SYS_ADMIN"},
         OpportunitiesService_update),
     move |-> Route({"OPS_STAFF", "OPS_DIRECTOR", "DIRECTOR", "SYS_ADMIN"},
         OpportunitiesService_move),
     convert |-> Route({"OPS_DIRECTOR", "DIRECTOR", "SYS_ADMIN"},
         OpportunitiesService_convert)])

(* apps/api/src/crm/organisations.controller.ts *)
OrganisationsController == At("crm/organisations",
    [list |-> Route({"OPS_STAFF", "FINANCE_DIRECTOR", "OPS_DIRECTOR", "DIRECTOR",
         "SYS_ADMIN", "AUDITOR"}, OrganisationsService_list),
     findOne |-> Route({"OPS_STAFF", "FINANCE_DIRECTOR", "OPS_DIRECTOR", "DIRECTOR",
         "SYS_ADMIN", "AUDITOR"}, OrganisationsService_findOne),
     create |-> Route({"OPS_STAFF", "OPS_DIRECTOR", "DIRECTOR", "SYS_ADMIN"},
         OrganisationsService_create),
     update |-> Route({"OPS_STAFF", "OPS_DIRECTOR", "DIRECTOR", "SYS_ADMIN"},
         OrganisationsService_update)])

(* apps/api/src/data-migration/import.controller.ts *)
ImportController == At("import",
    [importWorkbook |-> Route({"FINANCE_DIRECTOR", "SYS_ADMIN"}, ImportService_run),
     parityCheck |-> Route({"FINANCE_DIRECTOR", "SYS_ADMIN"}, ParityService_check)])

(* apps/api/src/entities/entities.controller.ts *)
EntitiesController == At("entities",
    [list |-> Route(Anyone, EntitiesService_list),
     findOne |-> Route(Anyone, EntitiesService_findOne),
     summary |-> Route(Anyone, EntitiesService_summary),
     create |-> Route({"SYS_ADMIN"}, EntitiesService_create),
     update |-> Route({"SYS_ADMIN"}, EntitiesService_update),
     listHolidays |-> Route(Anyone, EntitiesService_listHolidays),
     createHoliday |-> Route({"SYS_ADMIN"}, EntitiesService_createHoliday),
     deleteHoliday |-> Route({"SYS_ADMIN"}, EntitiesService_deleteHoliday)])

(* apps/api/src/financial/clients/clients.controller.ts *)
ClientsController == At("clients",
    [list |-> Route(FinanceTeam \cup {"AUDITOR"}, ClientsService_list),
     findOne |-> Route(FinanceTeam \cup {"AUDITOR"}, ClientsService_findOne),
     create |-> Route(FinanceTeam, ClientsService_create),
     update |-> Route(FinanceTeam, ClientsService_update)])

(* apps/api/src/financial/contracts/contracts.controller.ts *)
ContractsController == At("contracts",
    [list |-> Route(FinanceTeam \cup {"AUDITOR"}, ContractsService_list),
     findOne |-> Route(FinanceTeam \cup {"AUDITOR"}, ContractsService_findOne),
     create |-> Route(FinanceTeam, ContractsService_create),
     update |-> Route(FinanceTeam, ContractsService_update),
     listClaims |-> Route(FinanceTeam \cup {"AUDITOR"}, ContractsService_listClaims),
     addClaim |-> Route(FinanceTeam, ContractsService_addClaim)])

(* apps/api/src/financial/expenses/general-expenses.controller.ts *)
GeneralExpensesController == At("general-expenses",
    [list |-> Route(FinanceTeam \cup {"AUDITOR"}, ExpensesService_listGeneral),
     create |-> Route(FinanceTeam, ExpensesService_createGeneral)])

(* apps/api/src/financial/expenses/overheads.controller.ts *)
OverheadsController == At("overheads",
    [list |-> Route(FinanceTeam \cup {"AUDITOR"}, ExpensesService_listOverheads),
     create |-> Route(FinanceTeam, ExpensesService_createOverhead)])

(* apps/api/src/financial/loans/loans.controller.ts *)
LoansController == At("loans",
    [list |-> Route(FinanceTeam \cup {"AUDITOR"}, LoansService_list),
     findOne |-> Route(FinanceTeam \cup {"AUDITOR"}, LoansService_findOne),
     create |-> Route(FinanceTeam, LoansService_create),
     recordRepayment |-> Route(FinanceTeam, LoansService_recordRepayment)])

(* apps/api/src/financial/orders/orders.controller.ts *)
OrdersController == At("orders",
    [list |-> Route(FinanceTeam \cup {"AUDITOR"}, OrdersService_list),
     assigned |-> Route(Anyone, OrdersService_listAssigned),
     findOne |-> Route(Anyone, OrdersService_findOneWithFinancials),
     financials |-> Route(Anyone, OrdersService_getFinancials),
     listMilestones |-> Route(Anyone, OrdersService_listMilestones),
     addMilestone |-> Route(Anyone, OrdersService_addMilestone),
     create |-> Route(FinanceTeam, OrdersService_create),
     update |-> Route(FinanceTeam, OrdersService_update),
     addExpense |-> Route(FinanceTeam, OrdersService_addExpense),
     recordReceipt |-> Route(Anyone, OrdersService_recordReceipt),
     markServiced |-> Route(Anyone, OrdersService_markServiced)])

(* apps/api/src/health/health.controller.ts *)
HealthController == At("health",
    [check |-> Route(Anyone, Nothing)])

(* apps/api/src/hr/employees.controller.ts *)
EmployeesController == At("employees",
    [list |-> Route(FinanceTeam \cup {"SITE_MANAGER", "DIRECTOR"}, EmployeesService_list),
     findOne |-> Route(FinanceTeam \cup {"SITE_MANAGER", "DIRECTOR"},
         EmployeesService_findOne),
     create |-> Route(FinanceTeam, EmployeesService_create),
     update |-> Route(FinanceTeam, EmployeesService_update),
     remove |-> Route(FinanceTeam, EmployeesService_remove)])

(* apps/api/src/ledger/accounts.controller.ts *)
AccountsController == At("accounts",
    [list |-> Route(FinanceTeam \cup {"AUDITOR"}, AccountsService_list),
     findOne |-> Route(FinanceTeam \cup {"AUDITOR"}, AccountsService_findOne),
     create |-> Route({"FINANCE_DIRECTOR", "SYS_ADMIN"}, AccountsService_create),
     update |-> Route({"FINANCE_DIRECTOR", "SYS_ADMIN"}, AccountsService_update)])

(* apps/api/src/ledger/ledger.controller.ts *)
LedgerController == At("ledger",
    [cashPosition |-> Route(FinanceTeam \cup {"DIRECTOR"}, LedgerService_cashPosition),
     listEntries |-> Route(FinanceTeam \cup {"DIRECTOR", "AUDITOR"},
         LedgerService_listEntries)])

(* apps/api/src/marketing/analytics.controller.ts *)
MarketingAnalyticsController == At("marketing/analytics",
    [overview |-> Route({"OPS_STAFF", "FINANCE_DIRECTOR", "OPS_DIRECTOR", "DIRECTOR",
         "SYS_ADMIN", "AUDITOR"}, MarketingAnalyticsService_overview)])

(* apps/api/src/marketing/campaigns.controller.ts *)
CampaignsController == At("marketing/campaigns",
    [list |-> Route({"OPS_STAFF", "FINANCE_DIRECTOR", "OPS_DIRECTOR", "DIRECTOR",
         "SYS_ADMIN", "AUDITOR"}, CampaignsService_list),
     findOne |-> Route({"OPS_STAFF", "FINANCE_DIRECTOR", "OPS_DIRECTOR", "DIRECTOR",
         "SYS_ADMIN", "AUDITOR"}, CampaignsService_findOne),
     create |-> Route({"FINANCE_DIRECTOR", "OPS_DIRECTOR", "DIRECTOR", "SYS_ADMIN"},
         CampaignsService_create),
     update |-> Route({"FINANCE_DIRECTOR", "OPS_DIRECTOR", "DIRECTOR", "SYS_ADMIN"},
         CampaignsService_update),
     listChannels |-> Route({"OPS_STAFF", "FINANCE_DIRECTOR", "OPS_DIRECTOR", "DIRECTOR",
         "SYS_ADMIN", "AUDITOR"}, CampaignsService_listChannels),
     createChannel |-> Route({"FINANCE_DIRECTOR", "OPS_DIRECTOR", "DIRECTOR",
         "SYS_ADMIN"}, CampaignsService_createChannel),
     updateChannel |-> Route({"FINANCE_DIRECTOR", "OPS_DIRECTOR", "DIRECTOR",
         "SYS_ADMIN"}, CampaignsService_updateChannel),
     deleteChannel |-> Route({"FINANCE_DIRECTOR", "OPS_DIRECTOR", "DIRECTOR",
         "SYS_ADMIN"}, CampaignsService_deleteChannel),
     listMetrics |-> Route({"OPS_STAFF", "FINANCE_DIRECTOR", "OPS_DIRECTOR", "DIRECTOR",
         "SYS_ADMIN", "AUDITOR"}, CampaignsService_listMetrics),
     createMetric |-> Route({"FINANCE_DIRECTOR", "OPS_DIRECTOR", "DIRECTOR",
         "SYS_ADMIN"}, CampaignsService_createMetric)])

(* apps/api/src/marketing/responses.controller.ts *)
ResponsesController == At("marketing/responses",
    [list |-> Route({"OPS_STAFF", "FINANCE_DIRECTOR", "OPS_DIRECTOR", "DIRECTOR",
         "SYS_ADMIN", "AUDITOR"}, ResponsesService_list),
     findOne |-> Route({"OPS_STAFF", "FINANCE_DIRECTOR", "OPS_DIRECTOR", "DIRECTOR",
         "SYS_ADMIN", "AUDITOR"}, ResponsesService_findOne),
     create |-> Route({"OPS_STAFF", "FINANCE_DIRECTOR", "OPS_DIRECTOR", "DIRECTOR",
         "SYS_ADMIN"}, ResponsesService_create),
     updateStatus |-> Route({"OPS_STAFF", "FINANCE_DIRECTOR", "OPS_DIRECTOR", "DIRECTOR",
         "SYS_ADMIN"}, ResponsesService_updateStatus),
     convert |-> Route({"OPS_STAFF", "FINANCE_DIRECTOR", "OPS_DIRECTOR", "DIRECTOR",
         "SYS_ADMIN"}, ResponsesService_convert)])

(* apps/api/src/notifications/notifications.controller.ts *)
NotificationsController == At("notifications",
    [list |-> Route(Anyone, NotificationService_listForUser),
     unreadCount |-> Route(Anyone, NotificationService_unreadCount),
     markRead |-> Route(Anyone, NotificationService_markRead),
     markAllRead |-> Route(Anyone, NotificationService_markAllRead),
     preferences |-> Route(Anyone, NotificationService_getPreferences),
     setPreference |-> Route(Anyone, NotificationService_setPreference)])

(* apps/api/src/payroll-adjustments/payroll-adjustments.controller.ts *)
PayrollAdjustmentsController == At("payroll-adjustments",
    [listBatches |-> Route({"FINANCE_DIRECTOR", "SYS_ADMIN", "AUDITOR"},
         BackPayService_list),
     getBatch |-> Route({"FINANCE_DIRECTOR", "SYS_ADMIN", "AUDITOR"},
         BackPayService_findOne),
     createBatch |-> Route({"FINANCE_DIRECTOR", "SYS_ADMIN"}, BackPayService_createBatch),
     submitBatch |-> Route({"FINANCE_DIRECTOR", "SYS_ADMIN"}, BackPayService_submit),
     approveBatch |-> Route({"FINANCE_DIRECTOR"}, BackPayService_approve),
     register |-> Route({"SITE_MANAGER", "FINANCE_DIRECTOR", "SYS_ADMIN", "AUDITOR"},
         ActingService_register),
     getActing |-> Route({"SITE_MANAGER", "FINANCE_DIRECTOR", "SYS_ADMIN", "AUDITOR"},
         ActingService_findOne),
     createActing |-> Route({"SITE_MANAGER", "FINANCE_DIRECTOR", "SYS_ADMIN"},
         ActingService_create),
     submitActing |-> Route({"SITE_MANAGER", "SYS_ADMIN"}, ActingService_submit),
     approveActing |-> Route({"FINANCE_DIRECTOR"}, ActingService_approve),
     computeForRun |-> Route({"FINANCE_DIRECTOR", "SYS_ADMIN"},
         ActingService_computeActingForRun)])

(* apps/api/src/payroll/payroll.controller.ts *)
PayrollController == At("payroll-runs",
    [open |-> Route(FinanceTeam, PayrollService_openRun),
     compute |-> Route(FinanceTeam, PayrollService_computeRun),
     submit |-> Route(FinanceTeam, PayrollService_submit),
     list |-> Route(FinanceTeam \cup {"DIRECTOR"}, PayrollService_list),
     findOne |-> Route(FinanceTeam \cup {"DIRECTOR"}, PayrollService_findOne),
     bankSchedule |-> Route(FinanceTeam, PayrollService_bankSchedule),
     payslips |-> Route(FinanceTeam, PayrollService_payslips),
     sageJournal |-> Route(FinanceTeam, PayrollService_sageJournal),
     statutoryReturns |-> Route(FinanceTeam, PayrollService_statutoryReturns)])

(* apps/api/src/projects/projects.controller.ts *)
ProjectsController == At("projects",
    [portfolio |-> Route(Operations \cup {"AUDITOR"}, ProjectsService_portfolio),
     list |-> Route(Operations \cup {"AUDITOR"}, ProjectsService_list),
     findOne |-> Route(Operations \cup {"AUDITOR"}, ProjectsService_findOne),
     create |-> Route(SiteLeads, ProjectsService_create),
     update |-> Route(SiteLeads, ProjectsService_update),
     health |-> Route(Operations \cup {"AUDITOR"}, ProjectsService_health),
     listNodes |-> Route(Operations \cup {"AUDITOR"}, ProjectsService_listNodes),
     addNode |-> Route(SiteLeads, ProjectsService_addNode),
     reorderNodes |-> Route(SiteLeads, ProjectsService_reorderNodes),
     updateNode |-> Route(SiteLeads, ProjectsService_updateNode),
     deleteNode |-> Route(SiteLeads, ProjectsService_deleteNode),
     updateProgress |-> Route(Operations \cup {"AUDITOR"},
         ProjectsService_updateProgress),
     listDependencies |-> Route(Operations \cup {"AUDITOR"},
         ProjectsService_listDependencies),
     addDependency |-> Route(SiteLeads, ProjectsService_addDependency),
     deleteDependency |-> Route(SiteLeads, ProjectsService_deleteDependency)])

(* apps/api/src/projects/templates.controller.ts *)
FromTemplateController == At("projects/from-template",
    [fromTemplate |-> Route(SiteLeads, ProjectsService_fromTemplate)])

(* apps/api/src/projects/templates.controller.ts *)
TemplatesController == At("projects/templates",
    [list |-> Route(Operations \cup {"AUDITOR"}, ProjectsService_listTemplates),
     get |-> Route(Operations \cup {"AUDITOR"}, ProjectsService_getTemplate),
     create |-> Route(SiteLeads, ProjectsService_createTemplate),
     update |-> Route(SiteLeads, ProjectsService_updateTemplate),
     remove |-> Route(SiteLeads, ProjectsService_deleteTemplate)])

(* apps/api/src/reference/delegation/delegation.controller.ts *)
DelegationController == At("delegation-rules",
    [create |-> Route({"FINANCE_DIRECTOR", "OPS_DIRECTOR", "SYS_ADMIN"},
         DelegationService_create),
     list |-> Route(Anyone, DelegationService_list)])

(* apps/api/src/reference/exchange-rates/exchange-rates.controller.ts *)
ExchangeRatesController == At("exchange-rates",
    [create |-> Route(FinanceTeam, ExchangeRatesService_create),
     list |-> Route(Anyone, ExchangeRatesService_list),
     asOf |-> Route(Anyone, ExchangeRatesService_rateAsOf)])

(* apps/api/src/reference/statutory-rates/statutory-rates.controller.ts *)
StatutoryRatesController == At("statutory-rates",
    [create |-> Route({"FINANCE_DIRECTOR", "SYS_ADMIN"}, StatutoryRatesService_create),
     list |-> Route(Anyone, StatutoryRatesService_list),
     asOf |-> Route(Anyone, StatutoryRatesService_valueAsOf)])

(* apps/api/src/reference/thresholds/thresholds.controller.ts *)
ThresholdsController == At("thresholds",
    [create |-> Route({"FINANCE_DIRECTOR", "SYS_ADMIN"}, ThresholdsService_create),
     list |-> Route(Anyone, ThresholdsService_list),
     current |-> Route(Anyone, ThresholdsService_current)])

(* apps/api/src/reports/reports.controller.ts *)
ReportsController == At("reports",
    [financialSummary |-> Route(Leadership, ReportsService_financialSummaryXlsx),
     cashflow |-> Route(Leadership, ReportsService_cashflowXlsx),
     manhours |-> Route(Leadership \cup {"SITE_MANAGER", "AUDITOR"},
         ReportsService_manhoursXlsx),
     sageJournal |-> Route(FinanceTeam, ReportsService_sageJournalCsv),
     payslips |-> Route(FinanceTeam, ReportsService_payslipsPdf)])

(* apps/api/src/returns/returns.controller.ts *)
ReturnsController == At("returns",
    [hub |-> Route(FinanceTeam \cup {"DIRECTOR", "AUDITOR"}, ReturnsService_hub),
     summary |-> Route(FinanceTeam \cup {"DIRECTOR", "AUDITOR"}, ReturnsService_summary),
     recompute |-> Route(FinanceTeam, ReturnsService_persistStatuses),
     postFromPayroll |-> Route(FinanceTeam, ReturnsService_postFromPayroll),
     postVat |-> Route(FinanceTeam, ReturnsService_postVat),
     remit |-> Route(FinanceTeam, ReturnsService_remit)])

(* apps/api/src/returns/wht.controller.ts *)
WhtController == At("returns/wht",
    [listRates |-> Route(FinanceTeam \cup {"AUDITOR"}, WhtService_listRates),
     createRate |-> Route({"FINANCE_DIRECTOR", "SYS_ADMIN"}, WhtService_createRate),
     updateRate |-> Route({"FINANCE_DIRECTOR", "SYS_ADMIN"}, WhtService_updateRate),
     deleteRate |-> Route({"FINANCE_DIRECTOR", "SYS_ADMIN"}, WhtService_deleteRate),
     payable |-> Route(FinanceTeam, WhtService_payable),
     suffered |-> Route(FinanceTeam, WhtService_suffered),
     credits |-> Route(FinanceTeam \cup {"AUDITOR"}, WhtService_credits)])

(* apps/api/src/settings/settings.controller.ts *)
SettingsController == At("settings/lookups",
    [categories |-> Route(Anyone, Nothing),
     list |-> Route(Anyone, LookupService_list),
     create |-> Route({"SYS_ADMIN"}, LookupService_create),
     update |-> Route({"SYS_ADMIN"}, LookupService_update),
     remove |-> Route({"SYS_ADMIN"}, LookupService_remove)])

(* apps/api/src/she/she.controller.ts *)
SheController == At("she",
    [list |-> Route(Operations \cup {"SITE_CLERK", "AUDITOR"}, SheService_list),
     stats |-> Route(Operations \cup {"SITE_CLERK", "AUDITOR"}, SheService_stats),
     create |-> Route(SiteStaff \cup {"SYS_ADMIN"}, SheService_create),
     findOne |-> Route(Operations \cup {"SITE_CLERK", "AUDITOR"}, SheService_findOne),
     update |-> Route({"SITE_MANAGER", "OPS_DIRECTOR", "SYS_ADMIN"}, SheService_update)])

(* apps/api/src/site-reports/performance.controller.ts *)
PerformanceController == At("site-reports",
    [siteperf |-> Route(Operations \cup {"AUDITOR"}, PerformanceService_performance),
     crossSite |-> Route(Operations \cup {"AUDITOR"}, PerformanceService_crossSite),
     contractToDate |-> Route(Operations \cup {"AUDITOR"},
         PerformanceService_contractToDate),
     listKpis |-> Route(Operations \cup {"AUDITOR"}, PerformanceService_list),
     createKpi |-> Route({"OPS_DIRECTOR", "DIRECTOR", "SYS_ADMIN"},
         PerformanceService_create),
     findKpi |-> Route(Operations \cup {"AUDITOR"}, PerformanceService_findOne),
     updateKpi |-> Route({"OPS_DIRECTOR", "DIRECTOR", "SYS_ADMIN"},
         PerformanceService_update),
     removeKpi |-> Route({"OPS_DIRECTOR", "DIRECTOR", "SYS_ADMIN"},
         PerformanceService_remove),
     upsertTarget |-> Route({"OPS_DIRECTOR", "DIRECTOR", "SYS_ADMIN"},
         PerformanceService_upsertTarget),
     upsertActual |-> Route({"SITE_MANAGER", "OPS_STAFF", "OPS_DIRECTOR", "SYS_ADMIN"},
         PerformanceService_upsertActual)])

(* apps/api/src/site-reports/ppe.controller.ts *)
PpeController == At("site-reports/ppe",
    [compliance |-> Route(Operations \cup {"AUDITOR"}, PpeService_compliance),
     listRequirements |-> Route(Operations \cup {"AUDITOR"}, PpeService_listRequirements),
     createRequirement |-> Route({"SITE_MANAGER", "OPS_STAFF", "OPS_DIRECTOR",
         "SYS_ADMIN"}, PpeService_createRequirement),
     updateRequirement |-> Route({"SITE_MANAGER", "OPS_STAFF", "OPS_DIRECTOR",
         "SYS_ADMIN"}, PpeService_updateRequirement),
     removeRequirement |-> Route({"OPS_DIRECTOR", "SYS_ADMIN"},
         PpeService_removeRequirement),
     listIssues |-> Route(Operations \cup {"AUDITOR"}, PpeService_listIssues),
     createIssue |-> Route({"SITE_MANAGER", "OPS_STAFF", "OPS_DIRECTOR", "SYS_ADMIN"},
         PpeService_createIssue),
     updateIssue |-> Route({"SITE_MANAGER", "OPS_STAFF", "OPS_DIRECTOR", "SYS_ADMIN"},
         PpeService_updateIssue),
     removeIssue |-> Route({"OPS_DIRECTOR", "SYS_ADMIN"}, PpeService_removeIssue)])

(* apps/api/src/site-reports/site-reports.controller.ts *)
SiteReportsController == At("site-reports",
    [list |-> Route(Operations \cup {"AUDITOR"}, SiteReportsService_list),
     open |-> Route({"SITE_MANAGER", "OPS_STAFF", "OPS_DIRECTOR", "DIRECTOR",
         "SYS_ADMIN"}, SiteReportsService_open),
     openForMonth |-> Route({"OPS_DIRECTOR", "DIRECTOR", "SYS_ADMIN"},
         SiteReportsService_openForMonth),
     findOne |-> Route(Operations \cup {"AUDITOR"}, SiteReportsService_findOne),
     autoContent |-> Route({"SITE_MANAGER", "OPS_STAFF", "OPS_DIRECTOR", "DIRECTOR",
         "SYS_ADMIN"}, SiteReportsService_findOne ++
         SiteReportsService_buildAutoContent),
     autoPopulate |-> Route({"SITE_MANAGER", "OPS_STAFF", "OPS_DIRECTOR", "DIRECTOR",
         "SYS_ADMIN"}, SiteReportsService_autoPopulate),
     addSection |-> Route({"SITE_MANAGER", "OPS_STAFF", "OPS_DIRECTOR", "DIRECTOR",
         "SYS_ADMIN"}, SiteReportsService_addSection),
     updateSection |-> Route({"SITE_MANAGER", "OPS_STAFF", "OPS_DIRECTOR", "DIRECTOR",
         "SYS_ADMIN"}, SiteReportsService_updateSection),
     submit |-> Route({"SITE_MANAGER", "SYS_ADMIN"}, SiteReportsService_submit)])

(* apps/api/src/site-reports/stores-withdrawals.controller.ts *)
StoresWithdrawalsController == At("site-reports/stores-withdrawals",
    [list |-> Route(Operations \cup {"AUDITOR"}, StoresWithdrawalsService_list),
     findOne |-> Route(Operations \cup {"AUDITOR"}, StoresWithdrawalsService_findOne),
     create |-> Route({"SITE_MANAGER", "OPS_STAFF", "OPS_DIRECTOR", "SYS_ADMIN"},
         StoresWithdrawalsService_create),
     update |-> Route({"SITE_MANAGER", "OPS_STAFF", "OPS_DIRECTOR", "SYS_ADMIN"},
         StoresWithdrawalsService_update),
     remove |-> Route({"OPS_DIRECTOR", "SYS_ADMIN"}, StoresWithdrawalsService_remove)])

(* apps/api/src/sites/sites.controller.ts *)
SitesController == At("sites",
    [list |-> Route(Anyone, SitesService_list),
     findOne |-> Route(Anyone, SitesService_findOne),
     create |-> Route({"SYS_ADMIN"}, SitesService_create),
     update |-> Route({"SYS_ADMIN"}, SitesService_update)])

(* apps/api/src/timesheets/timesheets.controller.ts *)
TimesheetsController == At("timesheet-periods",
    [createPeriod |-> Route(SiteStaff \cup {"SYS_ADMIN"}, TimesheetsService_createPeriod),
     list |-> Route(Anyone, TimesheetsService_list),
     getGrid |-> Route(Anyone, TimesheetsService_getGrid),
     upsertEntries |-> Route(SiteStaff \cup {"SYS_ADMIN"},
         TimesheetsService_upsertEntries),
     submit |-> Route(SiteStaff \cup {"SYS_ADMIN"}, TimesheetsService_submit),
     lock |-> Route(FinanceTeam \cup {"SITE_MANAGER"}, TimesheetsService_lock),
     requestReopen |-> Route(SiteStaff \cup {"SYS_ADMIN"},
         TimesheetsService_requestReopen),
     reopen |-> Route({"SITE_MANAGER", "SYS_ADMIN"}, TimesheetsService_reopen),
     manhours |-> Route(Leadership \cup {"SITE_MANAGER", "AUDITOR"},
         TimesheetsService_manhours)])

(* apps/api/src/users/users.controller.ts *)
UsersController == At("users",
    [create |-> Route({"SYS_ADMIN"}, UsersService_create),
     assignRole |-> Route({"SYS_ADMIN"}, UsersService_assignRole),
     list |-> Route({"SYS_ADMIN"}, UsersService_list),
     findOne |-> Route({"SYS_ADMIN"}, UsersService_findOne)])

(* apps/api/src/workflows/budgets/budgets.controller.ts *)
BudgetsController == At("budgets",
    [list |-> Route(Leadership \cup {"AUDITOR"}, BudgetsService_list),
     findOne |-> Route(Leadership \cup {"AUDITOR"}, BudgetsService_findOne),
     create |-> Route({"FINANCE_OFFICER", "FINANCE_DIRECTOR"}, BudgetsService_create),
     submit |-> Route({"FINANCE_OFFICER", "FINANCE_DIRECTOR"}, BudgetsService_submit),
     revise |-> Route({"FINANCE_OFFICER", "FINANCE_DIRECTOR"}, BudgetsService_revise)])

(* apps/api/src/workflows/director-withdrawals/director-withdrawals.controller.ts *)
DirectorWithdrawalsController == At("director-withdrawals",
    [list |-> Route({"DIRECTOR", "SYS_ADMIN", "AUDITOR"},
         DirectorWithdrawalsService_list),
     findOne |-> Route({"DIRECTOR", "SYS_ADMIN", "AUDITOR"},
         DirectorWithdrawalsService_findOne),
     create |-> Route({"DIRECTOR", "SYS_ADMIN"}, DirectorWithdrawalsService_create),
     submit |-> Route({"DIRECTOR", "SYS_ADMIN"}, DirectorWithdrawalsService_submit),
     complete |-> Route({"DIRECTOR", "SYS_ADMIN"}, DirectorWithdrawalsService_complete)])

(* apps/api/src/workflows/petty-cash/petty-cash.controller.ts *)
PettyCashController == At("petty-cash",
    [createFloat |-> Route(FinanceTeam, PettyCashService_createFloat),
     listFloats |-> Route(Anyone, PettyCashService_listFloats),
     conversionsReport |-> Route(Leadership \cup {"SITE_MANAGER", "AUDITOR"},
         PettyCashService_conversionsReport),
     listTxns |-> Route(Anyone, PettyCashService_listTxns),
     createWithdrawal |-> Route(SiteStaff, PettyCashService_createWithdrawal),
     confirmWithdrawal |-> Route({"SITE_MANAGER"}, PettyCashService_confirmWithdrawal),
     createConversion |-> Route({"SITE_MANAGER", "FINANCE_OFFICER", "FINANCE_DIRECTOR"},
         PettyCashService_createConversion),
     recordCount |-> Route({"SITE_MANAGER", "FINANCE_OFFICER", "FINANCE_DIRECTOR"},
         PettyCashService_recordCount),
     unlockFloat |-> Route({"FINANCE_DIRECTOR"}, PettyCashService_unlockFloat),
     createTopUp |-> Route({"SITE_MANAGER", "FINANCE_OFFICER", "FINANCE_DIRECTOR"},
         PettyCashService_createTopUp)])

(* apps/api/src/workflows/requisitions/requisitions.controller.ts *)
RequisitionsController == At("requisitions",
    [list |-> Route(Anyone, RequisitionsService_list),
     findOne |-> Route(Anyone, RequisitionsService_findOne),
     create |-> Route(Anyone, RequisitionsService_create),
     reCheckFunds |-> Route({"FINANCE_OFFICER", "FINANCE_DIRECTOR"},
         RequisitionsService_reTestPendingFunds),
     submit |-> Route(Anyone, RequisitionsService_submit),
     disburse |-> Route({"FINANCE_OFFICER", "FINANCE_DIRECTOR"},
         RequisitionsService_disburse)])

(* apps/api/src/workflows/travel/travel-rates.controller.ts *)
TravelRatesController == At("travel-rates",
    [list |-> Route({"FINANCE_DIRECTOR", "SYS_ADMIN"}, TravelRatesService_list),
     create |-> Route({"FINANCE_DIRECTOR", "SYS_ADMIN"}, TravelRatesService_create)])

(* apps/api/src/workflows/travel/travel.controller.ts *)
TravelController == At("travel",
    [list |-> Route(Anyone, TravelService_list),
     findOne |-> Route(Anyone, TravelService_findOne),
     create |-> Route(Anyone, TravelService_create),
     reCheckFunds |-> Route({"FINANCE_OFFICER", "FINANCE_DIRECTOR"},
         TravelService_reTestPendingFunds),
     submit |-> Route(Anyone, TravelService_submit),
     disburse |-> Route({"FINANCE_OFFICER", "FINANCE_DIRECTOR"}, TravelService_disburse),
     retire |-> Route({"FINANCE_OFFICER", "FINANCE_DIRECTOR"}, TravelService_retire)])

=============================================================================
