----------------------------- MODULE WebScreens -----------------------------
(***************************************************************************)
(* The web application: its api slice and its screens, as AdminScreens has *)
(* those of the console.                                                   *)
(***************************************************************************)
EXTENDS ServerRoutes

(* apps/web/src/api/api.ts *)
AuthEndpoints ==
    LET Of(c) ==
        [login |-> Mutation(c.login, {}),
         me |-> Query(c.me, {}),
         logout |-> Mutation(c.logout, {})]
    IN  Of(AuthController)
NotificationsEndpoints ==
    LET Of(c) ==
        [getNotifications |-> Query(c.list, {"Notifications"}),
         unreadCount |-> Query(c.unreadCount, {"Notifications"}),
         markRead |-> Mutation(c.markRead, {"Notifications"}),
         markAllRead |-> Mutation(c.markAllRead, {"Notifications"})]
    IN  Of(NotificationsController)
ExchangeRatesEndpoints ==
    [getExchangeRates |-> Query(ExchangeRatesController.list, {"ExchangeRates"})]
SitesEndpoints ==
    [getSites |-> Query(SitesController.list, {})]
SettingsEndpoints ==
    [getLookups |-> Query(SettingsController.list, {})]
RequisitionsEndpoints ==
    LET Of(c) ==
        [getRequisitions |-> Query(c.list, {"Requisitions"}),
         createRequisition |-> Mutation(c.create, {"Requisitions"}),
         submitRequisition |-> Mutation(c.submit, {"Approvals", "Requisitions"})]
    IN  Of(RequisitionsController)
EmployeesEndpoints ==
    [getEmployees |-> Query(EmployeesController.list, {})]
TravelEndpoints ==
    LET Of(c) ==
        [getTravelRequests |-> Query(c.list, {"Travel"}),
         createTravel |-> Mutation(c.create, {"Travel"}),
         submitTravel |-> Mutation(c.submit, {"Approvals", "Travel"})]
    IN  Of(TravelController)
TimesheetsEndpoints ==
    LET Of(c) ==
        [getTimesheetPeriods |-> Query(c.list, {"TimesheetPeriods"}),
         getManhours |-> Query(c.manhours, {"TimesheetGrid"}),
         createTimesheetPeriod |-> Mutation(c.createPeriod, {"TimesheetPeriods"}),
         upsertTimesheetEntries |-> Mutation(c.upsertEntries, {"TimesheetGrid"}),
         submitTimesheetPeriod |-> Mutation(c.submit, {"TimesheetPeriods"})]
    IN  Of(TimesheetsController)
PettyCashEndpoints ==
    LET Of(c) ==
        [getPettyCashFloats |-> Query(c.listFloats, {"PettyCashFloats"}),
         getPettyCashTxns |-> Query(c.listTxns, {"PettyCashTxns"}),
         createWithdrawal |-> Mutation(c.createWithdrawal, {"Approvals", "PettyCashTxns"}),
         confirmWithdrawal |-> Mutation(c.confirmWithdrawal, {"PettyCashTxns"})]
    IN  Of(PettyCashController)
ApprovalsEndpoints ==
    LET Of(c) ==
        [getApprovalInbox |-> Query(c.inbox, {"Approvals"}),
         decideApproval |-> Mutation(c.decide, {"Approvals", "Requisitions"})]
    IN  Of(ApprovalsController)
OrdersEndpoints ==
    LET Of(c) ==
        [getAssignedOrders |-> Query(c.assigned, {"Orders"}),
         getOrder |-> Query(c.findOne, {"Orders"}),
         recordReceipt |-> Mutation(c.recordReceipt, {"Orders"}),
         markServiced |-> Mutation(c.markServiced, {"Orders"})]
    IN  Of(OrdersController)
CommandCentreEndpoints ==
    [getCommandCentre |-> Query(CommandCentreController.overview, {})]

(* apps/web/src/features/boards/boardsApi.ts *)
BoardsEndpoints ==
    LET Of(c) ==
        [getBoards |-> Query(c.list, {}),
         getBoard |-> Query(c.get, {}),
         createBoard |-> Mutation(c.create, {}),
         reclassifyBoard |-> Mutation(c.reclassify, {}),
         createList |-> Mutation(c.createList, {}),
         createCard |-> Mutation(c.createCard, {}),
         moveCard |-> Mutation(c.moveCard, {}),
         addChecklistItem |-> Mutation(c.addChecklistItem, {}),
         toggleChecklistItem |-> Mutation(c.toggleChecklistItem, {}),
         addComment |-> Mutation(c.addComment, {})]
    IN  Of(BoardsController)

(* apps/web/src/features/crm/crmApi.ts *)
UsersEndpoints ==
    [getCrmUsers |-> Query(UsersController.list, {})]
ClientsEndpoints ==
    [getCrmClients |-> Query(ClientsController.list, {})]
OrganisationsEndpoints ==
    LET Of(c) ==
        [getCrmOrganisations |-> Query(c.list, {}),
         createCrmOrganisation |-> Mutation(c.create, {}),
         updateCrmOrganisation |-> Mutation(c.update, {})]
    IN  Of(OrganisationsController)
ContactsEndpoints ==
    LET Of(c) ==
        [getCrmContacts |-> Query(c.list, {}),
         createCrmContact |-> Mutation(c.create, {}),
         updateCrmContact |-> Mutation(c.update, {})]
    IN  Of(ContactsController)
InteractionsEndpoints ==
    LET Of(c) ==
        [getCrmInteractions |-> Query(c.list, {}),
         createCrmInteraction |-> Mutation(c.create, {})]
    IN  Of(InteractionsController)
OpportunitiesEndpoints ==
    LET Of(c) ==
        [getCrmOpportunityBoard |-> Query(c.board, {}),
         createCrmOpportunity |-> Mutation(c.create, {}),
         moveCrmOpportunity |-> Mutation(c.move, {}),
         convertCrmOpportunity |-> Mutation(c.convert, {})]
    IN  Of(OpportunitiesController)
CrmAnalyticsEndpoints ==
    [getCrmAnalytics |-> Query(CrmAnalyticsController.conversion, {})]

(* apps/web/src/features/marketing/marketingApi.ts *)
MarketingUsersEndpoints ==
    [getMktUsers |-> Query(UsersController.list, {"MktUsers"})]
MarketingOrganisationsEndpoints ==
    [getMktOrganisations |-> Query(OrganisationsController.list, {"MktOrgs"})]
CampaignsEndpoints ==
    LET Of(c) ==
        [getCampaigns |-> Query(c.list, {"MktCampaigns"}),
         createCampaign |-> Mutation(c.create, {"MktCampaigns"}),
         updateCampaign |-> Mutation(c.update, {"MktCampaigns"}),
         getChannels |-> Query(c.listChannels, {"MktChannels"}),
         createChannel |-> Mutation(c.createChannel, {"MktAnalytics", "MktChannels"}),
         getMetrics |-> Query(c.listMetrics, {"MktMetrics"}),
         createMetric |-> Mutation(c.createMetric, {"MktMetrics"})]
    IN  Of(CampaignsController)
ResponsesEndpoints ==
    LET Of(c) ==
        [getResponses |-> Query(c.list, {"MktResponses"}),
         createResponse |-> Mutation(c.create, {"MktAnalytics", "MktResponses"}),
         updateResponseStatus |-> Mutation(c.updateStatus, {"MktResponses"}),
         convertResponse |-> Mutation(c.convert, {"MktAnalytics", "MktResponses"})]
    IN  Of(ResponsesController)
MarketingAnalyticsEndpoints ==
    [getMarketingAnalytics |-> Query(MarketingAnalyticsController.overview,
             {"MktAnalytics"})]

(* apps/web/src/features/profile/notificationPrefsApi.ts *)
NotificationPrefsNotificationsEndpoints ==
    LET Of(c) ==
        [getNotificationPreferences |-> Query(c.preferences, {"NotificationPreferences"}),
         setNotificationPreference |-> Mutation(c.setPreference, {"NotificationPreferences"})]
    IN  Of(NotificationsController)

(* apps/web/src/features/projects/projectsApi.ts *)
ProjectsEndpoints ==
    LET Of(c) ==
        [getPortfolio |-> Query(c.portfolio, {}),
         getProject |-> Query(c.findOne, {}),
         getProjectHealth |-> Query(c.health, {}),
         createProject |-> Mutation(c.create, {}),
         addProjectNode |-> Mutation(c.addNode, {}),
         updateNodeProgress |-> Mutation(c.updateProgress, {})]
    IN  Of(ProjectsController)
TemplatesEndpoints ==
    [getTemplates |-> Query(TemplatesController.list, {})]
FromTemplateEndpoints ==
    [createProjectFromTemplate |-> Mutation(FromTemplateController.fromTemplate, {})]

(* apps/web/src/features/returns-hub/returnsHubApi.ts *)
ReturnsEndpoints ==
    LET Of(c) ==
        [getReturnsHub |-> Query(c.hub, {"Returns"}),
         getReturnsSummary |-> Query(c.summary, {"Returns"}),
         postFromPayroll |-> Mutation(c.postFromPayroll, {"Returns"}),
         postVat |-> Mutation(c.postVat, {"Returns"}),
         remitReturn |-> Mutation(c.remit, {"Returns"})]
    IN  Of(ReturnsController)
WhtEndpoints ==
    LET Of(c) ==
        [listWhtRates |-> Query(c.listRates, {"WhtRates"}),
         createWhtRate |-> Mutation(c.createRate, {"WhtRates"}),
         whtPayable |-> Mutation(c.payable, {"Returns"}),
         whtSuffered |-> Mutation(c.suffered, {"WhtCredits"}),
         getWhtCredits |-> Query(c.credits, {"WhtCredits"})]
    IN  Of(WhtController)

(* apps/web/src/features/site-reports/siteReportsApi.ts *)
SiteReportsEndpoints ==
    LET Of(c) ==
        [getSiteReportPeriods |-> Query(c.list, {"TimesheetPeriods"}),
         getSiteReportPeriod |-> Query(c.findOne, {"TimesheetGrid"}),
         openSiteReportPeriod |-> Mutation(c.open, {"TimesheetPeriods"}),
         updateSiteReportSection |-> Mutation(c.updateSection, {"TimesheetGrid"}),
         submitSiteReport |-> Mutation(c.submit, {"TimesheetGrid", "TimesheetPeriods"})]
    IN  Of(SiteReportsController)
PerformanceEndpoints ==
    LET Of(c) ==
        [getSitePerformance |-> Query(c.siteperf, {"SitePerformance"}),
         getCrossSite |-> Query(c.crossSite, {"SitePerformance"}),
         getSiteKpis |-> Query(c.listKpis, {"SiteKpis"}),
         createSiteKpi |-> Mutation(c.createKpi, {"SiteKpis", "SitePerformance"}),
         upsertKpiTarget |-> Mutation(c.upsertTarget, {"SitePerformance"}),
         upsertKpiActual |-> Mutation(c.upsertActual, {"SitePerformance"})]
    IN  Of(PerformanceController)
PpeEndpoints ==
    LET Of(c) ==
        [getPpeCompliance |-> Query(c.compliance, {"Ppe"}),
         getPpeIssues |-> Query(c.listIssues, {"Ppe"}),
         createPpeIssue |-> Mutation(c.createIssue, {"Ppe"})]
    IN  Of(PpeController)
StoresWithdrawalsEndpoints ==
    LET Of(c) ==
        [getStoresWithdrawals |-> Query(c.list, {"StoresWithdrawals"}),
         createStoresWithdrawal |-> Mutation(c.create, {"StoresWithdrawals"})]
    IN  Of(StoresWithdrawalsController)

(* The whole of the api slice. *)
Api ==
    AuthEndpoints @@ NotificationsEndpoints @@ ExchangeRatesEndpoints @@ SitesEndpoints @@
    SettingsEndpoints @@ RequisitionsEndpoints @@ EmployeesEndpoints @@ TravelEndpoints @@
    TimesheetsEndpoints @@ PettyCashEndpoints @@ ApprovalsEndpoints @@ OrdersEndpoints @@
    CommandCentreEndpoints @@ BoardsEndpoints @@ UsersEndpoints @@ ClientsEndpoints @@
    OrganisationsEndpoints @@ ContactsEndpoints @@ InteractionsEndpoints @@
    OpportunitiesEndpoints @@ CrmAnalyticsEndpoints @@ MarketingUsersEndpoints @@
    MarketingOrganisationsEndpoints @@ CampaignsEndpoints @@ ResponsesEndpoints @@
    MarketingAnalyticsEndpoints @@ NotificationPrefsNotificationsEndpoints @@
    ProjectsEndpoints @@ TemplatesEndpoints @@ FromTemplateEndpoints @@ ReturnsEndpoints @@
    WhtEndpoints @@ SiteReportsEndpoints @@ PerformanceEndpoints @@ PpeEndpoints @@
    StoresWithdrawalsEndpoints

-----------------------------------------------------------------------------

(* apps/web/src/components/AppLayout.tsx *)
AppLayout == Uses({"unreadCount", "logout"}, Anyone)

(* apps/web/src/features/home/HomePage.tsx *)
HomePage == Uses({"unreadCount"}, Anyone)

(* apps/web/src/components/LookupSelect.tsx *)
LookupSelect == Uses({"getLookups"}, Anyone)

(* apps/web/src/features/requests/RequestsPage.tsx *)
RequestsPage ==
    Uses({"getRequisitions", "createRequisition", "submitRequisition"}, Anyone) \cup
    LookupSelect

(* apps/web/src/features/travel/TravelPage.tsx *)
TravelPage ==
    Uses({"getSites", "getTravelRequests", "createTravel", "submitTravel"}, Anyone) \cup
    LookupSelect

(* apps/web/src/features/petty-cash/PettyCashPage.tsx *)
FloatView ==
    Uses({"getPettyCashTxns"}, Anyone) \cup Uses({"confirmWithdrawal"}, {"SITE_MANAGER"})
    \cup Uses({"createWithdrawal"}, SiteStaff)
PettyCashPage == Uses({"getPettyCashFloats", "getSites"}, Anyone) \cup FloatView

(* apps/web/src/features/timesheets/TimesheetsPage.tsx *)
AddEntryModal == Uses({"getEmployees", "upsertTimesheetEntries"}, Anyone)
PeriodView ==
    Uses({"getManhours"}, Anyone) \cup Only(SiteStaff \cup {"SYS_ADMIN"}, AddEntryModal)
TimesheetsPage ==
    Uses({"getSites", "getTimesheetPeriods"}, Anyone) \cup Uses({"createTimesheetPeriod",
    "submitTimesheetPeriod"}, SiteStaff \cup {"SYS_ADMIN"}) \cup PeriodView

(* apps/web/src/features/approvals/ApprovalsPage.tsx *)
ApprovalsPage == Uses({"getApprovalInbox", "decideApproval"}, Anyone)

(* apps/web/src/features/my-orders/MyOrdersPage.tsx *)
MyOrdersPage ==
    Uses({"getAssignedOrders", "getOrder", "markServiced", "recordReceipt"}, Anyone) \cup
    LookupSelect

(* apps/web/src/features/command-centre/CommandCentrePage.tsx *)
CommandCentrePage == Uses({"getCommandCentre"}, Anyone)

(* apps/web/src/features/projects/ProjectsPage.tsx *)
HealthPanel == Uses({"getProjectHealth"}, Anyone)
UpdateProgressModal == Uses({"updateNodeProgress"}, Anyone)
AddNodeModal == Uses({"addProjectNode"}, Anyone)
ProjectDetailDrawer ==
    Uses({"getProject"}, Anyone) \cup HealthPanel \cup Redo(UpdateProgressModal,
    {"getProject"}) \cup Redo(AddNodeModal, {"getProject"})
CreateProjectModal == Uses({"getSites", "createProject"}, Anyone)
PortfolioTab ==
    Uses({"getPortfolio"}, Anyone) \cup ProjectDetailDrawer \cup Redo(CreateProjectModal,
    {"getPortfolio"})
FromTemplateModal == Uses({"getSites", "createProjectFromTemplate"}, Anyone)
TemplatesTab == Uses({"getTemplates"}, Anyone) \cup FromTemplateModal
ProjectsPage == PortfolioTab \cup TemplatesTab

(* apps/web/src/features/boards/BoardsPage.tsx *)
CardDrawer ==
    Uses({"addChecklistItem", "addComment", "moveCard", "toggleChecklistItem"}, Anyone)
BoardDetailView ==
    Uses({"getBoard"}, Anyone) \cup Redo(Uses({"createCard", "createList",
    "reclassifyBoard"}, Anyone), {"getBoard"}) \cup Redo(CardDrawer, {"getBoard"})
BoardsPage ==
    Uses({"getBoards"}, Anyone) \cup Redo(Uses({"createBoard"}, Anyone), {"getBoards"}) \cup
    BoardDetailView

(* apps/web/src/features/site-reports/SiteReportsPage.tsx *)
PpeTab == Uses({"getPpeCompliance", "getPpeIssues", "getSites", "createPpeIssue"}, Anyone)
UseSiteName == Uses({"getSites"}, Anyone)
StoresTab ==
    Uses({"getSites", "getStoresWithdrawals", "createStoresWithdrawal"}, Anyone) \cup
    UseSiteName
PpeStoresParent == PpeTab \cup StoresTab
SectionEditor == Uses({"updateSiteReportSection"}, Anyone)
ReportDrawer ==
    Uses({"getSiteReportPeriod", "submitSiteReport"}, Anyone) \cup UseSiteName \cup
    SectionEditor
MonthlyReportsTab ==
    Uses({"getSiteReportPeriods", "getSites", "openSiteReportPeriod"}, Anyone) \cup
    UseSiteName \cup ReportDrawer
KpiActualModal == Uses({"upsertKpiActual"}, Anyone)
PerformanceTab == Uses({"getSitePerformance", "getSites"}, Anyone) \cup KpiActualModal
KpiSetupTab ==
    Uses({"getSiteKpis", "getSites", "createSiteKpi", "upsertKpiTarget"}, Anyone) \cup
    UseSiteName
CrossSiteTab == Uses({"getCrossSite"}, Anyone)
PerformanceParent == PerformanceTab \cup KpiSetupTab \cup CrossSiteTab
SiteReportsPage == PpeStoresParent \cup MonthlyReportsTab \cup PerformanceParent

(* apps/web/src/features/crm/ContactsTab.tsx *)
ContactsTab ==
    Uses({"getCrmContacts", "getCrmOrganisations"}, Anyone) \cup
    Redo(Uses({"createCrmContact", "updateCrmContact"}, Anyone), {"getCrmContacts"})

(* apps/web/src/features/crm/AnalyticsTab.tsx *)
CrmAnalyticsTab == Uses({"getCrmAnalytics", "getCrmUsers"}, Anyone)

(* apps/web/src/features/crm/OrganisationsTab.tsx *)
OrganisationsTab ==
    Uses({"getCrmOrganisations", "getCrmUsers"}, Anyone) \cup
    Redo(Uses({"createCrmOrganisation", "updateCrmOrganisation"}, Anyone),
    {"getCrmOrganisations"})

(* apps/web/src/features/crm/InteractionsTab.tsx *)
InteractionsTab ==
    Uses({"getCrmContacts", "getCrmInteractions", "getCrmOrganisations"}, Anyone) \cup
    Redo(Uses({"createCrmInteraction"}, Anyone), {"getCrmInteractions"})

(* apps/web/src/features/crm/PipelineTab.tsx *)
PipelineTab ==
    Uses({"getCrmClients", "getCrmOpportunityBoard", "getCrmOrganisations", "getCrmUsers"},
    Anyone) \cup Redo(Uses({"convertCrmOpportunity", "createCrmOpportunity",
    "moveCrmOpportunity"}, Anyone), {"getCrmOpportunityBoard"}) \cup LookupSelect

(* apps/web/src/features/crm/CrmPage.tsx *)
CrmPage ==
    ContactsTab \cup CrmAnalyticsTab \cup OrganisationsTab \cup InteractionsTab \cup
    PipelineTab

(* apps/web/src/features/marketing/ResponsesTab.tsx *)
ResponsesTab ==
    Uses({"getCampaigns", "getChannels", "getMktOrganisations", "getMktUsers",
    "getResponses", "convertResponse", "createResponse", "updateResponseStatus"}, Anyone)

(* apps/web/src/features/marketing/AnalyticsTab.tsx *)
MarketingAnalyticsTab == Uses({"getMarketingAnalytics"}, Anyone)

(* apps/web/src/features/marketing/CampaignsTab.tsx *)
MetricsPanel == Uses({"getMetrics", "createMetric"}, Anyone)
CampaignDetail == Uses({"getChannels", "createChannel"}, Anyone) \cup MetricsPanel
CampaignsTab ==
    Uses({"getCampaigns", "getMktUsers", "createCampaign"}, Anyone) \cup CampaignDetail

(* apps/web/src/features/marketing/MarketingPage.tsx *)
MarketingPage == ResponsesTab \cup MarketingAnalyticsTab \cup CampaignsTab

(* apps/web/src/features/returns-hub/ReturnsHubPage.tsx *)
ReturnsTab ==
    Uses({"getReturnsHub", "postFromPayroll", "postVat", "remitReturn"}, Anyone) \cup
    LookupSelect
SummaryTab == Uses({"getReturnsSummary"}, Anyone)
WhtPayableSubTab == Uses({"whtPayable"}, Anyone) \cup LookupSelect
WhtRatesSubTab == Uses({"listWhtRates", "createWhtRate"}, Anyone)
WhtSufferedSubTab == Uses({"getWhtCredits", "whtSuffered"}, Anyone) \cup LookupSelect
WhtTab == WhtPayableSubTab \cup WhtRatesSubTab \cup WhtSufferedSubTab
ReturnsHubPage == ReturnsTab \cup SummaryTab \cup WhtTab

(* apps/web/src/features/notifications/NotificationsPage.tsx *)
NotificationsPage == Uses({"getNotifications", "markAllRead", "markRead"}, Anyone)

(* apps/web/src/features/rates/RatesPage.tsx *)
RatesPage == Uses({"getExchangeRates"}, Anyone)

(* apps/web/src/features/profile/NotificationPreferences.tsx *)
NotificationPreferences ==
    Uses({"getNotificationPreferences", "setNotificationPreference"}, Anyone)

(* apps/web/src/features/profile/ProfilePage.tsx *)
ProfilePage == NotificationPreferences

-----------------------------------------------------------------------------
(* The entries of the menu of AppLayout.tsx, each with the roles it is shown to. *)
Menu ==
    "/" :> Anyone @@
    "/requests" :> Anyone @@
    "/travel" :> Anyone @@
    "/petty-cash" :> SiteStaff @@
    "/timesheets" :> SiteStaff \cup {"SYS_ADMIN"} @@
    "/approvals" :> Anyone @@
    "/my-orders" :> Anyone @@
    "/command-centre" :> Leadership @@
    "/projects" :> Anyone @@
    "/boards" :> Anyone @@
    "/site-reports" :> {"SITE_MANAGER", "OPS_DIRECTOR", "SYS_ADMIN"} @@
    "/crm" :> Leadership \cup {"OPS_STAFF"} @@
    "/marketing" :> Leadership @@
    "/returns-hub" :> FinanceTeam @@
    "/rates" :> Anyone @@
    "/notifications" :> Anyone @@
    "/profile" :> Anyone

(* The routes of App.tsx: any user who has signed in. *)
Pages ==
    "/" :> Page(Anyone, HomePage) @@
    "/requests" :> Page(Anyone, RequestsPage) @@
    "/travel" :> Page(Anyone, TravelPage) @@
    "/petty-cash" :> Page(Anyone, PettyCashPage) @@
    "/timesheets" :> Page(Anyone, TimesheetsPage) @@
    "/approvals" :> Page(Anyone, ApprovalsPage) @@
    "/my-orders" :> Page(Anyone, MyOrdersPage) @@
    "/command-centre" :> Page(Anyone, CommandCentrePage) @@
    "/projects" :> Page(Anyone, ProjectsPage) @@
    "/boards" :> Page(Anyone, BoardsPage) @@
    "/site-reports" :> Page(Anyone, SiteReportsPage) @@
    "/crm" :> Page(Anyone, CrmPage) @@
    "/marketing" :> Page(Anyone, MarketingPage) @@
    "/returns-hub" :> Page(Anyone, ReturnsHubPage) @@
    "/notifications" :> Page(Anyone, NotificationsPage) @@
    "/rates" :> Page(Anyone, RatesPage) @@
    "/profile" :> Page(Anyone, ProfilePage)

=============================================================================
