----------------------------- MODULE ServerMoney -----------------------------
(***************************************************************************)
(* What the methods of the services touch: the users and the reference     *)
(* data, the ledger and the approval chains, the contracts, orders,        *)
(* expenses and loans, the documents that spend money, the returns and the *)
(* compliance calendar.                                                    *)
(***************************************************************************)
EXTENDS Footprint

(* apps/api/src/settings/lookup.service.ts *)
LookupService_isValid == Reads({"lookupValue"})
LookupService_assertValid == LookupService_isValid

(* apps/api/src/users/users.service.ts *)
UsersService_create ==
    Reads({"user"}) ++ LookupService_assertValid ++ Writes(<<"user", "userSiteRole">>)
UsersService_findOne == Reads({"user", "userSiteRole"})
UsersService_assignRole ==
    Reads({"user"}) ++ LookupService_assertValid ++ Writes(<<"userSiteRole", "user">>) ++
    UsersService_findOne
UsersService_list == Reads({"user", "userSiteRole"})

(* apps/api/src/auth/token.service.ts *)
TokenService_issueRefreshToken == Writes(<<"refreshToken">>)
TokenService_issuePair == TokenService_issueRefreshToken

(* apps/api/src/auth/auth.service.ts *)
AuthService_login == Reads({"user"}) ++ TokenService_issuePair ++ Writes(<<"user">>)

(* apps/api/src/auth/token.service.ts *)
TokenService_rotate ==
    Reads({"refreshToken", "user"}) ++ Writes(<<"refreshToken">>) ++ TokenService_issuePair
    ++ Writes(<<"refreshToken">>)

(* apps/api/src/auth/auth.service.ts *)
AuthService_refresh == TokenService_rotate

(* apps/api/src/auth/token.service.ts *)
TokenService_revoke == Writes(<<"refreshToken">>)

(* apps/api/src/auth/auth.service.ts *)
AuthService_logout == TokenService_revoke

(* apps/api/src/hr/employees.service.ts *)
EmployeesService_list == Reads({"employee"})
EmployeesService_getOrThrow == Reads({"employee"})
EmployeesService_findOne == EmployeesService_getOrThrow
EmployeesService_assertSiteExists == Reads({"site"})
EmployeesService_create ==
    Reads({"user"}) ++ EmployeesService_assertSiteExists ++ LookupService_assertValid ++
    Writes(<<"employee">>)
EmployeesService_update ==
    Reads({"user"}) ++ EmployeesService_getOrThrow ++ EmployeesService_assertSiteExists ++
    LookupService_assertValid ++ Writes(<<"employee">>)
EmployeesService_remove == EmployeesService_getOrThrow ++ Writes(<<"employee">>)

(* apps/api/src/financial/loans/loans.service.ts *)
LoansService_list == Reads({"loan"})
LoansService_findOne == Reads({"loan", "loanRepayment"})
LoansService_create == LookupService_assertValid ++ Writes(<<"loan">>)
LoansService_recordRepayment == LoansService_findOne ++ Writes(<<"loanRepayment">>)

(* apps/api/src/reference/statutory-rates/statutory-rates.service.ts *)
StatutoryRatesService_valueAsOf == Reads({"statutoryRate"})

(* apps/api/src/financial/domain/order-financials-facade.service.ts *)
OrderFinancialsFacadeService_lookupVatValue == StatutoryRatesService_valueAsOf
OrderFinancialsFacadeService_resolveVatPct == OrderFinancialsFacadeService_lookupVatValue
OrderFinancialsFacadeService_forOrder == OrderFinancialsFacadeService_resolveVatPct

(* apps/api/src/financial/orders/orders.service.ts *)
OrdersService_withFinancials ==
    OrderFinancialsFacadeService_resolveVatPct ++ OrderFinancialsFacadeService_forOrder
OrdersService_list ==
    Reads({"order", "orderExpense", "orderMilestone", "orderReceipt"}) ++
    OrdersService_withFinancials
OrdersService_listAssigned ==
    Reads({"order", "orderExpense", "orderMilestone", "orderReceipt"}) ++
    OrdersService_withFinancials
OrdersService_findOne == Reads({"order", "orderExpense", "orderMilestone", "orderReceipt"})
OrdersService_findOneForActor == OrdersService_findOne
OrdersService_findOneWithFinancials ==
    OrdersService_findOneForActor ++ OrderFinancialsFacadeService_forOrder
OrdersService_getFinancials ==
    OrdersService_findOneForActor ++ OrderFinancialsFacadeService_forOrder
OrdersService_listMilestones == Reads({"orderMilestone"}) ++ OrdersService_findOneForActor
OrdersService_addMilestone == OrdersService_findOne ++ Writes(<<"orderMilestone">>)
OrdersService_create ==
    Reads({"client", "contract"}) ++ LookupService_assertValid ++ Writes(<<"order">>)
OrdersService_update == OrdersService_findOne ++ Writes(<<"order">>)
OrdersService_addExpense ==
    OrdersService_findOne ++ LookupService_assertValid ++ Writes(<<"orderExpense">>)

(* apps/api/src/ledger/ledger.service.ts *)
LedgerService_ensureSystemAccountTx == Reads({"account"}) ++ Writes(<<"account">>)
LedgerService_postOrderReceipt ==
    Reads({"ledgerEntry"}) ++ LedgerService_ensureSystemAccountTx ++
    Writes(<<"ledgerEntry">>)

(* apps/api/src/financial/orders/orders.service.ts *)
OrdersService_recordReceipt ==
    OrdersService_findOne ++ LookupService_assertValid ++ Writes(<<"orderReceipt">>) ++
    LedgerService_postOrderReceipt
OrdersService_markServiced == OrdersService_findOne ++ Writes(<<"order">>)

(* apps/api/src/financial/expenses/expenses.service.ts *)
ExpensesService_listOverheads == Reads({"overhead"})
ExpensesService_createOverhead == LookupService_assertValid ++ Writes(<<"overhead">>)
ExpensesService_listGeneral == Reads({"generalExpense"})
ExpensesService_createGeneral == LookupService_assertValid ++ Writes(<<"generalExpense">>)

(* apps/api/src/financial/clients/clients.service.ts *)
ClientsService_list == Reads({"client"})
ClientsService_findOne == Reads({"client"})
ClientsService_create == Writes(<<"client">>)
ClientsService_update == ClientsService_findOne ++ Writes(<<"client">>)

(* apps/api/src/financial/contracts/contracts.service.ts *)
ContractsService_list == Reads({"contract"})
ContractsService_findOne == Reads({"contract"})
ContractsService_create ==
    Reads({"client"}) ++ LookupService_assertValid ++ Writes(<<"contract">>)
ContractsService_update ==
    ContractsService_findOne ++ LookupService_assertValid ++ Writes(<<"contract">>)
ContractsService_listClaims == Reads({"contractClaim"})

(* apps/api/src/ledger/ledger.service.ts *)
LedgerService_postContractClaim ==
    Reads({"ledgerEntry"}) ++ LedgerService_ensureSystemAccountTx ++
    Writes(<<"ledgerEntry">>)

(* apps/api/src/financial/contracts/contracts.service.ts *)
ContractsService_addClaim ==
    ContractsService_findOne ++ LookupService_assertValid ++ Writes(<<"contractClaim">>) ++
    LedgerService_postContractClaim

(* apps/api/src/compliance/compliance.service.ts *)
ComplianceService_list == Reads({"complianceObligation"})

(* apps/api/src/approvals/approval.service.ts *)
ApprovalService_matchingMatrixRows == Reads({"approvalMatrix"})

(* apps/api/src/reference/delegation/delegation.service.ts *)
DelegationService_activeDelegateFor == Reads({"delegationRule"})

(* apps/api/src/approvals/approval.service.ts *)
ApprovalService_resolveDelegate == DelegationService_activeDelegateFor
ApprovalService_resolveApproverUserIds == Reads({"userSiteRole"})

(* apps/api/src/reference/delegation/delegation.service.ts *)
DelegationService_activeDelegatesForMany == Reads({"delegationRule"})

(* apps/api/src/approvals/approval.service.ts *)
ApprovalService_resolveApproverUserIdsWithDelegates ==
    ApprovalService_resolveApproverUserIds ++ DelegationService_activeDelegatesForMany
ApprovalService_notifyStep == ApprovalService_resolveApproverUserIdsWithDelegates
ApprovalService_submit ==
    ApprovalService_matchingMatrixRows ++ ApprovalService_resolveDelegate ++
    Writes(<<"approvalChain", "approval">>) ++ ApprovalService_notifyStep

(* apps/api/src/sites/sites.service.ts *)
SitesService_list == Reads({"site"})
SitesService_findOne == Reads({"site"})
SitesService_create == LookupService_assertValid ++ Writes(<<"site">>)
SitesService_update ==
    LookupService_assertValid ++ SitesService_findOne ++ Writes(<<"site">>)

(* apps/api/src/workflows/requisitions/requisitions.service.ts *)
RequisitionsService_list == Reads({"requisition"})
RequisitionsService_findOne == Reads({"requisition"})
RequisitionsService_create ==
    Reads({"order"}) ++ LookupService_assertValid ++ Writes(<<"requisition">>)

(* apps/api/src/ledger/ledger.service.ts *)
LedgerService_cashPosition == Reads({"account", "ledgerEntry"})

(* apps/api/src/workflows/requisitions/requisitions.service.ts *)
RequisitionsService_financeUserIds == Reads({"userSiteRole"})
RequisitionsService_reTestPendingFunds ==
    Reads({"requisition"}) ++ LedgerService_cashPosition ++ Writes(<<"requisition">>) ++
    RequisitionsService_financeUserIds
RequisitionsService_submit ==
    RequisitionsService_findOne ++ Writes(<<"requisition">>) ++ ApprovalService_submit

(* apps/api/src/ledger/ledger.service.ts *)
LedgerService_ensureSystemAccount == Reads({"account"}) ++ Writes(<<"account">>)
LedgerService_post == Reads({"ledgerEntry"}) ++ Writes(<<"ledgerEntry">>)
LedgerService_postJournal == LedgerService_post

(* apps/api/src/workflows/requisitions/requisitions.service.ts *)
RequisitionsService_disburse ==
    Reads({"account"}) ++ RequisitionsService_findOne ++ LedgerService_ensureSystemAccount
    ++ LedgerService_postJournal ++ Writes(<<"requisition">>)

(* apps/api/src/workflows/budgets/budgets.service.ts *)
BudgetsService_list == Reads({"budget"})

(* apps/api/src/reference/thresholds/thresholds.service.ts *)
ThresholdsService_current == Reads({"threshold"})

(* apps/api/src/workflows/budgets/budgets.service.ts *)
BudgetsService_fraction == ThresholdsService_current
BudgetsService_spendByCategory ==
    Reads({"generalExpense", "orderExpense", "overhead", "requisition"})
BudgetsService_computeActuals ==
    Reads({"budget", "budgetLine"}) ++ BudgetsService_fraction ++
    BudgetsService_spendByCategory
BudgetsService_findOne == Reads({"budget", "budgetLine"}) ++ BudgetsService_computeActuals
BudgetsService_create == LookupService_assertValid ++ Writes(<<"budget", "budgetLine">>)
BudgetsService_getBudget == Reads({"budget", "budgetLine"})
BudgetsService_budgetedTotal == Reads({"budgetLine"})
BudgetsService_submit ==
    BudgetsService_getBudget ++ Writes(<<"budget">>) ++ BudgetsService_budgetedTotal ++
    ApprovalService_submit
BudgetsService_revise == BudgetsService_getBudget ++ Writes(<<"budget", "budgetLine">>)

(* apps/api/src/workflows/petty-cash/petty-cash.service.ts *)
PettyCashService_createFloat ==
    Reads({"pettyCashFloat"}) ++ LookupService_assertValid ++ Writes(<<"pettyCashFloat">>)
PettyCashService_listFloats == Reads({"pettyCashFloat"})
PettyCashService_conversionsReport == Reads({"pettyCashFloat", "pettyCashTxn"})
PettyCashService_listTxns == Reads({"pettyCashTxn"})
PettyCashService_findFloat == Reads({"pettyCashFloat"})
PettyCashService_atOrAboveThreshold == ThresholdsService_current
PettyCashService_roleUserIds == Reads({"userSiteRole"})
PettyCashService_createWithdrawal ==
    PettyCashService_findFloat ++ PettyCashService_atOrAboveThreshold ++
    Writes(<<"pettyCashTxn">>) ++ ApprovalService_submit ++ PettyCashService_roleUserIds
PettyCashService_findTxn == Reads({"pettyCashTxn"})
PettyCashService_postToLedger ==
    Reads({"account"}) ++ LedgerService_ensureSystemAccount ++ LedgerService_postJournal
PettyCashService_postTxn ==
    Reads({"pettyCashTxn"}) ++ PettyCashService_findFloat ++ Writes(<<"pettyCashTxn">>) ++
    PettyCashService_postToLedger ++ Writes(<<"pettyCashTxn">>) ++
    PettyCashService_postToLedger ++ PettyCashService_roleUserIds
PettyCashService_confirmWithdrawal ==
    PettyCashService_findTxn ++ PettyCashService_findFloat ++
    PettyCashService_atOrAboveThreshold ++ PettyCashService_postTxn

(* apps/api/src/reference/exchange-rates/exchange-rates.service.ts *)
ExchangeRatesService_rowAsOf == Reads({"exchangeRate"})
ExchangeRatesService_rateAsOf == ExchangeRatesService_rowAsOf

(* apps/api/src/workflows/petty-cash/petty-cash.service.ts *)
PettyCashService_officialRate == ExchangeRatesService_rateAsOf
PettyCashService_createConversion ==
    PettyCashService_findFloat ++ LookupService_assertValid ++ PettyCashService_officialRate
    ++ PettyCashService_atOrAboveThreshold ++ Writes(<<"pettyCashTxn">>) ++
    ApprovalService_submit
PettyCashService_balance == Reads({"pettyCashTxn"}) ++ PettyCashService_findFloat
PettyCashService_recordCount ==
    PettyCashService_findFloat ++ PettyCashService_balance ++ Writes(<<"pettyCashFloat">>)
    ++ PettyCashService_roleUserIds
PettyCashService_unlockFloat == PettyCashService_findFloat ++ Writes(<<"pettyCashFloat">>)
PettyCashService_createTopUp ==
    Reads({"account"}) ++ PettyCashService_findFloat ++ Writes(<<"pettyCashTxn">>) ++
    ApprovalService_submit

(* apps/api/src/workflows/director-withdrawals/director-withdrawals.service.ts *)
DirectorWithdrawalsService_list == Reads({"directorWithdrawal"})
DirectorWithdrawalsService_findOne == Reads({"directorWithdrawal"})
DirectorWithdrawalsService_create ==
    LookupService_assertValid ++ Writes(<<"directorWithdrawal">>)
DirectorWithdrawalsService_submit ==
    DirectorWithdrawalsService_findOne ++ Writes(<<"directorWithdrawal">>) ++
    ApprovalService_submit
DirectorWithdrawalsService_complete ==
    DirectorWithdrawalsService_findOne ++ Writes(<<"directorWithdrawal">>)

(* apps/api/src/workflows/travel/travel.service.ts *)
TravelService_list == Reads({"travelRequest"})
TravelService_findOne == Reads({"travelRequest"})

(* apps/api/src/workflows/travel/travel-rates.service.ts *)
TravelRatesService_rateFor == Reads({"travelRate"})

(* apps/api/src/workflows/travel/travel.service.ts *)
TravelService_create ==
    LookupService_assertValid ++ TravelRatesService_rateFor ++ Writes(<<"travelRequest">>)
TravelService_financeUserIds == Reads({"userSiteRole"})
TravelService_reTestPendingFunds ==
    Reads({"travelRequest"}) ++ LedgerService_cashPosition ++ Writes(<<"travelRequest">>) ++
    TravelService_financeUserIds
TravelService_submit ==
    TravelService_findOne ++ Writes(<<"travelRequest">>) ++ ApprovalService_submit
TravelService_disburse ==
    Reads({"account"}) ++ TravelService_findOne ++ LedgerService_ensureSystemAccount ++
    LedgerService_postJournal ++ Writes(<<"travelRequest">>)
TravelService_retire ==
    TravelService_findOne ++ LedgerService_ensureSystemAccount ++ LedgerService_postJournal
    ++ LedgerService_ensureSystemAccount ++ LedgerService_postJournal ++
    Writes(<<"travelRequest">>) ++ TravelService_financeUserIds

(* apps/api/src/workflows/travel/travel-rates.service.ts *)
TravelRatesService_list == Reads({"travelRate"})
TravelRatesService_create == LookupService_assertValid ++ Writes(<<"travelRate">>)

(* apps/api/src/approvals/approval-matrix.service.ts *)
ApprovalMatrixService_create == Writes(<<"approvalMatrix">>)
ApprovalMatrixService_list == Reads({"approvalMatrix"})
ApprovalMatrixService_update == Reads({"approvalMatrix"}) ++ Writes(<<"approvalMatrix">>)
ApprovalMatrixService_remove == Reads({"approvalMatrix"}) ++ Writes(<<"approvalMatrix">>)

(* apps/api/src/reference/delegation/delegation.service.ts *)
DelegationService_activeDelegatorsFor == Reads({"delegationRule"})

(* apps/api/src/approvals/approval.service.ts *)
ApprovalService_rolesForUsers == Reads({"userSiteRole"})
ApprovalService_inbox ==
    Reads({"approval", "approvalChain"}) ++ DelegationService_activeDelegatorsFor ++
    ApprovalService_rolesForUsers
ApprovalService_delegatedRolesFor ==
    Reads({"userSiteRole"}) ++ DelegationService_activeDelegatorsFor
ApprovalService_reload == Reads({"approval", "approvalChain"})
ApprovalService_closeChain == Writes(<<"approvalChain">>) ++ ApprovalService_reload
ApprovalService_returnChain ==
    Atomically(Writes(<<"approvalChain", "approval">>)) ++ ApprovalService_reload
ApprovalService_advanceOnApproval ==
    ApprovalService_reload ++ ApprovalService_closeChain ++ Writes(<<"approvalChain",
    "approval">>) ++ ApprovalService_notifyStep
ApprovalService_decide ==
    Reads({"approval", "approvalChain"}) ++ ApprovalService_delegatedRolesFor ++
    Writes(<<"approval">>) ++ ApprovalService_closeChain ++ ApprovalService_returnChain ++
    ApprovalService_advanceOnApproval

(* apps/api/src/notifications/notification.service.ts *)
NotificationService_listForUser == Reads({"notification"})
NotificationService_unreadCount == Reads({"notification"})
NotificationService_markRead == Reads({"notification"}) ++ Writes(<<"notification">>)
NotificationService_markAllRead == Writes(<<"notification">>)
NotificationService_getPreferences == Reads({"notificationPreference"})
NotificationService_setPreference == Writes(<<"notificationPreference">>)

(* apps/api/src/ledger/ledger.service.ts *)
LedgerService_listEntries == Reads({"ledgerEntry"})

(* apps/api/src/ledger/accounts.service.ts *)
AccountsService_list == Reads({"account"})
AccountsService_findOne == Reads({"account"})
AccountsService_create == LookupService_assertValid ++ Writes(<<"account">>)
AccountsService_update ==
    AccountsService_findOne ++ LookupService_assertValid ++ Writes(<<"account">>)

(* apps/api/src/settings/lookup.service.ts *)
LookupService_list == Reads({"lookupValue"})
LookupService_create == Writes(<<"lookupValue">>)
LookupService_update == Reads({"lookupValue"}) ++ Writes(<<"lookupValue">>)
LookupService_remove == Reads({"lookupValue"}) ++ Writes(<<"lookupValue">>)

(* apps/api/src/reference/statutory-rates/statutory-rates.service.ts *)
StatutoryRatesService_create == LookupService_assertValid ++ Writes(<<"statutoryRate">>)
StatutoryRatesService_list == Reads({"statutoryRate"})

(* apps/api/src/reference/delegation/delegation.service.ts *)
DelegationService_create == Writes(<<"delegationRule">>)
DelegationService_list == Reads({"delegationRule"})

(* apps/api/src/reference/exchange-rates/exchange-rates.service.ts *)
ExchangeRatesService_create == Writes(<<"exchangeRate">>)
ExchangeRatesService_list == Reads({"exchangeRate"})

(* apps/api/src/reference/thresholds/thresholds.service.ts *)
ThresholdsService_create == LookupService_assertValid ++ Writes(<<"threshold">>)
ThresholdsService_list == Reads({"threshold"})

(* apps/api/src/returns/wht.service.ts *)
WhtService_listRates == Reads({"whtRate"})
WhtService_createRate == Writes(<<"whtRate">>)
WhtService_updateRate == Reads({"whtRate"}) ++ Writes(<<"whtRate">>)
WhtService_deleteRate == Reads({"whtRate"}) ++ Writes(<<"whtRate">>)
WhtService_resolveRate == Reads({"whtRate"})
WhtService_upsertWhtLiability == Reads({"statutoryReturn"}) ++ Writes(<<"statutoryReturn">>)
WhtService_payable ==
    WhtService_resolveRate ++ Writes(<<"whtTransaction">>) ++ WhtService_upsertWhtLiability
WhtService_suffered == Writes(<<"whtTransaction">>)
WhtService_credits == Reads({"whtTransaction"})

(* apps/api/src/returns/returns.service.ts *)
ReturnsService_hub == Reads({"statutoryReturn"})
ReturnsService_summary == Reads({"statutoryReturn"})
ReturnsService_persistStatuses ==
    Reads({"statutoryReturn"}) ++ Writes(<<"statutoryReturn">>)
ReturnsService_upsertReturn == Reads({"statutoryReturn"}) ++ Writes(<<"statutoryReturn">>)
ReturnsService_postFromPayroll ==
    Reads({"payrollLine", "payrollRun"}) ++ ReturnsService_upsertReturn
ReturnsService_postVat == Reads({"taxLedger"}) ++ ReturnsService_upsertReturn
ReturnsService_findOne == Reads({"statutoryReturn"})
ReturnsService_remit ==
    ReturnsService_findOne ++ Writes(<<"returnRemittance", "statutoryReturn">>)

(* apps/api/src/financial/domain/income-tax-provision.service.ts *)
IncomeTaxProvisionService_rateFraction == StatutoryRatesService_valueAsOf
IncomeTaxProvisionService_estimate == IncomeTaxProvisionService_rateFraction

(* apps/api/src/entities/entities.service.ts *)
EntitiesService_list == Reads({"entity"})
EntitiesService_findOne == Reads({"entity"})
EntitiesService_summary == Reads({"employee", "order", "site"}) ++ EntitiesService_findOne
EntitiesService_create == Writes(<<"entity">>)
EntitiesService_update == EntitiesService_findOne ++ Writes(<<"entity">>)
EntitiesService_listHolidays == Reads({"publicHoliday"}) ++ EntitiesService_findOne
EntitiesService_createHoliday == EntitiesService_findOne ++ Writes(<<"publicHoliday">>)
EntitiesService_deleteHoliday == Reads({"publicHoliday"}) ++ Writes(<<"publicHoliday">>)

=============================================================================
