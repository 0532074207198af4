---------------------------- MODULE PageHandlers ----------------------------
(***************************************************************************)
(* The pages of the frontend and the handlers of their buttons, reduced to *)
(* what decides how two of them may overlap.  A handler has                *)
(*   flag    the busy flag that disables its button, "none" without one    *)
(*   gate    when the button is there: "loaded", only while no load of the *)
(*           page runs; "rows", once a load has shown something; "open",   *)
(*           also before                                                   *)
(*   sends   "submit", build, sign and submitTx; "batch", one after the    *)
(*           other for several invoices, going on after a failure; "hook", *)
(*           build and sign, and then a React hook called in the handler,  *)
(*           which throws; "nothing", no transaction at all                *)
(*   reload  "load", awaits the page's load, which catches its own errors; *)
(*           "read", awaits reads inside the handler's own try; "local",   *)
(*           sets the state it expects; "swr", awaits mutate(), which drops*)
(*           the answers of older fetches; "none"                          *)
(* and a page has handlers and loads of its own: "mount"; "timer"; "input",*)
(* when an input of the load changes; "refresh", a button that is disabled *)
(* while the page loads; "effect", on an input too, but outside the page's *)
(* loading state, and dropping the answer to its predecessor.              *)
(***************************************************************************)

Handler(name, flag, gate, sends, reload) ==
    [name |-> name, flag |-> flag, gate |-> gate, sends |-> sends, reload |-> reload]

Shape(loads, handlers) == [loads |-> loads, handlers |-> handlers]

-----------------------------------------------------------------------------
(* Invoices *)

InvoiceActions == {
    Handler("handleRepay", "actionLoading", "loaded", "submit", "load"),
    Handler("handleDispute", "actionLoading", "loaded", "submit", "load"),
    Handler("handleRaiseDefaultDispute", "actionLoading", "loaded", "submit", "load"),
    Handler("handleSubmitArbitrationEvidence", "actionLoading", "loaded", "submit", "load")}
InvoiceCollateral ==
    {Handler("handleDepositCollateral", "collateralLoading", "loaded", "submit", "load")}
InvoicePrivacyAndCommit == {
    Handler("handleTogglePrivate", "privacyLoading", "loaded", "submit", "local"),
    Handler("handleCommitToInvoice", "commitLoading", "loaded", "submit", "load")}
InvoiceLoads == {"mount"}
InvoicePage ==
    Shape(InvoiceLoads, InvoiceActions \cup InvoiceCollateral \cup InvoicePrivacyAndCommit)

NewInvoicePage == Shape({}, {Handler("handleSubmit", "loading", "open", "submit", "none")})

\* The import runs behind its own `submit' step of the wizard.
ImportPage == Shape({}, {Handler("handleStartImport", "step", "open", "batch", "none")})

AdminInvoiceLoads == {"mount", "input"}
AdminInvoicesPage == Shape(AdminInvoiceLoads, {
    Handler("handleBatchFunding", "batchRunning", "rows", "batch", "load"),
    Handler("handleApprove", "actionLoading", "loaded", "submit", "load")})

DefaultsPage ==
    Shape({"mount"}, {Handler("handleMarkDefault", "actionLoading", "loaded", "submit", "load")})

-----------------------------------------------------------------------------
(* The pool and its administration *)

InvestLoads == {"mount", "input"}
InvestPage ==
    Shape(InvestLoads, {Handler("submitTransaction", "txLoading", "open", "submit", "load")})

\* One flag per token.
PortfolioPage == Shape({"mount", "refresh"},
    {Handler(name, flag, "rows", "submit", "load") :
        name \in {"handleRequestWithdrawal", "handleCancelWithdrawal", "handleDrainQueue"},
        flag \in {"token1", "token2"}})

LiquidityPage == Shape({"mount", "input"},
    {Handler("handleDrain", flag, "rows", "submit", "load") : flag \in {"token1", "token2"}})

TranchesPage ==
    Shape({"mount", "input"}, {Handler("confirmDeposit", "depositing", "open", "submit", "load")})
AdminTranchesPage ==
    Shape({}, {Handler("handleSaveConfig", "saving", "open", "submit", "local")})

YieldLoads == {"mount", "effect"}
YieldPage == Shape(YieldLoads,
    {Handler(name, "txLoading", "loaded", "submit", "read") :
        name \in {"handleYieldSubmit", "handleFactoringFeeSubmit", "handleRateModelSubmit"}})

\* The button is there from the first of the load's answers on, the tokens, while
\* their rates are still read.
ExchangeRatesPage ==
    Shape({"mount"}, {Handler("confirmAndSubmit", "txLoading", "open", "submit", "local")})

InsurancePage == Shape({"mount"},
    {Handler(name, "saving", "open", "submit", "swr") :
        name \in {"savePremiumConfig", "saveMinCoverageRatio", "saveMinReserveAmount",
                  "fundReserve", "linkPoolToInsurance"}})
InsuranceBadge == Shape({"mount"}, {
    Handler("purchase", "purchaseLoading", "rows", "submit", "swr"),
    Handler("fileClaim", "claimLoading", "rows", "submit", "swr")})

LenderPortfolioCard ==
    Shape({"mount", "timer"}, {Handler("claim", "none", "rows", "submit", "swr")})

DashboardPage == Shape({"mount", "timer"},
    {Handler("handlePauseToggleConfirm", "pauseSubmitting", "loaded", "submit", "load")})

\* The cleanup is a placeholder: it waits and reports the batch as removed.
StoragePage == Shape({"mount", "refresh"},
    {Handler("handleCleanup", "cleanupLoading", "rows", "nothing", "load")})

-----------------------------------------------------------------------------
(* Registries, roles and votes *)

KycPage == Shape({"mount"}, {
    Handler("handleToggleKyc", "txLoading", "loaded", "submit", "local"),
    Handler("handleAction", "txLoading", "loaded", "submit", "load"),
    Handler("handleManageKyc", "txLoading", "open", "submit", "load")})

CompliancePage == Shape({"mount", "input"},
    {Handler("handleDecision", "txLoading", "open", "submit", "read")})

OraclesPage == Shape({"mount", "input"}, {
    Handler("handleSlash", "txLoading", "loaded", "submit", "load"),
    Handler("handleResolve", "txLoading", "open", "submit", "read")})

AttestorsPage == Shape({"mount", "input"}, {
    Handler("handleRegister", "txLoading", "open", "submit", "load"),
    Handler("handleDeactivate", "txLoading", "loaded", "submit", "load"),
    Handler("handleResolve", "txLoading", "open", "submit", "read")})

RolesPage == Shape({"mount"}, {
    Handler("handlePropose", "txLoading", "open", "submit", "load"),
    Handler("handleSignerAction", "txLoading", "loaded", "submit", "load"),
    Handler("handleExecute", "txLoading", "loaded", "submit", "load")})

GovernancePage == Shape({"mount", "timer"},
    {Handler(name, "submitting", "open", "submit", "load") :
        name \in {"handleCreateProposal", "submitGovernanceTx"}})

\* The buttons announce a vote or an execution without sending one.
AdminGovernancePage == Shape({"mount"},
    {Handler(name, flag, "loaded", "nothing", "load") :
        name \in {"handleVote", "handleExecute"}, flag \in {"proposal1", "proposal2"}})

JurorsPage == Shape({"mount"}, {
    Handler("handleRegister", "txLoading", "open", "submit", "load"),
    Handler("handleDeregister", "txLoading", "open", "submit", "load"),
    Handler("handleCommit", "txLoading", "loaded", "submit", "load"),
    Handler("handleReveal", "txLoading", "loaded", "submit", "load")})

CreditPage ==
    Shape({"mount"}, {Handler("handleDispute", "txLoading", "open", "submit", "load")})

-----------------------------------------------------------------------------
(* The markets, whose handlers call UseTrackTransaction *)

SecondaryMarketPage == Shape({"mount"},
    {Handler(name, "txLoading", "open", "hook", "swr") :
        name \in {"handleCreateListing", "handleCancel", "handleBuy", "handlePlaceOrder",
                  "handleCancelOrder", "handleExpireOrder"}})
CoFundingPage == Shape({"mount"},
    {Handler(name, "txLoading", "open", "hook", "swr") :
        name \in {"handleCommit", "handleWithdrawCommitment", "handleTransfer"}})

-----------------------------------------------------------------------------
(* Pages that only load *)

AgingPage == Shape({"mount", "timer"}, {})
AnalyticsPage == Shape({"mount", "timer"}, {})
RevenuePage == Shape({"mount", "timer"}, {})
SmeDashboardPage == Shape({"mount", "input"}, {})
HistoryPage == Shape({"mount", "input"}, {})

Pages == {
    InvoicePage, NewInvoicePage, ImportPage, AdminInvoicesPage, DefaultsPage, InvestPage,
    PortfolioPage, LiquidityPage, TranchesPage, AdminTranchesPage, YieldPage,
    ExchangeRatesPage, InsurancePage, InsuranceBadge, LenderPortfolioCard, DashboardPage,
    StoragePage, KycPage, CompliancePage, OraclesPage, AttestorsPage, RolesPage,
    GovernancePage, AdminGovernancePage, JurorsPage, CreditPage, SecondaryMarketPage,
    CoFundingPage, AgingPage, AnalyticsPage, RevenuePage, SmeDashboardPage, HistoryPage}
=============================================================================
