---------------------------- MODULE SdkBindings -----------------------------
(***************************************************************************)
(* packages/sdk/src: one row for every contract call of the SDK's clients, *)
(* in the form of FrontendBindings, and the calls AsteraClient, the        *)
(* facade, passes on.  Queries go through BaseClient.simulate, which       *)
(* throws on a simulation error before the client's own test of it; writes *)
(* through BaseClient.buildAndSendTx.                                      *)
(***************************************************************************)
EXTENDS FrontendBindings

SdkQuery(c, f, m, a) == [Row(f, c, m, a) EXCEPT !.side = "sdk"]
\* getGovernanceAddress wraps the call in try/catch.
SdkQueryOrNull(c, f, m, a) == [SdkQuery(c, f, m, a) EXCEPT !.absorbs = Both]
SdkWrite(c, f, m, a) ==
    [SdkQuery(c, f, m, a) EXCEPT !.kind = "write", !.source = "wallet"]

SdkAccessControlReads == {
    SdkWrite("access_control", "initialize", "initialize", <<"Vec<Address>", "u32", "u64">>),
    SdkQuery("access_control", "getRoleConfig", "get_role_config", <<"Role">>),
    SdkQuery("access_control", "isSigner", "is_signer", <<"Role", "Address">>),
    SdkQuery("access_control", "getNextProposalId", "get_next_proposal_id", <<>>),
    SdkQuery("access_control", "getProposal", "get_proposal", <<"u64">>)}

SdkAccessControlWrites == {
    SdkWrite("access_control", "proposeAction", "propose_action",
        <<"Role", "Address", "Address", "ActionPayload">>),
    SdkWrite("access_control", "approveAction", "approve_action", <<"Address", "u64">>),
    SdkWrite("access_control", "revokeApproval", "revoke_approval", <<"Address", "u64">>),
    SdkWrite("access_control", "rejectAction", "reject_action", <<"Address", "u64">>),
    SdkWrite("access_control", "executeAction", "execute_action", <<"Address", "u64">>)}

SdkArbitrationWrites == {
    SdkWrite("arbitration", "registerJuror", "register_juror", <<"Address", "i128">>),
    SdkWrite("arbitration", "deregisterJuror", "deregister_juror", <<"Address">>),
    SdkWrite("arbitration", "submitEvidence", "submit_evidence", <<"u64", "Address", "String">>),
    SdkWrite("arbitration", "selectJurors", "select_jurors", <<"u64">>),
    SdkWrite("arbitration", "commitVote", "commit_vote", <<"u64", "Address", "BytesN<32>">>),
    SdkWrite("arbitration", "revealVote", "reveal_vote",
        <<"u64", "Address", "bool", "BytesN<32>">>),
    SdkWrite("arbitration", "finalizeCase", "finalize_case", <<"u64">>),
    SdkWrite("arbitration", "adminResolveNoQuorum", "admin_resolve_no_quorum",
        <<"Address", "u64", "DisputeResolution">>)}

SdkArbitrationReads == {
    SdkQuery("arbitration", "getCase", "get_case", <<"u64">>),
    SdkQuery("arbitration", "getEvidence", "get_evidence", <<"u64">>),
    SdkQuery("arbitration", "getVote", "get_vote", <<"u64", "Address">>),
    SdkQuery("arbitration", "getJuror", "get_juror", <<"Address">>),
    SdkQuery("arbitration", "listActiveJurors", "list_active_jurors", <<>>),
    SdkQuery("arbitration", "getJurorCases", "get_juror_cases", <<"Address">>),
    SdkQuery("arbitration", "getConfig", "get_config", <<>>)}

SdkAuctionRisk == {
    SdkWrite("auction", "initialize", "initialize", <<"Address", "Address">>),
    SdkQuery("auction", "getPoolContract", "get_pool_contract", <<>>),
    SdkWrite("auction", "setCollateralRiskConfig", "set_collateral_risk_config",
        <<"Address", "u32", "u64">>),
    SdkQuery("auction", "getCollateralRiskConfig", "get_collateral_risk_config", <<>>),
    SdkQuery("auction", "getLiveCollateralRatio", "get_live_collateral_ratio", <<"u64">>),
    SdkQuery("auction", "getAtRiskSince", "get_at_risk_since", <<"u64">>),
    SdkWrite("auction", "checkCollateralRisk", "check_collateral_risk", <<"Address", "u64">>),
    SdkWrite("auction", "liquidateCollateral", "liquidate_collateral", <<"Address", "u64">>)}

SdkAuctionSales == {
    SdkWrite("auction", "openCollateralSale", "open_collateral_sale", <<"CollateralSaleParams">>),
    SdkQuery("auction", "getSale", "get_sale", <<"u64">>),
    SdkQuery("auction", "currentSalePrice", "current_sale_price", <<"u64">>),
    SdkWrite("auction", "takeCollateralSale", "take_collateral_sale", <<"Address", "u64">>),
    SdkWrite("auction", "reclaimExpiredSale", "reclaim_expired_sale", <<"Address", "u64">>)}

SdkCompliance == {
    SdkQuery("compliance", "isCleared", "is_cleared", <<"Address">>),
    SdkQuery("compliance", "getRecord", "get_compliance_record", <<"Address">>),
    SdkQuery("compliance", "getHistory", "get_screening_history", <<"Address">>),
    SdkQuery("compliance", "listFlagged", "list_flagged", <<>>),
    SdkQuery("compliance", "listPendingReview", "list_pending_review", <<>>),
    SdkWrite("compliance", "submitScreeningResult", "submit_screening_result",
        <<"Address", "Address", "ComplianceStatus", "u32", "RiskTier", "u64", "String">>),
    SdkWrite("compliance", "requestReview", "request_review", <<"Address", "Address", "String">>)}

SdkCreditScoreReads == {
    SdkQuery("credit_score", "getCreditScore", "get_credit_score", <<"Address">>),
    SdkQuery("credit_score", "simulateScoreWithAttestations", "simulate_score_with_attestations",
        <<"Address", "Vec<(u32, u32)>">>),
    SdkQuery("credit_score", "getAttestorInfo", "get_attestor_info", <<"Address">>),
    SdkQuery("credit_score", "listActiveAttestors", "list_active_attestors", <<>>),
    SdkQuery("credit_score", "getAttestation", "get_attestation", <<"u64">>),
    SdkQuery("credit_score", "listSmeAttestations", "list_sme_attestations", <<"Address">>)}

SdkCreditScoreWrites == {
    SdkWrite("credit_score", "registerAttestor", "register_attestor",
        <<"Address", "Address", "AttestorType", "u32">>),
    SdkWrite("credit_score", "deactivateAttestor", "deactivate_attestor", <<"Address", "Address">>),
    SdkWrite("credit_score", "submitAttestation", "submit_attestation",
        <<"Address", "Address", "AttestorType", "u32", "String", "u64">>),
    SdkWrite("credit_score", "submitAttestation", "dispute_attestation",
        <<"Address", "u64", "String">>),
    SdkWrite("credit_score", "submitAttestation", "resolve_attestation_dispute",
        <<"Address", "u64", "bool">>),
    SdkWrite("credit_score", "submitAttestation", "submit_risk_signal",
        <<"Address", "Address", "u32", "u32">>)}

SdkGovernance == {
    SdkWrite("governance", "initialize", "initialize",
        <<"Address", "Address", "u64", "u64", "u32", "u32", "u32", "u32", "u32", "u32", "u64">>),
    SdkWrite("governance", "createProposal", "create_proposal",
        <<"String", "Address", "map", "u32", "u64", "u64">>),
    SdkQuery("governance", "createProposal", "get_last_proposal_id", <<>>),
    SdkWrite("governance", "vote", "vote", <<"u64", "bool", "i128">>),
    SdkWrite("governance", "executeProposal", "execute_proposal", <<"u64">>),
    SdkWrite("governance", "cancelProposal", "cancel_proposal", <<"u64">>),
    SdkQuery("governance", "getProposal", "get_proposal", <<"u64">>),
    SdkQuery("governance", "getAllProposals", "get_all_proposals", <<>>),
    SdkQuery("governance", "getConfig", "get_config", <<>>),
    SdkQueryOrNull("governance", "getGovernanceAddress", "get_governance_address", <<>>)}

SdkGovernanceDelay == {
    SdkWrite("governance", "setExecutionDelay", "set_execution_delay", <<"u64">>)}

SdkInsuranceCover == {
    SdkWrite("insurance", "initialize", "initialize", <<"Address", "Address", "Address">>),
    SdkQuery("insurance", "estimatePremium", "estimate_premium", <<"i128", "Address", "u32">>),
    SdkWrite("insurance", "purchaseCoverage", "purchase_coverage",
        <<"Address", "u64", "i128", "Address", "u64", "Address">>),
    SdkWrite("insurance", "fileClaim", "file_claim", <<"u64">>),
    SdkQuery("insurance", "getReserveStatus", "get_reserve_status", <<"Address">>),
    SdkQuery("insurance", "getCoverageRecord", "get_coverage_record", <<"u64">>),
    SdkQuery("insurance", "getClaimHistory", "get_claim_history", <<"u64">>),
    SdkQuery("insurance", "checkReserveHealth", "check_reserve_health", <<"Address">>),
    SdkQuery("insurance", "getPremiumConfig", "get_premium_config", <<>>),
    SdkQuery("insurance", "getCreditScoreContract", "get_credit_score_contract", <<>>),
    SdkQuery("insurance", "getMinReserveAmount", "get_min_reserve_amount", <<"Address">>)}

SdkInsuranceAdmin == {
    SdkWrite("insurance", "setPremiumConfig", "set_premium_config", <<"Address", "PremiumConfig">>),
    SdkWrite("insurance", "setMinCoverageRatio", "set_min_coverage_ratio",
        <<"Address", "Address", "u32">>),
    SdkWrite("insurance", "setMinReserveAmount", "set_min_reserve_amount",
        <<"Address", "Address", "i128">>),
    SdkWrite("insurance", "fundReserveFromTreasury", "fund_reserve_from_treasury",
        <<"Address", "Address", "i128">>),
    SdkWrite("insurance", "setCreditScoreContract", "set_credit_score_contract",
        <<"Address", "Address">>),
    SdkWrite("insurance", "pause", "pause", <<"Address">>),
    SdkWrite("insurance", "unpause", "unpause", <<"Address">>)}

SdkInvoice == {
    SdkQuery("invoice", "getInvoice", "get_invoice", <<"u64">>),
    SdkQuery("invoice", "getMultipleInvoices", "get_multiple_invoices", <<"Vec<u64>">>),
    SdkQuery("invoice", "getMetadata", "get_metadata", <<"u64">>),
    SdkWrite("invoice", "createInvoice", "create_invoice",
        <<"Address", "String", "i128", "u64", "String", "String">>),
    SdkWrite("invoice", "verifyInvoice", "verify_invoice",
        <<"u64", "Address", "bool", "String", "String">>)}

SdkOracleRegistry == {
    SdkWrite("oracle_registry", "openRound", "open_verification_round",
        <<"Address", "u64", "String">>),
    SdkWrite("oracle_registry", "register", "register_oracle", <<"Address", "i128">>),
    SdkWrite("oracle_registry", "vote", "submit_vote", <<"Address", "u64", "bool", "String">>),
    SdkQuery("oracle_registry", "getRound", "get_verification_round", <<"u64">>),
    SdkQuery("oracle_registry", "getRegistryConfig", "get_registry_config", <<>>),
    SdkQuery("oracle_registry", "getOracleInfo", "get_oracle_info", <<"Address">>)}

SdkPoolInvestors == {
    SdkQuery("pool", "getConfig", "get_config", <<>>),
    SdkQuery("pool", "getPosition", "get_position", <<"Address", "Address">>),
    SdkWrite("pool", "deposit", "deposit", <<"Address", "Address", "i128", "Option<u32>">>),
    SdkWrite("pool", "liquidateInvoice", "liquidate_invoice", <<"Address", "u64">>),
    SdkQuery("pool", "getCollateralDeposit", "get_collateral_deposit", <<"u64">>),
    SdkWrite("pool", "requestWithdrawal", "request_withdrawal", <<"Address", "Address", "i128">>),
    SdkWrite("pool", "cancelWithdrawalRequest", "cancel_withdrawal_request",
        <<"Address", "Address">>),
    SdkWrite("pool", "drainWithdrawalQueue", "drain_withdrawal_queue", <<"Address", "Address">>)}

SdkPoolLending == {
    SdkQuery("pool", "getWithdrawalQueue", "get_withdrawal_queue", <<"Address">>),
    SdkWrite("pool", "repay", "repay_invoice", <<"u64", "Address", "i128">>),
    SdkWrite("pool", "fundInvoice", "fund_invoice",
        <<"Address", "u64", "i128", "Address", "u64", "Address">>),
    SdkWrite("pool", "fundInvoicesBatch", "fund_invoices_batch", <<"Address", "Vec<map>">>),
    SdkWrite("pool", "openCoFunding", "open_co_funding", <<"Address", "OpenCoFundingRequest">>)}

SdkPoolCoFunding == {
    SdkWrite("pool", "commitToInvoice", "commit_to_invoice", <<"Address", "u64", "i128">>),
    SdkWrite("pool", "finalizeCoFunding", "finalize_co_funding", <<"Address", "u64">>),
    SdkWrite("pool", "withdrawCommitment", "withdraw_co_funding_commitment", <<"Address", "u64">>),
    SdkWrite("pool", "transferCoFundShare", "transfer_co_fund_share",
        <<"Address", "u64", "Address", "Address", "u32">>),
    SdkQuery("pool", "getCoFundingRound", "get_co_funding_round", <<"u64">>),
    SdkQuery("pool", "listCoFundingRounds", "list_co_funding_rounds", <<>>),
    SdkQuery("pool", "getInvestorCoFundPositions", "get_investor_co_fund_positions", <<"Address">>),
    SdkQuery("pool", "getCoFundShare", "get_co_fund_share", <<"u64", "Address">>)}

SdkPoolRates == {
    SdkQuery("pool", "getCurrentRate", "get_current_rate", <<"Address">>),
    SdkQuery("pool", "getRateModelConfig", "get_rate_model_config", <<"Address">>),
    SdkQuery("pool", "getRateHistory", "get_rate_history", <<"Address", "u32">>),
    SdkQuery("pool", "previewRateAtUtilization", "preview_rate_at_utilization",
        <<"Address", "u32">>),
    SdkWrite("pool", "proposeRateModelChange", "propose_rate_model_change",
        <<"Address", "Address", "RateModelConfig">>),
    SdkWrite("pool", "executeRateModelChange", "execute_rate_model_change", <<"Address">>),
    SdkWrite("pool", "cancelRateModelChange", "cancel_rate_model_change", <<"Address", "Address">>),
    SdkQuery("pool", "getFundedInvoice", "get_funded_invoice", <<"u64">>),
    SdkQuery("pool", "getFundedInvoicesBatch", "get_funded_invoices_batch", <<"Vec<u64>">>),
    SdkQuery("pool", "getPoolTokenTotals", "get_pool_token_totals", <<"Address">>)}

SdkPoolCollateral == {
    SdkWrite("pool", "depositCollateral", "deposit_collateral",
        <<"u64", "Address", "Address", "i128">>),
    SdkWrite("pool", "topUpCollateral", "top_up_collateral",
        <<"u64", "Address", "Address", "i128">>),
    SdkQuery("pool", "getCollateralConfig", "get_collateral_config", <<>>),
    SdkWrite("pool", "setRiskContract", "set_risk_contract", <<"Address", "Address">>)}

SdkPoolListings == {
    SdkWrite("pool", "listPosition", "list_position",
        <<"Address", "u64", "ListingKind", "u64", "i128">>),
    SdkWrite("pool", "cancelListing", "cancel_listing", <<"Address", "u64">>),
    SdkWrite("pool", "buyListing", "buy_listing", <<"Address", "u64">>),
    SdkQuery("pool", "getListing", "get_listing", <<"u64">>),
    SdkQuery("pool", "listListingsForInvoice", "list_listings_for_invoice", <<"u64">>),
    SdkQuery("pool", "listListingsForInvestor", "list_listings_for_investor", <<"Address">>)}

SdkReferralAdmin == {
    SdkWrite("referral", "initialize", "initialize", <<"Address", "Address">>),
    SdkWrite("referral", "pause", "pause", <<"Address">>),
    SdkWrite("referral", "unpause", "unpause", <<"Address">>),
    SdkQuery("referral", "isPaused", "is_paused", <<>>),
    SdkWrite("referral", "setPool", "set_pool", <<"Address", "Address">>),
    SdkQuery("referral", "getPool", "get_pool", <<>>),
    SdkWrite("referral", "setBorrowRewardBps", "set_borrow_reward_bps", <<"Address", "u32">>),
    SdkWrite("referral", "setDepositRewardBps", "set_deposit_reward_bps", <<"Address", "u32">>),
    SdkWrite("referral", "setAccessControl", "set_access_control", <<"Address", "Address">>),
    SdkQuery("referral", "getAccessControl", "get_access_control", <<>>),
    SdkQuery("referral", "getBorrowRewardBps", "get_borrow_reward_bps", <<>>),
    SdkQuery("referral", "getDepositRewardBps", "get_deposit_reward_bps", <<>>)}

SdkReferral == {
    SdkWrite("referral", "register", "register", <<"Address", "Address">>),
    SdkQuery("referral", "getReferrer", "get_referrer", <<"Address">>),
    SdkWrite("referral", "recordActivity", "record_activity",
        <<"Address", "Address", "Symbol", "i128", "Address">>),
    SdkQuery("referral", "getPendingReward", "get_pending_reward", <<"Address", "Address">>),
    SdkWrite("referral", "claimRewards", "claim_rewards", <<"Address", "Address">>),
    SdkQuery("referral", "getStats", "get_stats", <<"Address">>),
    SdkQuery("referral", "getTopReferrers", "get_top_referrers", <<"u32">>)}

SdkSecondaryMarketListings == {
    SdkWrite("secondary_market", "listPosition", "list_position",
        <<"Address", "u64", "ListingKind", "u64", "i128">>),
    SdkWrite("secondary_market", "cancelListing", "cancel_listing", <<"Address", "u64">>),
    SdkWrite("secondary_market", "buyListing", "buy_listing", <<"Address", "u64">>),
    SdkQuery("secondary_market", "getListing", "get_listing", <<"u64">>),
    SdkQuery("secondary_market", "listListingsForInvoice", "list_listings_for_invoice", <<"u64">>),
    SdkQuery("secondary_market", "listListingsForInvestor", "list_listings_for_investor",
        <<"Address">>)}

SdkSecondaryMarketOrders == {
    SdkWrite("secondary_market", "placeOrder", "place_order", <<"Address", "PlaceOrderRequest">>),
    SdkWrite("secondary_market", "cancelOrder", "cancel_order", <<"Address", "u64">>),
    SdkWrite("secondary_market", "expireOrder", "expire_order", <<"u64">>),
    SdkQuery("secondary_market", "getOrder", "get_order", <<"u64">>),
    SdkQuery("secondary_market", "getOrderBook", "get_order_book", <<"u64", "ListingKind">>),
    SdkQuery("secondary_market", "listOrdersForOwner", "list_orders_for_owner", <<"Address">>),
    SdkQuery("secondary_market", "estimateWithdrawalWait", "estimate_withdrawal_wait",
        <<"Address", "Address">>),
    SdkQuery("secondary_market", "getLiquidityForecast", "get_liquidity_forecast",
        <<"Address", "u32">>)}

SdkShareReads == {
    SdkQuery("share", "balance", "balance", <<"Address">>),
    SdkQuery("share", "balanceAt", "balance_at", <<"Address", "u64">>),
    SdkQuery("share", "totalSupply", "total_supply", <<>>),
    SdkQuery("share", "allowance", "allowance", <<"Address", "Address">>),
    SdkQuery("share", "getAllowanceExpiration", "get_allowance_expiration",
        <<"Address", "Address">>),
    SdkQuery("share", "decimals", "decimals", <<>>),
    SdkQuery("share", "name", "name", <<>>),
    SdkQuery("share", "symbol", "symbol", <<>>),
    SdkQuery("share", "isPaused", "is_paused", <<>>),
    SdkQuery("share", "admin", "admin", <<>>)}

SdkShareWrites == {
    SdkWrite("share", "transfer", "transfer", <<"Address", "Address", "i128">>),
    SdkWrite("share", "transferFrom", "transfer_from", <<"Address", "Address", "Address", "i128">>),
    SdkWrite("share", "approve", "approve", <<"Address", "Address", "i128", "u32">>),
    SdkWrite("share", "increaseAllowance", "increase_allowance", <<"Address", "Address", "i128">>),
    SdkWrite("share", "decreaseAllowance", "decrease_allowance", <<"Address", "Address", "i128">>),
    SdkWrite("share", "burn", "burn", <<"Address", "i128">>),
    SdkWrite("share", "burnFrom", "burn_from", <<"Address", "Address", "i128">>)}

SdkShareAdmin == {
    SdkWrite("share", "initialize", "initialize", <<"Address", "u32", "String", "String">>),
    SdkWrite("share", "mint", "mint", <<"Address", "i128">>),
    SdkWrite("share", "pause", "pause", <<"Address">>),
    SdkWrite("share", "unpause", "unpause", <<"Address">>),
    SdkWrite("share", "setAdmin", "set_admin", <<"Address">>)}

SdkTrancheReads == {
    SdkQuery("tranche", "getPool", "get_pool", <<"Address">>),
    SdkQuery("tranche", "getTrancheConfig", "get_config", <<"Address">>),
    SdkQuery("tranche", "getInvestorPosition", "get_position",
        <<"Address", "Address", "TrancheClass">>),
    SdkQuery("tranche", "getTotals", "get_totals", <<"Address", "TrancheClass">>),
    SdkQuery("tranche", "getLifetimeReturnBps", "get_lifetime_return_bps",
        <<"Address", "TrancheClass">>),
    SdkQuery("tranche", "getInvoiceExposure", "get_invoice_exposure", <<"u64">>),
    SdkQuery("tranche", "simulateWaterfall", "simulate_waterfall",
        <<"Address", "u64", "i128", "u64">>)}

SdkTrancheWrites == {
    SdkWrite("tranche", "deposit", "deposit_tranche",
        <<"Address", "Address", "TrancheClass", "i128">>),
    SdkWrite("tranche", "withdraw", "withdraw_tranche",
        <<"Address", "Address", "TrancheClass", "i128">>),
    SdkWrite("tranche", "setTrancheConfig", "set_tranche_config",
        <<"Address", "Address", "u32", "u32", "u32">>)}

\* actionPayloadToScVal of the access control client.
SdkPayloads == [
    SetPaused |-> <<"bool">>, SetYield |-> <<"u32">>, SetTreasury |-> <<"Address">>,
    WithdrawRevenue |-> <<"Address", "i128">>, SetOracleContract |-> <<"Address">>,
    SetKycRequired |-> <<"bool">>, SetInvestorKyc |-> <<"Address", "bool">>,
    SetMaxUtilization |-> <<"u32">>, SetOracle |-> <<"Address">>,
    RegisterDebtor |-> <<"String", "String", "i128">>, DeactivateDebtor |-> <<"String">>,
    AddKeeper |-> <<"Address">>, SetLateThreshold |-> <<"i64">>,
    SetScoreThresholds |-> <<"u32", "u32", "u32", "u32">>,
    RegisterAttestor |-> <<"Address", "u32", "u32">>,
    SetOracleRegistryInvoiceContract |-> <<"Address">>,
    SetOracleRegistryTreasury |-> <<"Option<Address>">>,
    SetOracleRegistryConfig |-> <<"i128", "u32", "u32", "u64", "u64">>,
    SetOracleRegistryPaused |-> <<"bool">>, SlashOracle |-> <<"Address", "u32", "u64", "String">>,
    AdminResolveRound |-> <<"u64", "bool", "String">>, SetCompliancePaused |-> <<"bool">>,
    RegisterScreener |-> <<"Address">>, ConfirmScreenerRegistration |-> <<"Address">>,
    DeregisterScreener |-> <<"Address">>, SetRescreeningInterval |-> <<"u64">>,
    SetScreenerTimelock |-> <<"u64">>, UpdateGovernanceConfig |-> <<"u32", "u32">>,
    SetCategoryQuorum |-> <<"u32", "u32">>, SetReferralPaused |-> <<"bool">>,
    SetReferralPool |-> <<"Address">>, SetBorrowRewardBps |-> <<"u32">>,
    SetDepositRewardBps |-> <<"u32">>, SetInvoiceAccessControl |-> <<"Address">>,
    SetCreditScoreAccessControl |-> <<"Address">>, SetOracleRegistryAccessControl |-> <<"Address">>,
    SetComplianceAccessControl |-> <<"Address">>, SetGovernanceAccessControl |-> <<"Address">>,
    SetReferralAccessControl |-> <<"Address">>, AddSigner |-> <<"Role", "Address">>,
    RemoveSigner |-> <<"Role", "Address">>, SetThreshold |-> <<"Role", "u32">>]

SdkRows ==
    UNION {SdkAccessControlReads, SdkAccessControlWrites, SdkArbitrationWrites,
           SdkArbitrationReads, SdkAuctionRisk, SdkAuctionSales, SdkCompliance,
           SdkCreditScoreReads, SdkCreditScoreWrites, SdkGovernance, SdkGovernanceDelay,
           SdkInsuranceCover, SdkInsuranceAdmin, SdkInvoice, SdkOracleRegistry,
           SdkPoolInvestors, SdkPoolLending, SdkPoolCoFunding, SdkPoolRates,
           SdkPoolCollateral, SdkPoolListings, SdkReferralAdmin, SdkReferral,
           SdkSecondaryMarketListings, SdkSecondaryMarketOrders, SdkShareReads,
           SdkShareWrites, SdkShareAdmin, SdkTrancheReads, SdkTrancheWrites}

\* The functions of each client that AsteraClient exposes.
FacadeInvoice == [on |-> "invoice", fns |-> {
    "getInvoice", "getMetadata", "createInvoice", "verifyInvoice"}]
FacadePoolLending == [on |-> "pool", fns |-> {
    "getConfig", "getPosition", "deposit", "requestWithdrawal", "cancelWithdrawalRequest",
    "drainWithdrawalQueue", "getWithdrawalQueue", "repay", "fundInvoice", "getFundedInvoice",
    "getPoolTokenTotals", "openCoFunding", "commitToInvoice", "finalizeCoFunding"}]
FacadePoolMarkets == [on |-> "pool", fns |-> {
    "withdrawCommitment", "transferCoFundShare", "getCoFundingRound", "listCoFundingRounds",
    "getInvestorCoFundPositions", "getCoFundShare", "getCurrentRate", "getRateModelConfig",
    "getRateHistory", "previewRateAtUtilization", "depositCollateral", "topUpCollateral",
    "getCollateralConfig", "getCollateralDeposit", "setRiskContract"}]
FacadeAuction == [on |-> "auction", fns |-> {
    "getPoolContract", "setCollateralRiskConfig", "getCollateralRiskConfig",
    "getLiveCollateralRatio", "getAtRiskSince", "checkCollateralRisk", "liquidateCollateral",
    "getSale", "currentSalePrice", "takeCollateralSale", "reclaimExpiredSale"}]
FacadeSecondaryMarket == [on |-> "secondary_market", fns |-> {
    "listPosition", "cancelListing", "buyListing", "getListing", "listListingsForInvoice",
    "listListingsForInvestor", "estimateWithdrawalWait", "getLiquidityForecast"}]
FacadeCreditScore == [on |-> "credit_score", fns |-> {
    "getCreditScore"}]
FacadeOracleRegistry == [on |-> "oracle_registry", fns |-> {
    "getRound", "getOracleInfo", "getRegistryConfig", "openRound", "register", "vote"}]
FacadeCompliance == [on |-> "compliance", fns |-> {
    "isCleared", "getRecord", "getHistory", "listFlagged", "listPendingReview",
    "submitScreeningResult", "requestReview"}]
FacadeTranche == [on |-> "tranche", fns |-> {
    "getPool", "getTrancheConfig", "getTotals", "getInvestorPosition",
    "getLifetimeReturnBps", "getInvoiceExposure", "simulateWaterfall", "deposit", "withdraw",
    "setTrancheConfig"}]
FacadeAccessControl == [on |-> "access_control", fns |-> {
    "getRoleConfig", "isSigner", "getProposal", "listProposals", "proposeAction",
    "approveAction", "revokeApproval", "rejectAction", "executeAction"}]
FacadeInsurance == [on |-> "insurance", fns |-> {
    "estimatePremium", "purchaseCoverage", "fileClaim", "getReserveStatus",
    "getCoverageRecord", "getClaimHistory", "checkReserveHealth", "getPremiumConfig",
    "getMinReserveAmount", "setPremiumConfig", "setMinCoverageRatio", "setMinReserveAmount",
    "fundReserveFromTreasury", "setCreditScoreContract"}]

Facade == {FacadeInvoice, FacadePoolLending, FacadePoolMarkets, FacadeAuction,
           FacadeSecondaryMarket, FacadeCreditScore, FacadeOracleRegistry,
           FacadeCompliance, FacadeTranche, FacadeAccessControl, FacadeInsurance}
OnFacade(row) == \E part \in Facade : row.on = part.on /\ row.fn \in part.fns
=============================================================================
