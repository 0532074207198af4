-------------------------- MODULE FrontendBindings --------------------------
(***************************************************************************)
(* frontend/lib/contracts.ts: one row for every contract call a function   *)
(* makes.  A row keeps what decides whether the call can work: the         *)
(* contract, the entry point, the types of the arguments as the code       *)
(* encodes them, the account the transaction is built from, the checks the *)
(* function makes before it goes to the network, and which failures it     *)
(* turns into a default answer (null, an empty list, zero).  How an answer *)
(* is decoded into the page's types is left out.                           *)
(***************************************************************************)
EXTENDS Sequences

\* Failures a function absorbs: a try/catch takes both, a test of
\* isSimulationError only what the simulation reports.
Both == {"rpc", "simulation"}
SimulationOnly == {"simulation"}

Row(f, c, m, a) ==
    [fn |-> f, side |-> "frontend", kind |-> "read", on |-> c, method |-> m, args |-> a,
     source |-> "placeholder", checks |-> {}, absorbs |-> {}]

\* simulateTx from the hard-coded placeholder account.
Read(f, c, m, a) == Row(f, c, m, a)
ReadOr(f, c, m, a, absorbed) == [Row(f, c, m, a) EXCEPT !.absorbs = absorbed]
\* simulateTx from the address the caller passes.
WalletRead(f, c, m, a) == [Row(f, c, m, a) EXCEPT !.source = "wallet"]
WalletReadOr(f, c, m, a, absorbed) == [WalletRead(f, c, m, a) EXCEPT !.absorbs = absorbed]
\* A build...Tx function: account, simulation, assembled XDR for the wallet.
Write(f, c, m, a) == [WalletRead(f, c, m, a) EXCEPT !.kind = "write"]
CheckedWrite(f, c, m, a, checked) == [Write(f, c, m, a) EXCEPT !.checks = checked]
\* A function that looks first whether the contract's address is configured.
WhenConfigured(row, otherwise) == [row EXCEPT !.checks = @ \cup {otherwise}]

InvoiceReads == {
    Read("getInvoice", "invoice", "get_invoice", <<"u64">>),
    Read("getMultipleInvoices", "invoice", "get_invoice", <<"u64">>),
    Read("getInvoiceMetadata", "invoice", "get_metadata", <<"u64">>),
    Read("getInvoiceCount", "invoice", "get_invoice_count", <<>>),
    Read("getMaxInvoiceAmount", "invoice", "get_max_invoice_amount", <<>>),
    Read("isInvoicePrivate", "invoice", "is_invoice_private", <<"u64">>)}

InvoiceWrites == {
    CheckedWrite("buildCreateInvoiceTx", "invoice", "create_invoice_with_metadata",
        <<"Address", "String", "i128", "u64", "String", "String", "Option<String>">>, {"inputs"}),
    Write("buildRenewInvoiceTtlTx", "invoice", "renew_ttl", <<"u64">>)}

PoolReads == {
    Read("getPoolConfig", "pool", "get_config", <<>>),
    Read("estimateWithdrawalWait", "secondary_market", "estimate_withdrawal_wait",
        <<"Address", "Address">>),
    Read("getWithdrawalQueue", "pool", "get_withdrawal_queue", <<"Address">>),
    Read("getLiquidityForecast", "secondary_market", "get_liquidity_forecast",
        <<"Address", "u32">>)}

ListingWrites == {
    Write("buildListPositionTx", "secondary_market", "list_position",
        <<"Address", "u64", "ListingKind", "u64", "i128">>),
    Write("buildCancelListingTx", "secondary_market", "cancel_listing", <<"Address", "u64">>),
    Write("buildBuyListingTx", "secondary_market", "buy_listing", <<"Address", "u64">>)}

ListingReads == {
    Read("getListing", "secondary_market", "get_listing", <<"u64">>),
    Read("listListingsForInvoice", "secondary_market", "list_listings_for_invoice", <<"u64">>),
    Read("listListingsForInvestor", "secondary_market", "list_listings_for_investor",
        <<"Address">>)}

OrderWrites == {
    Write("buildPlaceOrderTx", "secondary_market", "place_order",
        <<"Address", "PlaceOrderRequest">>),
    Write("buildCancelOrderTx", "secondary_market", "cancel_order", <<"Address", "u64">>),
    Write("buildExpireOrderTx", "secondary_market", "expire_order", <<"u64">>)}

OrderReads == {
    Read("getOrder", "secondary_market", "get_order", <<"u64">>),
    Read("getOrderBook", "secondary_market", "get_order_book", <<"u64", "ListingKind">>),
    Read("listOrdersForOwner", "secondary_market", "list_orders_for_owner", <<"Address">>)}

TokenReads == {
    Read("getAcceptedTokens", "pool", "accepted_tokens", <<>>),
    Read("getAssetPrice", "pool", "get_asset_price", <<"Address">>),
    Read("getPoolTokenTotals", "pool", "get_token_totals", <<"Address">>),
    Read("getPoolBalance", "pool", "get_pool_balance", <<"Address">>),
    ReadOr("getTreasuryAddress", "pool", "get_treasury", <<>>, Both),
    Read("getProtocolRevenue", "pool", "get_protocol_revenue", <<"Address">>)}

PositionReads == {
    Read("getTokenBalanceOf", "share", "balance", <<"Address">>),
    Read("getTokenDepositCap", "pool", "get_token_deposit_cap", <<"Address">>),
    Read("getInvestorPosition", "pool", "get_position", <<"Address", "Address">>)}

DepositCalls == {
    CheckedWrite("buildDepositTx", "pool", "deposit",
        <<"Address", "Address", "i128">>, {"balance"}),
    Write("buildClaimYieldTx", "pool", "claim_yield", <<"Address", "Address">>),
    Read("getFundedInvoice", "pool", "get_funded_invoice", <<"u64">>)}

CoFundingCommits == {
    Write("buildOpenCoFundingTx", "pool", "open_co_funding", <<"Address", "OpenCoFundingRequest">>),
    CheckedWrite("buildCommitToInvoiceTx", "pool", "commit_to_invoice",
        <<"Address", "u64", "i128">>, {"balance"})}

CoFundingWrites == {
    Write("buildFinalizeCoFundingTx", "pool", "finalize_co_funding", <<"Address", "u64">>),
    Write("buildWithdrawCoFundingCommitmentTx", "pool", "withdraw_co_funding_commitment",
        <<"Address", "u64">>),
    Write("buildCancelCoFundingRoundTx", "pool", "cancel_co_funding_round", <<"Address", "u64">>),
    Write("buildTransferCoFundShareTx", "pool", "transfer_co_fund_share",
        <<"Address", "u64", "Address", "Address", "u32">>)}

CoFundingReads == {
    Read("getCoFundingRound", "pool", "get_co_funding_round", <<"u64">>),
    Read("listCoFundingRounds", "pool", "list_co_funding_rounds", <<>>),
    Read("getInvestorCoFundPositions", "pool", "get_investor_co_fund_positions", <<"Address">>),
    Read("getCoFundShare", "pool", "get_co_fund_share", <<"u64", "Address">>)}

\* Mutant: buildRepayTx passes the payer before the invoice id.
RepayPayerFirst == {
    Write("buildRepayTx", "pool", "repay_invoice", <<"Address", "u64", "i128">>)}

RepayWithdrawWrites == {
    Write("buildRepayTx", "pool", "repay_invoice", <<"u64", "Address", "i128">>),
    Write("buildWithdrawTx", "pool", "withdraw", <<"Address", "Address", "i128">>),
    Write("buildRequestWithdrawalTx", "pool", "request_withdrawal",
        <<"Address", "Address", "i128">>),
    Write("buildCancelWithdrawalRequestTx", "pool", "cancel_withdrawal_request",
        <<"Address", "Address">>)}

QueueYieldWrites == {
    Write("buildDrainWithdrawalQueueTx", "pool", "drain_withdrawal_queue",
        <<"Address", "Address">>),
    Write("buildSetYieldTx", "pool", "set_yield", <<"Address", "u32">>)}

RateModelReads == {
    ReadOr("getCurrentRate", "pool", "get_current_rate", <<"Address">>, SimulationOnly),
    ReadOr("getRateModelConfig", "pool", "get_rate_model_config", <<"Address">>, SimulationOnly),
    ReadOr("getRateHistory", "pool", "get_rate_history", <<"Address", "u32">>, SimulationOnly),
    ReadOr("previewRateAtUtilization", "pool", "preview_rate_at_utilization",
        <<"Address", "u32">>, SimulationOnly)}

RateModelWrites == {
    Write("buildProposeRateModelTx", "pool", "propose_rate_model_change",
        <<"Address", "Address", "RateModelConfig">>),
    Write("buildExecuteRateModelTx", "pool", "execute_rate_model_change", <<"Address">>),
    Write("buildCancelRateModelTx", "pool", "cancel_rate_model_change", <<"Address", "Address">>),
    Write("buildSetFactoringFeeTx", "pool", "set_factoring_fee", <<"Address", "u32">>)}

InvoiceAdminCalls == {
    Write("buildMarkDefaultedTx", "invoice", "mark_defaulted", <<"u64", "Address">>),
    Read("isProtocolPaused", "invoice", "is_paused", <<>>),
    Write("buildPauseProtocolTx", "invoice", "pause", <<"Address">>),
    Write("buildUnpauseProtocolTx", "invoice", "unpause", <<"Address">>),
    Write("buildDisputeTx", "invoice", "verify_invoice",
        <<"u64", "Address", "bool", "String", "String">>),
    Write("buildSetInvoicePrivateTx", "invoice", "set_invoice_private",
        <<"u64", "Address", "bool">>)}

KycReads == {
    ReadOr("fetchKycInvestors", "pool", "get_investor_kyc", <<"Address">>, Both),
    Read("getKycRequired", "pool", "kyc_required", <<>>),
    Read("getInvestorKyc", "pool", "get_investor_kyc", <<"Address">>)}

KycWrites == {
    Write("buildSetKycRequiredTx", "pool", "set_kyc_required", <<"Address", "bool">>),
    Write("buildSetInvestorKycTx", "pool", "set_investor_kyc", <<"Address", "Address", "bool">>),
    Read("getExchangeRate", "pool", "get_exchange_rate", <<"Address">>),
    Write("buildSetExchangeRateTx", "pool", "set_exchange_rate", <<"Address", "Address", "u32">>)}

InvestorPositionReads == {
    ReadOr("fetchInvestorPosition", "pool", "get_position", <<"Address", "Address">>, Both)}

CollateralReads == {
    Read("getCollateralConfig", "pool", "get_collateral_config", <<>>),
    Read("getCollateralDeposit", "pool", "get_collateral_deposit", <<"u64">>),
    Read("getAtRiskSince", "auction", "get_at_risk_since", <<"u64">>),
    Read("getLiveCollateralRatio", "auction", "get_live_collateral_ratio", <<"u64">>),
    Read("getCollateralRiskConfig", "auction", "get_collateral_risk_config", <<>>)}

CollateralWrites == {
    Write("buildDepositCollateralTx", "pool", "deposit_collateral",
        <<"u64", "Address", "Address", "i128">>),
    Write("buildTopUpCollateralTx", "pool", "top_up_collateral",
        <<"u64", "Address", "Address", "i128">>),
    Write("buildCheckCollateralRiskTx", "auction", "check_collateral_risk", <<"Address", "u64">>),
    Write("buildLiquidateCollateralTx", "auction", "liquidate_collateral", <<"Address", "u64">>)}

CreditScoreReads == {
    WhenConfigured(WalletReadOr("getCreditScoreStatus", "credit_score", "get_credit_score",
        <<"Address">>, Both), "idOrDefault"),
    WhenConfigured(WalletReadOr("getFullCreditScore", "credit_score", "get_credit_score",
        <<"Address">>, Both), "idOrDefault")}

AttestationReads == {
    Read("getAttestation", "credit_score", "get_attestation", <<"u64">>),
    WalletRead("listSmeAttestations", "credit_score", "list_sme_attestations", <<"Address">>),
    WalletRead("getAttestorInfo", "credit_score", "get_attestor_info", <<"Address">>),
    Read("listActiveAttestors", "credit_score", "list_active_attestors", <<>>),
    WalletRead("simulateScoreWithAttestations", "credit_score", "simulate_score_with_attestations",
        <<"Address", "Vec<(u32, u32)>">>)}

AttestorWrites == {
    Write("buildRegisterAttestorTx", "credit_score", "register_attestor",
        <<"Address", "Address", "AttestorType", "u32">>),
    Write("buildDeactivateAttestorTx", "credit_score", "deactivate_attestor",
        <<"Address", "Address">>),
    Write("buildSubmitAttestationTx", "credit_score", "submit_attestation",
        <<"Address", "Address", "AttestorType", "u32", "String", "u64">>),
    Write("buildDisputeAttestationTx", "credit_score", "dispute_attestation",
        <<"Address", "u64", "String">>),
    Write("buildResolveAttestationDisputeTx", "credit_score", "resolve_attestation_dispute",
        <<"Address", "u64", "bool">>)}

GovernanceReads == {
    WhenConfigured(ReadOr("getGovernanceConfig", "governance", "get_config",
        <<>>, Both), "idOrDefault"),
    WalletReadOr("getShareBalance", "share", "balance", <<"Address">>, Both),
    WhenConfigured(Read("listGovernanceProposals", "governance", "list_proposals",
        <<>>), "idOrDefault")}

GovernanceWrites == {
    Write("buildCreateProposalTx", "governance", "create_proposal",
        <<"String", "Address", "String", "String">>),
    Write("buildVoteProposalTx", "governance", "vote", <<"u64", "bool">>),
    Write("buildExecuteProposalTx", "governance", "execute_proposal", <<"u64">>),
    Write("buildCancelProposalTx", "governance", "cancel_proposal", <<"u64">>)}

OracleCalls == {
    Read("getRegistryConfig", "oracle_registry", "get_registry_config", <<>>),
    Read("listActiveOracles", "oracle_registry", "list_active_oracles", <<>>),
    Read("getOracleInfo", "oracle_registry", "get_oracle_info", <<"Address">>),
    Read("getVerificationRound", "oracle_registry", "get_verification_round", <<"u64">>),
    Write("buildAdminResolveRoundTx", "oracle_registry", "admin_resolve_round",
        <<"Address", "u64", "bool", "String">>),
    Write("buildSlashOracleTx", "oracle_registry", "slash_oracle", <<"Address", "Address", "u32">>)}

DisputeCalls == {
    Write("buildRaiseDisputeTx", "invoice", "raise_dispute",
        <<"u64", "Address", "String", "Address">>),
    Read("getDispute", "invoice", "get_dispute", <<"u64">>),
    Read("getArbitrationCase", "arbitration", "get_case", <<"u64">>),
    Read("getArbitrationCaseByInvoice", "arbitration", "get_case_by_invoice", <<"u64">>)}

ArbitrationReads == {
    Read("getArbitrationEvidence", "arbitration", "get_evidence", <<"u64">>),
    Read("getJurorInfo", "arbitration", "get_juror", <<"Address">>),
    Read("listActiveJurors", "arbitration", "list_active_jurors", <<>>),
    Read("getJurorCases", "arbitration", "get_juror_cases", <<"Address">>),
    Read("getJurorVoteStatus", "arbitration", "get_vote", <<"u64", "Address">>),
    Read("getArbitrationConfig", "arbitration", "get_config", <<>>)}

JurorWrites == {
    Write("buildSubmitEvidenceTx", "arbitration", "submit_evidence",
        <<"u64", "Address", "String">>),
    Write("buildRegisterJurorTx", "arbitration", "register_juror", <<"Address", "i128">>),
    Write("buildDeregisterJurorTx", "arbitration", "deregister_juror", <<"Address">>),
    Write("buildSelectJurorsTx", "arbitration", "select_jurors", <<"u64">>),
    Write("buildCommitVoteTx", "arbitration", "commit_vote", <<"u64", "Address", "BytesN<32>">>),
    Write("buildRevealVoteTx", "arbitration", "reveal_vote",
        <<"u64", "Address", "bool", "BytesN<32>">>)}

CaseWrites == {
    Write("buildFinalizeCaseTx", "arbitration", "finalize_case", <<"u64">>),
    Write("buildAdminResolveNoQuorumTx", "arbitration", "admin_resolve_no_quorum",
        <<"Address", "u64", "DisputeResolution">>)}

ComplianceCalls == {
    WhenConfigured(Read("getComplianceIsCleared", "compliance", "is_cleared",
        <<"Address">>), "idOrThrow"),
    WhenConfigured(Read("getComplianceRecord", "compliance", "get_compliance_record",
        <<"Address">>), "idOrThrow"),
    WhenConfigured(Read("getComplianceHistory", "compliance", "get_screening_history",
        <<"Address">>), "idOrThrow"),
    WhenConfigured(Read("listComplianceFlagged", "compliance", "list_flagged", <<>>), "idOrThrow"),
    WhenConfigured(Read("listCompliancePendingReview", "compliance", "list_pending_review",
        <<>>), "idOrThrow"),
    WhenConfigured(Write("buildSubmitScreeningResultTx", "compliance", "submit_screening_result",
        <<"Address", "Address", "ComplianceStatus", "u32", "RiskTier", "u64", "String">>), "idOrThrow")}

ReferralCalls == {
    Read("getReferrer", "referral", "get_referrer", <<"Address">>),
    Read("getReferralStats", "referral", "get_stats", <<"Address">>),
    Write("buildRegisterReferralTx", "referral", "register", <<"Address", "Address">>)}

TrancheCalls == {
    Read("getTranchePool", "tranche", "get_pool", <<"Address">>),
    Read("getTrancheInvestorPosition", "tranche", "get_position",
        <<"Address", "Address", "TrancheClass">>),
    Write("buildTrancheDepositTx", "tranche", "deposit_tranche",
        <<"Address", "Address", "TrancheClass", "i128">>),
    Write("buildSetTrancheConfigTx", "tranche", "set_tranche_config",
        <<"Address", "Address", "u32", "u32", "u32">>)}

InsuranceReads == {
    Read("estimateInsurancePremium", "insurance", "estimate_premium",
        <<"i128", "Address", "u32", "Address">>),
    Read("getCoverageRecord", "insurance", "get_coverage_record", <<"u64">>),
    Read("getClaimHistory", "insurance", "get_claim_history", <<"u64">>),
    Read("getReserveStatus", "insurance", "get_reserve_status", <<"Address">>),
    Read("checkReserveHealth", "insurance", "check_reserve_health", <<"Address">>),
    Read("getPremiumConfig", "insurance", "get_premium_config", <<>>),
    Read("getMinReserveAmount", "insurance", "get_min_reserve_amount", <<"Address">>),
    Read("getInsuranceContractLink", "pool", "get_insurance_contract", <<>>)}

InsuranceWrites == {
    Write("buildPurchaseCoverageTx", "insurance", "purchase_coverage",
        <<"Address", "u64", "i128", "Address", "u64", "Address">>),
    Write("buildFileClaimTx", "insurance", "file_claim", <<"Address", "u64">>),
    Write("buildSetPremiumConfigTx", "insurance", "set_premium_config",
        <<"Address", "PremiumConfig">>),
    Write("buildSetMinCoverageRatioTx", "insurance", "set_min_coverage_ratio",
        <<"Address", "Address", "u32">>),
    Write("buildSetMinReserveAmountTx", "insurance", "set_min_reserve_amount",
        <<"Address", "Address", "i128">>),
    Write("buildFundReserveFromTreasuryTx", "insurance", "fund_reserve_from_treasury",
        <<"Address", "Address", "i128">>)}

InsuranceLinkWrites == {
    Write("buildSetInsuranceContractTx", "pool", "set_insurance_contract",
        <<"Address", "Address">>)}

RoleReads == {
    Read("getRoleConfig", "access_control", "get_role_config", <<"Role">>),
    Read("listAllRoleConfigs", "access_control", "get_role_config", <<"Role">>),
    Read("isRoleSigner", "access_control", "is_signer", <<"Role", "Address">>),
    Read("getProposal", "access_control", "get_proposal", <<"u64">>),
    Read("getNextProposalId", "access_control", "get_next_proposal_id", <<>>),
    WhenConfigured(Read("listProposals", "access_control", "get_proposal",
        <<"u64">>), "idOrDefault")}

RoleWrites == {
    Write("buildProposeActionTx", "access_control", "propose_action",
        <<"Role", "Address", "Address", "ActionPayload">>),
    Write("buildApproveActionTx", "access_control", "approve_action", <<"Address", "u64">>),
    Write("buildRejectActionTx", "access_control", "reject_action", <<"Address", "u64">>),
    Write("buildRevokeApprovalTx", "access_control", "revoke_approval", <<"Address", "u64">>),
    Write("buildExecuteActionTx", "access_control", "execute_action", <<"Address", "u64">>)}

\* actionPayloadToScVal: variant and the types it is encoded with.
FrontendPayloads == [
    SetPaused |-> <<"bool">>, SetYield |-> <<"u32">>, SetTreasury |-> <<"Address">>,
    WithdrawRevenue |-> <<"Address", "i128">>, SetOracleContract |-> <<"Address">>,
    SetKycRequired |-> <<"bool">>, SetInvestorKyc |-> <<"Address", "bool">>,
    SetMaxUtilization |-> <<"u32">>, SetOracle |-> <<"Address">>,
    RegisterDebtor |-> <<"String", "String", "i128">>, DeactivateDebtor |-> <<"String">>,
    AddKeeper |-> <<"Address">>, SetLateThreshold |-> <<"i64">>,
    SetScoreThresholds |-> <<"u32", "u32", "u32", "u32">>,
    RegisterAttestor |-> <<"Address", "u32", "u32">>,
    SetOracleRegistryInvoiceContract |-> <<"Address">>,
    SetOracleRegistryTreasury |-> <<"Option<Address>">>,
    SetOracleRegistryConfig |-> <<"i128", "u32", "u32", "u64", "u64">>,
    SetOracleRegistryPaused |-> <<"bool">>, SlashOracle |-> <<"Address", "u32", "u64", "String">>,
    AdminResolveRound |-> <<"u64", "bool", "String">>, SetCompliancePaused |-> <<"bool">>,
    RegisterScreener |-> <<"Address">>, ConfirmScreenerRegistration |-> <<"Address">>,
    DeregisterScreener |-> <<"Address">>, SetRescreeningInterval |-> <<"u64">>,
    SetScreenerTimelock |-> <<"u64">>, UpdateGovernanceConfig |-> <<"u32", "u32", "u64">>,
    SetCategoryQuorum |-> <<"u32", "u32">>, SetReferralPaused |-> <<"bool">>,
    SetReferralPool |-> <<"Address">>, SetBorrowRewardBps |-> <<"u32">>,
    SetDepositRewardBps |-> <<"u32">>, SetInvoiceAccessControl |-> <<"Address">>,
    SetCreditScoreAccessControl |-> <<"Address">>, SetOracleRegistryAccessControl |-> <<"Address">>,
    SetComplianceAccessControl |-> <<"Address">>, SetGovernanceAccessControl |-> <<"Address">>,
    SetReferralAccessControl |-> <<"Address">>, AddSigner |-> <<"Role", "Address">>,
    RemoveSigner |-> <<"Role", "Address">>, SetThreshold |-> <<"Role", "u32">>]

FrontendRows ==
    UNION {InvoiceReads, InvoiceWrites, PoolReads, ListingWrites, ListingReads,
           OrderWrites, OrderReads, TokenReads, PositionReads, DepositCalls,
           CoFundingCommits, CoFundingWrites, CoFundingReads, RepayWithdrawWrites,
           QueueYieldWrites, RateModelReads, RateModelWrites, InvoiceAdminCalls, KycReads,
           KycWrites, InvestorPositionReads, CollateralReads, CollateralWrites,
           CreditScoreReads, AttestationReads, AttestorWrites, GovernanceReads,
           GovernanceWrites, OracleCalls, DisputeCalls, ArbitrationReads, JurorWrites,
           CaseWrites, ComplianceCalls, ReferralCalls, TrancheCalls, InsuranceReads,
           InsuranceWrites, InsuranceLinkWrites, RoleReads, RoleWrites}
=============================================================================
