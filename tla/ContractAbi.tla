---------------------------- MODULE ContractAbi -----------------------------
(***************************************************************************)
(* What the contracts accept: for every entry point some client names and  *)
(* the contract has, the types of its arguments in order (Env left out).   *)
(* An entry point that is missing here does not exist in the contract.     *)
(* The tagged payloads of access_control's proposals are in ActionPayload. *)
(***************************************************************************)
EXTENDS Sequences

\* contracts/access_control
AccessControlAbi == [
    approve_action |-> <<"Address", "u64">>, execute_action |-> <<"Address", "u64">>,
    get_next_proposal_id |-> <<>>, get_proposal |-> <<"u64">>, get_role_config |-> <<"Role">>,
    initialize |-> <<"Vec<Address>", "u32", "u64", "u64">>, is_signer |-> <<"Role", "Address">>,
    propose_action |-> <<"Role", "Address", "Address", "ActionPayload">>,
    reject_action |-> <<"Address", "u64">>, revoke_approval |-> <<"Address", "u64">>]

\* contracts/arbitration
ArbitrationAbi == [
    admin_resolve_no_quorum |-> <<"Address", "u64", "DisputeResolution">>,
    commit_vote |-> <<"u64", "Address", "BytesN<32>">>, deregister_juror |-> <<"Address">>,
    finalize_case |-> <<"u64">>, get_case |-> <<"u64">>, get_case_by_invoice |-> <<"u64">>,
    get_config |-> <<>>, get_evidence |-> <<"u64">>, get_juror |-> <<"Address">>,
    get_juror_cases |-> <<"Address">>, get_vote |-> <<"u64", "Address">>, list_active_jurors |-> <<>>,
    register_juror |-> <<"Address", "i128">>,
    reveal_vote |-> <<"u64", "Address", "bool", "BytesN<32>">>, select_jurors |-> <<"u64">>,
    submit_evidence |-> <<"u64", "Address", "String">>]

\* contracts/auction
AuctionAbi == [
    check_collateral_risk |-> <<"Address", "u64">>, current_sale_price |-> <<"u64">>,
    get_at_risk_since |-> <<"u64">>, get_collateral_risk_config |-> <<>>,
    get_live_collateral_ratio |-> <<"u64">>, get_pool_contract |-> <<>>, get_sale |-> <<"u64">>,
    initialize |-> <<"Address", "Address">>, liquidate_collateral |-> <<"Address", "u64">>,
    open_collateral_sale |-> <<"CollateralSaleParams">>, reclaim_expired_sale |-> <<"Address", "u64">>,
    set_collateral_risk_config |-> <<"Address", "u32", "u64">>,
    take_collateral_sale |-> <<"Address", "u64">>]

\* contracts/compliance
ComplianceAbi == [
    get_compliance_record |-> <<"Address">>, get_screening_history |-> <<"Address">>,
    is_cleared |-> <<"Address">>, list_flagged |-> <<>>, list_pending_review |-> <<>>,
    request_review |-> <<"Address", "Address", "String">>,
    submit_screening_result |-> <<"Address", "Address", "ComplianceStatus", "u32", "RiskTier", "u64", "String">>]

\* contracts/credit_score
CreditScoreAbi == [
    deactivate_attestor |-> <<"Address", "Address">>,
    dispute_attestation |-> <<"Address", "u64", "String">>, get_attestation |-> <<"u64">>,
    get_attestor_info |-> <<"Address">>, get_credit_score |-> <<"Address">>,
    list_active_attestors |-> <<>>, list_sme_attestations |-> <<"Address">>,
    register_attestor |-> <<"Address", "Address", "AttestorType", "u32">>,
    resolve_attestation_dispute |-> <<"Address", "u64", "bool">>,
    simulate_score_with_attestations |-> <<"Address", "Vec<(u32, u32)>">>,
    submit_attestation |-> <<"Address", "Address", "AttestorType", "u32", "String", "u64">>,
    submit_risk_signal |-> <<"Address", "Address", "u32", "u32">>]

\* contracts/governance
GovernanceAbi == [
    cancel_proposal |-> <<"u64", "Address">>,
    create_proposal |-> <<"Address", "String", "Address", "GovernanceAction", "ProposalCategory">>,
    execute_proposal |-> <<"u64">>, get_config |-> <<>>, get_governance_address |-> <<>>,
    get_proposal |-> <<"u64">>,
    initialize |-> <<"Address", "Address", "u64", "u32", "u32", "u64", "i128">>,
    list_proposals |-> <<>>, set_execution_delay |-> <<"Address", "u64">>,
    vote |-> <<"u64", "Address", "bool">>]

\* contracts/insurance
InsuranceAbi == [
    check_reserve_health |-> <<"Address">>, estimate_premium |-> <<"i128", "Address", "u32">>,
    file_claim |-> <<"u64">>, fund_reserve_from_treasury |-> <<"Address", "Address", "i128">>,
    get_claim_history |-> <<"u64">>, get_coverage_record |-> <<"u64">>,
    get_credit_score_contract |-> <<>>, get_min_reserve_amount |-> <<"Address">>,
    get_premium_config |-> <<>>, get_reserve_status |-> <<"Address">>,
    initialize |-> <<"Address", "Address", "Address">>, pause |-> <<"Address">>,
    purchase_coverage |-> <<"Address", "u64", "i128", "Address", "u64", "Address">>,
    set_credit_score_contract |-> <<"Address", "Address">>,
    set_min_coverage_ratio |-> <<"Address", "Address", "u32">>,
    set_min_reserve_amount |-> <<"Address", "Address", "i128">>,
    set_premium_config |-> <<"Address", "PremiumConfig">>, unpause |-> <<"Address">>]

\* contracts/invoice
InvoiceAbi == [
    create_invoice |-> <<"Address", "String", "i128", "u64", "String", "String", "String">>,
    create_invoice_with_metadata |-> <<"Address", "String", "i128", "u64", "String", "String", "Option<String>">>,
    get_dispute |-> <<"u64">>, get_invoice |-> <<"u64">>, get_invoice_count |-> <<>>,
    get_max_invoice_amount |-> <<>>, get_metadata |-> <<"u64">>,
    get_multiple_invoices |-> <<"Vec<u64>">>, is_invoice_private |-> <<"u64">>, is_paused |-> <<>>,
    mark_defaulted |-> <<"u64", "Address">>, pause |-> <<"Address">>,
    raise_dispute |-> <<"u64", "Address", "String", "Address">>,
    set_invoice_private |-> <<"u64", "Address", "bool">>, unpause |-> <<"Address">>,
    verify_invoice |-> <<"u64", "Address", "bool", "String", "String">>]

\* contracts/oracle_registry
OracleRegistryAbi == [
    admin_resolve_round |-> <<"Address", "u64", "bool", "String">>, get_oracle_info |-> <<"Address">>,
    get_registry_config |-> <<>>, get_verification_round |-> <<"u64">>, list_active_oracles |-> <<>>,
    open_verification_round |-> <<"Address", "u64", "String">>,
    register_oracle |-> <<"Address", "i128">>,
    slash_oracle |-> <<"Address", "Address", "u32", "u64", "String">>,
    submit_vote |-> <<"Address", "u64", "bool", "String">>]

\* contracts/pool
PoolAbi == [
    accepted_tokens |-> <<>>, cancel_co_funding_round |-> <<"Address", "u64">>,
    cancel_rate_model_change |-> <<"Address", "Address">>,
    cancel_withdrawal_request |-> <<"Address", "Address">>, claim_yield |-> <<"Address", "Address">>,
    commit_to_invoice |-> <<"Address", "u64", "i128">>,
    deposit |-> <<"Address", "Address", "i128", "Option<u32>">>,
    deposit_collateral |-> <<"u64", "Address", "Address", "i128">>,
    drain_withdrawal_queue |-> <<"Address", "Address">>, execute_rate_model_change |-> <<"Address">>,
    finalize_co_funding |-> <<"Address", "u64">>,
    fund_invoice |-> <<"Address", "u64", "i128", "Address", "u64", "Address">>,
    fund_invoices_batch |-> <<"Address", "Vec<FundingRequest>">>, get_asset_price |-> <<"Address">>,
    get_co_fund_share |-> <<"u64", "Address">>, get_co_funding_round |-> <<"u64">>,
    get_collateral_config |-> <<>>, get_collateral_deposit |-> <<"u64">>, get_config |-> <<>>,
    get_current_rate |-> <<"Address">>, get_exchange_rate |-> <<"Address">>,
    get_funded_invoice |-> <<"u64">>, get_funded_invoices_batch |-> <<"Vec<u64>">>,
    get_insurance_contract |-> <<>>, get_investor_co_fund_positions |-> <<"Address">>,
    get_investor_kyc |-> <<"Address">>, get_pool_balance |-> <<"Address">>,
    get_protocol_revenue |-> <<"Address">>, get_rate_history |-> <<"Address", "u32">>,
    get_rate_model_config |-> <<"Address">>, get_token_totals |-> <<"Address">>, get_treasury |-> <<>>,
    get_withdrawal_queue |-> <<"Address">>, kyc_required |-> <<>>,
    liquidate_invoice |-> <<"Address", "u64">>, list_co_funding_rounds |-> <<>>,
    open_co_funding |-> <<"Address", "OpenCoFundingRequest">>,
    preview_rate_at_utilization |-> <<"Address", "u32">>,
    propose_rate_model_change |-> <<"Address", "Address", "RateModelConfig">>,
    repay_invoice |-> <<"u64", "Address", "i128">>,
    request_withdrawal |-> <<"Address", "Address", "i128">>,
    set_exchange_rate |-> <<"Address", "Address", "u32">>, set_factoring_fee |-> <<"Address", "u32">>,
    set_insurance_contract |-> <<"Address", "Address">>,
    set_investor_kyc |-> <<"Address", "Address", "bool">>, set_kyc_required |-> <<"Address", "bool">>,
    set_risk_contract |-> <<"Address", "Address">>, set_yield |-> <<"Address", "u32">>,
    top_up_collateral |-> <<"u64", "Address", "Address", "i128">>,
    transfer_co_fund_share |-> <<"Address", "u64", "Address", "Address", "u32">>,
    withdraw |-> <<"Address", "Address", "i128">>,
    withdraw_co_funding_commitment |-> <<"Address", "u64">>]

\* contracts/referral
ReferralAbi == [
    claim_rewards |-> <<"Address", "Address">>, get_access_control |-> <<>>,
    get_borrow_reward_bps |-> <<>>, get_deposit_reward_bps |-> <<>>,
    get_pending_reward |-> <<"Address", "Address">>, get_pool |-> <<>>, get_referrer |-> <<"Address">>,
    get_stats |-> <<"Address">>, get_top_referrers |-> <<"u32">>,
    initialize |-> <<"Address", "Address">>, is_paused |-> <<>>, pause |-> <<"Address">>,
    record_activity |-> <<"Address", "Address", "Symbol", "i128", "Address">>,
    register |-> <<"Address", "Address">>, set_access_control |-> <<"Address", "Address">>,
    set_borrow_reward_bps |-> <<"Address", "u32">>, set_deposit_reward_bps |-> <<"Address", "u32">>,
    set_pool |-> <<"Address", "Address">>, unpause |-> <<"Address">>]

\* contracts/secondary_market
SecondaryMarketAbi == [
    buy_listing |-> <<"Address", "u64">>, cancel_listing |-> <<"Address", "u64">>,
    cancel_order |-> <<"Address", "u64">>, estimate_withdrawal_wait |-> <<"Address", "Address">>,
    expire_order |-> <<"u64">>, get_liquidity_forecast |-> <<"Address", "u32">>,
    get_listing |-> <<"u64">>, get_order |-> <<"u64">>, get_order_book |-> <<"u64", "ListingKind">>,
    list_listings_for_investor |-> <<"Address">>, list_listings_for_invoice |-> <<"u64">>,
    list_orders_for_owner |-> <<"Address">>,
    list_position |-> <<"Address", "u64", "ListingKind", "u64", "i128">>,
    place_order |-> <<"Address", "PlaceOrderRequest">>]

\* contracts/share
ShareAbi == [
    admin |-> <<>>, allowance |-> <<"Address", "Address">>,
    approve |-> <<"Address", "Address", "i128", "u32">>, balance |-> <<"Address">>,
    balance_at |-> <<"Address", "u64">>, burn |-> <<"Address", "i128">>,
    burn_from |-> <<"Address", "Address", "i128">>, decimals |-> <<>>,
    decrease_allowance |-> <<"Address", "Address", "i128">>,
    get_allowance_expiration |-> <<"Address", "Address">>,
    increase_allowance |-> <<"Address", "Address", "i128">>,
    initialize |-> <<"Address", "u32", "String", "String">>, is_paused |-> <<>>,
    mint |-> <<"Address", "i128">>, name |-> <<>>, pause |-> <<"Address">>,
    set_admin |-> <<"Address">>, symbol |-> <<>>, total_supply |-> <<>>,
    transfer |-> <<"Address", "Address", "i128">>,
    transfer_from |-> <<"Address", "Address", "Address", "i128">>, unpause |-> <<"Address">>]

\* contracts/tranche
TrancheAbi == [
    deposit_tranche |-> <<"Address", "Address", "TrancheClass", "i128">>, get_config |-> <<"Address">>,
    get_pool |-> <<"Address">>, get_position |-> <<"Address", "Address", "TrancheClass">>,
    get_totals |-> <<"Address", "TrancheClass">>,
    set_tranche_config |-> <<"Address", "Address", "u32", "u32", "u32">>,
    withdraw_tranche |-> <<"Address", "Address", "TrancheClass", "i128">>]

\* The entry points of every contract.
Abi == [access_control |-> AccessControlAbi, arbitration |-> ArbitrationAbi, auction |-> AuctionAbi,
       compliance |-> ComplianceAbi, credit_score |-> CreditScoreAbi, governance |-> GovernanceAbi,
       insurance |-> InsuranceAbi, invoice |-> InvoiceAbi, oracle_registry |-> OracleRegistryAbi,
       pool |-> PoolAbi, referral |-> ReferralAbi, secondary_market |-> SecondaryMarketAbi,
       share |-> ShareAbi, tranche |-> TrancheAbi]

\* access_control's ActionPayload: variant and the types it carries.
ActionPayload == [
    SetPaused |-> <<"bool">>, SetYield |-> <<"u32">>, SetTreasury |-> <<"Address">>,
    WithdrawRevenue |-> <<"Address", "i128">>, SetOracleContract |-> <<"Address">>,
    SetKycRequired |-> <<"bool">>, SetInvestorKyc |-> <<"Address", "bool">>,
    SetMaxUtilization |-> <<"u32">>, SetOracle |-> <<"Address">>,
    RegisterDebtor |-> <<"String", "String", "i128">>, DeactivateDebtor |-> <<"String">>,
    AddKeeper |-> <<"Address">>, SetLateThreshold |-> <<"i64">>,
    SetScoreThresholds |-> <<"u32", "u32", "u32", "u32">>,
    RegisterAttestor |-> <<"Address", "u32", "u32">>,
    SetOracleRegistryInvoiceContract |-> <<"Address">>,
    SetOracleRegistryTreasury |-> <<"Option<Address>">>,
    SetOracleRegistryConfig |-> <<"i128", "u32", "u32", "u64", "u64">>,
    SetOracleRegistryPaused |-> <<"bool">>, SlashOracle |-> <<"Address", "u32", "u64", "String">>,
    AdminResolveRound |-> <<"u64", "bool", "String">>, SetCompliancePaused |-> <<"bool">>,
    RegisterScreener |-> <<"Address">>, ConfirmScreenerRegistration |-> <<"Address">>,
    DeregisterScreener |-> <<"Address">>, SetRescreeningInterval |-> <<"u64">>,
    SetScreenerTimelock |-> <<"u64">>, UpdateGovernanceConfig |-> <<"u32", "u32", "u64">>,
    SetCategoryQuorum |-> <<"ProposalCategory", "u32">>, SetReferralPaused |-> <<"bool">>,
    SetReferralPool |-> <<"Address">>, SetBorrowRewardBps |-> <<"u32">>,
    SetDepositRewardBps |-> <<"u32">>, SetInvoiceAccessControl |-> <<"Address">>,
    SetCreditScoreAccessControl |-> <<"Address">>, SetOracleRegistryAccessControl |-> <<"Address">>,
    SetComplianceAccessControl |-> <<"Address">>, SetGovernanceAccessControl |-> <<"Address">>,
    SetReferralAccessControl |-> <<"Address">>, AddSigner |-> <<"Role", "Address">>,
    RemoveSigner |-> <<"Role", "Address">>, SetThreshold |-> <<"Role", "u32">>,
    SetProposalExpiry |-> <<"u64">>]
=============================================================================
