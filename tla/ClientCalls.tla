---------------------------- MODULE ClientCalls -----------------------------
(***************************************************************************)
(* One contract call of a client, from the function that makes it to its   *)
(* answer: the function's own checks, the account the transaction is built *)
(* from, the simulation, in which the host compares the call with the      *)
(* contract's entry points, and then, for a read, the decoded answer, for  *)
(* a write of the frontend the XDR given to the wallet, and for a write of *)
(* the SDK the signer and the network.                                     *)
(***************************************************************************)
EXTENDS Naturals, ContractAbi, SdkBindings

VARIABLES
    call,    \* the row being executed and how it was entered, or NoCall
    stage    \* how far it is

callVars == <<call, stage>>

NoCall == [row |-> Row("none", "none", "none", <<>>), entry |-> "direct",
           configured |-> FALSE, signer |-> FALSE, variant |-> "none"]

Ended == {"answered", "default", "thrown", "prepared", "sent"}
Failed == {"failed", "trapped", "refused"}

ClientInit == call = NoCall /\ stage = "idle"

Rows == FrontendRows \cup SdkRows

PayloadsOf(row) == IF row.side = "sdk" THEN SdkPayloads ELSE FrontendPayloads
VariantsOf(row) ==
    IF row.method = "propose_action" THEN DOMAIN PayloadsOf(row) ELSE {"none"}

IsAccountId(source) == source # "placeholder"

\* An account from the RPC carries a sequence number and no balances, so
\* getNativeBalanceStroops answers zero.
NativeBalance == 0
BaseFee == 100

\* The host resolves the entry point by name and converts each argument to the
\* type it declares; a tagged payload has the variant's own types.
Conforms(row, variant) ==
    /\ row.on \in DOMAIN Abi
    /\ row.method \in DOMAIN Abi[row.on]
    /\ row.args = Abi[row.on][row.method]
    /\ variant # "none" =>
         /\ variant \in DOMAIN ActionPayload
         /\ PayloadsOf(row)[variant] = ActionPayload[variant]

-----------------------------------------------------------------------------
(* Steps *)

\* The SDK is entered through a client, whose configuration may hold a signer,
\* or through AsteraClient, which builds its clients without one and hands the
\* signer of the call to functions that do not read it.
BeginCall(row, entry, configured, signer, variant) ==
    /\ stage = "idle"
    /\ entry = "facade" => row.side = "sdk" /\ OnFacade(row) /\ ~signer
    /\ call' = [row |-> row, entry |-> entry, configured |-> configured,
                signer |-> signer, variant |-> variant]
    /\ stage' = "begun"

\* validateContractId, requireComplianceContractId, `if (!ID) return null', and
\* the input checks of buildCreateInvoiceTx, which an invalid input fails.
CheckLocally ==
    /\ stage = "begun"
    /\ LET row == call.row IN
       stage' \in CASE ~call.configured /\ "idOrDefault" \in row.checks -> {"default"}
                    [] ~call.configured /\ "idOrThrow" \in row.checks -> {"thrown"}
                    [] "inputs" \in row.checks -> {"checked", "thrown"}
                    [] OTHER -> {"checked"}
    /\ UNCHANGED call

\* getAccount: the network may fail, and a source that is no account id always
\* does.
LoadAccount ==
    /\ stage = "checked"
    /\ stage' \in {"failed"} \cup (IF IsAccountId(call.row.source) THEN {"loaded"} ELSE {})
    /\ UNCHANGED call

\* ensureSufficientNativeBalance, between the account and the transaction.
EnsureSufficientNativeBalance ==
    /\ stage = "loaded"
    /\ stage' = IF "balance" \in call.row.checks /\ NativeBalance < BaseFee
                THEN "thrown" ELSE "built"
    /\ UNCHANGED call

\* new Contract(id) throws on an empty id; simulateTransaction may fail; the
\* host traps on a call that does not fit, and the contract may refuse.
SimulateCall ==
    /\ stage = "built"
    /\ stage' \in IF ~call.configured THEN {"failed"}
                  ELSE {"failed"} \cup (IF Conforms(call.row, call.variant)
                                        THEN {"simulated", "refused"} ELSE {"trapped"})
    /\ UNCHANGED call

\* A failure is thrown to the page unless the function absorbs its kind.
Fail ==
    /\ stage \in Failed
    /\ LET kind == IF stage = "failed" THEN "rpc" ELSE "simulation"
       IN  stage' = IF kind \in call.row.absorbs THEN "default" ELSE "thrown"
    /\ UNCHANGED call

\* scValToNative of the simulation's result.
DecodeAnswer ==
    /\ stage = "simulated" /\ call.row.kind = "read"
    /\ stage' = "answered"
    /\ UNCHANGED call

\* assembleTransaction: the frontend returns XDR for the wallet.
PrepareTransaction ==
    /\ stage = "simulated" /\ call.row.kind = "write" /\ call.row.side = "frontend"
    /\ stage' = "prepared"
    /\ UNCHANGED call

HasSigner(c) == c.signer

\* buildAndSendTx: the signer signs and the transaction goes out, or it throws.
ResolveSigner ==
    /\ stage = "simulated" /\ call.row.kind = "write" /\ call.row.side = "sdk"
    /\ stage' = IF HasSigner(call) THEN "sent" ELSE "thrown"
    /\ UNCHANGED call

EndCall == stage \in Ended /\ stage' = "idle" /\ call' = NoCall

ClientNext ==
    \/ \E row \in Rows, entry \in {"direct", "facade"}, configured, signer \in BOOLEAN :
         \E variant \in VariantsOf(row) : BeginCall(row, entry, configured, signer, variant)
    \/ CheckLocally \/ LoadAccount \/ EnsureSufficientNativeBalance \/ SimulateCall
    \/ Fail \/ DecodeAnswer \/ PrepareTransaction \/ ResolveSigner \/ EndCall

-----------------------------------------------------------------------------
(* Properties *)

\* The calls that do not fit their contract: the entry point is missing or was
\* renamed, or its arguments changed.
KnownMisfits ==
    {<<"frontend", f>> : f \in
        {"buildCreateProposalTx", "buildVoteProposalTx", "buildCancelProposalTx",
         "estimateInsurancePremium", "buildFileClaimTx", "buildRenewInvoiceTtlTx",
         "buildSlashOracleTx", "getTokenDepositCap", "getInvestorPosition",
         "fetchInvestorPosition", "buildDepositTx"}} \cup
    {<<"access_control", "initialize">>, <<"invoice", "createInvoice">>} \cup
    {<<"governance", f>> : f \in
        {"initialize", "vote", "createProposal", "cancelProposal", "getAllProposals",
         "setExecutionDelay"}} \cup
    {<<"pool", f>> : f \in
        {"getListing", "listListingsForInvoice", "listListingsForInvestor",
         "getPoolTokenTotals", "getPosition", "fundInvoicesBatch", "listPosition",
         "cancelListing", "buyListing"}} \cup
    {<<"tranche", f>> : f \in
        {"getLifetimeReturnBps", "getInvoiceExposure", "simulateWaterfall"}}

\* The proposal payloads a client encodes otherwise than access_control declares.
KnownMisfitPayloads ==
    [frontend |-> {"SetCategoryQuorum"}, sdk |-> {"UpdateGovernanceConfig", "SetCategoryQuorum"}]

IsKnownMisfit(c) ==
    \/ <<IF c.row.side = "sdk" THEN c.row.on ELSE "frontend", c.row.fn>> \in KnownMisfits
    \/ c.variant \in KnownMisfitPayloads[c.row.side]

\* Every call of contracts.ts and of the SDK's clients, from the moment it is made,
\* names an entry point its contract has with that entry point's argument types,
\* exactly but for the listed ones; and what gets past the simulation is a fitting
\* call of an account that exists.  A call built on the placeholder account never
\* gets to the simulation, so for those the first half is the whole statement.
CallsConform ==
    stage # "idle" =>
        /\ Conforms(call.row, call.variant) <=> ~IsKnownMisfit(call)
        /\ stage \in {"simulated", "refused", "answered", "prepared", "sent"} =>
               Conforms(call.row, call.variant) /\ IsAccountId(call.row.source)

=============================================================================
