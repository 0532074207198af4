----------------------------- MODULE RolesForm ------------------------------
(***************************************************************************)
(* The proposal form of the roles page.  The target offers its actions, an *)
(* action its inputs, and the inputs write into `fields', where a key is   *)
(* missing until the user has touched its input.  The page shows one thing *)
(* for a missing key (`?? default') and buildActionPayload makes another   *)
(* out of it (Number, BigInt, trim, === 'true').  The form stays open      *)
(* while a proposal is signed and sent.                                    *)
(***************************************************************************)
EXTENDS Naturals, Sequences, FiniteSets

CONSTANTS
    Texts,      \* what a user may type into a box
    Trimmed     \* each text without the blanks around it

\* Values that are no typed text: the options of the selects, a missing key, an empty
\* box, what a parser refuses.
Marks == {"true", "false", "SuperAdmin", "RiskManager", "0", "1",
          "untouched", "blank", "malformed", "cleared", "throws"}

ASSUME FormAssumption ==
    /\ Texts \cap Marks = {}
    /\ Trimmed \in [Texts -> Texts \cup {"blank"}]

VARIABLES
    target,     \* proposeTarget
    action,     \* proposeAction
    fields,     \* what the user typed, by key
    proposal    \* the proposal being sent, and what the form showed for it, until the
                \* form changes under it: then only that it is under way

formVars == <<target, action, fields, proposal>>

-----------------------------------------------------------------------------
(* ACTIONS_BY_TARGET *)

ActionsByTarget == [
    pool |-> <<"SetPaused", "SetYield", "SetTreasury", "WithdrawRevenue", "SetOracleContract",
               "SetKycRequired", "SetInvestorKyc", "SetMaxUtilization">>,
    invoice |-> <<"SetPaused", "SetOracle", "RegisterDebtor", "DeactivateDebtor", "AddKeeper",
                  "SetInvoiceAccessControl">>,
    credit_score |-> <<"SetPaused", "SetLateThreshold", "SetScoreThresholds",
                       "RegisterAttestor", "SetCreditScoreAccessControl">>,
    oracle_registry |-> <<"SetOracleRegistryPaused", "SetOracleRegistryInvoiceContract",
                          "SetOracleRegistryTreasury", "SetOracleRegistryConfig",
                          "SlashOracle", "AdminResolveRound",
                          "SetOracleRegistryAccessControl">>,
    compliance |-> <<"SetCompliancePaused", "RegisterScreener", "ConfirmScreenerRegistration",
                     "DeregisterScreener", "SetRescreeningInterval", "SetScreenerTimelock",
                     "SetComplianceAccessControl">>,
    governance |-> <<"UpdateGovernanceConfig", "SetCategoryQuorum",
                     "SetGovernanceAccessControl">>,
    referral |-> <<"SetReferralPaused", "SetReferralPool", "SetBorrowRewardBps",
                   "SetDepositRewardBps", "SetReferralAccessControl">>,
    self |-> <<"AddSigner", "RemoveSigner", "SetThreshold">>]

Targets == DOMAIN ActionsByTarget
Offers(t) == {ActionsByTarget[t][n] : n \in DOMAIN ActionsByTarget[t]}
Actions == UNION {Offers(t) : t \in Targets}

AddressActions == {"SetTreasury", "SetOracleContract", "SetOracle", "AddKeeper",
    "SetOracleRegistryInvoiceContract", "SetReferralPool", "SetInvoiceAccessControl",
    "SetCreditScoreAccessControl", "SetOracleRegistryAccessControl",
    "SetComplianceAccessControl", "SetGovernanceAccessControl", "SetReferralAccessControl"}
SwitchActions == {"SetPaused", "SetKycRequired", "SetOracleRegistryPaused",
    "SetCompliancePaused", "SetReferralPaused"}
BpsActions == {"SetYield", "SetMaxUtilization", "SetBorrowRewardBps", "SetDepositRewardBps"}
ScreenerActions == {"RegisterScreener", "ConfirmScreenerRegistration", "DeregisterScreener"}
SecondsActions == {"SetRescreeningInterval", "SetScreenerTimelock"}

-----------------------------------------------------------------------------
(* ActionFields: the inputs of an action, as <<key, control>> *)

PoolFields(a) ==
    CASE a \in SwitchActions -> {<<"value", "switch">>}
      [] a \in BpsActions -> {<<"bps", "number">>}
      [] a = "WithdrawRevenue" -> {<<"token", "address">>, <<"amount", "number">>}
      [] a = "SetInvestorKyc" -> {<<"investor", "address">>, <<"approved", "switch">>}
      [] OTHER -> {<<"address", "address">>}

InvoiceAndScoreFields(a) ==
    CASE a = "RegisterDebtor" -> {<<"debtorId", "text">>, <<"debtorName", "text">>,
                                  <<"maxExposure", "number">>}
      [] a = "DeactivateDebtor" -> {<<"debtorId", "text">>}
      [] a = "SetLateThreshold" -> {<<"days", "number">>}
      [] a = "SetScoreThresholds" -> {<<"excellent", "number">>, <<"veryGood", "number">>,
                                      <<"good", "number">>, <<"fair", "number">>}
      [] a = "RegisterAttestor" -> {<<"address", "address">>, <<"attestorType", "choice">>,
                                    <<"weightBps", "number">>}
      [] OTHER -> {}

SignerAndRegistryFields(a) ==
    CASE a \in {"AddSigner", "RemoveSigner"} -> {<<"role", "role">>, <<"address", "address">>}
      [] a = "SetThreshold" -> {<<"role", "role">>, <<"threshold", "number">>}
      [] a = "SetOracleRegistryTreasury" -> {<<"treasury", "optional">>}
      [] a = "SetOracleRegistryConfig" ->
            {<<"minStake", "number">>, <<"requiredVotes", "number">>, <<"quorumBps", "number">>,
             <<"roundDurationSecs", "number">>, <<"deregisterCooldownSecs", "number">>}
      [] OTHER -> {}

RoundAndScreenerFields(a) ==
    CASE a = "SlashOracle" -> {<<"operator", "address">>, <<"bps", "number">>,
                               <<"roundId", "number">>, <<"evidence", "text">>}
      [] a = "AdminResolveRound" -> {<<"invoiceId", "number">>, <<"approved", "switch">>,
                                     <<"reason", "text">>}
      [] a \in ScreenerActions -> {<<"screener", "address">>}
      [] a \in SecondsActions -> {<<"secs", "number">>}
      [] a = "UpdateGovernanceConfig" -> {<<"quorumBps", "number">>, <<"passBps", "number">>,
                                          <<"executionDelaySecs", "number">>}
      [] a = "SetCategoryQuorum" -> {<<"category", "choice">>, <<"quorumBps", "number">>}
      [] OTHER -> {}

ActionFields(a) ==
    LET own == InvoiceAndScoreFields(a) \cup SignerAndRegistryFields(a)
                  \cup RoundAndScreenerFields(a)
    IN  IF own = {} THEN PoolFields(a) ELSE own

-----------------------------------------------------------------------------
(* buildActionPayload: what is made of the fields, as <<key, conversion>> *)

PoolToSignerPayload(a) ==
    CASE a \in {"SetPaused", "SetKycRequired"} -> <<<<"value", "isTrue">>>>
      [] a \in {"SetYield", "SetMaxUtilization"} -> <<<<"bps", "num">>>>
      [] a \in {"SetTreasury", "SetOracleContract", "SetOracle", "AddKeeper"} ->
            <<<<"address", "parse">>>>
      [] a = "WithdrawRevenue" -> <<<<"token", "parse">>, <<"amount", "big">>>>
      [] a = "SetInvestorKyc" -> <<<<"investor", "parse">>, <<"approved", "isTrue">>>>
      [] a = "RegisterDebtor" ->
            <<<<"debtorId", "str">>, <<"debtorName", "str">>, <<"maxExposure", "big">>>>
      [] a = "DeactivateDebtor" -> <<<<"debtorId", "str">>>>
      [] a = "SetLateThreshold" -> <<<<"days", "big">>>>
      [] a = "SetScoreThresholds" ->
            <<<<"excellent", "num">>, <<"veryGood", "num">>, <<"good", "num">>, <<"fair", "num">>>>
      [] a = "RegisterAttestor" ->
            <<<<"address", "parse">>, <<"attestorType", "num">>, <<"weightBps", "num">>>>
      [] a \in {"AddSigner", "RemoveSigner"} -> <<<<"role", "str">>, <<"address", "parse">>>>
      [] a = "SetThreshold" -> <<<<"role", "str">>, <<"threshold", "num">>>>
      [] OTHER -> <<>>

RegistryPayload(a) ==
    CASE a \in AddressActions -> <<<<"address", "parse">>>>
      [] a = "SetOracleRegistryTreasury" -> <<<<"treasury", "parseOrClear">>>>
      [] a = "SetOracleRegistryConfig" ->
            <<<<"minStake", "big">>, <<"requiredVotes", "num">>, <<"quorumBps", "num">>,
              <<"roundDurationSecs", "big">>, <<"deregisterCooldownSecs", "big">>>>
      [] a \in SwitchActions -> <<<<"value", "isTrue">>>>
      [] a = "SlashOracle" ->
            <<<<"operator", "parse">>, <<"bps", "num">>, <<"roundId", "big">>,
              <<"evidence", "str">>>>
      [] a = "AdminResolveRound" ->
            <<<<"invoiceId", "big">>, <<"approved", "isTrue">>, <<"reason", "str">>>>
      [] a \in ScreenerActions -> <<<<"screener", "parse">>>>
      [] a \in SecondsActions -> <<<<"secs", "big">>>>
      [] a = "UpdateGovernanceConfig" ->
            <<<<"quorumBps", "num">>, <<"passBps", "num">>, <<"executionDelaySecs", "num">>>>
      [] a = "SetCategoryQuorum" -> <<<<"category", "num">>, <<"quorumBps", "num">>>>
      [] a \in BpsActions -> <<<<"bps", "num">>>>
      [] OTHER -> <<>>

PayloadOf(a) ==
    IF PoolToSignerPayload(a) # <<>> THEN PoolToSignerPayload(a) ELSE RegistryPayload(a)

Untouched == "untouched"
FieldOr(key) == IF key \in DOMAIN fields THEN fields[key] ELSE Untouched

\* (fields[key] ?? '').trim()
Str(v) == IF v = Untouched THEN "blank" ELSE IF v \in Texts THEN Trimmed[v] ELSE v

\* What a conversion makes of a value: Number and BigInt read an empty string as
\* zero; parseStellarAddress, BigInt and the encoding of a NaN or a fraction throw.
Converted(conversion, v) ==
    CASE conversion = "isTrue" -> IF v = "true" THEN "true" ELSE "false"
      [] conversion # "isTrue" /\ Str(v) # "blank" ->
            IF Str(v) = "malformed" THEN "throws" ELSE Str(v)
      [] conversion \in {"num", "big"} /\ Str(v) = "blank" -> "0"
      [] conversion = "parseOrClear" /\ Str(v) = "blank" -> "cleared"
      [] conversion = "parse" /\ Str(v) = "blank" -> "throws"
      [] conversion = "str" /\ Str(v) = "blank" -> "blank"

\* What the page shows for a control: `fields.key ?? default'.
Showing(control, v) ==
    CASE v # Untouched -> v
      [] v = Untouched /\ control = "switch" -> "true"
      [] v = Untouched /\ control = "role" -> "SuperAdmin"
      [] v = Untouched /\ control = "choice" -> "0"
      [] v = Untouched /\ control \notin {"switch", "role", "choice"} -> "blank"

\* What the user can enter; a box that is parsed also takes what does not parse (for
\* a number, one that is no integer).
Entries(control) ==
    CASE control = "switch" -> {"true", "false"}
      [] control = "role" -> {"SuperAdmin", "RiskManager"}
      [] control = "choice" -> {"0", "1"}
      [] control = "text" -> Texts \cup {"blank"}
      [] control \in {"number", "address", "optional"} -> Texts \cup {"blank", "malformed"}

-----------------------------------------------------------------------------
(* The form *)

NoProposal == [target |-> "none", action |-> "none", values |-> <<>>, shown |-> {}]
Underway == [NoProposal EXCEPT !.target = "underway"]
NoFields == [k \in {} |-> "blank"]
NothingSent == proposal = NoProposal    \* ~txLoading

FormInit == target = "pool" /\ action = "SetYield" /\ fields = NoFields /\ proposal = NoProposal

\* Only the button is disabled while a proposal is sent.
UnderProposal == proposal' = IF NothingSent THEN NoProposal ELSE Underway

KeepAction(t) ==    \* mutant: the action stays that of the target before
    /\ t \in Targets /\ t # target
    /\ target' = t /\ fields' = NoFields
    /\ UnderProposal /\ UNCHANGED action
SelectTarget(t) ==
    /\ t \in Targets /\ t # target
    /\ target' = t /\ action' = ActionsByTarget[t][1] /\ fields' = NoFields
    /\ UnderProposal

SelectAction(a) ==
    /\ a \in Offers(target) /\ a # action
    /\ action' = a /\ fields' = NoFields
    /\ UnderProposal /\ UNCHANGED target

EditField(key, entry) ==
    /\ fields' = [k \in DOMAIN fields \cup {key} |-> IF k = key THEN entry ELSE fields[k]]
    /\ UnderProposal /\ UNCHANGED <<target, action>>

\* handlePropose builds the payload, or throws on a value that does not parse.
HandlePropose ==
    LET payload == PayloadOf(action)
        values == [n \in DOMAIN payload |-> Converted(payload[n][2], FieldOr(payload[n][1]))]
    IN  /\ NothingSent
        /\ \A n \in DOMAIN values : values[n] # "throws"
        /\ proposal' = [target |-> target, action |-> action,
                        values |-> [n \in DOMAIN payload |->
                                      [key |-> payload[n][1], value |-> values[n]]],
                        shown |-> {[key |-> f[1], control |-> f[2],
                                    touched |-> f[1] \in DOMAIN fields,
                                    value |-> Showing(f[2], FieldOr(f[1]))] :
                                     f \in ActionFields(action)}]
        /\ UNCHANGED <<target, action, fields>>

\* The proposal is submitted and the fields are cleared, whatever they are for by
\* now, or it fails and they stay.
ProposeEnds(submitted) ==
    /\ ~NothingSent
    /\ proposal' = NoProposal
    /\ fields' = IF submitted THEN NoFields ELSE fields
    /\ UNCHANGED <<target, action>>

FormNext ==
    \/ \E t \in Targets : SelectTarget(t)
    \/ \E a \in Actions : SelectAction(a)
    \/ \E f \in ActionFields(action) : \E entry \in Entries(f[2]) : EditField(f[1], entry)
    \/ HandlePropose
    \/ \E submitted \in BOOLEAN : ProposeEnds(submitted)

FormSpec == FormInit /\ [][FormNext]_formVars

-----------------------------------------------------------------------------
(* Properties *)

\* What a control that shows v stands for: blanks around a text do not count, an
\* empty number is zero, and an empty optional address is none.
Stands(control, v) ==
    CASE Str(v) = "blank" /\ control = "number" -> "0"
      [] Str(v) = "blank" /\ control = "optional" -> "cleared"
      [] Str(v) # "blank" \/ control \notin {"number", "optional"} -> Str(v)

\* A proposal is for an action of its target, and carries for every input of the
\* form what the page shows there, after any sequence of selections, edits and
\* earlier proposals, also ones that end while the next is being filled in.  The
\* exceptions are the true/false and role selections the user has not touched: the
\* page shows `true' and `Super Admin', and false and an empty role are sent.
FormSendsWhatItShows ==
    proposal \notin {NoProposal, Underway} =>
        /\ proposal.action \in Offers(proposal.target)
        /\ Len(proposal.values) = Cardinality(proposal.shown)
        /\ \A f \in proposal.shown :
              \/ f.control \in {"switch", "role"} /\ ~f.touched
              \/ \E n \in DOMAIN proposal.values :
                    proposal.values[n] = [key |-> f.key, value |-> Stands(f.control, f.value)]
=============================================================================
