--------------------------------- MODULE Pool ---------------------------------
(***************************************************************************)
(* The pool contract (contracts/pool/src/lib.rs): the lending side --      *)
(* funding, repayment, yield, collateral, insurance, revenue -- composed   *)
(* with the investors' side of module PoolShares.                          *)
(*                                                                         *)
(* Three history variables follow the money: held and unbooked are what    *)
(* the pool holds for others or has received without entering it into its  *)
(* totals, and leak is what left (or never came in) without a matching     *)
(* entry.  They are read by no guard.                                      *)
(***************************************************************************)
EXTENDS PoolShares, FiniteSetsExt

CONSTANTS
    Invoices,            \* ids of invoices
    Principals,          \* amounts the admin may fund
    Payments,            \* amounts an SME may offer
    CollateralAmounts,   \* collateral deposits and top-ups
    DueOffsets,          \* how far ahead a due date may lie
    Premiums,            \* insurance premiums; 0 is no coverage
    InsurancePayouts,    \* amounts the insurance contract may pay out
    BPS,                 \* BPS_DENOM
    Rate, RateDenom,     \* simple interest per unit of principal and time
    FeeBps,              \* config.factoring_fee_bps
    ReferralBps,         \* the referrer's cut of a factoring fee
    CollateralThreshold, CollateralBps,  \* CollateralConfig
    MaxUtilization,      \* config.max_utilization_bps
    Precision,           \* REWARD_PRECISION
    MaxPrincipal,        \* bound of the model on a loan's principal
    MaxCollateral,       \* bound of the model on an invoice's collateral
    MaxValue,            \* bound of the model on |revenue| and on an insured NAV
    MaxOverbooked        \* bound of the model on how far deployed may fall below zero

ASSUME LendingAssumption ==
    /\ IsFiniteSet(Invoices)
    /\ Principals \subseteq Nat \ {0} /\ Payments \subseteq Nat \ {0}
    /\ CollateralAmounts \subseteq Nat \ {0} /\ DueOffsets \subseteq Nat \ {0}
    /\ Premiums \subseteq Nat /\ InsurancePayouts \subseteq Nat \ {0}
    /\ BPS \in Nat \ {0} /\ RateDenom \in Nat \ {0} /\ Precision \in Nat \ {0}
    /\ Rate \in Nat /\ FeeBps \in Nat /\ ReferralBps \in Nat
    /\ CollateralThreshold \in Nat /\ CollateralBps \in Nat
    /\ MaxUtilization \in Nat
    /\ MaxPrincipal \in Nat /\ MaxCollateral \in Nat /\ MaxValue \in Nat
    /\ MaxOverbooked \in Nat

VARIABLES
    revenue,     \* PoolTokenTotals.protocol_revenue
    rps,         \* PoolTokenTotals.reward_per_share
    snapshot,    \* DataKey::InvestorRewardSnapshot
    loan,        \* DataKey::FundedInvoice
    collateral,  \* DataKey::CollateralDeposit
    held,        \* history: unsettled collateral
    unbooked,    \* history: repayments not yet entered into the totals
    leak         \* history: see above

lendingVars == <<revenue, rps, snapshot, loan, collateral, held, unbooked, leak>>
vars == <<now, paused, cash, poolValue, deployed, shareVars, lendingVars>>

-----------------------------------------------------------------------------
(* Loans *)

\* struct FundedInvoice of an invoice that is not co-funded.  booked is a
\* history field: how much of repaid has been entered into the totals.
Loan == [principal : Nat, at : Nat, due : Nat, fee : Nat, repaid : Nat, booked : Nat]

NoLoan == [principal |-> 0, at |-> 0, due |-> 0, fee |-> 0, repaid |-> 0, booked |-> 0]

\* A record exists; nothing is ever funded with 0.
Present(i) == loan[i].principal > 0

\* struct CollateralDeposit; "none" is no entry.
Collateral == [amount : Nat, status : {"none", "held", "settled"}]

\* fn calculate_factoring_fee: rounded up.
FactoringFee(p) == (p * FeeBps + BPS - 1) \div BPS

\* fn calculate_total_due with simple interest (config.compound_interest is
\* off): it accrues until now or the due date, whichever is earlier, at the rate
\* locked in when the invoice was funded, and is rounded half up.
Interest(i) ==
    (loan[i].principal * Rate * (Smaller(now, loan[i].due) - loan[i].at)
        + RateDenom \div 2) \div RateDenom

TotalDue(i) == loan[i].principal + Interest(i) + loan[i].fee

\* fn required_collateral
RequiredCollateral(p) ==
    IF p < CollateralThreshold THEN 0 ELSE (p * CollateralBps) \div BPS

LendingInit ==
    /\ revenue = 0
    /\ rps = 0
    /\ snapshot = [i \in Investors |-> 0]
    /\ loan = [i \in Invoices |-> NoLoan]
    /\ collateral = [i \in Invoices |-> [amount |-> 0, status |-> "none"]]
    /\ held = 0 /\ unbooked = 0 /\ leak = 0

-----------------------------------------------------------------------------
(* Funding *)

\* fn fund_invoice_request, for a token without a rate model.  The invoice
\* contract is told with try_record_funding, whose failure changes nothing.
\* A second funding of the same invoice adds to the principal only.  The cast
\* of a negative total_deployed to u128 overflows in the utilisation.  When
\* insurance is configured the premium leaves the pool's balance and is taken
\* off both the revenue and the NAV.
FundInvoiceRequest(i, p, due, premium) ==
    /\ Liquidity >= p
    /\ now < due
    /\ loan[i].principal + p <= MaxPrincipal /\ premium - revenue <= MaxValue
    /\ poolValue > 0 => /\ deployed >= 0
                        /\ ((deployed + p) * BPS) \div poolValue <= MaxUtilization
    /\ cash >= p + premium
    /\ deployed' = deployed + p
    /\ loan' = [loan EXCEPT ![i] =
                   IF Present(i)
                   THEN [loan[i] EXCEPT !.principal = @ + p]
                   ELSE [principal |-> p, at |-> now, due |-> due,
                         fee |-> FactoringFee(p), repaid |-> 0, booked |-> 0]]
    /\ cash' = cash - p - premium
    /\ revenue' = revenue - premium
    /\ poolValue' = poolValue - premium
    /\ leak' = leak - premium
    /\ UNCHANGED <<now, paused, shareVars, rps, snapshot, collateral, held, unbooked>>

\* fn fund_invoice: a large principal needs collateral.
FundInvoice(i, p, due, premium) ==
    /\ ~paused
    /\ RequiredCollateral(p) > 0 =>
          /\ collateral[i].status = "held"
          /\ collateral[i].amount >= RequiredCollateral(p)
    /\ FundInvoiceRequest(i, p, due, premium)

\* One request of fund_multiple_invoices, which does not look at collateral.
FundMultipleInvoices(i, p, due, premium) ==
    /\ ~paused
    /\ FundInvoiceRequest(i, p, due, premium)

-----------------------------------------------------------------------------
(* Repayment.  repay_invoice works while the pool is paused. *)

Remaining(i) == TotalDue(i) - loan[i].repaid

\* Less than what is owed: the money comes in and nothing is booked.
RepayPart(i, a) ==
    /\ Present(i)
    /\ a < Remaining(i)
    /\ cash + a <= MaxCash
    /\ loan' = [loan EXCEPT ![i].repaid = @ + a]
    /\ cash' = cash + a
    /\ unbooked' = unbooked + a
    /\ UNCHANGED <<now, paused, poolValue, deployed, shareVars,
                   revenue, rps, snapshot, collateral, held, leak>>

\* Mutant: settled collateral is released again.
ReleasedAlways(i) == IF collateral[i].status = "none" THEN 0 ELSE collateral[i].amount

\* What release_collateral pays back.
Released(i) == IF collateral[i].status = "held" THEN collateral[i].amount ELSE 0

\* An offer of at least what is owed is cut down to it.  The loan is booked,
\* the collateral released, the queue served and the referrer paid.
RepayFull(i, a, reward) ==
    LET interest == Interest(i)
        pay == Remaining(i)
    IN
    /\ Present(i)
    /\ pay > 0 /\ a >= pay
    /\ cash + pay <= MaxCash
    /\ cash + pay >= Released(i) + reward
    /\ revenue + loan[i].fee <= MaxValue /\ loan[i].principal - deployed <= MaxOverbooked
    /\ loan' = [loan EXCEPT ![i].repaid = @ + pay, ![i].booked = loan[i].repaid + pay]
    /\ deployed' = deployed - loan[i].principal
    /\ revenue' = revenue + loan[i].fee - reward
    /\ rps' = IF supply > 0 THEN rps + (interest * Precision) \div supply ELSE rps
    /\ collateral' = [collateral EXCEPT ![i].status = IF @ = "held" THEN "settled" ELSE @]
    /\ held' = held - Released(i)
    /\ SettleQueue(bal, supply, poolValue + interest, deployed - loan[i].principal,
                   cash + pay - Released(i) - reward)
    /\ unbooked' = unbooked - (loan[i].repaid - loan[i].booked)
    /\ leak' = leak + loan[i].booked
    /\ UNCHANGED <<now, paused, available, counter, snapshot>>

\* fn calculate_pending_yield
Claimable(i) ==
    IF bal[i] > 0 /\ rps > snapshot[i]
    THEN ((rps - snapshot[i]) * bal[i]) \div Precision ELSE 0

\* The loyalty bonus on a claim c is nothing or, capped by the revenue, as
\* much again.
Bonuses(c) == {0, IF revenue > 0 THEN Smaller(c, revenue) ELSE 0}

\* The yield is paid in cash; pool_value, which the same interest raised, is
\* not touched.
ClaimYield(i, bonus) ==
    /\ ~paused
    /\ cash >= Claimable(i) + bonus
    /\ snapshot' = [snapshot EXCEPT ![i] = rps]
    /\ cash' = cash - Claimable(i) - bonus
    /\ revenue' = revenue - bonus
    /\ leak' = leak + Claimable(i)
    /\ UNCHANGED <<now, paused, poolValue, deployed, shareVars, rps, loan,
                   collateral, held, unbooked>>

-----------------------------------------------------------------------------
(* Collateral *)

DepositCollateral(i, a) ==
    /\ ~paused
    /\ ~Present(i)
    /\ collateral[i].status = "none"
    /\ a <= MaxCollateral
    /\ collateral' = [collateral EXCEPT ![i] = [amount |-> a, status |-> "held"]]
    /\ cash' = cash + a
    /\ held' = held + a
    /\ UNCHANGED <<now, paused, poolValue, deployed, shareVars, revenue, rps, snapshot,
                   loan, unbooked, leak>>

TopUpCollateral(i, a) ==
    /\ ~paused
    /\ collateral[i].status = "held"
    /\ collateral[i].amount + a <= MaxCollateral
    /\ collateral' = [collateral EXCEPT ![i].amount = @ + a]
    /\ cash' = cash + a
    /\ held' = held + a
    /\ UNCHANGED <<now, paused, poolValue, deployed, shareVars, revenue, rps, snapshot,
                   loan, unbooked, leak>>

\* The risk contract takes the collateral away, and the NAV is credited.
RiskLiquidateCollateral(i) ==
    /\ ~paused
    /\ collateral[i].status = "held"
    /\ cash >= collateral[i].amount
    /\ collateral' = [collateral EXCEPT ![i].status = "settled"]
    /\ poolValue' = poolValue + collateral[i].amount
    /\ cash' = cash - collateral[i].amount
    /\ held' = held - collateral[i].amount
    /\ leak' = leak + collateral[i].amount
    /\ UNCHANGED <<now, paused, deployed, shareVars, revenue, rps, snapshot, loan, unbooked>>

\* Mutant: the principal is taken off deployed and left in the NAV.
LiquidateInvoiceKeepingPrincipal(i) ==
    /\ ~paused
    /\ Present(i)
    /\ Remaining(i) > 0
    /\ collateral[i].status = "held"
    /\ poolValue' = poolValue + collateral[i].amount
    /\ deployed' = deployed - loan[i].principal
    /\ collateral' = [collateral EXCEPT ![i].status = "settled"]
    /\ held' = held - collateral[i].amount
    /\ UNCHANGED <<now, paused, cash, shareVars, revenue, rps, snapshot, loan,
                   unbooked, leak>>

\* fn seize_collateral_core, from liquidate_invoice or from a proposal.  The
\* invoice contract reports a default; its due date need not be the loan's.
\* The loan record stays.
LiquidateInvoice(i) ==
    /\ ~paused
    /\ Present(i)
    /\ Remaining(i) > 0
    /\ collateral[i].status = "held"
    /\ poolValue' = poolValue - loan[i].principal + collateral[i].amount
    /\ deployed' = deployed - loan[i].principal
    /\ collateral' = [collateral EXCEPT ![i].status = "settled"]
    /\ held' = held - collateral[i].amount
    /\ UNCHANGED <<now, paused, cash, shareVars, revenue, rps, snapshot, loan,
                   unbooked, leak>>

-----------------------------------------------------------------------------
(* The rest of the money, and the loan records *)

\* The insurance contract has transferred a before it calls.
ReceiveInsurancePayout(a) ==
    /\ poolValue + a <= MaxValue /\ cash + a <= MaxCash
    /\ poolValue' = poolValue + a
    /\ cash' = cash + a
    /\ UNCHANGED <<now, paused, deployed, shareVars, lendingVars>>

WithdrawRevenue(a) ==
    /\ ~paused
    /\ a <= revenue /\ cash >= a
    /\ revenue' = revenue - a
    /\ cash' = cash - a
    /\ UNCHANGED <<now, paused, poolValue, deployed, shareVars, rps, snapshot, loan,
                   collateral, held, unbooked, leak>>

\* The record leaves, and with it the note of what was repaid and not booked.
DropLoan(i) ==
    /\ loan' = [loan EXCEPT ![i] = NoLoan]
    /\ unbooked' = unbooked - (loan[i].repaid - loan[i].booked)

\* Mutant: the principal is written off and stays in deployed.
CancelFundedInvoiceStillDeployed(i) ==
    /\ Present(i)
    /\ poolValue' = poolValue - loan[i].principal
    /\ DropLoan(i)
    /\ UNCHANGED <<now, paused, cash, deployed, shareVars, revenue, rps, snapshot,
                   collateral, held, leak>>

\* The admin, paused or not; the invoice contract has accepted mark_cancelled.
CancelFundedInvoice(i) ==
    /\ Present(i)
    /\ loan[i].principal - deployed <= MaxOverbooked
    /\ deployed' = deployed - loan[i].principal
    /\ DropLoan(i)
    /\ leak' = leak + loan[i].principal - (loan[i].repaid - loan[i].booked)
    /\ UNCHANGED <<now, paused, cash, poolValue, shareVars, revenue, rps, snapshot,
                   collateral, held>>

\* Mutant: an unpaid loan may be removed.
CleanupFundedInvoiceUnpaid(i) ==
    /\ ~paused
    /\ Present(i)
    /\ DropLoan(i)
    /\ leak' = leak - (loan[i].repaid - loan[i].booked)
    /\ UNCHANGED <<now, paused, cash, poolValue, deployed, shareVars, revenue, rps,
                   snapshot, collateral, held>>

CleanupFundedInvoice(i) ==
    /\ ~paused
    /\ Present(i)
    /\ Remaining(i) <= 0
    /\ DropLoan(i)
    /\ leak' = leak - (loan[i].repaid - loan[i].booked)
    /\ UNCHANGED <<now, paused, cash, poolValue, deployed, shareVars, revenue, rps,
                   snapshot, collateral, held>>

\* The invoice contract has approved an extension.
UpdateInvoiceDueDate(i, due) ==
    /\ Present(i)
    /\ due > loan[i].due /\ due <= MaxTime
    /\ loan' = [loan EXCEPT ![i].due = due]
    /\ UNCHANGED <<now, paused, cash, poolValue, deployed, shareVars, revenue, rps,
                   snapshot, collateral, held, unbooked, leak>>

-----------------------------------------------------------------------------
Init == SharesInit /\ LendingInit

\* fn record_referral_activity after a full repayment: no referrer, or a cut
\* of the fee.
Rewards(i) == {0, (loan[i].fee * ReferralBps) \div BPS}

LendingNext ==
    \/ \E i \in Invoices :
          \/ \E p \in Principals, k \in DueOffsets, premium \in Premiums :
                \/ FundInvoice(i, p, now + k, premium)
                \/ FundMultipleInvoices(i, p, now + k, premium)
          \/ \E a \in Payments :
                \/ RepayPart(i, a)
                \/ \E reward \in Rewards(i) : RepayFull(i, a, reward)
          \/ \E a \in CollateralAmounts : DepositCollateral(i, a) \/ TopUpCollateral(i, a)
          \/ RiskLiquidateCollateral(i)
          \/ LiquidateInvoice(i)
          \/ CancelFundedInvoice(i)
          \/ CleanupFundedInvoice(i)
          \/ \E k \in DueOffsets : UpdateInvoiceDueDate(i, loan[i].due + k)
    \/ \E i \in Investors : \E bonus \in Bonuses(Claimable(i)) : ClaimYield(i, bonus)
    \/ \E a \in InsurancePayouts : ReceiveInsurancePayout(a)
    \/ \E a \in Payments : WithdrawRevenue(a)

Next == (SharesNext /\ UNCHANGED lendingVars) \/ LendingNext

Spec == Init /\ [][Next]_vars

-----------------------------------------------------------------------------
(* Properties of the investors' side *)

\* Every stored value has its type.  The i128 amounts that handlers subtract
\* from without a check may be negative.
TypeOK ==
    /\ now \in Nat /\ paused \in BOOLEAN
    /\ cash \in Int /\ poolValue \in Int /\ deployed \in Int
    /\ supply \in Int
    /\ bal \in [Investors -> Nat]
    /\ available \in [Investors -> Int]
    /\ queue \in Seq(Request) /\ counter \in Nat
    /\ revenue \in Int /\ rps \in Int /\ snapshot \in [Investors -> Int]
    /\ loan \in [Invoices -> Loan]
    /\ collateral \in [Invoices -> Collateral]
    /\ held \in Int /\ unbooked \in Int /\ leak \in Int

\* The requests ahead of id in a queue.
Ahead(id, q) ==
    {q[m].id : m \in {m \in 1 .. Len(q) : \E k \in m + 1 .. Len(q) : q[k].id = id}}

Ids(q) == {q[k].id : k \in 1 .. Len(q)}

\* Nobody is overtaken: while a request waits, through adjustments (#908),
\* cancellations and part settlements, no other request gets ahead of it.
NobodyIsOvertaken ==
    [][\A id \in Ids(queue) \cap Ids(queue') :
          Ahead(id, queue') \subseteq Ahead(id, queue)]_vars

\* Entering and leaving is never at the expense of those who stay: a deposit
\* or a withdrawal that settles no queued request leaves the value of a share
\* at least where it was, however its divisions round, unless losses have made
\* the NAV negative.
SharePriceNeverFalls ==
    [][(supply > 0 /\ poolValue >= 0 /\ supply' # supply /\ queue' = queue)
          => poolValue' * supply >= poolValue * supply']_vars

\* When no premiums are paid, the NAV covers what is deployed after any
\* sequence of deposits, fundings, repayments, liquidations and withdrawals
\* (pool/tests/fuzz_tests.rs:371), so the liquidity the handlers budget with
\* is never negative.
NavCoversDeployed == Premiums = {0} => poolValue >= deployed

\* No loan is dated in the future or falls due before it was paid out, so no
\* interest is negative.  NavCoversDeployed is inductive together with it.
LoanTimes == \A i \in Invoices : loan[i].at <= now /\ loan[i].at <= loan[i].due

-----------------------------------------------------------------------------
(* Properties of the lending side *)

\* The money adds up: what the pool holds in the token contract is the
\* undeployed NAV, the protocol's revenue, the collateral in custody and the
\* repayments in waiting, up to the entries missing in claim_yield,
\* risk_liquidate_collateral, cancel_funded_invoice, a repeated full repayment
\* and the premium booked twice (leak).  Every other handler moves the token
\* and the totals by the same amount.
LedgerBalanced ==
    cash = poolValue - deployed + revenue + held + unbooked - leak

\* The history variables are what they say: held is the collateral in status
\* held, and unbooked what the loan records carry as repaid beyond what has
\* been booked -- collateral is released, seized or liquidated once, although
\* four handlers race for it.
CustodyAccounted ==
    /\ held = Total([i \in Invoices |-> Released(i)])
    /\ unbooked = Total([i \in Invoices |-> loan[i].repaid - loan[i].booked])

\* The principal of a loan that is still owed.
Owed(i) == IF Present(i) /\ Remaining(i) > 0 THEN loan[i].principal ELSE 0

\* Utilisation is never overstated: all of total_deployed is principal of a
\* loan that is still owed, whichever of repayment, repeated funding, seizure,
\* cancellation and cleanup came first.
DeployedNeverOverstated == deployed <= Total([i \in Invoices |-> Owed(i)])

-----------------------------------------------------------------------------
(* What comments and tests say and the code does not do *)

\* pool/tests/fuzz_tests.rs:232, "After full repayment, total_deployed returns
\* to zero": when there are loans and all of them are repaid.
DeployedClears ==
    (/\ \E i \in Invoices : Present(i)
     /\ \A i \in Invoices : Present(i) => Remaining(i) <= 0) => deployed = 0

\* The comment in repay_invoice_request on an error of
\* process_withdrawal_queue: "Log error but don't fail the repayment".  A
\* debtor can always repay in full.
RepaymentNeverBlocked ==
    \A i \in Invoices : (Present(i) /\ Remaining(i) > 0) =>
        LET pv == poolValue + Interest(i) IN
        Settlement(queue, pv - (deployed - loan[i].principal), bal, supply, pv,
                   cash + Remaining(i) - Released(i)).ok

=============================================================================
