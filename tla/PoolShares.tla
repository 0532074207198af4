------------------------------ MODULE PoolShares ------------------------------
(***************************************************************************)
(* The investors' side of the pool contract (contracts/pool/src/lib.rs)    *)
(* for one accepted token at exchange rate 1, together with the share      *)
(* token it mints and burns (contracts/share/src/lib.rs): deposits, direct *)
(* withdrawals and the withdrawal queue.                                   *)
(*                                                                         *)
(* A call is one atomic step.  A call that returns Err or panics, in this  *)
(* contract or in one it invokes without try_, is no step.                 *)
(***************************************************************************)
EXTENDS Integers, Sequences, FiniteSets, SequencesExt

CONSTANTS
    Investors,
    DepositAmounts,      \* amounts an investor may deposit
    MaxQueueDepth,       \* config.max_withdrawal_queue_depth, 0 = unbounded
    MaxQueueAge,         \* config.max_withdrawal_queue_age_days, 0 = no ageing
    MaxSupply,           \* bound of the model on the share supply and a position
    MaxCash,             \* bound of the model on the pool's token balance
    MaxRequests,         \* bound of the model on queued requests, ever
    MaxTime              \* bound of the model: the last ledger time

ASSUME SharesAssumption ==
    /\ IsFiniteSet(Investors)
    /\ DepositAmounts \subseteq Nat \ {0}
    /\ MaxQueueDepth \in Nat /\ MaxQueueAge \in Nat
    /\ MaxSupply \in Nat /\ MaxCash \in Nat /\ MaxRequests \in Nat /\ MaxTime \in Nat

VARIABLES
    now,         \* env.ledger().timestamp()
    paused,      \* DataKey::Paused
    cash,        \* the pool's balance in the token contract
    poolValue,   \* PoolTokenTotals.pool_value, the investors' NAV
    deployed,    \* PoolTokenTotals.total_deployed
    supply,      \* the share token's total supply
    bal,         \* the share token's balances
    available,   \* InvestorPosition.available
    queue,       \* DataKey::WithdrawalQueue, a sequence of Request
    counter      \* DataKey::WithdrawalQueueCounter

shareVars == <<supply, bal, available, queue, counter>>

\* struct WithdrawalRequest
Request == [who : Investors, shares : Nat \ {0}, at : Nat, id : Nat]

\* fn available_liquidity
Liquidity == poolValue - deployed

Total(f) == MapThenSumSet(LAMBDA x : f[x], DOMAIN f)

\* The shares queued at some places of a queue, and in all of it.
SharesAt(q, places) == Total([k \in places |-> q[k].shares])

SumShares(q) == SharesAt(q, DOMAIN q)

Smaller(a, b) == IF a <= b THEN a ELSE b

SharesInit ==
    /\ now = 0
    /\ paused = FALSE
    /\ cash = 0 /\ poolValue = 0 /\ deployed = 0
    /\ supply = 0
    /\ bal = [i \in Investors |-> 0]
    /\ available = [i \in Investors |-> 0]
    /\ queue = <<>>
    /\ counter = 0

-----------------------------------------------------------------------------
(* process_withdrawal_queue, as a function of the queue and of the balances  *)
(* when it is called.  ok is FALSE when a share burn or a token transfer it  *)
(* makes would panic: that takes down the call that triggered it, whatever   *)
(* the caller does with an Err.                                              *)

\* fn withdrawal_amount; the division rounds towards zero.
WithdrawalAmount(shares, pv, total) ==
    IF pv >= 0 THEN (shares * pv) \div total ELSE -((shares * (-pv)) \div total)

\* One request of a cohort: its pro-rata part of the cohort's budget, at most
\* what its shares are worth; a part payment burns a proportional part of the
\* shares, rounded down.  The burn also asks for the investor's authorization
\* (share.burn), without which the whole call fails and nothing happens.
SettleRequest(acc, r, budget, cohortShares, pv, total) ==
    LET share == (budget * r.shares) \div cohortShares
        worth == WithdrawalAmount(r.shares, pv, total)
        pay == Smaller(share, worth)
        burn == IF pay = worth THEN r.shares ELSE (pay * r.shares) \div worth
    IN  IF pay <= 0
        THEN [acc EXCEPT !.queue = Append(@, r)]
        ELSE [acc EXCEPT
                !.ok = @ /\ burn > 0 /\ acc.bal[r.who] >= burn /\ acc.cash >= pay,
                !.cash = @ - pay,
                !.paid = @ + pay,
                !.payouts[r.who] = @ + pay,
                !.burned = @ + burn,
                !.bal[r.who] = @ - burn,
                !.queue = IF burn = r.shares THEN @
                          ELSE Append(@, [r EXCEPT !.shares = @ - burn])]

\* Mutant: the budget shrinks with every request of the cohort.
SettleCohortShrinking(acc, q, cohort, budget, pv, total) ==
    LET shares == SharesAt(q, cohort)
        upTo[k \in 0 .. Len(q)] ==
            IF k = 0 THEN acc
            ELSE IF k \in cohort
                 THEN SettleRequest(upTo[k - 1], q[k], budget - upTo[k - 1].paid,
                                    shares, pv, total)
                 ELSE upTo[k - 1]
    IN  upTo[Len(q)]

\* Requests with the same timestamp form a cohort, here the set of their places
\* in the queue, and share what the older cohorts have left.
SettleCohort(acc, q, cohort, budget, pv, total) ==
    LET left == budget - acc.paid
        shares == SharesAt(q, cohort)
        upTo[k \in 0 .. Len(q)] ==
            IF k = 0 THEN acc
            ELSE IF k \in cohort
                 THEN SettleRequest(upTo[k - 1], q[k], left, shares, pv, total)
                 ELSE upTo[k - 1]
    IN  upTo[Len(q)]

\* The places of the requests served now: those that have reached the maximal
\* age or, if there are none, all of them.
Served(q) ==
    LET aged == {k \in DOMAIN q : MaxQueueAge > 0 /\ now >= q[k].at + MaxQueueAge}
    IN  IF aged = {} THEN DOMAIN q ELSE aged

\* The places of those of them that were made at t.
Cohort(q, t) == {k \in Served(q) : q[k].at = t}

\* The requests that are not served go behind what is left of the others.
PutBack(rest, q, served) ==
    LET upTo[k \in 0 .. Len(q)] ==
            IF k = 0 THEN rest
            ELSE IF k \in served THEN upTo[k - 1] ELSE Append(upTo[k - 1], q[k])
    IN  upTo[Len(q)]

SettlementStart(b, c) ==
    [ok |-> TRUE, cash |-> c, paid |-> 0, burned |-> 0, bal |-> b,
     payouts |-> [i \in Investors |-> 0], queue |-> <<>>]

\* The cohorts one after the other, the oldest first: older[t] has served those
\* of before t.  No request is dated after now.
SettleCohorts(q, budget, b, total, pv, c) ==
    LET older[t \in 0 .. now + 1] ==
            IF t = 0 THEN SettlementStart(b, c)
            ELSE SettleCohort(older[t - 1], q, Cohort(q, t - 1), budget, pv, total)
    IN  older[now + 1]

Settlement(q, budget, b, total, pv, c) ==
    IF q = <<>> \/ budget <= 0 \/ total <= 0
    THEN [SettlementStart(b, c) EXCEPT !.queue = q]
    ELSE [SettleCohorts(q, budget, b, total, pv, c) EXCEPT !.queue = PutBack(@, q, Served(q))]

\* The trailing call of process_withdrawal_queue in a handler that has brought
\* the totals to pv and dep, the cash to c, and the shares to b and total.
SettleQueue(b, total, pv, dep, c) ==
    LET r == Settlement(queue, pv - dep, b, total, pv, c) IN
    /\ r.ok
    /\ bal' = r.bal
    /\ supply' = total - r.burned
    /\ queue' = r.queue
    /\ poolValue' = pv - r.paid
    /\ cash' = c - r.paid

-----------------------------------------------------------------------------
(* The share token *)

\* share.transfer: the pool is not told.
ShareTransfer(from, to, n) ==
    /\ from # to
    /\ bal[from] >= n
    /\ bal' = [bal EXCEPT ![from] = @ - n, ![to] = @ + n]
    /\ UNCHANGED <<now, paused, cash, poolValue, deployed, supply, available, queue, counter>>

-----------------------------------------------------------------------------
(* Deposits and withdrawals *)

\* Mutant: rounded in favour of the depositor.
SharesForRoundedUp(a) ==
    IF supply = 0 \/ poolValue = 0 THEN a
    ELSE (a * supply + poolValue - 1) \div poolValue

\* The shares an amount buys.
SharesFor(a) == IF supply = 0 \/ poolValue = 0 THEN a ELSE (a * supply) \div poolValue

\* The KYC, compliance, minimum, slippage and concentration checks have
\* passed.  A negative NAV makes the shares negative, which mint rejects, unless
\* there are no shares: then the amount itself is minted.
\* Fresh liquidity serves the queue before the call returns.
Deposit(i, a) ==
    LET minted == SharesFor(a) IN
    /\ ~paused
    /\ poolValue >= 0 \/ supply = 0
    /\ minted > 0
    /\ cash + a <= MaxCash
    /\ supply + minted <= MaxSupply /\ available[i] + minted <= MaxSupply
    /\ available' = [available EXCEPT ![i] = @ + minted]
    /\ SettleQueue([bal EXCEPT ![i] = @ + minted], supply + minted,
                   poolValue + a, deployed, cash + a)
    /\ UNCHANGED <<now, paused, deployed, counter>>

\* Mutant: the share balance is not looked at.
PayOutUnchecked(i, n, worth) ==
    /\ worth >= 0 /\ cash >= worth
    /\ bal' = [bal EXCEPT ![i] = @ - n]
    /\ supply' = supply - n
    /\ available' = [available EXCEPT ![i] = @ - n]
    /\ poolValue' = poolValue - worth
    /\ cash' = cash - worth

\* Shares leave and their value is paid out.  saturating_sub on i128 lets
\* available fall below zero.
PayOut(i, n, worth) ==
    /\ bal[i] >= n
    /\ worth >= 0 /\ cash >= worth
    /\ bal' = [bal EXCEPT ![i] = @ - n]
    /\ supply' = supply - n
    /\ available' = [available EXCEPT ![i] = @ - n]
    /\ poolValue' = poolValue - worth
    /\ cash' = cash - worth

\* The direct way out looks at the share balance, not at available.
Withdraw(i, n) ==
    LET worth == WithdrawalAmount(n, poolValue, supply) IN
    /\ ~paused
    /\ supply > 0
    /\ Liquidity >= worth
    /\ PayOut(i, n, worth)
    /\ UNCHANGED <<now, paused, deployed, queue, counter>>

Queued(i) == \E k \in 1 .. Len(queue) : queue[k].who = i

\* What request_withdrawal demands on either branch.
MayRequest(i, n) ==
    /\ ~paused
    /\ ~Queued(i)
    /\ n <= available[i]
    /\ bal[i] >= n
    /\ supply > 0

RequestImmediate(i, n) ==
    LET worth == WithdrawalAmount(n, poolValue, supply) IN
    /\ MayRequest(i, n)
    /\ Liquidity >= worth
    /\ PayOut(i, n, worth)
    /\ UNCHANGED <<now, paused, deployed, queue, counter>>

RequestQueued(i, n) ==
    /\ MayRequest(i, n)
    /\ Liquidity < WithdrawalAmount(n, poolValue, supply)
    /\ MaxQueueDepth > 0 => Len(queue) < MaxQueueDepth
    /\ counter < MaxRequests
    /\ available' = [available EXCEPT ![i] = @ - n]
    /\ counter' = counter + 1
    /\ queue' = Append(queue, [who |-> i, shares |-> n, at |-> now, id |-> counter + 1])
    /\ UNCHANGED <<now, paused, cash, poolValue, deployed, supply, bal>>

\* Not subject to the pause.
CancelWithdrawalRequest(i) ==
    \E k \in 1 .. Len(queue) :
        /\ queue[k].who = i
        /\ available' = [available EXCEPT ![i] = @ + queue[k].shares]
        /\ queue' = RemoveAt(queue, k)
        /\ UNCHANGED <<now, paused, cash, poolValue, deployed, supply, bal, counter>>

\* Mutant: only a growing request moves shares between queue and available.
AdjustWithdrawalRequestOneWay(i, n) ==
    \E k \in 1 .. Len(queue) :
        LET delta == n - queue[k].shares IN
        /\ queue[k].who = i
        /\ n > 0
        /\ delta > 0 => available[i] >= delta
        /\ available' = [available EXCEPT ![i] = IF delta > 0 THEN @ - delta ELSE @]
        /\ queue' = [queue EXCEPT ![k].shares = n]
        /\ UNCHANGED <<now, paused, cash, poolValue, deployed, supply, bal, counter>>

\* Mutant: the adjusted request goes to the end of the queue.
AdjustWithdrawalRequestToBack(i, n) ==
    \E k \in 1 .. Len(queue) :
        LET delta == n - queue[k].shares IN
        /\ queue[k].who = i
        /\ n > 0
        /\ delta > 0 => available[i] >= delta
        /\ available' = [available EXCEPT ![i] = @ - delta]
        /\ queue' = Append(RemoveAt(queue, k), [queue[k] EXCEPT !.shares = n])
        /\ UNCHANGED <<now, paused, cash, poolValue, deployed, supply, bal, counter>>

\* Not subject to the pause either; the place in the queue is kept.
AdjustWithdrawalRequest(i, n) ==
    \E k \in 1 .. Len(queue) :
        LET delta == n - queue[k].shares IN
        /\ queue[k].who = i
        /\ n > 0
        /\ delta > 0 => available[i] >= delta
        /\ available' = [available EXCEPT ![i] = @ - delta]
        /\ queue' = [queue EXCEPT ![k].shares = n]
        /\ UNCHANGED <<now, paused, cash, poolValue, deployed, supply, bal, counter>>

\* Anyone may ask for the queue to be served.
DrainWithdrawalQueue ==
    /\ ~paused
    /\ queue # <<>> /\ Liquidity > 0
    /\ SettleQueue(bal, supply, poolValue, deployed, cash)
    /\ UNCHANGED <<now, paused, deployed, available, counter>>

-----------------------------------------------------------------------------
Tick ==
    /\ now < MaxTime
    /\ now' = now + 1
    /\ UNCHANGED <<paused, cash, poolValue, deployed, shareVars>>

Pause ==
    /\ ~paused
    /\ paused' = TRUE
    /\ UNCHANGED <<now, cash, poolValue, deployed, shareVars>>

Unpause ==
    /\ paused
    /\ paused' = FALSE
    /\ UNCHANGED <<now, cash, poolValue, deployed, shareVars>>

\* Share amounts a holder may name in a call.
ShareAmounts == 1 .. MaxSupply

SharesNext ==
    \/ Tick \/ Pause \/ Unpause \/ DrainWithdrawalQueue
    \/ \E i \in Investors :
          \/ \E a \in DepositAmounts : Deposit(i, a)
          \/ \E n \in ShareAmounts :
                \/ Withdraw(i, n)
                \/ RequestImmediate(i, n)
                \/ RequestQueued(i, n)
                \/ AdjustWithdrawalRequest(i, n)
                \/ \E j \in Investors : ShareTransfer(i, j, n)
          \/ CancelWithdrawalRequest(i)

-----------------------------------------------------------------------------
(* Properties *)

\* Three ledgers of the same shares agree after any mix of deposits, queued,
\* adjusted, cancelled and part-settled withdrawals and transfers behind the
\* pool's back: the token's supply is the sum of its balances, and it is what
\* the pool's positions hold as available plus what waits in the queue.  The
\* queue stays in the order of arrival, through part settlements that rebuild
\* it, with one non-empty request per investor and no id used twice.
QueueBacked ==
    /\ supply = Total(bal)
    /\ supply = Total(available) + SumShares(queue)
    /\ \A k \in 1 .. Len(queue) : queue[k].shares > 0 /\ queue[k].id \in 1 .. counter
    /\ \A k, m \in 1 .. Len(queue) : k < m =>
          /\ queue[k].id < queue[m].id
          /\ queue[k].at <= queue[m].at
          /\ queue[k].who # queue[m].who

\* The budgets a settlement is tried with below.
Budgets == 0 .. 2 * MaxSupply

\* Whatever liquidity a settlement of the present queue were given: if it goes
\* through, it pays out no more than that, nobody gets more than his queued
\* shares are worth, and the younger cohorts get nothing but the rounding
\* remainder (less than one unit per request) of an older one that is left
\* unpaid (#912).
SettlementIsFair ==
    (supply > 0 /\ poolValue > 0) =>
    \A budget \in Budgets :
        LET r == Settlement(queue, budget, bal, supply, poolValue, budget)
            worth(q) == WithdrawalAmount(q.shares, poolValue, supply)
            requests == {queue[k] : k \in 1 .. Len(queue)}
            unpaid(q) == /\ worth(q) > r.payouts[q.who]
                         /\ \E k \in 1 .. Len(r.queue) : r.queue[k].id = q.id
        IN  r.ok =>
            /\ r.paid <= budget
            /\ \A q \in requests : r.payouts[q.who] <= worth(q)
            /\ \A q \in {x \in requests : unpaid(x)} :
                  LET younger == {x \in requests : x.at > q.at}
                      cohort == {x \in requests : x.at = q.at}
                  IN  Total([x \in younger |-> r.payouts[x.who]]) < Cardinality(cohort)

=============================================================================
