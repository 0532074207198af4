# A TLA+ model of Astera

Astera finances invoices on Stellar: an SME tokenises an invoice, a pool of
investors pays it out, the debtor pays back with interest.  The state and the
money are in Soroban contracts in Rust (`contracts/*/src/lib.rs`); around them
stand an indexer, an oracle node, a compliance service, an SDK and a web
frontend in TypeScript, which make up most of the code.

Two kinds of atomicity meet in this system, and both are modelled as they are.

**A contract call is a transaction.**  It runs alone, and an `Err` or a panic
anywhere in it -- in a called contract too, unless the call is a `try_*` --
rolls everything back.  So one call is one action, a call that fails is no
step, and what can go wrong lies in the *order* of calls by independent actors,
in state kept twice, in time passing between calls, and in rounding.  Overflow
panics (`overflow-checks = true`) and is no step; `saturating_sub` on `i128`
does not stop at zero.

**An async function is interrupted at every `await`.**  So a handler, a poll or a
fetch is a chain of actions with a program counter in the state, and between any
two of them another handler, a timer, the chain, or a crash may come in.  What is
written between two awaits is one action.

## Inventory

| Component | State | Operations | Interacts with | Hard part | What makes it correct |
|---|---|---|---|---|---|
| invoice (`contracts/invoice`) | invoices, disputes, outstanding per SME, exposure per debtor, statistics, indices, creation times, pause | create, verify, time out, expire, fund, pay, default, cancel, extend, dispute, resolve, clean up | pool, oracle registry, arbitration | many handlers close the same invoice and adjust the same counters | counters agree with the invoices; the rate limit holds in any window; due dates only grow |
| pool, investors (`contracts/pool`) | NAV, deployed, positions, queue | deposit, withdraw, request, cancel, adjust, drain | share token, stablecoin | settlement runs inside other calls and can panic | shares conserved, order kept, fair settlement, no dilution |
| pool, lending | loans, collateral, revenue, rewards | fund, repay, claim, collateral, seize, insure, cancel, clean up | invoice, insurance, auction, referral | four ways to end a loan, in any order | every token movement is booked once |
| oracle registry | stakes, rounds, votes, slashed funds | register, open, vote, expire, slash, resolve | invoice | quorum by stake that changes during a round | one outcome per round, backed by votes |
| other contracts | co-funding, arbitration, governance, access control, market, insurance, auction, tranche, credit score, compliance, referral | | each other | | modelled only where a service or a page meets them (see `components`) |
| indexer, writing | `events`, `ledger_hashes`, a cursor in memory | poll, check for a reorg, roll back, backfill, restart | Horizon, PostgreSQL | two writers, reorgs, crashes | the table says what a chain held; no gap below the cursor |
| indexer, queries | -- | rebuild an object's state from its events, page by page | the table while it is written | the table moves under the reader | an answer was true at some moment of the request |
| oracle service | cursor file; queue, jobs and pause flag in memory | stream, verify, open a round, vote, retry | Horizon, registry | crash, retry after an applied vote, pause | what it listens for is queued, restarts included |
| compliance service | recent deposits, tracked subjects | count, alert, screen, rescreen | Horizon, compliance registry | two callers of the same async counter | a pattern raises an alert |
| bindings (`contracts.ts`, SDK) | -- | some 350 contract calls | fourteen contracts | written by hand, twice | each call fits its contract |
| transactions (`stellar.ts`, SDK) | connection pool, pending transactions | send, poll, retry | RPC | timeouts race answers, resends | it ends, and what it reports is explained |
| read queue (`stellar.ts`) | waiting and running reads, a timer | start, settle, reschedule | the JavaScript event loop | microtasks before answers | a waiting read is started |
| cache (`cache.ts`) | SWR entries | fetch, mutate, revalidate | contracts, event stream | an old answer after a new write | one's own write is seen |
| live events (`sse-events.ts`, `/api/events`) | processed ids, consumers; tickets, clients, position | poll, announce; connect, broadcast | RPC, indexer | overlapping polls, drops | announced once; lost only if passed over |
| monitor (`monitoring.ts`) | checkpoint in memory and on disk, activity | poll, alert | RPC | polls overtake each other | nothing behind the checkpoint was skipped |
| pages | busy flags, what is shown | click: build, sign, submit, announce, reload | wallet, ledger | awaits between reading and showing | what is announced and shown is so |
| proposal form, juror page | typed fields; the salt in two stores of the browser | propose; commit, reveal, register | access control, arbitration | defaults; losing the salt, crossing loads | sends what it shows; the vote can be revealed |

Hazards, each at its line and with the properties that would catch it, are in
`PROJECT.json`, and so are the components that are left out.

## Modules

| Module | Models | Composition |
|---|---|---|
| `Invoice` | the invoice contract | stand-alone; pool, oracle, keeper and arbitration are its environment |
| `PoolShares`, `Pool` | the pool; `Pool` EXTENDS `PoolShares` and has the specification | with the share token |
| `OracleRegistry` | the oracle registry | with how an invoice leaves `AwaitingVerification` |
| `Indexer` | the poll loop, reorg check and backfill | implements `EventLog` |
| `EventLog` | what the indexer promises of its table | abstract |
| `ReadModels` | the indexer's query handlers | with the table they read |
| `OracleService` | the oracle node | with what it needs of the registry |
| `ComplianceService` | the compliance service | with the registry's two entry points it calls |
| `Monitoring`, `EventPolling`, `EventStream` | the frontend's monitor, event poller and event stream | |
| `ContractAbi` | what the contracts accept: entry points and argument types | data |
| `FrontendBindings`, `SdkBindings` | every contract call of `contracts.ts` and of the SDK | data |
| `ClientCalls` | one call from the function to its answer | composes the three above |
| `Transaction`, `ReadQueue` | `submitTx`, the queue it waits in and the connection pool; the read queue by itself | |
| `ClientCache` | the cache's hooks and mutations | |
| `PageHandlers`, `PageActions` | the pages as data; what a click does | `PageActions` EXTENDS `PageHandlers` |
| `RolesForm`, `JurorVoting` | the proposal form; the juror's page with the arbitration contract's vote | |
| `InvoiceProofs`, `PoolProofs`, `OracleProofs`, `IndexerProofs` | theorems about the module of the same name; `IndexerProofs` also about `ReadModels` | |
| `ServicesProofs` | theorems about `OracleService`, `EventStream`, `Monitoring`, `EventPolling`, `ComplianceService` | |
| `ClientProofs`, `PageProofs` | theorems about `JurorVoting`, `ClientCache`, `Transaction`, `RolesForm`; about `PageActions` | |
| `DataLemmas` | induction, maxima and sums over finite sets | what the proofs share |
| `MCInvoice`, `MCPool`, `MCOracleRegistry`, `MCSettlement` | instances of the contracts | |
| `MCServices`, `MCClient` | one run for the services and one for the client side | a behaviour follows one component, chosen in the initial state |

The components of `MCServices` share no state in the source; neither do those of
`MCClient`.  Interleaving them would multiply the states and add no behaviour, so
`followed` picks one and the others stand still.  `CHECK_DEADLOCK FALSE` there
because a bounded chain, a click budget or a finished request really is an end.

### Contracts

*Invoice.*  `inv` is `DataKey::Invoice`, with status `Absent` for an id that has
no entry; counters and indices are variables of their own because handlers
update them separately, and that is where they can disagree.  `stamps` is the
rate limiter's vector as a function from times to how often.  Verification by
a single oracle or by the registry is the same action; `is_invoice_repaid` and
`update_invoice_due_date` in the pool are assumed to have answered.
`maybe_expire_pending_invoice` appears only as the guard `~Lapsed(i)`: both
callers panic after it has written, so the writes never survive.

*PoolShares and Pool.*  `cash` is the pool's balance in the stablecoin contract,
which the code never stores; `poolValue` and `deployed` are the stored totals.
`process_withdrawal_queue` is the operator `Settlement`; its loops are recursive
functions: `SettleCohort` walks the queue and serves the places of one cohort,
`SettleCohorts` does so for one request time after the other (the code looks for the
oldest cohort that is left, which is the same since no request is dated after `now`),
`PutBack` re-queues the requests that are not due.  `SettleQueue` is its call at the end of
`Deposit`, `RepayFull` and `DrainWithdrawalQueue`.  `ok = FALSE` says that a burn or
transfer in it would panic, and then the calling action is disabled, as in the code.
(`share.burn` also asks for the authorisation of the queued investor, `share/src/lib.rs:301`,
which every settlement in the model has; without it the caller fails too.)
Batch entry points are sequences of the single actions.  `held`, `unbooked`, `leak` and
the field `booked` are history: no guard reads them.

*OracleRegistry.*  `OpenRounds`, a list from which handlers take the first match, is
a count per id, so that a duplicate or a leftover would show.
`deregister_oracle` does two things on its first and second call and is two
actions.  `FinalizeOnInvoice` is `try_consensus_verify`: where it fails the whole
call fails.  `InvoiceLeaves` is the invoice contract acting by itself.  The invoice's own
pause and a registry it no longer knows would fail the call as well; they do not last, which
`NeverBricked` assumes as it does of the registry's pause.

### Services

*Indexer.*  An event is `[ledger, index, version]`; its id is its place, its content
the `version` of the chain that held it.  `Reorg` replaces the last ledgers.
Horizon's cursor is external: a ledger number stands for the beginning of that
ledger, a paging token for one record, which is what `index.ts` takes them for.
The loop is `FetchEffects`, `StoreBatch`, then one of `CheckPasses`, `CheckSkipped`,
`CheckFindsReorg`; `PollError` is its `catch`, `Restart` a crash and a start
`LOOKBACK_LEDGERS` before the newest row.  In `RollbackAnswerLost` the rollback commits, its
answer is lost, and the cursor is not rewound.  `jumped` is history: what a start
jumped over because a backfill had stored rows ahead of the loop, and what such a
rollback deleted behind the cursor.

*EventLog* is the promise: rows are events some chain held, the first row of an id
stays, and rows disappear only from a replaced ledger on.  `Indexer` implements it
with `log <- table` (`INSTANCE EventLog WITH`, property `KeepsEventLog`).

*ReadModels.*  A run follows one object of one family (co-funding round, oracle
round, attestation, listing, order, invoice found by a search, ...).  The rows carry the
state the contract was in after the event as history; the handlers see only event
names and flags and rebuild a state from them.  `Pages` gives every set of rows that
`ORDER BY ledger_sequence DESC LIMIT OFFSET` may return.  `Expire` is time passing an
attestation's `expires_at`: the contract turns it into an expired one without an event
(`maybe_expire_attestation`).  `GET /events` and `/compliance/flagged` call `parsePagination`,
which `api.ts` does not define: at this commit they throw, and there is no answer to model.

*OracleService.*  `queue`, `running` and `ticks` are the verification queue with its
`setImmediate`; a job goes through `get`, `round` and `vote`, each retried by
`TryAgain`.  A lost answer may hide an applied vote.  `CrashAndStart` keeps the
cursor file only.  The listener compares the first topic with `INVOICE`
(`listener.ts:116`); the invoice contract of the repository publishes `invoice`
(`contracts/invoice/src/lib.rs:397`), its predecessors `INVOICE` (`docs/events.md:284`).
`invoiceTopic` is what the deployed contract publishes, either at first, and
`UpgradeInvoice` replaces an old one: from then on the node sees no invoice.

*ComplianceService.*  One subject.  `recordDeposit` up to its `await` is
`RecordDeposit`, the rest is `FlagDone`; the poll loop awaits, the REST route's
callers overlap, and the window slides while they do.  Submissions are simulated, sent and never looked at again.

*Monitoring, EventPolling, EventStream.*  Polls are slots with a program counter.
`EventSource` is external: after a drop it asks the same URL, whose one-time
ticket is used up, so the answer closes it for good.  A shared poll looks up its position if it
has none (`LedgerKnown`), sends one request per contract, each with a limit and answered in
its own time (`RequestAnswered`), and moves one position to the newest ledger of both
(`Broadcast`).  The indexer answers here as its interface says; that `GET /events` throws at
this commit, see above, would make every poll a `SharedPollFails`.

### Client side

*ClientCalls.*  A row of the bindings keeps what decides whether a call can work:
contract, entry point, argument types as encoded, source account, local checks,
failures absorbed.  `Conforms` is the host's test.  Two facts of the code show in
every call: the placeholder account of `contracts.ts:180` is no valid account id,
so reads built on it fail; and accounts from the RPC have no `balances`, so
`ensureSufficientNativeBalance` always throws.  A call that fails there never meets the host,
so `CallsConform` asks of the call itself, at every stage, whether it would fit.

*Transaction.*  On the frontend a submission first waits in the queue of `readContract`
(`queued`), beside the other reads of the page (`otherReads`); a call that meets a saturated
queue hangs the page (`QueueSpins`, what `ReadQueue` shows in detail), and no answer
or timer is handled any more.  An attempt that lost the race of `rpcPool.execute` keeps polling and
reporting (`raced`).  `RacePolls < PollLimit` as 15 s is to 30 s.  The user may submit the same XDR again
(`MaxSubmissions`, 1 in the run).

*ReadQueue.*  Microtasks run before anything else: every action but `RunMicrotask`
and the passing of time needs `microtasks = 0`.  `turn` only makes a microtask that
changes nothing a step.

*ClientCache.*  Entries are independent, so a behaviour watches one key; data are
versions.  SWR is external and does what its documentation says of `mutate`,
deduping and fetches that were overtaken.

*PageHandlers and PageActions.*  A page is a set of handlers -- busy flag, when
the button is offered, what it sends, how it reloads -- and the loads it starts
by itself: at the mount, by a timer, when an input changes, by a Refresh button, or in an
effect of its own.  `PageActions` runs them: handlers with the same four features
behave alike and are merged (`KindOf`).  `crossed` is history: whether another load was under
way when the page first showed the user's own action.

*RolesForm.*  `fields` has a key only when its input was touched.  What the page shows
(`Showing`, `fields.key ?? default`) and what is sent (`Converted`, `buildActionPayload`) are
separate definitions over the same entries: any of `Texts`, with `Trimmed` for `trim`, an empty box,
or one that does not parse, on which `handlePropose` throws.  Targets, actions and inputs
stay open to the user while a proposal is sent; a proposal the form has changed under is only
`Underway`, and its success clears the fields whatever they are for by then.

*JurorVoting.*  One juror, case and tab.  Either store may refuse the salt in silence.  Every
load is there by number, from the mount, a wallet that connects again, and each of the four
handlers, and whichever answers last is shown; the first two rounds of requests of a load
decide nothing about the vote and are part of the third.  `VisitAgain` leaves the page within the
app (the handler goes on), by a reload, or for a new tab.  `unseen`, `overtaken` and
`unkept` are history.

## Runs

| Run | Instance | Shows |
|---|---|---|
| `invoice` | 2 invoices, one SME and debtor, amounts 1 and 2 on both sides of the arbitration threshold, 4 instants | six properties of `Invoice` |
| `pool_queue` | 2 investors (symmetric), supply up to 4, 2 requests, 1 loan of 3, 3 instants | the queue, NAV and share price |
| `pool_ledger` | 1 investor, 1 loan with interest, fee, referral, premium, collateral, insurance | the money adds up |
| `settlement` | all queues of up to 3 investors with small shares, times, NAVs and budgets | fairness of one settlement |
| `oracle` | 2 oracles (symmetric), 1 invoice, stake 2, slashing by half, 4 instants | stakes, rounds, voters, decisions |
| `oracle_liveness` | 1 oracle, 2 invoices, `LiveSpec` | no invoice waits for ever |
| `services` | see `Services.cfg` | eight properties, one per component and `EventLog` for the indexer |
| `client` | see `Client.cfg` | nine properties, `SubmissionSettles` under fairness |
| `invoice_outstanding`, `pool_deployed`, `pool_repayment`, `read_queue` | | counterexamples, below |

**Bounds and why they are enough.**

*Contracts.*  Two invoices let one SME have debt from one while another is created or
cancelled; a third adds a summand and no new case.  Time runs over a full window
of the rate limiter plus one instant, over every timeout and the grace period.
Order, cohorts and transfers in the queue need two investors; cohorts of several
requests with younger ones behind them need three, and those are in `settlement`.
Loans affect each other only through the totals, so one loan and all ways to end it,
twice, covers the ledger.  In the registry, duration and cooldown are in the
order of the defaults, and time suffices for a round to expire and be reopened.
Percentages are scaled down (`BPS = 2`) so that small amounts meet rounding.

*Services.*  Three ledgers of two events and pages of three make pages end inside
and at the end of a ledger, and a reorg of depth two reach below the look-back of
one.  Four events with pages of two give a replay of several pages with inserts and
rollbacks between them.  Three invoices with one slot and two attempts fill the
oracle's queue, and one crash separates what is saved from what is not.  Two
deposits raise an alert and two alerts may be in flight.  Two overlapping polls
are enough for one to overtake the other; two components and two clients for one to
leave while the other stays.  The stream has two contracts with an answer of one row each, two
ledgers and a look-back of one: an answer may be cut, and come before or after an event of the
other contract in the same ledger.

*Client.*  Three attempts (the code's `maxRetries`) with a race after one of two polls give
resends, late answers and attempts without an audience.  Two clicks, one timer
and one batch of two put any two handlers of a page, and a load, into each other's way.
Three texts are a word, the same with a blank
before it, and a blank.  Three versions let an old, an own and a foreign change meet.  Two salts
are one more than a juror needs, and three loads let two cross after a third.  Two slots of the read
queue are the submission's and another read's.

Bounds (`Max...`, `PerChainLedger`, `PerLedger`, `SharedPolls`, `MonitorPolls`,
`BatchSize`, `LastStreamLedger`) only cut off growth and stand in guards of their own.
`SharedPolls = 1`: overlapping shared polls only repeat events.

**Fairness.**  In the contracts nothing runs by itself; `oracle_liveness` assumes that
time passes, a pause ends (WF), somebody makes the permissionless call
`expire_round` if it is possible again and again, and the admin does what
`admin_resolve_round` is for (SF, since a new round may be opened in between).
Oracles owe nothing.  `client` assumes that timers fire -- the backoff and the race's
timeout --, that the read queue starts what fits and other reads end (their own race has a
timeout, too), all while the page is not hung; and, for the SDK only, which has no timeout, that its
requests are answered or fail.  The frontend then settles even if its requests hang, unless the
read queue hangs the page.  `read_queue` assumes all that a
browser and a network can be asked for: microtasks and timers run, reads are
answered, time passes.  Under all of it the queue still hangs.

## What the properties say

*Invoice.*  `OutstandingNeverOverstated`; `OpenInvoicesRegistered`: three registers
of the same open invoices (statistics, indices, debtor exposure) survive every way
of closing and reopening one, exactly so while no default was disputed, since
`raise_dispute` reopens what `mark_defaulted` has taken off and nothing puts it back.
`RateLimitHolds`, `CleanupConserved`, `DueDateNeverMovesBack` (a dispute sets `now +
grace` without looking at the old date; it is safe because only an invoice past
its deadline can be disputed).

*Pool.*  `QueueBacked` (three ledgers of the same shares, and the queue's order and
ids through settlements that rebuild it), `NobodyIsOvertaken`, `SettlementIsFair`,
`SharePriceNeverFalls` (while the NAV is not negative: rounding towards zero favours the
pool only then), `NavCoversDeployed`, `LedgerBalanced` (every movement of the
token is matched in the totals, except the entries that `leak` lists by
handler), `CustodyAccounted`, `DeployedNeverOverstated`.

*Oracle registry.*  `StakeAccounted`, `OpenRoundsExact`, `VotersStayRegistered`,
`DecisionReachesInvoice`, `DecisionIsFinal`, `NeverBricked`, and `ApprovalHasSupport`:
votes weigh the stake of the moment and the threshold is of the snapshot, and still
no round is approved without a vote for it, provided the snapshot is not zero.

*Services.*  Each property is as strong as the code allows, and its exceptions
are what the code really loses:
`NoGapBelowCursor` (but for `jumped`); `AnswerWasTrue` (but for rollbacks between
pages, events of one ledger, whose order is lost, and unpaged handlers past their
limit; an expired attestation is told as active, a filled order may be listed as open, and a
search by status finds invoices whose payloads happen to contain the word);
`QueuedExactlyListened` (the creations behind the position are queued if and only if they
came under `INVOICE`, but before the first saved cursor: `listener.ts:37-40` says that a restart
misses none, which is so of that topic and of no invoice of this repository's contract);
`StructuringIsFlagged` (but after a reset that discarded deposits of the time of the alert);
`ShownAgainOnlyAfterStop`; `StreamLosesOnlyPassedOver` (but for events stored late, behind the
look-back, or missing from the limited answer for their contract while the merged
answers reach their ledger); `CheckpointCoversProcessed`
(but for what the RPC cut from an answer, since no second page is asked for).

*Client.*  `CallsConform`: of all calls of both bindings exactly those in
`KnownMisfits` and `KnownMisfitPayloads` do not fit their contract, whether or not their source
account lets them get that far, and these can never get past the simulation.
`FalseFailureExplained` (a resend or a loop that gave up, nothing else) and
`SubmissionSettles` (unless the read queue hangs the page);
`OwnWriteSeen` (only deposit, yield and referral revalidate what they change);
`SequenceClashNeedsTwoFlags`, `PageKeepsOwnAction`, `AnnouncementIsTrue`:
which features of a page make which accident possible, and that nothing else does (the user's
own action is replaced on the screen by something older only where another load was under way
when it was shown, which takes a page that loads by itself, has several flags, or
offers a button during its first load);
`FormSendsWhatItShows` (but for untouched true/false and role selections, shown as
`true` and `Super Admin`, sent as false and empty; the form stays open while a proposal
is sent, and what is typed then is no part of it); `CommitmentStaysRevealable` (but
after a commitment whose end was not seen, an answer shown after that of a newer load, or a
salt the browser did not keep; each of the three does lose it).

## Where the code disagrees with its own documentation

Checked, with a counterexample:

1. `resolve_dispute` in favour of the debtor takes an invoice off the SME's
   outstanding debt that was never put on it (`invoice_outstanding`).
2. A loan repaid in full before its due date starts to owe interest again; repaying
   that takes the principal off `total_deployed` a second time (`pool_deployed`).
3. A queued investor whose shares have moved away blocks full repayments
   (`pool_repayment`).
4. A saturated read queue spins in microtasks and the page hangs (`read_queue`).

Met while modelling, and visible in the modules:

- A registry whose oracles were all slashed to zero opens rounds with threshold zero,
  and votes against approve (`oracle_registry/src/lib.rs:806`); it is the condition in
  `ApprovalHasSupport`.
- `claim_yield` pays interest that the NAV keeps counting, premiums are booked
  twice, `cancel_funded_invoice` writes nothing down, `risk_liquidate_collateral`
  credits what leaves: the terms of `leak`.
- `reorg.ts:6-8` says each new ledger is checked; the code checks the last one of a
  batch.  A reorg deeper than that leaves orphaned rows.  `backfill.ts` counts a
  failure twice (:94, :99), and a ledger split over two of its pages loses the rest.
- `api.ts` calls `parsePagination`, which is not defined in it, in `/events`,
  `/compliance/flagged` and `/compliance/history`: they throw.
- `/api/events` merges two answers of at most 200 rows under one position: a full answer for one
  contract, or an event stored between the two, leaves events behind it for good.
- `reorg.ts:100`: a lost answer to `COMMIT` leaves the rows deleted and the cursor where it was.
- The oracle node listens for `INVOICE`, the invoice contract publishes `invoice`.
- `withdraw_slashed_funds` takes any amount, the oracles' stakes included.
- The jurors page ignores that a salt could not be stored and commits all the same.
- `verifier.ts:241` logs that a vote refused by a pause will be retried; it is dropped.
- `request_review` replaces any record, `Blocked` included, by `PendingReview`.
- `/compliance/flagged`, if it ran, would keep addresses that were cleared later.
- `useTrackTransaction`, a hook, is called inside handlers: the secondary market and
  co-funding pages sign and then throw; their tests mock the hook.  The admin governance
  page and the storage cleanup announce success without sending anything.
- The yield, compliance, oracle and attestor pages announce failure after a success
  when the read that follows fails.
- The first component that mounts `useSseEvents` owns the poller: when it unmounts
  the others stop receiving.
- `cache.ts:413` announces "Mutations with Cache Invalidation"; five of the eight
  mutations invalidate nothing.

## Proofs

All theorems hold for every value of the constants that the named assumptions allow;
the assumptions ask for finite sets, positive limits and amounts, and the like, and
TLC evaluates each of them in a run.  Bounds of the model (`Max...`) are constants like
any other: no theorem depends on their size.

`DataLemmas` has the facts about data.  The provers cannot instantiate an induction
theorem that takes an operator, so induction is stated over sets: a set of naturals
has a least element (`LeastElement`, from well-foundedness), hence `CountingUp` and
`SubsetInduction`.  From these: what `Max` and `Min` return; that the recursion
inside the sums of the community modules has one solution (`SumExists`,
`SumUnique`); that a sum does not depend on the order of its elements
(`SumsUpAny`); how it moves when one term does (`SumChange`, `SumCompare`); and what
division by a total does to parts of it (`QuotientBounds`, `ShortForAll`).

`InvoiceProofs` (`InvoiceAssumption`).  Nineteen handlers write an invoice, but they do
nine kinds of things to it; `StepCases` sorts every step into one of them and keeps
the types, and the invariants are then preserved kind by kind.

- `TypeCorrect`; `CleanupCorrect` and `OutstandingCorrect` are inductive relative to
  `TypeOK`: `StoredStep` follows the set of stored ids, `DebtStep` the sum over
  the Funded ones.
- `DueDateMonotone`, an action property, from `DatesInv`: a default, and a dispute about
  one, is past the due date, and an invoice that was never funded has no dispute record.
- `RegistersCorrect`.  `OpenInvoicesRegistered` is not inductive: a dispute reopens a
  default without counting it again, and a verdict closes it without taking it off.
  `RegisterInv` counts the open invoices without the disputed defaults, keeps a default
  in its owner's index, and needs `DatesInv`.
- `RateLimitCorrect`.  The limiter sees stamps, the property stored invoices.  `LimiterInv`
  ties them: for every start `w` of the last day on, an owner has no more stored invoices
  after `w` than stamps after `w`.  Pruning keeps it, since it drops only older stamps.

`PoolProofs` (`SharesAssumption`, `LendingAssumption`):

- *The settlement.*  `CohortLoop`, `CohortsLoop` and `PutBackLoop` unfold the recursive
  functions.  `Settled(a, b, q, P)` is the loop invariant: when the places `P` have been
  treated, the burned shares and the payments are what balances and payouts say, every
  treated request has its rest in the new queue, ids rise, and nothing outside `P` has
  moved.  `SettledStep` adds one place, `CohortFacts` a cohort, `CohortsFacts` all of them by
  counting up the request times, and `SettlementFacts` is the result.
- `TypeCorrect` and `QueueCorrect` are proved together: `TypeOK /\ QueueInv` is inductive
  and neither half is.  Types need the queue (what a settlement leaves of a request is read off
  the investor's balance, which takes one request per investor), the queue needs types.  `QueueInv` is `QueueBacked` with
  `AskedByNow`: a request dated after `now` would be passed over by the cohorts.  The queue's
  handlers each change one request at most (`OneRequestChanged`); amounts stay amounts by
  `LoanAmounts`, `FeeIsAmount`, `WorthIsAmount`, `MintedIsAmount`.
- `NotOvertaken`, an action property: requests that survive a step keep their ids, ids order
  the queue, and new ones are larger.
- `PriceKept`, an action property: each settlement, deposit and withdrawal rounds in the
  pool's favour (`RoundedForThePool`).
- `FairSettlement`, of every queue the contract can reach and every budget.  If one request
  of a cohort gets less than its worth, so much less is left per share that nobody of the
  cohort reaches his (`ShortForAll`); each has then got his part rounded down, so less than
  one unit per request is left (`ShortCohort`), and the younger share that (`FairOutcome`).
- `LedgerCorrect`.  Inductive relative to `TypeOK`.  `SharesStepMoney` says that the
  investors' side changes cash and NAV by the same amount and leaves the rest;
  `LendingStepMoney` goes through the handlers.  `SettleQueueFacts` is all that either
  needs to know about the queue.
- `NavCovers`.  Not inductive alone: a full repayment adds the interest to the NAV, and
  the interest is non-negative only because no loan is dated in the future or due
  before it was paid out (`LoanTimes`).
- `CustodyCorrect`, inductive with `BlankIsBooked` (an id without a loan has nothing
  waiting to be booked); `LoanSteps` sorts the lending steps first.
- `DeployedCorrect`, inductive with `LoanTimes` and `NeverOverpaid`: what is due grows
  with time (`InterestMonotone`), so a loan within its due stays within it.

`OracleProofs` (`RegistryAssumption`):

- `TypeCorrect`; `OpenRoundsCorrect` and `DecisionsReachInvoices`, each inductive
  relative to `TypeOK`; `DecisionsAreFinal`, an action property that follows from
  `DecisionReachesInvoice`, since a round is only opened for an invoice that is still awaiting.
- `VotersRegistered`, under the extra assumption `CooldownOutlastsRounds` (every cooldown
  that may be configured is longer than every round duration), which the defaults satisfy
  and `set_registry_config` does not check.  The property is not inductive: that a voter
  cannot leave in time depends on when he asked to.  The inductive invariant
  `VotersCoolDown` says that a round's deadline falls within any cooldown started now,
  and within that of each voter who has asked to leave.
- `StakesAccounted`, with the fact that no stake is on record for an operator who is
  not registered; `ApprovalsHaveSupport`, from `RoundsSupported`: weights are zero
  unless somebody voted, and a threshold is positive when the snapshot was.

`IndexerProofs` (`IndexerAssumption`): `ImplementsEventLog`, step by step under the
mapping `log <- table`, from `IndexerInv` (batches and rows are events some chain held,
and a batch is as full as its page); `NoGap` from `GapInv`, which adds that the batch in
flight continues where the cursor stands (after a rollback whose answer was lost, what it
deleted is in `jumped`).

`AnswersTrue` (`ReadAssumption`) says that what a handler makes of the rows it read page by
page was true of the object while the request ran.  `AnswerWasTrue` speaks of the end
of a request only; `ReadInv` carries it through the pages, in three parts:

- `RowsInv`: the rows up to any row `r` are a whole history of the state after `r`
  (`Fits`: what each family's handler goes by), because an event is stored with all before it;
- `PagesInv`: while pages are read, newest row first and by offset, new rows push old ones
  down, so a page may repeat rows; but unless a rollback came between, nothing below the newest row
  read is skipped, and every state since that row is one the reader may report;
- `HistoryInv`: a reading that ended has all rows up to its newest one, hence is a history of a
  state that was seen, and `Answers` of a history that `Fits` a state tells that state, or the
  active state of an attestation that has expired since.

The exceptions of the property are where these break: after a rollback an offset may skip a
row, two rows of a ledger may be read in either order, and an unpaged handler stops at its limit.

`ServicesProofs` (the assumption of each module):

- `NoListenedInvoiceMissed`, of a contract of either topic, upgraded at any time.  The cursor
  file never runs ahead of the stream (`CursorBehindStream`); an invoice is created once
  (`CreatedOnce`), so the queue cannot have got it under another topic (`QueuedWasListened`).
- `StreamLosesNothingElse` from `AskedFromSettled` (what lies up to the position a poll asked with is
  accounted for) and `AnswersAccounted` (so is, of the contracts it has an answer for, every event
  after it: the poll holds it or counts it as left out); `CheckpointCovers` from `PollsCovered` and `CheckpointSeen`, which relate every
  poll in flight, not only the last, to the look-back and to what was processed;
  `ShownOnce` from `PollInv` (what polls carry and the list holds is marked, and no two of
  them share an event that was not forgotten);
  `StructuringFlagged` from `UnalertedAreTicks` (until a reset discards some, the list has every
  deposit no alert has told of, and they are fewer than the count).

`ClientProofs`: `CommitmentRevealable` from `JurorInv`: unless one of the three accidents has
happened, the handler at work holds the stored salt (`CommitHoldsSalt`), a commitment under way is
awaited by it (`CommitAwaited`), and once the contract has one, the page shows so or every load
that may still answer with less is older than one already shown or than the load the handler
awaits (`CommitKnown`); `OwnWriteShown`
from `FetchAfterWrite`; `FalseFailureHasCause` from `TxInv` (attempts are launched in
order, and the first one with an audience reports what it saw); `FormSends`
(`FormAssumption`) from `FormInv`, which adds that the fields hold entries of the inputs of the
action on the form.  It rests on two facts about `buildActionPayload` and `ActionFields`, two switches
that were written apart: for each of the 42 actions the payload takes every input once, with a
conversion for its control (`FormTable`), and such a conversion makes of any entry what the
control shows (`SentIsShown`).

`PageProofs`: `AnnouncementsTrue` from `JobsInv`, which says of every handler what its
program counter implies of its own transactions; `OneFlagNoClash` from `FlagInv` (a handler
at work holds its flag, and where one flag serves a page its transaction has the next
number); `OwnActionStaysShown` from `LoadInv` (before the mount's load is over only handlers that drop it
have started, where loads cannot cross) and `ShownInv` (without a load under way when the action
was shown, only reads begun after it are left).

**Only model-checked.**  Liveness (`NeverBricked`, `SubmissionSettles`, `QueuedReadsStart`), which the
prover does not do.  `CallsConform`: `ClientCalls` has no constants, so that the run visits every
call of both bindings along every path, and a proof would only repeat the tables row by row.

## Plan

1. *Done:* the contracts `Invoice`, `PoolShares`, `Pool`, `OracleRegistry` with their proofs;
   the services and the client side with `EventLog` and its refinement.
2. *Done:* theorems about every contract and service, in the modules above.
   Every invariant of a run is a theorem now but for `CallsConform`.
3. More of the contracts: arbitration's bonds and verdict, governance with checkpoints,
   access control's thresholds, co-funding.

## Not modelled

Rendering, wording and layout; decoding of answers; the mock mode; sign-in and CSRF
tokens; charts and floating-point estimates; notifications' delivery; parsing of
effects; derived tables of the indexer; scripts and benchmarks.  Of the contracts:
storage TTLs (archived entries are restorable), events and logs, read-only queries,
configuration setters other than the registry's; exchange rates, second tokens,
rate curves and compound interest of the pool; and the inside of the contracts the
inventory lists as `other`, of which only the entry points, or the life of an object
as its events tell it, are modelled.
