---------------------------- MODULE Transaction -----------------------------
(***************************************************************************)
(* The life of one signed transaction on a client.                         *)
(*                                                                         *)
(* The frontend's submitTx first waits in the queue of readContract, which *)
(* it shares with every read of the page and which hangs the page when it  *)
(* is saturated (ReadQueue).  It then runs inside rpcPool.execute: each    *)
(* attempt sends the transaction and polls for it, in a race with a        *)
(* timeout of half the polling time, and a failed attempt is made again,   *)
(* up to maxRetries, on another connection.  An attempt that lost the race *)
(* is not cancelled: it goes on polling and reporting.  The SDK's submitTx *)
(* sends once and polls until it gives up.  The network is external: it    *)
(* may lose an answer, apply a queued transaction late, or drop it when    *)
(* its time bounds end.                                                    *)
(***************************************************************************)
EXTENDS Naturals, FiniteSets, FiniteSetsExt

CONSTANTS
    MaxSubmissions,   \* bound: how often the user submits the same XDR
    MaxRetries,       \* RPC_POOL_CONFIG.maxRetries
    PoolSize,         \* RPC_POOL_CONFIG.poolSize
    MaxConcurrent,    \* RPC_READ_LIMIT.maxConcurrent
    PollLimit,        \* polls until a loop gives up (20 of 1.5 s; 30 of 1 s)
    RacePolls         \* polls that fit in requestTimeout (15 s)

ASSUME TxAssumption ==
    /\ MaxSubmissions \in Nat /\ MaxRetries \in Nat \ {0} /\ PoolSize \in Nat \ {0}
    /\ MaxConcurrent \in Nat \ {0}
    /\ PollLimit \in Nat /\ RacePolls \in Nat

VARIABLES
    side,        \* which submitTx: "frontend" or "sdk"
    ledgerTx,    \* absent | queued | success | failed | expired
    attempts,    \* what each launched attempt is doing
    tries,       \* attempts of the current submission
    submissions, \* submissions so far
    outcome,     \* of the current submission
    reported,    \* the last status given to onProgress
    healthy,     \* connections not marked unhealthy
    inFlight,    \* inFlightRequests of each connection
    otherReads,  \* reads of the page that hold a slot of the queue
    hung         \* the queue spins in microtasks: nothing else of the page runs

readVars == <<otherReads, hung>>
txVars == <<side, ledgerTx, attempts, tries, submissions, outcome, reported, healthy, inFlight,
            readVars>>

Conn == 1 .. PoolSize
AttemptIds == 1 .. MaxSubmissions * MaxRetries
Unused == [at |-> "unused", raced |-> FALSE, polls |-> 0, conn |-> 0]

TxInit ==
    /\ side \in {"frontend", "sdk"}
    /\ ledgerTx = "absent"
    /\ attempts = [a \in AttemptIds |-> Unused]
    /\ tries = 0 /\ submissions = 0
    /\ outcome = "idle" /\ reported = "none"
    /\ healthy = Conn /\ inFlight = [c \in Conn |-> 0]
    /\ otherReads = 0 /\ hung = FALSE

Launched == Cardinality({a \in AttemptIds : attempts[a].at # "unused"})
Retries == IF side = "frontend" THEN MaxRetries ELSE 1

\* The attempt the race is on: the newest, while it is neither over nor lost.
IsCurrent(a) == a = Launched /\ ~attempts[a].raced /\ outcome = "running"

-----------------------------------------------------------------------------
(* The connection pool *)

\* Healthy connections first, then the fewest requests in flight.
Better(c, d) ==
    \/ inFlight[c] < inFlight[d]
    \/ inFlight[c] = inFlight[d] /\ c <= d
GetConnection ==
    IF healthy = {} THEN 1 ELSE CHOOSE c \in healthy : \A d \in healthy : Better(c, d)

\* performHealthChecks on one connection: one that answers is healthy, one that
\* does not, or is too old, is replaced by a fresh one.
PerformHealthCheck(c, recycle) ==
    /\ healthy' = healthy \cup {c}
    /\ inFlight' = IF recycle THEN [inFlight EXCEPT ![c] = 0] ELSE inFlight
    /\ attempts' = IF recycle
                   THEN [a \in AttemptIds |->
                           IF attempts[a].conn = c THEN [attempts[a] EXCEPT !.conn = 0]
                           ELSE attempts[a]]
                   ELSE attempts
    /\ UNCHANGED <<side, readVars, ledgerTx, tries, submissions, outcome, reported>>

\* The end of execute's try: the request is no longer in flight on the object it
\* was counted on, which recycling may have replaced (conn 0).
ReleaseConnection(c) ==
    inFlight' = IF c = 0 THEN inFlight
                ELSE [inFlight EXCEPT ![c] = IF @ = 0 THEN 0 ELSE @ - 1]

-----------------------------------------------------------------------------
(* The read queue, as a submission meets it *)

\* A submission holds a slot until execute returns or throws.
Busy == otherReads + IF outcome \in {"running", "backoff"} THEN 1 ELSE 0

\* Another call of the page starts, unless the submission is before it in the queue,
\* and settles: it runs inside the same rpcPool.execute.
ReadStarts ==
    /\ side = "frontend" /\ ~hung
    /\ Busy < MaxConcurrent /\ outcome # "queued"
    /\ otherReads' = otherReads + 1
    /\ UNCHANGED <<side, ledgerTx, attempts, tries, submissions, outcome, reported, healthy,
                   inFlight, hung>>
ReadSettles ==
    /\ otherReads > 0 /\ ~hung
    /\ otherReads' = otherReads - 1
    /\ UNCHANGED <<side, ledgerTx, attempts, tries, submissions, outcome, reported, healthy,
                   inFlight, hung>>

\* A call finds every slot taken while the window has room for its start:
\* scheduleReadQueue puts processReadQueue into the microtasks, for ever.  (Where the
\* window is full it sets a timer, and a slot may be free by then.)
QueueSpins ==
    /\ side = "frontend" /\ ~hung
    /\ Busy = MaxConcurrent
    /\ hung' = TRUE
    /\ UNCHANGED <<side, ledgerTx, attempts, tries, submissions, outcome, reported, healthy,
                   inFlight, otherReads>>

-----------------------------------------------------------------------------
(* Submissions and attempts *)

Launch(n) ==
    LET c == GetConnection IN
    /\ attempts' = [attempts EXCEPT ![Launched + 1] =
                      [at |-> "sending", raced |-> FALSE, polls |-> 0, conn |-> c]]
    /\ inFlight' = [inFlight EXCEPT ![c] = @ + 1]
    /\ tries' = n
    /\ outcome' = "running"

\* submitTx.  pendingTransactions holds the key while a submission runs, and a
\* second call with the same XDR throws.  The SDK has no queue.
SubmitTx ==
    /\ outcome \in {"idle", "returned", "thrown"} /\ ~hung
    /\ submissions < MaxSubmissions
    /\ side = "sdk" => submissions = 0
    /\ submissions' = submissions + 1
    /\ IF side = "sdk" THEN Launch(1)
       ELSE outcome' = "queued" /\ UNCHANGED <<attempts, tries, inFlight>>
    /\ UNCHANGED <<side, readVars, ledgerTx, reported, healthy>>

\* processReadQueue starts the submission.
TaskStarts ==
    /\ outcome = "queued" /\ ~hung
    /\ Busy < MaxConcurrent
    /\ Launch(1)
    /\ UNCHANGED <<side, readVars, ledgerTx, submissions, reported, healthy>>

\* The backoff of execute is over.
RetryAttempt ==
    /\ outcome = "backoff" /\ ~hung
    /\ Launch(tries + 1)
    /\ UNCHANGED <<side, readVars, ledgerTx, submissions, reported, healthy>>

\* What the end of attempt a does to the submission, when it is the one raced.
Catch(a, unhealthy) ==
    IF IsCurrent(a)
    THEN /\ outcome' = IF tries < Retries THEN "backoff" ELSE "thrown"
         /\ healthy' = IF unhealthy THEN healthy \ {attempts[a].conn} ELSE healthy
         /\ ReleaseConnection(attempts[a].conn)
    ELSE UNCHANGED <<outcome, healthy, inFlight>>

Return(a) ==
    IF IsCurrent(a)
    THEN /\ outcome' = "returned"
         /\ ReleaseConnection(attempts[a].conn)
         /\ UNCHANGED healthy
    ELSE UNCHANGED <<outcome, healthy, inFlight>>

MoveTo(a, state) == attempts' = [attempts EXCEPT ![a].at = state]
End(a, how) == attempts' = [attempts EXCEPT ![a] = [Unused EXCEPT !.at = how]]

\* sendTransaction answers.  What is queued again is a duplicate; what is already
\* in a ledger, or out of time, is an error.
SendAnswers == IF ledgerTx \in {"absent", "queued"} THEN {"PENDING"} ELSE {"ERROR", "DUPLICATE"}

SendAnswered(a, answer) ==
    /\ attempts[a].at = "sending"
    /\ answer \in SendAnswers
    /\ ledgerTx' = IF ledgerTx = "absent" THEN "queued" ELSE ledgerTx
    /\ IF answer = "ERROR"
       THEN /\ End(a, "over")
            /\ reported' = IF side = "frontend" THEN "failed" ELSE reported
            /\ Catch(a, FALSE)
       ELSE /\ MoveTo(a, "polling")
            /\ reported' = "pending"
            /\ UNCHANGED <<outcome, healthy, inFlight>>
    /\ UNCHANGED <<side, readVars, tries, submissions>>

\* TRY_AGAIN_LATER: the frontend polls for it, the SDK throws.
SendPutOff(a) ==
    /\ attempts[a].at = "sending" /\ ledgerTx = "absent"
    /\ IF side = "frontend"
       THEN /\ MoveTo(a, "polling") /\ reported' = "pending"
            /\ UNCHANGED <<outcome, healthy, inFlight>>
       ELSE /\ End(a, "over") /\ Catch(a, FALSE) /\ UNCHANGED reported
    /\ UNCHANGED <<side, readVars, ledgerTx, tries, submissions>>

\* A request fails on the way; a send may have arrived all the same.  The connection is
\* marked only where the message speaks of timeout, fetch or network.
RequestLost(a, arrived, marks) ==
    /\ attempts[a].at \in {"sending", "polling"}
    /\ ledgerTx' = IF arrived /\ attempts[a].at = "sending" /\ ledgerTx = "absent"
                   THEN "queued" ELSE ledgerTx
    /\ End(a, "over")
    /\ Catch(a, marks)
    /\ UNCHANGED <<side, readVars, tries, submissions, reported>>

\* getTransaction answers with the fate of the transaction.
PollSettled(a) ==
    /\ attempts[a].at = "polling"
    /\ ledgerTx \in {"success", "failed"}
    /\ End(a, "over")
    /\ reported' = IF ledgerTx = "success" THEN "confirmed" ELSE "failed"
    /\ IF ledgerTx = "success" \/ side = "sdk" THEN Return(a) ELSE Catch(a, FALSE)
    /\ UNCHANGED <<side, readVars, ledgerTx, tries, submissions>>

\* NOT_FOUND: wait and ask again.  The raced attempt has RacePolls polls.
PollsLeft(a) ==
    attempts[a].polls < IF side = "frontend" /\ IsCurrent(a) THEN RacePolls ELSE PollLimit
PollAgain(a) ==
    /\ attempts[a].at = "polling" /\ ledgerTx \in {"absent", "queued", "expired"}
    /\ PollsLeft(a)
    /\ attempts' = [attempts EXCEPT ![a].polls = @ + 1]
    /\ reported' = IF side = "frontend" THEN "pending" ELSE reported
    /\ UNCHANGED <<side, readVars, ledgerTx, tries, submissions, outcome, healthy, inFlight>>

\* Mutant: the first NOT_FOUND counts as the end.
FirstPollEnds(a) ==
    /\ attempts[a].at = "polling" /\ ledgerTx \in {"absent", "queued", "expired"}
    /\ End(a, "over")
    /\ reported' = "failed"
    /\ Catch(a, FALSE)
    /\ UNCHANGED <<side, readVars, ledgerTx, tries, submissions>>
\* The loop ends unanswered: `confirmation timed out', or in the SDK `failed' and
\* the hash.
PollExhausted(a) ==
    /\ attempts[a].at = "polling" /\ ledgerTx \in {"absent", "queued", "expired"}
    /\ attempts[a].polls = PollLimit
    /\ End(a, "gave up")
    /\ reported' = "failed"
    /\ IF side = "sdk" THEN Return(a) ELSE Catch(a, FALSE)
    /\ UNCHANGED <<side, readVars, ledgerTx, tries, submissions>>

NeverLost(a) == FALSE /\ UNCHANGED txVars   \* mutant: no timeout in the race
\* requestTimeout wins the race.  The attempt goes on without an audience.
RaceLost(a) ==
    /\ side = "frontend" /\ ~hung /\ IsCurrent(a)
    /\ attempts[a].at \in {"sending", "polling"}
    /\ attempts' = [attempts EXCEPT ![a].raced = TRUE, ![a].conn = 0]
    /\ Catch(a, TRUE)
    /\ UNCHANGED <<side, readVars, ledgerTx, tries, submissions, reported>>

\* The network applies a queued transaction or lets it lapse.
Apply(fate) ==
    /\ ledgerTx = "queued" \/ (ledgerTx = "absent" /\ fate = "expired")
    /\ ledgerTx' = fate
    /\ UNCHANGED <<side, readVars, attempts, tries, submissions, outcome, reported, healthy, inFlight>>

\* A hung page handles no answer and no timer.
Attempt(a) ==
    /\ ~hung
    /\ \/ \E answer \in {"PENDING", "DUPLICATE", "ERROR"} : SendAnswered(a, answer)
       \/ SendPutOff(a) \/ PollSettled(a) \/ PollAgain(a) \/ PollExhausted(a) \/ RaceLost(a)
       \/ \E arrived, marks \in BOOLEAN : RequestLost(a, arrived, marks)

TxNext ==
    \/ SubmitTx \/ TaskStarts \/ RetryAttempt
    \/ ReadStarts \/ ReadSettles \/ QueueSpins
    \/ \E a \in AttemptIds : Attempt(a)
    \/ \E fate \in {"success", "failed", "expired"} : Apply(fate)
    \/ \E c \in Conn, recycle \in BOOLEAN :
         side = "frontend" /\ ~hung /\ PerformHealthCheck(c, recycle)

\* While the page is not hung its timers fire and its queue starts what fits; another
\* read ends, by the timeout of its own race at the latest.  Only the SDK, which has no
\* timeout of its own, needs its requests to be answered or to fail.
TxFairness ==
    /\ WF_txVars(RetryAttempt) /\ WF_txVars(TaskStarts) /\ WF_txVars(ReadSettles)
    /\ \A a \in AttemptIds :
         WF_txVars(RaceLost(a)) /\ WF_txVars(side = "sdk" /\ Attempt(a))

TxSpec == TxInit /\ [][TxNext]_txVars

-----------------------------------------------------------------------------
(* Properties *)

\* A user who reads `failed' for a transaction that is in a ledger has been told so
\* by a resend or by a loop that gave up, never by the first answers of one attempt.
FalseFailureExplained ==
    reported = "failed" /\ ledgerTx = "success" =>
        \/ Launched > 1
        \/ \E a \in AttemptIds : attempts[a].at = "gave up"

\* Every submission comes to an end, on the frontend even if a request of its own hangs,
\* because the race of rpcPool.execute has a timeout; unless the read queue, which it
\* waits in and shares, hangs the page and that timeout with it.
SubmissionSettles ==
    outcome \in {"queued", "running"} ~> outcome \in {"returned", "thrown"} \/ hung
=============================================================================
