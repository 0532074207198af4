----------------------------- MODULE ReadQueue ------------------------------
(***************************************************************************)
(* The queue every RPC call of the frontend passes (frontend/lib/          *)
(* stellar.ts): at most maxConcurrent reads run, and at most               *)
(* maxStartsPerSecond start in a window.  The JavaScript event loop is     *)
(* part of the model: the microtasks are emptied before a timer, an answer *)
(* from the network or the page gets its turn.                             *)
(***************************************************************************)
EXTENDS Naturals, FiniteSetsExt

CONSTANTS
    MaxConcurrent, MaxStarts,   \* RPC_READ_LIMIT
    MaxReads                    \* bound: reads the pages ask for

VARIABLES
    asked,        \* reads asked for so far
    queued,       \* rpcReadQueue.length
    active,       \* activeRpcReads
    starts,       \* starts in the current window: rpcReadStartTimes.length
    timerSet,     \* rpcReadTimer # null
    timers,       \* timeouts the browser still holds
    microtasks,   \* processReadQueue calls in the microtask queue
    turn          \* parity of the microtasks run, so that running one is a step

queueVars == <<asked, queued, active, starts, timerSet, timers, microtasks, turn>>

QueueInit ==
    /\ asked = 0 /\ queued = 0 /\ active = 0 /\ starts = 0
    /\ timerSet = FALSE /\ timers = 0 /\ microtasks = 0 /\ turn = 0

\* processReadQueue and the scheduleReadQueue at its end, entered with q reads
\* waiting, a running, t timeouts and m microtasks: rpcReadTimer is cleared (the
\* timeout is not), reads are started up to the limits, and what is left is
\* scheduled again.
ProcessReadQueue(q, a, t, m) ==
    LET started == Min({q, MaxConcurrent - a, MaxStarts - starts})
        waits   == q > started
        again   == waits /\ starts + started < MaxStarts
        slot    == waits /\ starts + started >= MaxStarts
    IN  /\ queued' = q - started
        /\ active' = a + started
        /\ starts' = starts + started
        /\ microtasks' = IF again THEN m + 1 ELSE m
        /\ timers' = IF slot THEN t + 1 ELSE t
        /\ timerSet' = slot

\* A page calls readContract.
ReadContract ==
    /\ microtasks = 0 /\ asked < MaxReads
    /\ asked' = asked + 1
    /\ UNCHANGED turn
    /\ ProcessReadQueue(queued + 1, active, timers, microtasks)

\* queueMicrotask(processReadQueue).
RunMicrotask ==
    /\ microtasks > 0
    /\ ProcessReadQueue(queued, active, timers, microtasks - 1)
    /\ turn' = 1 - turn
    /\ UNCHANGED asked

\* An answer or a failure from the network settles a read; its finally block runs
\* processReadQueue.
ReadSettles ==
    /\ microtasks = 0 /\ active > 0
    /\ ProcessReadQueue(queued, active - 1, timers, microtasks)
    /\ UNCHANGED <<asked, turn>>

\* The timeout at the next free slot.
TimerFires ==
    /\ microtasks = 0 /\ timers > 0
    /\ ProcessReadQueue(queued, active, timers - 1, microtasks)
    /\ UNCHANGED <<asked, turn>>

\* Time passes: the oldest start leaves the window (pruneReadStartTimes).
WindowSlides ==
    /\ starts > 0
    /\ starts' = starts - 1
    /\ UNCHANGED <<asked, queued, active, timerSet, timers, microtasks, turn>>

QueueNext == ReadContract \/ RunMicrotask \/ ReadSettles \/ TimerFires \/ WindowSlides

\* The event loop runs what is due, the network answers, time passes.
QueueFairness ==
    /\ WF_queueVars(RunMicrotask) /\ WF_queueVars(ReadSettles)
    /\ WF_queueVars(TimerFires) /\ WF_queueVars(WindowSlides)

QueueSpec == QueueInit /\ [][QueueNext]_queueVars /\ QueueFairness

-----------------------------------------------------------------------------
(* Properties *)

\* "queues simultaneous reads beyond the concurrency limit without dropping them"
\* (frontend/__tests__/lib/stellar.test.ts:55): a read that waits is started.
QueuedReadsStart == queued > 0 ~> queued = 0
=============================================================================
