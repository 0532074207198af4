--------------------------- MODULE OracleService ----------------------------
(***************************************************************************)
(* The reference oracle node (oracle-service/src): it streams Horizon      *)
(* effects from a cursor kept in a file, queues every new invoice for      *)
(* verification, at most MaxConcurrency at a time, and submits a verdict,  *)
(* as a vote to the oracle registry or, without one, to the invoice        *)
(* contract.  Everything but the cursor is in memory.  The chain and the   *)
(* SDK client are external: a call answers, fails, or fails after it was   *)
(* applied.                                                                *)
(***************************************************************************)
EXTENDS Naturals, Sequences, FiniteSets

CONSTANTS
    OracleInvoices,   \* invoices that may be created
    MaxConcurrency,   \* of the verification queue (3)
    MaxAttempts,      \* of retryWithBackoff (3)
    MaxEffects,       \* bound: effects on the chain
    MaxRestarts       \* bound: crashes

VARIABLES
    mode,          \* "consensus" with a registry, else "legacy"
    invoiceTopic,  \* first topic under which the deployed invoice contract publishes
    effects,       \* the chain's effects, in order: [topic, kind, id]
    position,      \* effects the stream has delivered
    cursorFile,    \* the saved cursor, 0 for no file
    queue,         \* invoices waiting
    running,       \* the queue's counter of running jobs
    ticks,         \* setImmediate callbacks that will call process
    jobs,          \* invoice -> jobs at work on it: a set of [at, left]
    pausedSeen,    \* ConsensusTracker.paused
    registryPaused, voted, roundOpen,   \* the registry and the verdicts on chain
    restarts,
    streamed,      \* history: invoices handed to the queue at some time
    blind          \* history: where a start without a cursor file began

oracleNodeVars == <<mode, invoiceTopic, effects, position, cursorFile, queue, running, ticks, jobs,
                    pausedSeen, registryPaused, voted, roundOpen, restarts, streamed, blind>>
chainVars == <<registryPaused, voted, roundOpen>>
nodeVars == <<queue, running, ticks, jobs, pausedSeen>>

\* The contract of the repository publishes under the new topic; the versions deployed
\* before it did under the old one, and execute_upgrade replaces them in place.
OldTopic == "INVOICE"
NewTopic == "invoice"

OracleNodeInit ==
    /\ mode \in {"consensus", "legacy"}
    /\ invoiceTopic \in {OldTopic, NewTopic}
    /\ effects = <<>> /\ position = 0 /\ cursorFile = 0
    /\ queue = <<>> /\ running = 0 /\ ticks = 0
    /\ jobs = [i \in OracleInvoices |-> {}]
    /\ pausedSeen = FALSE /\ registryPaused = FALSE
    /\ voted = {} /\ roundOpen = {} /\ restarts = 0 /\ streamed = {} /\ blind = 0

-----------------------------------------------------------------------------
(* The chain *)

Publish(topic, kind, i) ==
    /\ Len(effects) < MaxEffects
    /\ effects' = Append(effects, [topic |-> topic, kind |-> kind, id |-> i])

CreateInvoice(i) ==
    /\ ~\E k \in DOMAIN effects : effects[k].kind = "created" /\ effects[k].id = i
    /\ Publish(invoiceTopic, "created", i)
    /\ UNCHANGED <<mode, invoiceTopic, position, cursorFile, nodeVars, chainVars, restarts, streamed, blind>>

UpgradeInvoice ==
    /\ invoiceTopic = OldTopic
    /\ invoiceTopic' = NewTopic
    /\ UNCHANGED <<mode, effects, position, cursorFile, nodeVars, chainVars, restarts, streamed, blind>>

PauseRegistry(on) ==
    /\ mode = "consensus" /\ registryPaused # on
    /\ Publish("ORACLE", IF on THEN "paused" ELSE "unpaused", CHOOSE i \in OracleInvoices : TRUE)
    /\ registryPaused' = on
    /\ UNCHANGED <<mode, invoiceTopic, position, cursorFile, nodeVars, voted, roundOpen, restarts, streamed, blind>>

-----------------------------------------------------------------------------
(* The verification queue *)

Started == [at |-> "get", left |-> MaxAttempts]

\* process: unless the limit is reached the first invoice's handler starts.
Process(waiting, counter) ==
    IF counter >= MaxConcurrency \/ waiting = <<>>
    THEN queue' = waiting /\ running' = counter /\ UNCHANGED jobs
    ELSE /\ queue' = Tail(waiting) /\ running' = counter + 1
         /\ jobs' = [jobs EXCEPT ![Head(waiting)] = @ \cup {Started}]

\* The finally of a job: one slot free, one more process if something waits.
Finish(i, job) ==
    /\ jobs' = [jobs EXCEPT ![i] = @ \ {job}]
    /\ running' = running - 1
    /\ ticks' = IF queue = <<>> THEN ticks ELSE ticks + 1
    /\ UNCHANGED queue

ProcessTick ==
    /\ ticks > 0 /\ ticks' = ticks - 1
    /\ Process(queue, running)
    /\ UNCHANGED <<mode, invoiceTopic, effects, position, cursorFile, pausedSeen, chainVars, restarts, streamed, blind>>

-----------------------------------------------------------------------------
(* The listener *)

\* handleEffect compares the first topic of an invoice event with this one.
ListenedTopic == "INVOICE"

\* onmessage: handleEffect, then saveCursor, which may fail.
StreamEffect(saved) ==
    LET e == effects[position + 1] IN
    /\ position < Len(effects)
    /\ position' = position + 1
    /\ cursorFile' = IF saved THEN position + 1 ELSE cursorFile
    /\ IF e.kind = "created" /\ e.topic = ListenedTopic
       THEN Process(Append(queue, e.id), running) /\ streamed' = streamed \cup {e.id}
       ELSE UNCHANGED <<queue, running, jobs, streamed>>
    /\ pausedSeen' = (e.kind = "paused" \/ (pausedSeen /\ e.kind # "unpaused"))
    /\ UNCHANGED <<mode, invoiceTopic, effects, ticks, chainVars, restarts, blind>>

\* Mutant: every start streams from 'now'.
AlwaysNow == Len(effects)
\* loadCursor: the saved cursor, or 'now'.
LoadCursor == IF cursorFile > 0 THEN cursorFile ELSE Len(effects)

\* The process dies, at any point, and is started again: only the file survives.
CrashAndStart ==
    /\ restarts < MaxRestarts
    /\ restarts' = restarts + 1
    /\ position' = LoadCursor
    /\ blind' = IF cursorFile = 0 THEN Len(effects) ELSE blind
    /\ queue' = <<>> /\ running' = 0 /\ ticks' = 0
    /\ jobs' = [i \in OracleInvoices |-> {}] /\ pausedSeen' = FALSE
    /\ UNCHANGED <<mode, invoiceTopic, effects, cursorFile, chainVars, streamed>>

-----------------------------------------------------------------------------
(* performVerification and submitVerdict *)

Jobs == {j \in OracleInvoices \X UNION {jobs[k] : k \in OracleInvoices} : j[2] \in jobs[j[1]]}
Goes(i, job, stage) ==
    jobs' = [jobs EXCEPT ![i] = (@ \ {job}) \cup {[at |-> stage, left |-> MaxAttempts]}]

\* invoice.get answers; after the delay the verdict is submitted: in legacy mode at
\* once, with a registry only if no pause was seen.
InvoiceRead(i, job) ==
    /\ job.at = "get"
    /\ IF mode = "consensus" /\ pausedSeen THEN Finish(i, job)
       ELSE /\ Goes(i, job, IF mode = "legacy" THEN "vote" ELSE "round")
            /\ UNCHANGED <<queue, running, ticks>>
    /\ UNCHANGED <<effects, pausedSeen, chainVars>>

\* getRound, and openRound if no open round was seen; a failure is ignored, unless
\* it says that the registry is paused: then the verdict is dropped.
RoundReady(i, job) ==
    /\ job.at = "round"
    /\ \/ i \in roundOpen /\ UNCHANGED <<effects, roundOpen>>
       \/ i \notin roundOpen /\ ~registryPaused /\ Publish("ORACLE", "rnd_open", i)
            /\ roundOpen' = roundOpen \cup {i}
       \/ ~registryPaused /\ UNCHANGED <<effects, roundOpen>>
    /\ Goes(i, job, "vote")
    /\ UNCHANGED <<queue, running, ticks, pausedSeen, registryPaused, voted>>
OpenFindsPause(i, job) ==
    /\ job.at = "round" /\ registryPaused
    /\ pausedSeen' = TRUE
    /\ Finish(i, job)
    /\ UNCHANGED <<effects, chainVars>>

\* retryWithBackoff after an error that may be retried.
TryAgain(i, job) ==
    IF job.left > 1
    THEN /\ jobs' = [jobs EXCEPT ![i] = (@ \ {job}) \cup {[job EXCEPT !.left = @ - 1]}]
         /\ UNCHANGED <<queue, running, ticks>>
    ELSE Finish(i, job)

\* The vote, or verify_invoice, is applied and the answer arrives.
VoteCounts(i, job) ==
    /\ job.at = "vote" /\ i \notin voted
    /\ mode = "consensus" => i \in roundOpen /\ ~registryPaused
    /\ voted' = voted \cup {i}
    /\ Finish(i, job)
    /\ UNCHANGED <<effects, pausedSeen, registryPaused, roundOpen>>
\* The vote is applied but its answer is lost: the next attempt is refused.
VoteAnswerLost(i, job) ==
    /\ job.at = "vote" /\ i \notin voted
    /\ mode = "consensus" => i \in roundOpen /\ ~registryPaused
    /\ voted' = voted \cup {i}
    /\ TryAgain(i, job)
    /\ UNCHANGED <<effects, pausedSeen, registryPaused, roundOpen>>
VoteFindsPause(i, job) ==
    /\ job.at = "vote" /\ mode = "consensus" /\ registryPaused
    /\ pausedSeen' = TRUE
    /\ Finish(i, job)
    /\ UNCHANGED <<effects, chainVars>>

\* A simulation failure (already voted, no round) is not retried; any other error
\* is, up to MaxAttempts.
CallRefused(i, job) ==
    /\ \/ job.at = "get"
       \/ job.at = "vote" /\ (i \in voted \/ (mode = "consensus" /\ i \notin roundOpen))
    /\ Finish(i, job)
    /\ UNCHANGED <<effects, pausedSeen, chainVars>>
CallFails(i, job) ==
    /\ job.at \in {"get", "vote"}
    /\ TryAgain(i, job)
    /\ UNCHANGED <<effects, pausedSeen, chainVars>>

JobStep(i, job) ==
    /\ \/ InvoiceRead(i, job) \/ RoundReady(i, job) \/ OpenFindsPause(i, job)
       \/ VoteCounts(i, job) \/ VoteAnswerLost(i, job) \/ VoteFindsPause(i, job)
       \/ CallRefused(i, job) \/ CallFails(i, job)
    /\ UNCHANGED <<mode, invoiceTopic, position, cursorFile, restarts, streamed, blind>>

OracleNodeNext ==
    \/ \E i \in OracleInvoices : CreateInvoice(i)
    \/ UpgradeInvoice
    \/ \E on \in BOOLEAN : PauseRegistry(on)
    \/ \E saved \in BOOLEAN : StreamEffect(saved)
    \/ CrashAndStart \/ ProcessTick
    \/ \E j \in Jobs : JobStep(j[1], j[2])

OracleNodeSpec == OracleNodeInit /\ [][OracleNodeNext]_oracleNodeVars

-----------------------------------------------------------------------------
(* Properties *)

\* Among the invoices the stream has passed since the last start without a cursor
\* file, also those created while the node was down, the queue was handed exactly
\* those published under the topic that handleEffect compares with: a restart misses
\* none of them, and an invoice of the upgraded contract is never verified at all.
QueuedExactlyListened ==
    \A k \in blind + 1 .. position :
        effects[k].kind = "created" =>
            (effects[k].id \in streamed <=> effects[k].topic = ListenedTopic)
=============================================================================
