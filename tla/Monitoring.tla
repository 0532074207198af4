----------------------------- MODULE Monitoring -----------------------------
(***************************************************************************)
(* ContractMonitor (frontend/lib/monitoring.ts): pollEvents is called for  *)
(* every event the page processes and by the monitoring route, so polls    *)
(* overlap.  A poll reads the latest ledger, asks for events from the      *)
(* checkpoint on, processes them one at a time with awaits in between, and *)
(* only then moves the checkpoint, which is also kept in a file.           *)
(***************************************************************************)
EXTENDS Naturals, FiniteSets, FiniteSetsExt

CONSTANTS
    MaxLedger,          \* bound: ledgers closed
    PageLimit,          \* events the RPC puts in one answer
    ActivityThreshold,  \* ACTIVITY_THRESHOLD_COUNT
    MonitorPolls        \* bound: polls in flight

ASSUME MonitorAssumption ==
    MaxLedger \in Nat /\ PageLimit \in Nat /\ ActivityThreshold \in Nat /\ MonitorPolls \in Nat

VARIABLES
    latest,        \* the chain's latest ledger; every ledger holds one event
    lastLedger,    \* the checkpoint in memory, 0 for none
    checkpoint,    \* the checkpoint on disk
    monitorPolls,  \* polls in flight
    alerted,       \* history: ledgers whose event was processed
    cut,           \* history: ledgers an answer left out at its limit
    activity,      \* recent events of the watched address
    base           \* history: where the last look-back that moved the checkpoint began

monitorVars == <<latest, lastLedger, checkpoint, monitorPolls, alerted, cut, activity, base>>

Lookback == 1      \* latestLedger.sequence - 100, scaled
NoMonitorPoll == [at |-> "none", fresh |-> FALSE, from |-> 0, to |-> 0, todo |-> {}]
PollSlots == 1 .. MonitorPolls

MonitorInit ==
    /\ latest = 2 /\ lastLedger = 0 /\ checkpoint = 0
    /\ monitorPolls = [p \in PollSlots |-> NoMonitorPoll]
    /\ alerted = {} /\ cut = {} /\ activity = 0 /\ base = 0

SetPoll(p, poll) == monitorPolls' = [monitorPolls EXCEPT ![p] = poll]

\* pollEvents up to the answer of getLatestLedger: the range is fixed now.
PollEvents(p) ==
    /\ monitorPolls[p].at = "none"
    /\ SetPoll(p, [at |-> "ranged", fresh |-> lastLedger = 0,
                   from |-> IF lastLedger = 0 THEN latest - Lookback ELSE lastLedger,
                   to |-> latest, todo |-> {}])
    /\ UNCHANGED <<latest, lastLedger, checkpoint, alerted, cut, activity, base>>

\* getEvents answers with the first page of everything since, newer ledgers too.
\* A range that starts in the future is an error.
EventsAnswered(p) ==
    LET poll == monitorPolls[p]
        page == {l \in poll.from .. latest : l < poll.from + PageLimit}
    IN  /\ poll.at = "ranged" /\ poll.from <= latest
        /\ SetPoll(p, [poll EXCEPT !.at = "processing", !.todo = page])
        /\ cut' = cut \cup ((poll.from .. poll.to) \ page)
        /\ UNCHANGED <<latest, lastLedger, checkpoint, alerted, activity, base>>

\* processEvent on the next one: its alerts, and the activity count of its source;
\* at the threshold the count is reset only after the alert has been sent.
ProcessEvent(p) ==
    LET poll == monitorPolls[p]
        l    == Min(poll.todo)
    IN  /\ poll.at = "processing" /\ poll.todo # {}
        /\ alerted' = alerted \cup {l}
        /\ activity' = Min({activity + 1, ActivityThreshold})   \* beyond it nothing differs
        /\ SetPoll(p, [poll EXCEPT !.todo = @ \ {l},
                       !.at = IF activity + 1 >= ActivityThreshold THEN "alerting" ELSE @])
        /\ UNCHANGED <<latest, lastLedger, checkpoint, cut, base>>
ResetActivity(p) ==
    /\ monitorPolls[p].at = "alerting"
    /\ activity' = 0
    /\ SetPoll(p, [monitorPolls[p] EXCEPT !.at = "processing"])
    /\ UNCHANGED <<latest, lastLedger, checkpoint, alerted, cut, base>>

\* The activity of the last window has aged (also pruneActivityHistory).
ActivityAges ==
    /\ activity > 0
    /\ activity' = 0
    /\ UNCHANGED <<latest, lastLedger, checkpoint, monitorPolls, alerted, cut, base>>

\* Mutant: the checkpoint moves before the events are processed.
MoveCheckpointFirst(p, saved) ==
    /\ monitorPolls[p].at = "processing"
    /\ lastLedger' = monitorPolls[p].to + 1
    /\ checkpoint' = IF saved THEN lastLedger' ELSE checkpoint
    /\ base' = IF monitorPolls[p].fresh THEN Max({base, monitorPolls[p].from}) ELSE base
    /\ SetPoll(p, NoMonitorPoll)
    /\ UNCHANGED <<latest, alerted, cut, activity>>
\* The end of pollEvents: the checkpoint moves to the end of the range, which may
\* be behind the checkpoint of a poll that overtook this one; saving may fail.
MoveCheckpoint(p, saved) ==
    /\ monitorPolls[p].at = "processing" /\ monitorPolls[p].todo = {}
    /\ lastLedger' = monitorPolls[p].to + 1
    /\ checkpoint' = IF saved THEN lastLedger' ELSE checkpoint
    /\ base' = IF monitorPolls[p].fresh THEN Max({base, monitorPolls[p].from}) ELSE base
    /\ SetPoll(p, NoMonitorPoll)
    /\ UNCHANGED <<latest, alerted, cut, activity>>

\* Any await fails: the poll ends in its catch, the checkpoint stays.
MonitorPollFails(p) ==
    /\ monitorPolls[p].at # "none"
    /\ SetPoll(p, NoMonitorPoll)
    /\ UNCHANGED <<latest, lastLedger, checkpoint, alerted, cut, activity, base>>

\* The process restarts and loads the checkpoint.
MonitorRestart ==
    /\ lastLedger' = checkpoint
    /\ monitorPolls' = [p \in PollSlots |-> NoMonitorPoll]
    /\ activity' = 0
    /\ UNCHANGED <<latest, checkpoint, alerted, cut, base>>

LedgerCloses ==
    /\ latest < MaxLedger
    /\ latest' = latest + 1
    /\ UNCHANGED <<lastLedger, checkpoint, monitorPolls, alerted, cut, activity, base>>

MonitorNext ==
    \/ \E p \in PollSlots :
         \/ PollEvents(p) \/ EventsAnswered(p) \/ ProcessEvent(p) \/ ResetActivity(p)
         \/ MonitorPollFails(p) \/ \E saved \in BOOLEAN : MoveCheckpoint(p, saved)
    \/ ActivityAges \/ MonitorRestart \/ LedgerCloses

MonitorSpec == MonitorInit /\ [][MonitorNext]_monitorVars

-----------------------------------------------------------------------------
(* Properties *)

\* From the last look-back to the checkpoint no event was passed over, through
\* failed awaits, restarts and polls that overtake each other, but for those the
\* RPC cut from an answer: pollEvents never asks for a second page.
CheckpointCoversProcessed ==
    \A l \in base .. latest : base > 0 /\ (l < lastLedger \/ l < checkpoint) => l \in alerted \cup cut
=============================================================================
