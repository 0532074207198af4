------------------------------ MODULE Indexer -------------------------------
(***************************************************************************)
(* The indexer (indexer/src): the live poll loop, the backfill process     *)
(* that may run beside it on the same database, and the reorg check.       *)
(* Horizon is external: it pages through the effects of the current chain  *)
(* after a cursor, where a ledger number stands for the beginning of that  *)
(* ledger and a paging token for one record.  A reorg replaces the last    *)
(* ledgers; an event keeps its id (its place), not its content.            *)
(***************************************************************************)
EXTENDS Naturals, Sequences, FiniteSets, FiniteSetsExt

CONSTANTS
    PerChainLedger,   \* bound: events in a ledger
    MaxHeight,        \* bound: ledgers closed
    MaxForks,         \* bound: reorgs
    PollPage,         \* records in a page of the poll loop
    BackfillPage,     \* records in a page of the backfill (100)
    LookbackLedgers,  \* LOOKBACK_LEDGERS
    MaxFailures       \* maxRetries of the backfill

ASSUME IndexerAssumption ==
    /\ PerChainLedger \in Nat \ {0} /\ PollPage \in Nat \ {0} /\ BackfillPage \in Nat \ {0}
    /\ MaxHeight \in Nat /\ MaxForks \in Nat /\ LookbackLedgers \in Nat /\ MaxFailures \in Nat

VARIABLES
    chain,        \* the version (hash) of each ledger of the current chain
    forks,        \* reorgs so far: the next version
    everOnChain,  \* history: events any chain held
    table,        \* rows of the events table
    hashes,       \* rows of ledger_hashes: the version recorded for a ledger, 0 if none
    poller,       \* [at, cursor, batch] of the poll loop
    backfill,     \* [at, ledger, end, batch, failures] of the backfill process
    jumped        \* history: places the cursor has passed without a row: by a restart,
                  \* or because a rollback's COMMIT went unanswered

indexerVars == <<chain, forks, everOnChain, table, hashes, poller, backfill, jumped>>

Event(place, version) ==
    [ledger |-> (place - 1) \div PerChainLedger + 1, index |-> (place - 1) % PerChainLedger,
     version |-> version]
LedgerOf(place) == (place - 1) \div PerChainLedger + 1
\* The place before the first event of a ledger: what a ledger number as cursor means.
StartOf(ledger) == (ledger - 1) * PerChainLedger
Places == 1 .. Len(chain) * PerChainLedger
OnChain(place) == Event(place, chain[LedgerOf(place)])

\* effects().cursor(c).order("asc"): the first records after the cursor.
Page(cursor, size) == {p \in Places : p > cursor /\ p <= cursor + size}

PlacesOf(rows) == {(e.ledger - 1) * PerChainLedger + e.index + 1 : e \in rows}
Stored == PlacesOf(table)

NoEnd == MaxHeight + 1   \* BACKFILL_END_LEDGER not set

IndexerInit ==
    /\ chain = <<>> /\ forks = 0 /\ everOnChain = {} /\ table = {}
    /\ hashes = [l \in 1 .. MaxHeight |-> 0]
    /\ poller = [at |-> "fetch", cursor |-> 0, batch |-> {}]
    /\ backfill = [at |-> "off", ledger |-> 1, end |-> NoEnd, batch |-> {}, failures |-> 0]
    /\ jumped = {}

-----------------------------------------------------------------------------
(* The chain *)

CloseLedger ==
    /\ Len(chain) < MaxHeight
    /\ chain' = Append(chain, forks + 1)
    /\ everOnChain' = everOnChain \cup
         {Event(p, forks + 1) : p \in StartOf(Len(chain) + 1) + 1 .. StartOf(Len(chain) + 2)}
    /\ UNCHANGED <<forks, table, hashes, poller, backfill, jumped>>

Reorg(depth) ==
    /\ forks < MaxForks /\ depth <= Len(chain)
    /\ forks' = forks + 1
    /\ chain' = [l \in 1 .. Len(chain) |-> IF l > Len(chain) - depth THEN forks + 2 ELSE chain[l]]
    /\ everOnChain' = everOnChain \cup
         {Event(p, forks + 2) : p \in StartOf(Len(chain) - depth + 1) + 1 .. StartOf(Len(chain) + 1)}
    /\ UNCHANGED <<table, hashes, poller, backfill, jumped>>

-----------------------------------------------------------------------------
(* The poll loop *)

\* Mutant: ON CONFLICT DO UPDATE.
UpsertEvents(batch) ==
    table' = batch \cup {d \in table : ~\E e \in batch : d.ledger = e.ledger /\ d.index = e.index}
\* INSERT ... ON CONFLICT (id) DO NOTHING.
StoreEvents(batch) ==
    table' = table \cup {e \in batch : ~\E d \in table : d.ledger = e.ledger /\ d.index = e.index}

FetchEffects ==
    /\ poller.at = "fetch" /\ Page(poller.cursor, PollPage) # {}
    /\ poller' = [poller EXCEPT !.at = "store",
                    !.batch = {OnChain(p) : p \in Page(poller.cursor, PollPage)}]
    /\ UNCHANGED <<chain, forks, everOnChain, table, hashes, backfill, jumped>>

Tip(batch) == Max({e.ledger : e \in batch})

\* storeEvents, and the cursor goes to the ledger of the last event.
StoreBatch ==
    /\ poller.at = "store"
    /\ StoreEvents(poller.batch)
    /\ poller' = [poller EXCEPT !.at = "check", !.cursor = StartOf(Tip(poller.batch))]
    /\ UNCHANGED <<chain, forks, everOnChain, hashes, backfill, jumped>>

\* detectReorg: the ledger before the batch's last one was recorded with another
\* hash than the one Horizon now gives as its parent.
DetectReorg(tip) == tip > 1 /\ hashes[tip - 1] # 0 /\ hashes[tip - 1] # chain[tip - 1]

\* The last record's paging token.
Advance(batch) ==
    [poller EXCEPT !.at = "fetch", !.cursor = Max(PlacesOf(batch)), !.batch = {}]

\* fetchLedgerMeta answers and no reorg shows: recordLedgerHash, next page.
CheckPasses ==
    LET tip == Tip(poller.batch) IN
    /\ poller.at = "check" /\ ~DetectReorg(tip)
    /\ hashes' = [hashes EXCEPT ![tip] = chain[tip]]
    /\ poller' = Advance(poller.batch)
    /\ UNCHANGED <<chain, forks, everOnChain, table, backfill, jumped>>

\* fetchLedgerMeta answers null: no check, next page.
CheckSkipped ==
    /\ poller.at = "check"
    /\ poller' = Advance(poller.batch)
    /\ UNCHANGED <<chain, forks, everOnChain, table, hashes, backfill, jumped>>

\* rollbackFrom, in one database transaction, and the cursor rewound.
RollbackFrom(ledger) ==
    /\ table' = {e \in table : e.ledger < ledger}
    /\ hashes' = [l \in 1 .. MaxHeight |-> IF l >= ledger THEN 0 ELSE hashes[l]]
\* Mutant: the batch's paging token is taken all the same, undoing the rewind.
CheckFindsReorgAdvancing ==
    LET tip == Tip(poller.batch) IN
    /\ poller.at = "check" /\ DetectReorg(tip)
    /\ RollbackFrom(tip - 1)
    /\ poller' = Advance(poller.batch)
    /\ UNCHANGED <<chain, forks, everOnChain, backfill, jumped>>
CheckFindsReorg ==
    LET tip == Tip(poller.batch) IN
    /\ poller.at = "check" /\ DetectReorg(tip)
    /\ RollbackFrom(tip - 1)
    /\ poller' = [poller EXCEPT !.at = "fetch", !.cursor = StartOf(tip - 1), !.batch = {}]
    /\ UNCHANGED <<chain, forks, everOnChain, backfill, jumped>>

\* The COMMIT of the rollback is made but its answer lost: rollbackFrom throws, and the
\* cursor is not rewound.
RollbackAnswerLost ==
    LET tip == Tip(poller.batch) IN
    /\ poller.at = "check" /\ DetectReorg(tip)
    /\ RollbackFrom(tip - 1)
    /\ poller' = [poller EXCEPT !.at = "fetch", !.batch = {}]
    /\ jumped' = jumped \cup (StartOf(tip - 1) + 1 .. poller.cursor)
    /\ UNCHANGED <<chain, forks, everOnChain, backfill>>

\* The catch of the loop: the cursor stays where the last assignment left it.
PollError ==
    /\ poller.at \in {"fetch", "store", "check"}
    /\ poller' = [poller EXCEPT !.at = "fetch", !.batch = {}]
    /\ UNCHANGED <<chain, forks, everOnChain, table, hashes, backfill, jumped>>

\* The process dies and starts again LOOKBACK_LEDGERS before its last row.
RestartCursor ==
    IF table = {} THEN 0
    ELSE LET last == Max({e.ledger : e \in table})
         IN  StartOf(IF last > LookbackLedgers THEN last - LookbackLedgers ELSE 1)
Restart ==
    /\ poller' = [at |-> "fetch", cursor |-> RestartCursor, batch |-> {}]
    /\ jumped' = jumped \cup {p \in poller.cursor + 1 .. StartOf(MaxHeight + 1) :
                                p <= RestartCursor /\ p \notin Stored}
    /\ UNCHANGED <<chain, forks, everOnChain, table, hashes, backfill>>

-----------------------------------------------------------------------------
(* The backfill *)

StartBackfill(ledger, end) ==
    /\ backfill.at = "off"
    /\ backfill' = [at |-> "fetch", ledger |-> ledger, end |-> end, batch |-> {}, failures |-> 0]
    /\ UNCHANGED <<chain, forks, everOnChain, table, hashes, poller, jumped>>

BackfillFetch ==
    LET page == Page(StartOf(backfill.ledger), BackfillPage) IN
    /\ backfill.at = "fetch"
    /\ backfill' = IF page = {} THEN [backfill EXCEPT !.at = "done", !.failures = 0]
                   ELSE [backfill EXCEPT !.at = "store", !.failures = 0,
                           !.batch = {OnChain(p) : p \in page}]
    /\ UNCHANGED <<chain, forks, everOnChain, table, hashes, poller, jumped>>

\* The last event's ledger becomes the current one; it ends the run at the end
\* ledger, and otherwise, being the last record's too, is left for the next one.
BackfillStore ==
    /\ backfill.at = "store"
    /\ StoreEvents(backfill.batch)
    /\ backfill' = [backfill EXCEPT !.batch = {}, !.ledger = Tip(backfill.batch) + 1,
                      !.at = IF Tip(backfill.batch) >= backfill.end THEN "done" ELSE "fetch"]
    /\ UNCHANGED <<chain, forks, everOnChain, hashes, poller, jumped>>

\* A failure counts twice; past maxRetries the process ends.
BackfillError ==
    /\ backfill.at \in {"fetch", "store"}
    /\ backfill' = [backfill EXCEPT !.failures = @ + 2, !.batch = {},
                      !.at = IF backfill.failures + 2 > MaxFailures THEN "done" ELSE "fetch"]
    /\ UNCHANGED <<chain, forks, everOnChain, table, hashes, poller, jumped>>

IndexerNext ==
    \/ CloseLedger \/ \E depth \in 1 .. 2 : Reorg(depth)
    \/ FetchEffects \/ StoreBatch \/ CheckPasses \/ CheckSkipped \/ CheckFindsReorg
    \/ RollbackAnswerLost \/ PollError \/ Restart
    \/ \E ledger \in 1 .. MaxHeight : \E end \in {ledger, NoEnd} : StartBackfill(ledger, end)
    \/ BackfillFetch \/ BackfillStore \/ BackfillError

IndexerSpec == IndexerInit /\ [][IndexerNext]_indexerVars

-----------------------------------------------------------------------------
(* Properties *)

\* The indexer keeps EventLog's promise: retries, restarts, reorgs and a backfill
\* writing at the same time never change a row, invent one, or remove any but those
\* from a replaced ledger on.
Promised == INSTANCE EventLog WITH log <- table
KeepsEventLog == Promised!LogSpec

\* The poll loop leaves no gap: everything before its cursor has a row, but for
\* what a restart jumped over because a backfill had stored rows ahead of the loop,
\* and for the ledgers of a rollback whose COMMIT went unanswered.
NoGapBelowCursor == \A p \in 1 .. poller.cursor : p \in Stored \cup jumped
=============================================================================
