---------------------------- MODULE IndexerProofs ----------------------------
(***************************************************************************)
(* Theorems about Indexer, for every number of events in a ledger, every   *)
(* page size and look-back, and any number of reorgs, restarts and         *)
(* backfills: it implements EventLog, and the poll loop leaves no gap; and *)
(* about ReadModels, for every page size: what its answers are true of.    *)
(***************************************************************************)
EXTENDS Indexer, ReadModels, DataLemmas, TLAPS

-----------------------------------------------------------------------------
(* Places and ledgers *)

\* Products with the size of a ledger keep the order.
LEMMA TimesMonotone ==
    ASSUME NEW a \in Int, NEW b \in Int, a <= b
    PROVE  a * PerChainLedger <= b * PerChainLedger
<1>1. (b - a) * PerChainLedger \in Nat
    BY IndexerAssumption
<1>2. b * PerChainLedger - a * PerChainLedger = (b - a) * PerChainLedger
    BY IndexerAssumption
<1> QED
    BY <1>1, <1>2, IndexerAssumption

\* A place is its ledger and its index.
LEMMA PlaceSplits ==
    ASSUME NEW p \in Nat \ {0}
    PROVE  /\ LedgerOf(p) \in Nat \ {0}
           /\ (p - 1) % PerChainLedger \in 0 .. PerChainLedger - 1
           /\ (LedgerOf(p) - 1) * PerChainLedger + ((p - 1) % PerChainLedger) + 1 = p
<1> DEFINE q == p - 1
           d == q \div PerChainLedger
           r == q % PerChainLedger
<1>1. q \in Nat /\ PerChainLedger \in Nat \ {0}
    BY IndexerAssumption
<1> HIDE DEF q
<1>2. d \in Nat /\ r \in 0 .. PerChainLedger - 1 /\ q = PerChainLedger * d + r
    BY <1>1, Z3
<1> HIDE DEF d, r
<1>3. d * PerChainLedger + r + 1 = q + 1
    BY <1>1, <1>2
<1>4. LedgerOf(p) = d + 1 /\ q + 1 = p
    BY DEF LedgerOf, d, q
<1>5. LedgerOf(p) - 1 = d
    BY <1>4, <1>2
<1>6. (p - 1) % PerChainLedger = r
    BY DEF r, q
<1>7. (LedgerOf(p) - 1) * PerChainLedger + ((p - 1) % PerChainLedger) + 1
        = d * PerChainLedger + r + 1
    BY <1>5, <1>6
<1>8. LedgerOf(p) \in Nat \ {0}
    BY <1>2, <1>4
<1> QED
    BY <1>2, <1>3, <1>4, <1>6, <1>7, <1>8

PlaceOf(e) == (e.ledger - 1) * PerChainLedger + e.index + 1

LEMMA EventPlace ==
    ASSUME NEW p \in Nat \ {0}, NEW v
    PROVE  /\ Event(p, v).ledger = LedgerOf(p)
           /\ Event(p, v).index = (p - 1) % PerChainLedger
           /\ Event(p, v).version = v
           /\ PlaceOf(Event(p, v)) = p
<1>1. /\ Event(p, v).ledger = LedgerOf(p)
      /\ Event(p, v).index = (p - 1) % PerChainLedger
      /\ Event(p, v).version = v
    BY DEF Event, LedgerOf
<1> QED
    BY <1>1, PlaceSplits DEF PlaceOf

\* A place lies in the first n ledgers just if its ledger number says so.
LEMMA LedgerBounds ==
    ASSUME NEW p \in Nat \ {0}, NEW n \in Nat
    PROVE  p <= n * PerChainLedger <=> LedgerOf(p) <= n
<1> DEFINE l == LedgerOf(p)
           r == (p - 1) % PerChainLedger
<1>1. /\ l \in Nat \ {0} /\ r \in 0 .. PerChainLedger - 1
      /\ (l - 1) * PerChainLedger + r + 1 = p
    BY PlaceSplits
<1> HIDE DEF l, r
<1>2. PerChainLedger \in Nat \ {0} /\ (l - 1) * PerChainLedger \in Int
      /\ n * PerChainLedger \in Int /\ l * PerChainLedger \in Int
      /\ l * PerChainLedger = (l - 1) * PerChainLedger + PerChainLedger
    BY <1>1, IndexerAssumption
<1>3. l <= n => p <= n * PerChainLedger
    BY <1>1, <1>2, TimesMonotone
<1>4. n <= l - 1 => n * PerChainLedger < p
    BY <1>1, <1>2, TimesMonotone
<1> QED
    BY <1>1, <1>2, <1>3, <1>4 DEF l

\* Every ledger and index is a place.
LEMMA LedgerAndIndex ==
    ASSUME NEW l \in Nat \ {0}, NEW i \in 0 .. PerChainLedger - 1, NEW v
    PROVE  LET p == (l - 1) * PerChainLedger + i + 1
           IN  /\ p \in (l - 1) * PerChainLedger + 1 .. l * PerChainLedger
               /\ p \in Nat \ {0}
               /\ Event(p, v) = [ledger |-> l, index |-> i, version |-> v]
<1> DEFINE p == (l - 1) * PerChainLedger + i + 1
           a == (l - 1) * PerChainLedger
<1>1. /\ a \in Nat /\ l * PerChainLedger = a + PerChainLedger
      /\ PerChainLedger \in Nat \ {0} /\ i \in Nat
    BY IndexerAssumption
<1>2. p = a + i + 1 /\ p \in Nat \ {0} /\ p <= l * PerChainLedger /\ p > a
    BY <1>1
<1> HIDE DEF p
<1>3. LedgerOf(p) = l
    <2>1. LedgerOf(p) <= l
        BY <1>2, LedgerBounds
    <2>2. ~ (LedgerOf(p) <= l - 1)
        BY <1>1, <1>2, LedgerBounds DEF a
    <2> QED
        BY <2>1, <2>2, <1>2, PlaceSplits
<1>4. (p - 1) % PerChainLedger = i
    BY <1>1, <1>2, <1>3, PlaceSplits DEF a
<1>5. Event(p, v) = [ledger |-> l, index |-> i, version |-> v]
    BY <1>3, <1>4 DEF Event, LedgerOf
<1>6. p \in a + 1 .. l * PerChainLedger
    BY <1>1, <1>2
<1> QED
    BY <1>2, <1>5, <1>6 DEF a, p

-----------------------------------------------------------------------------
(* The inductive invariant *)

EventRecord == [ledger : 1 .. MaxHeight, index : 0 .. PerChainLedger - 1, version : Nat]

BackfillState == [at : {"off", "fetch", "store", "done"}, ledger : Nat, end : Nat,
                  batch : SUBSET everOnChain, failures : Nat]

IndexerTypeOK ==
    /\ chain \in Seq(Nat) /\ Len(chain) <= MaxHeight /\ forks \in Nat
    /\ everOnChain \subseteq EventRecord
    /\ hashes \in [1 .. MaxHeight -> Nat]
    /\ poller \in [at : {"fetch", "store", "check"}, cursor : Nat, batch : SUBSET everOnChain]
    /\ backfill \in BackfillState

\* What was read, stored and recorded was on some chain, and the chain, which only
\* grows or is replaced, has not lost the ledger it was on.
Happened ==
    /\ table \subseteq everOnChain
    /\ \A e \in everOnChain : e.ledger <= Len(chain)
    /\ \A l \in 1 .. Len(chain), i \in 0 .. PerChainLedger - 1 :
         [ledger |-> l, index |-> i, version |-> chain[l]] \in everOnChain
    /\ \A l \in 1 .. MaxHeight : hashes[l] # 0 =>
         \E e \in everOnChain : e.ledger = l /\ e.version = hashes[l]

\* A batch on its way is not empty.
BatchesFilled ==
    /\ poller.at # "fetch" => poller.batch # {}
    /\ backfill.at = "store" => backfill.batch # {}

IndexerInv == IndexerTypeOK /\ Happened /\ BatchesFilled

\* Up to the last place of the poll loop's batch nothing is missing either, but
\* what the batch itself still has to store.  (The cursor moves back to the start of
\* the batch's last ledger before it moves on to the batch's last record.)
BatchCovered ==
    \A e \in poller.batch : \A q \in 1 .. PlaceOf(e) :
        \/ q \in Stored \cup jumped
        \/ poller.at = "store" /\ q \in PlacesOf(poller.batch)


LEMMA PageHappened ==
    ASSUME IndexerInv, NEW c \in Nat, NEW size \in Nat, NEW p \in Page(c, size)
    PROVE  p \in Nat \ {0} /\ OnChain(p) \in everOnChain /\ PlaceOf(OnChain(p)) = p
<1>1. p \in Nat \ {0} /\ p <= Len(chain) * PerChainLedger /\ Len(chain) \in Nat
    BY IndexerAssumption DEF IndexerInv, IndexerTypeOK, BackfillState, Page, Places
<1>2. LedgerOf(p) \in 1 .. Len(chain)
    BY <1>1, LedgerBounds, PlaceSplits
<1>3. (p - 1) % PerChainLedger \in 0 .. PerChainLedger - 1
    BY <1>1, PlaceSplits
<1>4. OnChain(p) = [ledger |-> LedgerOf(p), index |-> (p - 1) % PerChainLedger,
                    version |-> chain[LedgerOf(p)]]
    BY DEF OnChain, Event, LedgerOf
<1>5. OnChain(p) \in everOnChain
    BY <1>2, <1>3, <1>4 DEF IndexerInv, Happened
<1> QED
    BY <1>1, <1>5, EventPlace DEF OnChain

LEMMA TipOfBatch ==
    ASSUME NEW B \in SUBSET EventRecord, B # {}
    PROVE  /\ Tip(B) \in 1 .. MaxHeight
           /\ \E e \in B : e.ledger = Tip(B)
           /\ \A e \in B : e.ledger <= Tip(B)
<1> DEFINE L == {e.ledger : e \in B}
<1>1. L \subseteq 1 .. MaxHeight /\ L # {}
    BY DEF EventRecord
<1>2. L \in SUBSET Nat /\ \A x \in L : x <= MaxHeight
    BY <1>1, IndexerAssumption
<1> HIDE DEF L
<1>3. Max(L) \in L /\ \A y \in L : y <= Max(L)
    BY <1>1, <1>2, MaxOfBounded, IndexerAssumption
<1>4. Tip(B) = Max(L)
    BY DEF Tip, L
<1> QED
    BY <1>1, <1>3, <1>4 DEF L

\* The first row of an id wins: rows are added, never changed, and every event of
\* the batch has a row afterwards.
LEMMA RowsAfterStore ==
    ASSUME NEW B, StoreEvents(B)
    PROVE  /\ table \subseteq table' /\ table' \subseteq table \cup B
           /\ \A e \in table' \ table : \A d \in table : ~ (d.ledger = e.ledger /\ d.index = e.index)
           /\ \A e \in B : \E d \in table' : d.ledger = e.ledger /\ d.index = e.index
BY DEF StoreEvents

-----------------------------------------------------------------------------
(* Every step keeps it *)

LEMMA IndexerInvInit == IndexerInit => IndexerInv
<1> SUFFICES ASSUME IndexerInit
             PROVE  IndexerInv
    OBVIOUS
<1>1. IndexerTypeOK
    BY IndexerAssumption DEF IndexerInit, IndexerTypeOK, BackfillState, NoEnd
<1>2. Happened
    BY IndexerAssumption DEF IndexerInit, Happened
<1>3. BatchesFilled
    BY DEF IndexerInit, BatchesFilled
<1> QED
    BY <1>1, <1>2, <1>3 DEF IndexerInv

\* The events of the ledgers after a up to b.
EventsBetween(a, b, v) == {Event(p, v) : p \in StartOf(a + 1) + 1 .. StartOf(b + 1)}

LEMMA EventsOfLedgers ==
    ASSUME NEW a \in Nat, NEW b \in Nat, b <= MaxHeight, NEW v \in Nat
    PROVE  /\ \A e \in EventsBetween(a, b, v) : e \in EventRecord /\ e.ledger \in a + 1 .. b
           /\ \A l \in a + 1 .. b, i \in 0 .. PerChainLedger - 1 :
                [ledger |-> l, index |-> i, version |-> v] \in EventsBetween(a, b, v)
<1> DEFINE New == {Event(p, v) : p \in StartOf(a + 1) + 1 .. StartOf(b + 1)}
<1>1. /\ StartOf(a + 1) = a * PerChainLedger /\ a * PerChainLedger \in Nat
      /\ StartOf(b + 1) = b * PerChainLedger /\ b * PerChainLedger \in Nat
    <2>1. (a + 1) - 1 = a /\ (b + 1) - 1 = b
        OBVIOUS
    <2> QED
        BY <2>1, IndexerAssumption DEF StartOf
<1>2. \A e \in New : e \in EventRecord /\ e.ledger \in a + 1 .. b
    <2> SUFFICES ASSUME NEW p \in StartOf(a + 1) + 1 .. StartOf(b + 1)
                 PROVE  Event(p, v) \in EventRecord /\ Event(p, v).ledger \in a + 1 .. b
        OBVIOUS
    <2>1. p \in Nat \ {0} /\ ~ (p <= a * PerChainLedger) /\ p <= b * PerChainLedger
        BY <1>1
    <2>2. LedgerOf(p) \in Nat \ {0} /\ ~ (LedgerOf(p) <= a) /\ LedgerOf(p) <= b
        BY <2>1, LedgerBounds, PlaceSplits
    <2>3. LedgerOf(p) \in a + 1 .. b /\ LedgerOf(p) \in 1 .. MaxHeight
        BY <2>2, IndexerAssumption
    <2>4. (p - 1) % PerChainLedger \in 0 .. PerChainLedger - 1
        BY <2>1, PlaceSplits
    <2> QED
        BY <2>3, <2>4 DEF Event, LedgerOf, EventRecord
<1>3. \A l \in a + 1 .. b, i \in 0 .. PerChainLedger - 1 :
        [ledger |-> l, index |-> i, version |-> v] \in New
    <2> SUFFICES ASSUME NEW l \in a + 1 .. b, NEW i \in 0 .. PerChainLedger - 1
                 PROVE  \E p \in StartOf(a + 1) + 1 .. StartOf(b + 1) :
                          Event(p, v) = [ledger |-> l, index |-> i, version |-> v]
        BY Zenon
    <2> DEFINE p == (l - 1) * PerChainLedger + i + 1
    <2>1. l \in Nat \ {0}
        OBVIOUS
    <2>2. /\ p \in (l - 1) * PerChainLedger + 1 .. l * PerChainLedger
          /\ Event(p, v) = [ledger |-> l, index |-> i, version |-> v]
        BY <2>1, LedgerAndIndex
    <2>3. /\ a * PerChainLedger <= (l - 1) * PerChainLedger
          /\ l * PerChainLedger <= b * PerChainLedger
        BY TimesMonotone
    <2>4. (l - 1) * PerChainLedger \in Nat /\ l * PerChainLedger \in Nat
        BY IndexerAssumption
    <2> HIDE DEF p
    <2>5. p \in StartOf(a + 1) + 1 .. StartOf(b + 1)
        BY <1>1, <2>2, <2>3, <2>4
    <2> QED
        BY <2>2, <2>5
<1> QED
    BY <1>2, <1>3 DEF EventsBetween

\* The chain goes on with a new version of the ledgers after a, up to b.
NewLedgers(a, b, v) ==
    /\ a <= Len(chain) /\ b >= Len(chain) /\ b <= MaxHeight
    /\ chain' \in Seq(Nat) /\ Len(chain') = b
    /\ \A l \in 1 .. b : chain'[l] = IF l > a THEN v ELSE chain[l]
    /\ everOnChain' = everOnChain \cup EventsBetween(a, b, v)
    /\ forks' \in Nat /\ UNCHANGED <<table, hashes, poller, backfill>>

LEMMA ChainKeeps ==
    ASSUME IndexerInv, NEW a \in Nat, NEW b \in Nat, NEW v \in Nat, NewLedgers(a, b, v)
    PROVE  IndexerInv'
<1> USE DEF NewLedgers
<1> DEFINE New == EventsBetween(a, b, v)
<1>1. /\ \A e \in New : e \in EventRecord /\ e.ledger \in a + 1 .. b
      /\ \A l \in a + 1 .. b, i \in 0 .. PerChainLedger - 1 :
           [ledger |-> l, index |-> i, version |-> v] \in New
    BY EventsOfLedgers
<1>2. everOnChain' = everOnChain \cup New
    OBVIOUS
<1> HIDE DEF New
<1>3. IndexerTypeOK'
    BY <1>1, <1>2 DEF IndexerInv, IndexerTypeOK, BackfillState
<1>4. Happened'
    <2>1. table' \subseteq everOnChain'
        BY <1>2 DEF IndexerInv, Happened
    <2>2. \A e \in everOnChain' : e.ledger <= Len(chain')
        <3>1. Len(chain) \in Nat
            BY DEF IndexerInv, IndexerTypeOK, BackfillState
        <3>2. \A e \in everOnChain : e.ledger \in Nat /\ e.ledger <= Len(chain)
            BY IndexerAssumption DEF IndexerInv, IndexerTypeOK, BackfillState, EventRecord, Happened
        <3> QED
            BY <1>1, <1>2, <3>1, <3>2
    <2>3. \A l \in 1 .. Len(chain'), i \in 0 .. PerChainLedger - 1 :
             [ledger |-> l, index |-> i, version |-> chain'[l]] \in everOnChain'
        <3> SUFFICES ASSUME NEW l \in 1 .. b, NEW i \in 0 .. PerChainLedger - 1
                     PROVE  [ledger |-> l, index |-> i, version |-> chain'[l]] \in everOnChain'
            OBVIOUS
        <3>1. CASE l > a
            BY <3>1, <1>1, <1>2
        <3>2. CASE ~ (l > a)
            <4>1. l \in 1 .. Len(chain) /\ chain'[l] = chain[l]
                BY <3>2 DEF IndexerInv, IndexerTypeOK, BackfillState
            <4> QED
                BY <4>1, <1>2 DEF IndexerInv, Happened
        <3> QED
            BY <3>1, <3>2
    <2>4. \A l \in 1 .. MaxHeight : hashes'[l] # 0 =>
             \E e \in everOnChain' : e.ledger = l /\ e.version = hashes'[l]
        BY <1>2 DEF IndexerInv, Happened
    <2> QED
        BY <2>1, <2>2, <2>3, <2>4 DEF Happened
<1>5. BatchesFilled'
    BY DEF IndexerInv, BatchesFilled
<1> QED
    BY <1>3, <1>4, <1>5 DEF IndexerInv

LEMMA CloseLedgerKeeps ==
    ASSUME IndexerInv, CloseLedger
    PROVE  IndexerInv'
<1> DEFINE n == Len(chain)
<1>1. /\ n \in Nat /\ n + 1 <= MaxHeight /\ forks + 1 \in Nat /\ MaxHeight \in Nat
      /\ Len(chain') = n + 1 /\ chain' \in Seq(Nat) /\ chain'[n + 1] = forks + 1
      /\ \A l \in 1 .. n : chain'[l] = chain[l]
    BY IndexerAssumption DEF IndexerInv, IndexerTypeOK, BackfillState, CloseLedger
<1>2. \A l \in 1 .. n + 1 : chain'[l] = IF l > n THEN forks + 1 ELSE chain[l]
    BY <1>1
<1>3. n + 2 = (n + 1) + 1
    BY <1>1
<1>4. everOnChain' = everOnChain \cup EventsBetween(n, n + 1, forks + 1)
    BY <1>3 DEF CloseLedger, EventsBetween
<1>5. forks' \in Nat /\ UNCHANGED <<table, hashes, poller, backfill>>
    BY DEF CloseLedger, IndexerInv, IndexerTypeOK, BackfillState
<1>6. NewLedgers(n, n + 1, forks + 1)
    BY <1>1, <1>2, <1>4, <1>5 DEF NewLedgers
<1> QED
    BY <1>1, <1>6, ChainKeeps

LEMMA ReorgKeeps ==
    ASSUME IndexerInv, NEW depth \in 1 .. 2, Reorg(depth)
    PROVE  IndexerInv'
<1> DEFINE n == Len(chain)
           a == n - depth
<1>1. n \in Nat /\ n <= MaxHeight /\ a \in Nat /\ a <= n /\ forks + 2 \in Nat
    BY DEF IndexerInv, IndexerTypeOK, BackfillState, Reorg
<1>2. chain' = [l \in 1 .. n |-> IF l > a THEN forks + 2 ELSE chain[l]]
    BY DEF Reorg
<1>3. chain' \in [1 .. n -> Nat]
    BY <1>1, <1>2 DEF IndexerInv, IndexerTypeOK, BackfillState
<1>4. chain' \in Seq(Nat) /\ Len(chain') = n
    BY <1>1, <1>3
<1>5. everOnChain' = everOnChain \cup EventsBetween(a, n, forks + 2)
    BY DEF Reorg, EventsBetween
<1>6. forks' \in Nat /\ UNCHANGED <<table, hashes, poller, backfill>>
    BY DEF Reorg, IndexerInv, IndexerTypeOK, BackfillState
<1>7. \A l \in 1 .. n : chain'[l] = IF l > a THEN forks + 2 ELSE chain[l]
    BY <1>2
<1>8. NewLedgers(a, n, forks + 2)
    BY <1>1, <1>4, <1>5, <1>6, <1>7 DEF NewLedgers
<1> QED
    BY <1>1, <1>8, ChainKeeps

LEMMA BatchRecords ==
    ASSUME IndexerInv
    PROVE  /\ poller.batch \in SUBSET EventRecord /\ backfill.batch \in SUBSET EventRecord
           /\ table \subseteq EventRecord /\ Len(chain) \in Nat
           /\ \A e \in poller.batch \cup backfill.batch : e.ledger <= Len(chain)
BY DEF IndexerInv, IndexerTypeOK, BackfillState, Happened

\* The ledger of a batch's last event is on the chain.
LEMMA TipOnChain ==
    ASSUME IndexerInv, poller.at = "check"
    PROVE  /\ Tip(poller.batch) \in 1 .. Len(chain) /\ Tip(poller.batch) \in 1 .. MaxHeight
           /\ \E e \in poller.batch : e.ledger = Tip(poller.batch)
<1>1. poller.batch # {} /\ poller.batch \in SUBSET EventRecord
    BY BatchRecords DEF IndexerInv, BatchesFilled
<1>2. /\ Tip(poller.batch) \in 1 .. MaxHeight
      /\ \E e \in poller.batch : e.ledger = Tip(poller.batch)
    BY <1>1, TipOfBatch
<1> QED
    BY <1>2, BatchRecords, IndexerAssumption

\* The last place of a batch.
LEMMA LastPlace ==
    ASSUME NEW B \in SUBSET EventRecord, B # {}
    PROVE  \E e \in B : Max(PlacesOf(B)) = PlaceOf(e) /\ PlaceOf(e) \in Nat \ {0}
<1> DEFINE bound == MaxHeight * PerChainLedger
<1>1. \A e \in B : PlaceOf(e) \in Nat \ {0} /\ PlaceOf(e) <= bound
    <2> SUFFICES ASSUME NEW e \in B
                 PROVE  PlaceOf(e) \in Nat \ {0} /\ PlaceOf(e) <= bound
        OBVIOUS
    <2>1. e.ledger \in 1 .. MaxHeight /\ e.index \in 0 .. PerChainLedger - 1
        BY DEF EventRecord
    <2>2. e.ledger * PerChainLedger <= bound
        BY <2>1, TimesMonotone, IndexerAssumption
    <2>3. /\ (e.ledger - 1) * PerChainLedger \in Nat /\ bound \in Nat
          /\ e.ledger * PerChainLedger = (e.ledger - 1) * PerChainLedger + PerChainLedger
        BY <2>1, IndexerAssumption
    <2> HIDE DEF bound
    <2> QED
        BY <2>1, <2>2, <2>3, IndexerAssumption DEF PlaceOf
<1>2. PlacesOf(B) = {PlaceOf(e) : e \in B}
    BY DEF PlacesOf, PlaceOf
<1>3. bound \in Nat
    BY IndexerAssumption
<1> HIDE DEF bound
<1>4. PlacesOf(B) \in SUBSET Nat /\ PlacesOf(B) # {} /\ \A x \in PlacesOf(B) : x <= bound
    BY <1>1, <1>2
<1>5. Max(PlacesOf(B)) \in PlacesOf(B)
    BY <1>3, <1>4, MaxOfBounded
<1> QED
    BY <1>1, <1>2, <1>5

LEMMA FetchEffectsKeeps ==
    ASSUME IndexerInv, FetchEffects
    PROVE  IndexerInv'
<1> DEFINE page == Page(poller.cursor, PollPage)
           batch == {OnChain(p) : p \in page}
<1>1. poller.cursor \in Nat /\ PollPage \in Nat
    BY IndexerAssumption DEF IndexerInv, IndexerTypeOK, BackfillState
<1>2. batch \subseteq everOnChain
    BY <1>1, PageHappened
<1>3. batch # {}
    BY DEF FetchEffects
<1>4. poller' = [poller EXCEPT !.at = "store", !.batch = batch]
    BY DEF FetchEffects
<1> HIDE DEF batch
<1>5. IndexerTypeOK'
    BY <1>2, <1>4 DEF IndexerInv, IndexerTypeOK, BackfillState, FetchEffects
<1>6. Happened'
    BY DEF IndexerInv, Happened, FetchEffects
<1>7. BatchesFilled'
    BY <1>3, <1>4 DEF IndexerInv, IndexerTypeOK, BackfillState, BatchesFilled, FetchEffects
<1> QED
    BY <1>5, <1>6, <1>7 DEF IndexerInv

LEMMA StoreBatchKeeps ==
    ASSUME IndexerInv, StoreBatch
    PROVE  IndexerInv'
<1>1. poller.batch \in SUBSET EventRecord /\ poller.batch # {}
    BY BatchRecords DEF IndexerInv, BatchesFilled, StoreBatch
<1>2. Tip(poller.batch) \in 1 .. MaxHeight
    BY <1>1, TipOfBatch
<1>3. StartOf(Tip(poller.batch)) \in Nat
    BY <1>2, IndexerAssumption DEF StartOf
<1>4. table' \subseteq everOnChain
    BY RowsAfterStore DEF StoreBatch, IndexerInv, IndexerTypeOK, BackfillState, Happened
<1>5. IndexerTypeOK'
    BY <1>3 DEF IndexerInv, IndexerTypeOK, BackfillState, StoreBatch
<1>6. Happened'
    BY <1>4 DEF IndexerInv, Happened, StoreBatch
<1>7. BatchesFilled'
    BY <1>1 DEF IndexerInv, IndexerTypeOK, BackfillState, BatchesFilled, StoreBatch
<1> QED
    BY <1>5, <1>6, <1>7 DEF IndexerInv

\* Advance leaves the loop at its next page, with a cursor and no batch.
LEMMA AdvanceType ==
    ASSUME IndexerInv, poller.at = "check", poller' = Advance(poller.batch)
    PROVE  /\ poller'.at = "fetch" /\ poller'.batch = {} /\ poller'.cursor \in Nat
           /\ poller'.cursor = Max(PlacesOf(poller.batch))
           /\ poller' = [at |-> "fetch", cursor |-> poller'.cursor, batch |-> {}]
<1>1. poller.batch # {} /\ poller.batch \in SUBSET EventRecord
    BY BatchRecords DEF IndexerInv, BatchesFilled
<1>2. Max(PlacesOf(poller.batch)) \in Nat
    BY <1>1, LastPlace
<1> QED
    BY <1>2 DEF Advance, IndexerInv, IndexerTypeOK, BackfillState

LEMMA CheckPassesKeeps ==
    ASSUME IndexerInv, CheckPasses
    PROVE  IndexerInv'
<1> DEFINE tip == Tip(poller.batch)
<1>1. tip \in 1 .. Len(chain) /\ tip \in 1 .. MaxHeight
    BY TipOnChain DEF CheckPasses
<1>2. poller'.cursor \in Nat /\ poller' = [at |-> "fetch", cursor |-> poller'.cursor, batch |-> {}]
    BY AdvanceType DEF CheckPasses
<1>3. chain[tip] \in Nat /\ hashes' = [hashes EXCEPT ![tip] = chain[tip]]
    BY <1>1 DEF CheckPasses, IndexerInv, IndexerTypeOK, BackfillState
<1>4. \E e \in everOnChain : e.ledger = tip /\ e.version = chain[tip]
    <2>1. 0 \in 0 .. PerChainLedger - 1
        BY IndexerAssumption
    <2>2. [ledger |-> tip, index |-> 0, version |-> chain[tip]] \in everOnChain
        BY <1>1, <2>1 DEF IndexerInv, Happened
    <2> QED
        BY <2>2
<1> HIDE DEF tip
<1>5. UNCHANGED <<chain, forks, everOnChain, table, backfill>>
    BY DEF CheckPasses
<1>6. IndexerTypeOK'
    BY <1>1, <1>2, <1>3, <1>5 DEF IndexerInv, IndexerTypeOK, BackfillState
<1>7. Happened'
    BY <1>3, <1>4, <1>5 DEF IndexerInv, IndexerTypeOK, BackfillState, Happened
<1>8. BatchesFilled'
    BY <1>2, <1>5 DEF IndexerInv, BatchesFilled
<1> QED
    BY <1>6, <1>7, <1>8 DEF IndexerInv

LEMMA CheckSkippedKeeps ==
    ASSUME IndexerInv, CheckSkipped
    PROVE  IndexerInv'
<1>1. poller'.cursor \in Nat /\ poller' = [at |-> "fetch", cursor |-> poller'.cursor, batch |-> {}]
    BY AdvanceType DEF CheckSkipped
<1> QED
    BY <1>1 DEF CheckSkipped, IndexerInv, IndexerTypeOK, BackfillState, Happened, BatchesFilled

LEMMA CheckFindsReorgKeeps ==
    ASSUME IndexerInv, CheckFindsReorg
    PROVE  IndexerInv'
<1> DEFINE tip == Tip(poller.batch)
<1>1. tip \in Nat /\ tip > 1 /\ StartOf(tip - 1) \in Nat
    BY TipOnChain, IndexerAssumption DEF CheckFindsReorg, DetectReorg, StartOf
<1>2. /\ poller' = [poller EXCEPT !.at = "fetch", !.cursor = StartOf(tip - 1), !.batch = {}]
      /\ table' \subseteq table
      /\ hashes' = [l \in 1 .. MaxHeight |-> IF l >= tip - 1 THEN 0 ELSE hashes[l]]
      /\ UNCHANGED <<chain, forks, everOnChain, backfill>>
    BY DEF CheckFindsReorg, RollbackFrom
<1> HIDE DEF tip
<1>3. IndexerTypeOK'
    BY <1>1, <1>2 DEF IndexerInv, IndexerTypeOK, BackfillState
<1>4. Happened'
    BY <1>1, <1>2 DEF IndexerInv, IndexerTypeOK, BackfillState, Happened
<1>5. BatchesFilled'
    BY <1>2 DEF IndexerInv, IndexerTypeOK, BackfillState, BatchesFilled
<1> QED
    BY <1>3, <1>4, <1>5 DEF IndexerInv

LEMMA RollbackLostKeeps ==
    ASSUME IndexerInv, RollbackAnswerLost
    PROVE  IndexerInv'
<1> DEFINE tip == Tip(poller.batch)
<1>1. tip \in Nat /\ tip > 1
    BY TipOnChain, IndexerAssumption DEF RollbackAnswerLost, DetectReorg
<1>2. /\ poller' = [poller EXCEPT !.at = "fetch", !.batch = {}]
      /\ table' \subseteq table
      /\ hashes' = [l \in 1 .. MaxHeight |-> IF l >= tip - 1 THEN 0 ELSE hashes[l]]
      /\ UNCHANGED <<chain, forks, everOnChain, backfill>>
    BY DEF RollbackAnswerLost, RollbackFrom
<1> HIDE DEF tip
<1>3. IndexerTypeOK'
    BY <1>1, <1>2 DEF IndexerInv, IndexerTypeOK, BackfillState
<1>4. Happened'
    BY <1>1, <1>2 DEF IndexerInv, IndexerTypeOK, BackfillState, Happened
<1>5. BatchesFilled'
    BY <1>2 DEF IndexerInv, IndexerTypeOK, BackfillState, BatchesFilled
<1> QED
    BY <1>3, <1>4, <1>5 DEF IndexerInv

\* A restart begins on a place of the chain's bounds.
LEMMA RestartCursorType ==
    ASSUME IndexerInv
    PROVE  RestartCursor \in Nat /\ RestartCursor <= StartOf(MaxHeight + 1)
<1>1. StartOf(MaxHeight + 1) = MaxHeight * PerChainLedger /\ StartOf(MaxHeight + 1) \in Nat
    BY IndexerAssumption DEF StartOf
<1>2. CASE table = {}
    BY <1>1, <1>2 DEF RestartCursor
<1>3. CASE table # {}
    <2> DEFINE last == Max({e.ledger : e \in table})
               from == IF last > LookbackLedgers THEN last - LookbackLedgers ELSE 1
    <2>1. last \in 1 .. MaxHeight
        BY <1>3, BatchRecords, TipOfBatch DEF Tip
    <2> HIDE DEF last
    <2>2. from \in 1 .. MaxHeight
        BY <2>1, IndexerAssumption
    <2> HIDE DEF from
    <2>3. StartOf(from) \in Nat /\ StartOf(from) <= MaxHeight * PerChainLedger
        <3>1. StartOf(from) = (from - 1) * PerChainLedger /\ from - 1 \in Nat
            BY <2>2 DEF StartOf
        <3>2. (from - 1) * PerChainLedger <= MaxHeight * PerChainLedger
            BY <2>2, TimesMonotone, IndexerAssumption
        <3> QED
            BY <3>1, <3>2, IndexerAssumption
    <2>4. RestartCursor = StartOf(from)
        BY <1>3 DEF RestartCursor, from, last
    <2> QED
        BY <1>1, <2>3, <2>4
<1> QED
    BY <1>2, <1>3

LEMMA PollErrorKeeps ==
    ASSUME IndexerInv, PollError
    PROVE  IndexerInv'
BY DEF PollError, IndexerInv, IndexerTypeOK, BackfillState, Happened, BatchesFilled

LEMMA RestartKeeps ==
    ASSUME IndexerInv, Restart
    PROVE  IndexerInv'
BY RestartCursorType DEF Restart, IndexerInv, IndexerTypeOK, BackfillState, Happened, BatchesFilled

LEMMA StartBackfillKeeps ==
    ASSUME IndexerInv, NEW l \in 1 .. MaxHeight, NEW end \in {l, NoEnd}, StartBackfill(l, end)
    PROVE  IndexerInv'
<1>1. end \in Nat /\ l \in Nat
    BY IndexerAssumption DEF NoEnd
<1> QED
    BY <1>1 DEF StartBackfill, IndexerInv, IndexerTypeOK, BackfillState, Happened, BatchesFilled

LEMMA BackfillFetchKeeps ==
    ASSUME IndexerInv, BackfillFetch
    PROVE  IndexerInv'
<1> DEFINE page == Page(StartOf(backfill.ledger), BackfillPage)
           batch == {OnChain(p) : p \in page}
<1>1. batch \subseteq everOnChain
    <2> SUFFICES ASSUME NEW p \in page
                 PROVE  OnChain(p) \in everOnChain
        OBVIOUS
    <2>1. Page(StartOf(backfill.ledger), BackfillPage) \subseteq Places
        BY DEF Page
    <2>2. p \in Page(0, Len(chain) * PerChainLedger)
        BY <2>1, BatchRecords, IndexerAssumption DEF Page, Places
    <2> QED
        BY <2>2, PageHappened, BatchRecords, IndexerAssumption
<1>2. page # {} => batch # {}
    OBVIOUS
<1>3. backfill' = IF page = {} THEN [backfill EXCEPT !.at = "done", !.failures = 0]
                  ELSE [backfill EXCEPT !.at = "store", !.failures = 0, !.batch = batch]
    BY DEF BackfillFetch
<1> HIDE DEF page, batch
<1>4. IndexerTypeOK'
    <2>1. backfill \in BackfillState
        BY DEF IndexerInv, IndexerTypeOK
    <2>2. [backfill EXCEPT !.at = "done", !.failures = 0] \in BackfillState
        BY <2>1 DEF BackfillState
    <2>3. [backfill EXCEPT !.at = "store", !.failures = 0, !.batch = batch] \in BackfillState
        BY <1>1, <2>1 DEF BackfillState
    <2>4. backfill' \in BackfillState /\ BackfillState' = BackfillState
        BY <1>3, <2>2, <2>3 DEF BackfillFetch, BackfillState
    <2> QED
        BY <2>4 DEF IndexerInv, IndexerTypeOK, BackfillState, BackfillFetch
<1>5. Happened'
    BY DEF IndexerInv, Happened, BackfillFetch
<1>6. BatchesFilled'
    BY <1>2, <1>3 DEF IndexerInv, IndexerTypeOK, BackfillState, BatchesFilled, BackfillFetch
<1> QED
    BY <1>4, <1>5, <1>6 DEF IndexerInv

LEMMA BackfillStoreKeeps ==
    ASSUME IndexerInv, BackfillStore
    PROVE  IndexerInv'
<1>1. Tip(backfill.batch) \in 1 .. MaxHeight
    BY BatchRecords, TipOfBatch DEF IndexerInv, BatchesFilled, BackfillStore
<1>2. table' \subseteq everOnChain
    BY RowsAfterStore DEF BackfillStore, IndexerInv, IndexerTypeOK, BackfillState, Happened
<1>3. Tip(backfill.batch) + 1 \in Nat
    BY <1>1
<1>4. IndexerTypeOK'
    BY <1>3 DEF IndexerInv, IndexerTypeOK, BackfillState, BackfillStore
<1>5. Happened'
    BY <1>2 DEF IndexerInv, Happened, BackfillStore
<1>6. BatchesFilled'
    BY DEF IndexerInv, IndexerTypeOK, BackfillState, BatchesFilled, BackfillStore
<1> QED
    BY <1>4, <1>5, <1>6 DEF IndexerInv

LEMMA BackfillErrorKeeps ==
    ASSUME IndexerInv, BackfillError
    PROVE  IndexerInv'
<1> DEFINE next == IF backfill.failures + 2 > MaxFailures THEN "done" ELSE "fetch"
<1>1. backfill \in BackfillState /\ next \in {"done", "fetch"}
    BY DEF IndexerInv, IndexerTypeOK, BackfillState
<1>2. backfill' = [backfill EXCEPT !.failures = @ + 2, !.batch = {}, !.at = next]
    BY DEF BackfillError
<1> HIDE DEF next
<1>3. backfill' \in BackfillState
    <2>1. backfill.failures + 2 \in Nat /\ {} \in SUBSET everOnChain
        BY <1>1 DEF BackfillState
    <2>2. next \in {"off", "fetch", "store", "done"}
        BY <1>1
    <2>3. backfill' = [at |-> next, ledger |-> backfill.ledger, end |-> backfill.end,
                       batch |-> {}, failures |-> backfill.failures + 2]
        BY <1>1, <1>2 DEF BackfillState
    <2> QED
        BY <1>1, <2>1, <2>2, <2>3 DEF BackfillState
<1>4. backfill'.at = next /\ BackfillState' = BackfillState
    BY <1>1, <1>2 DEF BackfillState, BackfillError
<1> QED
    BY <1>1, <1>3, <1>4 DEF BackfillError, IndexerInv, IndexerTypeOK, Happened, BatchesFilled

LEMMA IndexerInvStep == IndexerInv /\ [IndexerNext]_indexerVars => IndexerInv'
<1> SUFFICES ASSUME IndexerInv, [IndexerNext]_indexerVars
             PROVE  IndexerInv'
    OBVIOUS
<1>1. CASE UNCHANGED indexerVars
    BY <1>1 DEF indexerVars, IndexerInv, IndexerTypeOK, BackfillState, Happened, BatchesFilled
<1>2. CASE CloseLedger
    BY <1>2, CloseLedgerKeeps
<1>3. ASSUME NEW depth \in 1 .. 2, Reorg(depth)
      PROVE  IndexerInv'
    BY <1>3, ReorgKeeps
<1>4. CASE FetchEffects
    BY <1>4, FetchEffectsKeeps
<1>5. CASE StoreBatch
    BY <1>5, StoreBatchKeeps
<1>6. CASE CheckPasses
    BY <1>6, CheckPassesKeeps
<1>7. CASE CheckSkipped
    BY <1>7, CheckSkippedKeeps
<1>8. CASE CheckFindsReorg \/ RollbackAnswerLost
    BY <1>8, CheckFindsReorgKeeps, RollbackLostKeeps
<1>9. CASE PollError
    BY <1>9, PollErrorKeeps
<1>10. CASE Restart
    BY <1>10, RestartKeeps
<1>11. ASSUME NEW l \in 1 .. MaxHeight, NEW end \in {l, NoEnd}, StartBackfill(l, end)
       PROVE  IndexerInv'
    BY <1>11, StartBackfillKeeps
<1>12. CASE BackfillFetch
    BY <1>12, BackfillFetchKeeps
<1>13. CASE BackfillStore
    BY <1>13, BackfillStoreKeeps
<1>14. CASE BackfillError
    BY <1>14, BackfillErrorKeeps
<1> QED
    BY <1>1, <1>2, <1>3, <1>4, <1>5, <1>6, <1>7, <1>8, <1>9, <1>10, <1>11, <1>12, <1>13, <1>14
       DEF IndexerNext

\* Whatever is read, stored or recorded was on some chain, in every behaviour.
THEOREM IndexerInvariant == IndexerSpec => []IndexerInv
<1>1. IndexerInit => IndexerInv
    BY IndexerInvInit
<1>2. IndexerInv /\ [IndexerNext]_indexerVars => IndexerInv'
    BY IndexerInvStep
<1> QED
    BY <1>1, <1>2, PTL DEF IndexerSpec

-----------------------------------------------------------------------------
(* The indexer implements EventLog *)

\* A hash that differs from the chain's proves that the ledger was replaced.
LEMMA DetectedIsReplaced ==
    ASSUME IndexerInv, poller.at = "check", DetectReorg(Tip(poller.batch))
    PROVE  \E r \in everOnChain :
             Promised!Replaced(r.ledger) /\ r.ledger = Tip(poller.batch) - 1
<1> DEFINE l == Tip(poller.batch) - 1
<1>1. l \in 1 .. Len(chain) /\ l \in 1 .. MaxHeight
    BY TipOnChain, BatchRecords, IndexerAssumption DEF DetectReorg
<1>2. hashes[l] # 0 /\ hashes[l] # chain[l]
    BY DEF DetectReorg
<1>3. PICK d \in everOnChain : d.ledger = l /\ d.version = hashes[l]
    BY <1>1, <1>2 DEF IndexerInv, Happened
<1>4. PICK e \in everOnChain : e.ledger = l /\ e.version = chain[l]
    <2>1. 0 \in 0 .. PerChainLedger - 1
        BY IndexerAssumption
    <2>2. [ledger |-> l, index |-> 0, version |-> chain[l]] \in everOnChain
        BY <1>1, <2>1 DEF IndexerInv, Happened
    <2> QED
        BY <2>2
<1> HIDE DEF l
<1>5. Promised!Replaced(l)
    BY <1>2, <1>3, <1>4 DEF Promised!Replaced
<1> QED
    BY <1>3, <1>5 DEF l

LEMMA StoreAppends ==
    ASSUME IndexerInv, NEW B \in SUBSET everOnChain, StoreEvents(B), UNCHANGED everOnChain
    PROVE  Promised!Append
BY RowsAfterStore DEF Promised!Append, Promised!IdOf, IndexerInv, Happened

LEMMA RollbackRetracts ==
    ASSUME IndexerInv, CheckFindsReorg \/ RollbackAnswerLost
    PROVE  Promised!Retract
<1>1. PICK r \in everOnChain :
        Promised!Replaced(r.ledger) /\ r.ledger = Tip(poller.batch) - 1
    BY DetectedIsReplaced DEF CheckFindsReorg, RollbackAnswerLost
<1>2. table' = {e \in table : e.ledger < r.ledger}
    BY <1>1 DEF CheckFindsReorg, RollbackAnswerLost, RollbackFrom
<1>3. UNCHANGED everOnChain
    BY DEF CheckFindsReorg, RollbackAnswerLost
<1> QED
    BY <1>1, <1>2, <1>3 DEF Promised!Retract

LEMMA EveryStepKeepsPromise ==
    ASSUME IndexerInv, [IndexerNext]_indexerVars
    PROVE  [Promised!LogNext]_(Promised!logVars)
<1> USE DEF Promised!LogNext, Promised!logVars
<1>1. CASE UNCHANGED indexerVars
    BY <1>1 DEF indexerVars
<1>2. CASE CloseLedger
    BY <1>2 DEF CloseLedger, Promised!ChainGoesOn
<1>3. ASSUME NEW depth \in 1 .. 2, Reorg(depth)
      PROVE  [Promised!LogNext]_(Promised!logVars)
    BY <1>3 DEF Reorg, Promised!ChainGoesOn
<1>4. CASE FetchEffects
    BY <1>4 DEF FetchEffects
<1>5. CASE StoreBatch
    BY <1>5, StoreAppends DEF StoreBatch, IndexerInv, IndexerTypeOK, BackfillState
<1>6. CASE CheckPasses
    BY <1>6 DEF CheckPasses
<1>7. CASE CheckSkipped
    BY <1>7 DEF CheckSkipped
<1>8. CASE CheckFindsReorg \/ RollbackAnswerLost
    BY <1>8, RollbackRetracts
<1>9. CASE PollError
    BY <1>9 DEF PollError
<1>10. CASE Restart
    BY <1>10 DEF Restart
<1>11. ASSUME NEW l \in 1 .. MaxHeight, NEW end \in {l, NoEnd}, StartBackfill(l, end)
       PROVE  [Promised!LogNext]_(Promised!logVars)
    BY <1>11 DEF StartBackfill
<1>12. CASE BackfillFetch
    BY <1>12 DEF BackfillFetch
<1>13. CASE BackfillStore
    BY <1>13, StoreAppends DEF BackfillStore, IndexerInv, IndexerTypeOK, BackfillState
<1>14. CASE BackfillError
    BY <1>14 DEF BackfillError
<1> QED
    BY <1>1, <1>2, <1>3, <1>4, <1>5, <1>6, <1>7, <1>8, <1>9, <1>10, <1>11, <1>12, <1>13, <1>14
       DEF IndexerNext

\* The indexer implements EventLog: through reorgs, restarts, failed calls and a
\* backfill beside the poll loop, a row says what some chain held, is never changed,
\* and is only removed with everything from a replaced ledger on.
THEOREM ImplementsEventLog == IndexerSpec => KeepsEventLog
<1>1. IndexerInit => Promised!LogInit
    BY DEF IndexerInit, Promised!LogInit
<1>2. IndexerInv /\ [IndexerNext]_indexerVars => [Promised!LogNext]_(Promised!logVars)
    BY EveryStepKeepsPromise
<1> QED
    BY <1>1, <1>2, IndexerInvariant, PTL DEF IndexerSpec, KeepsEventLog, Promised!LogSpec

-----------------------------------------------------------------------------
(* No gap below the cursor *)

GapInv == NoGapBelowCursor /\ BatchCovered

LEMMA PlacesOfRows ==
    ASSUME NEW R
    PROVE  PlacesOf(R) = {PlaceOf(e) : e \in R}
BY DEF PlacesOf, PlaceOf

LEMMA StoredAfterStore ==
    ASSUME NEW B, StoreEvents(B)
    PROVE  Stored \subseteq Stored' /\ PlacesOf(B) \subseteq Stored'
<1>1. /\ table \subseteq table'
      /\ \A e \in B : \E d \in table' : d.ledger = e.ledger /\ d.index = e.index
    BY RowsAfterStore
<1>2. Stored = {PlaceOf(e) : e \in table} /\ Stored' = {PlaceOf(e) : e \in table'}
    BY DEF Stored, PlacesOf, PlaceOf
<1>3. PlacesOf(B) = {PlaceOf(e) : e \in B}
    BY PlacesOfRows
<1>4. \A e \in B : PlaceOf(e) \in Stored'
    BY <1>1, <1>2 DEF PlaceOf
<1> QED
    BY <1>1, <1>2, <1>3, <1>4

LEMMA GapInit == IndexerInit => GapInv
BY DEF IndexerInit, GapInv, NoGapBelowCursor, BatchCovered

\* Rows are only added, and the loop stands still or gives its batch up.
LEMMA GapWhenLoopStands ==
    ASSUME GapInv, Stored \subseteq Stored', jumped \subseteq jumped',
           poller' = poller \/ (poller'.cursor = poller.cursor /\ poller'.batch = {})
    PROVE  GapInv'
<1>1. NoGapBelowCursor'
    BY DEF GapInv, NoGapBelowCursor
<1>2. BatchCovered'
    BY DEF GapInv, BatchCovered, PlaceOf, PlacesOf
<1> QED
    BY <1>1, <1>2 DEF GapInv

LEMMA GapFetch ==
    ASSUME IndexerInv, GapInv, FetchEffects
    PROVE  GapInv'
<1> DEFINE page == Page(poller.cursor, PollPage)
           batch == {OnChain(p) : p \in page}
<1>1. poller.cursor \in Nat /\ PollPage \in Nat
    BY IndexerAssumption DEF IndexerInv, IndexerTypeOK
<1>2. \A p \in page : p \in Nat \ {0} /\ PlaceOf(OnChain(p)) = p
    BY <1>1, PageHappened
<1>3. /\ poller'.cursor = poller.cursor /\ poller'.at = "store" /\ poller'.batch = batch
      /\ UNCHANGED <<table, jumped, chain>>
    BY DEF FetchEffects, IndexerInv, IndexerTypeOK
<1>4. PlacesOf(batch) = page
    <2>1. PlacesOf(batch) = {PlaceOf(e) : e \in batch}
        BY PlacesOfRows
    <2>2. {PlaceOf(e) : e \in batch} = page
        BY <1>2
    <2> QED
        BY <2>1, <2>2
<1>5. \A p \in page : \A q \in 1 .. p : q <= poller.cursor \/ q \in page
    <2>1. Len(chain) * PerChainLedger \in Nat
        BY BatchRecords, IndexerAssumption
    <2> QED
        BY <1>1, <2>1 DEF Page, Places
<1>6. \A e \in batch : PlaceOf(e) \in page
    BY <1>2
<1>7. Stored' = Stored
    BY <1>3 DEF Stored, PlacesOf
<1>8. NoGapBelowCursor'
    BY <1>3, <1>7 DEF GapInv, NoGapBelowCursor
<1> HIDE DEF batch, page
<1>9. BatchCovered'
    <2> SUFFICES ASSUME NEW e \in poller'.batch, NEW q \in 1 .. PlaceOf(e)
                 PROVE  \/ q \in Stored' \cup jumped'
                        \/ poller'.at = "store" /\ q \in PlacesOf(poller'.batch)
        BY DEF BatchCovered, PlaceOf, PlacesOf
    <2>1. PlaceOf(e) \in page
        BY <1>3, <1>6
    <2>2. q <= poller.cursor \/ q \in page
        BY <1>5, <2>1
    <2>3. q <= poller.cursor => q \in Stored \cup jumped
        BY <1>1, <1>2, <2>1 DEF GapInv, NoGapBelowCursor
    <2> QED
        BY <1>3, <1>4, <1>7, <2>2, <2>3
<1> QED
    BY <1>8, <1>9 DEF GapInv

\* A ledger starts before each of its events.
LEMMA StartBeforePlace ==
    ASSUME NEW e \in EventRecord
    PROVE  PlaceOf(e) \in Nat /\ StartOf(e.ledger) \in Nat /\ StartOf(e.ledger) <= PlaceOf(e)
<1>1. e.ledger \in Nat \ {0} /\ e.index \in Nat
    BY IndexerAssumption DEF EventRecord
<1>2. (e.ledger - 1) * PerChainLedger \in Nat
    BY <1>1, IndexerAssumption
<1> QED
    BY <1>1, <1>2 DEF PlaceOf, StartOf

LEMMA GapStore ==
    ASSUME IndexerInv, GapInv, StoreBatch
    PROVE  GapInv'
<1>1. poller.batch \in SUBSET EventRecord /\ poller.batch # {}
    BY BatchRecords DEF IndexerInv, BatchesFilled, StoreBatch
<1>2. PICK e \in poller.batch : e.ledger = Tip(poller.batch)
    BY <1>1, TipOfBatch
<1>3. /\ PlaceOf(e) \in Nat /\ StartOf(Tip(poller.batch)) \in Nat
      /\ StartOf(Tip(poller.batch)) <= PlaceOf(e)
    BY <1>1, <1>2, StartBeforePlace
<1>4. Stored \subseteq Stored' /\ PlacesOf(poller.batch) \subseteq Stored'
    BY StoredAfterStore DEF StoreBatch
<1>5. \A d \in poller.batch : \A q \in 1 .. PlaceOf(d) : q \in Stored' \cup jumped
    BY <1>4 DEF GapInv, BatchCovered
<1>6. /\ poller'.cursor = StartOf(Tip(poller.batch)) /\ poller'.batch = poller.batch
      /\ jumped' = jumped
    BY DEF StoreBatch, IndexerInv, IndexerTypeOK
<1>7. NoGapBelowCursor'
    BY <1>2, <1>3, <1>5, <1>6 DEF NoGapBelowCursor
<1>8. BatchCovered'
    BY <1>5, <1>6 DEF BatchCovered, PlaceOf
<1> QED
    BY <1>7, <1>8 DEF GapInv

LEMMA GapAdvance ==
    ASSUME IndexerInv, GapInv, poller.at = "check", poller' = Advance(poller.batch),
           UNCHANGED <<table, jumped>>
    PROVE  GapInv'
<1>1. poller.batch # {} /\ poller.batch \in SUBSET EventRecord
    BY BatchRecords DEF IndexerInv, BatchesFilled
<1>2. poller'.batch = {} /\ poller'.cursor = Max(PlacesOf(poller.batch))
    BY AdvanceType
<1>3. PICK e \in poller.batch : Max(PlacesOf(poller.batch)) = PlaceOf(e)
    BY <1>1, LastPlace
<1>4. Stored' = Stored
    BY DEF Stored, PlacesOf
<1>5. NoGapBelowCursor'
    BY <1>2, <1>3, <1>4 DEF GapInv, BatchCovered, NoGapBelowCursor
<1>6. BatchCovered'
    BY <1>2 DEF BatchCovered
<1> QED
    BY <1>5, <1>6 DEF GapInv

\* What lies before the ledgers of a rollback is kept.
LEMMA KeptBelowRollback ==
    ASSUME IndexerInv, GapInv, poller.at = "check", DetectReorg(Tip(poller.batch)),
           RollbackFrom(Tip(poller.batch) - 1)
    PROVE  /\ StartOf(Tip(poller.batch) - 1) \in Nat
           /\ \A q \in 1 .. StartOf(Tip(poller.batch) - 1) : q \in Stored' \cup jumped
<1> DEFINE l == Tip(poller.batch) - 1
<1>1. PICK e \in poller.batch : e.ledger = l + 1
    BY TipOnChain
<1>2. l \in Nat \ {0}
    BY TipOnChain, IndexerAssumption DEF DetectReorg
<1>3. table' = {d \in table : d.ledger < l}
    BY DEF RollbackFrom
<1> HIDE DEF l
<1>4. StartOf(l) \in Nat /\ PlaceOf(e) \in Nat /\ StartOf(l) <= PlaceOf(e)
    <2>1. StartOf(l + 1) \in Nat /\ PlaceOf(e) \in Nat /\ StartOf(l + 1) <= PlaceOf(e)
        BY <1>1, StartBeforePlace, BatchRecords
    <2>2. (l - 1) * PerChainLedger <= l * PerChainLedger /\ (l - 1) * PerChainLedger \in Nat
        BY <1>2, TimesMonotone, IndexerAssumption
    <2>3. StartOf(l) = (l - 1) * PerChainLedger /\ StartOf(l + 1) = l * PerChainLedger
        BY <1>2 DEF StartOf
    <2> QED
        BY <2>1, <2>2, <2>3
<1>5. \A q \in 1 .. StartOf(l) : q \in Stored \cup jumped
    BY <1>1, <1>4 DEF GapInv, BatchCovered
<1>6. \A d \in table : PlaceOf(d) <= StartOf(l) => d.ledger < l
    <2> SUFFICES ASSUME NEW d \in table, d.ledger >= l
                 PROVE  ~ (PlaceOf(d) <= StartOf(l))
        BY <1>2, BatchRecords, IndexerAssumption DEF EventRecord
    <2>1. d.ledger \in Nat \ {0} /\ d.index \in Nat
        BY BatchRecords, IndexerAssumption DEF EventRecord
    <2>2. /\ (l - 1) * PerChainLedger <= (d.ledger - 1) * PerChainLedger
          /\ (l - 1) * PerChainLedger \in Nat /\ (d.ledger - 1) * PerChainLedger \in Nat
        BY <1>2, <2>1, TimesMonotone, IndexerAssumption
    <2> QED
        BY <2>1, <2>2 DEF PlaceOf, StartOf
<1>7. \A q \in 1 .. StartOf(l) : q \in Stored => q \in Stored'
    <2> SUFFICES ASSUME NEW q \in 1 .. StartOf(l), q \in Stored
                 PROVE  q \in Stored'
        OBVIOUS
    <2>1. PICK d \in table : q = PlaceOf(d)
        BY DEF Stored, PlacesOf, PlaceOf
    <2>2. d \in table'
        BY <1>3, <1>4, <1>6, <2>1
    <2> QED
        BY <2>1, <2>2 DEF Stored, PlacesOf, PlaceOf
<1> QED
    BY <1>4, <1>5, <1>7 DEF l

LEMMA GapRollback ==
    ASSUME IndexerInv, GapInv, CheckFindsReorg
    PROVE  GapInv'
<1>1. /\ poller'.batch = {} /\ poller'.cursor = StartOf(Tip(poller.batch) - 1)
      /\ jumped' = jumped
    BY DEF CheckFindsReorg, IndexerInv, IndexerTypeOK
<1>2. \A q \in 1 .. StartOf(Tip(poller.batch) - 1) : q \in Stored' \cup jumped
    BY KeptBelowRollback DEF CheckFindsReorg
<1> QED
    BY <1>1, <1>2 DEF GapInv, NoGapBelowCursor, BatchCovered

LEMMA GapRollbackLost ==
    ASSUME IndexerInv, GapInv, RollbackAnswerLost
    PROVE  GapInv'
<1> DEFINE from == StartOf(Tip(poller.batch) - 1)
<1>1. /\ poller'.batch = {} /\ poller'.cursor = poller.cursor /\ poller.cursor \in Nat
      /\ jumped' = jumped \cup (from + 1 .. poller.cursor)
    BY DEF RollbackAnswerLost, IndexerInv, IndexerTypeOK
<1>2. from \in Nat /\ \A q \in 1 .. from : q \in Stored' \cup jumped
    BY KeptBelowRollback DEF RollbackAnswerLost
<1> HIDE DEF from
<1>3. \A q \in 1 .. poller.cursor : q \in 1 .. from \/ q \in from + 1 .. poller.cursor
    BY <1>1, <1>2
<1>4. NoGapBelowCursor'
    BY <1>1, <1>2, <1>3 DEF NoGapBelowCursor
<1>5. BatchCovered'
    BY <1>1 DEF BatchCovered
<1> QED
    BY <1>4, <1>5 DEF GapInv

LEMMA GapRestart ==
    ASSUME IndexerInv, GapInv, Restart
    PROVE  GapInv'
<1>1. poller'.batch = {} /\ poller'.cursor = RestartCursor /\ Stored' = Stored
    BY DEF Restart, Stored, PlacesOf
<1>2. /\ RestartCursor \in Nat /\ RestartCursor <= StartOf(MaxHeight + 1)
      /\ StartOf(MaxHeight + 1) \in Nat /\ poller.cursor \in Nat
    BY RestartCursorType, IndexerAssumption DEF StartOf, IndexerInv, IndexerTypeOK
<1>3. \A p \in 1 .. RestartCursor : p \in Stored \cup jumped'
    BY <1>2 DEF Restart, GapInv, NoGapBelowCursor
<1>4. NoGapBelowCursor'
    BY <1>1, <1>3 DEF NoGapBelowCursor
<1>5. BatchCovered'
    BY <1>1 DEF BatchCovered
<1> QED
    BY <1>4, <1>5 DEF GapInv

LEMMA GapStep == IndexerInv /\ GapInv /\ [IndexerNext]_indexerVars => GapInv'
<1> SUFFICES ASSUME IndexerInv, GapInv, [IndexerNext]_indexerVars
             PROVE  GapInv'
    OBVIOUS
<1>0. ASSUME UNCHANGED <<table, poller, jumped>>
      PROVE  GapInv'
    BY <1>0, GapWhenLoopStands DEF Stored, PlacesOf
<1>1. CASE UNCHANGED indexerVars
    BY <1>0, <1>1 DEF indexerVars
<1>2. CASE CloseLedger
    BY <1>0, <1>2 DEF CloseLedger
<1>3. ASSUME NEW depth \in 1 .. 2, Reorg(depth)
      PROVE  GapInv'
    BY <1>0, <1>3 DEF Reorg
<1>4. CASE FetchEffects
    BY <1>4, GapFetch
<1>5. CASE StoreBatch
    BY <1>5, GapStore
<1>6. CASE CheckPasses
    BY <1>6, GapAdvance DEF CheckPasses
<1>7. CASE CheckSkipped
    BY <1>7, GapAdvance DEF CheckSkipped
<1>8. CASE CheckFindsReorg \/ RollbackAnswerLost
    BY <1>8, GapRollback, GapRollbackLost
<1>9. CASE PollError
    <2>1. poller'.cursor = poller.cursor /\ poller'.batch = {} /\ UNCHANGED <<table, jumped>>
        BY <1>9 DEF PollError, IndexerInv, IndexerTypeOK
    <2> QED
        BY <2>1, GapWhenLoopStands DEF Stored, PlacesOf
<1>10. CASE Restart
    BY <1>10, GapRestart
<1>11. ASSUME NEW l \in 1 .. MaxHeight, NEW end \in {l, NoEnd}, StartBackfill(l, end)
       PROVE  GapInv'
    BY <1>0, <1>11 DEF StartBackfill
<1>12. CASE BackfillFetch
    BY <1>0, <1>12 DEF BackfillFetch
<1>13. CASE BackfillStore
    BY <1>13, StoredAfterStore, GapWhenLoopStands DEF BackfillStore
<1>14. CASE BackfillError
    BY <1>0, <1>14 DEF BackfillError
<1> QED
    BY <1>1, <1>2, <1>3, <1>4, <1>5, <1>6, <1>7, <1>8, <1>9, <1>10, <1>11, <1>12, <1>13, <1>14
       DEF IndexerNext

\* The poll loop leaves no gap below its cursor, whatever its pages, the reorgs it
\* rolls back, its restarts and a backfill beside it.
THEOREM NoGap == IndexerSpec => []NoGapBelowCursor
<1>1. IndexerInit => GapInv
    BY GapInit
<1>2. IndexerInv /\ GapInv /\ [IndexerNext]_indexerVars => GapInv'
    BY GapStep
<1>3. GapInv => NoGapBelowCursor
    BY DEF GapInv
<1> QED
    BY <1>1, <1>2, <1>3, IndexerInvariant, PTL DEF IndexerSpec

-----------------------------------------------------------------------------
(* The rows and what they tell *)

PublishedSteps == UNION {Published[f] : f \in Families}
EventNames == {"other"} \cup {step.event : step \in PublishedSteps}
Verdicts == {FALSE} \cup {step.yes : step \in PublishedSteps}
States == {"none"} \cup {step.to : step \in PublishedSteps}
EventRow == [n : Nat, ledger : Nat, event : EventNames, yes : Verdicts, state : States]

Upto(set, r) == {q \in set : q.n <= r.n}
Above(set, q) == {p \in set : p.ledger > q.ledger}

\* The ledgers follow the events, whose numbers are their own.
InOrder(set) ==
    /\ set \subseteq EventRow /\ IsFiniteSet(set)
    /\ \A r, q \in set : r.n <= q.n => r.ledger <= q.ledger
    /\ \A r, q \in set : r.n = q.n => r = q

\* The last deciding row has the status s.
DecidedBy(set, s) ==
    IF s = "none" THEN Ours(set) = {}
    ELSE \E d \in set : /\ StatusOf(d) = s
                        /\ \A q \in set : StatusOf(q) # "none" => q.n <= d.n

Has(set, events) == \E r \in set : r.event \in events

\* A whole history of an object of the family f that is now in state s: what the
\* handlers go by.
Fits(f, set, s) ==
    /\ f \in {"round", "oracle", "attestation"} => DecidedBy(set, s)
    /\ f = "attestation" /\ s # "none" => Has(set, {"att_sub"})
    /\ f = "listing" =>
         /\ s = "none" => ~Has(set, {"lst_open"})
         /\ s = "Closed" => Has(set, {"lst_cncl", "lst_buy"})
         /\ s = "Open" => Has(set, {"lst_open"})
         /\ s \in {"none", "Open"} => ~Has(set, {"lst_cncl", "lst_buy"})
         /\ s \in {"none", "Open", "Closed"}
    /\ f = "order" =>
         /\ s = "Open" => Has(set, {"ord_open", "ord_fill"})
         /\ s \in {"none", "Open"} => ~Has(set, {"ord_cncl", "ord_exp"})
    /\ f \in {"mention", "owned"} =>
         s \in {"none", "Named"} /\ (s = "Named" <=> Has(set, {"named"}))
    /\ f \in {"search", "statusSearch"} =>
         IF s = "none" THEN Ours(set) = {}
         ELSE \E d \in Ours(set) : d.event = s /\ \A q \in Ours(set) : q.n <= d.n

LEMMA NothingFits ==
    ASSUME NEW f
    PROVE  Fits(f, {}, "none")
BY DEF Fits, DecidedBy, Ours, Has

\* What a published event does to the status.
LEMMA StatusStep ==
    ASSUME NEW f \in {"round", "oracle", "attestation"}, NEW step \in Published[f],
           NEW t \in EventRow, t.event = step.event, t.yes = step.yes
    PROVE  /\ step.to # "none"
           /\ StatusOf(t) = step.to \/ (StatusOf(t) = "none" /\ step.from = step.to)
           /\ f = "attestation" => step.from # "none" \/ step.event = "att_sub"
<1>1. CASE f = "round"
    <2>1. step \in RoundEvents
        BY <1>1 DEF Published
    <2> QED
        BY <1>1, <2>1 DEF RoundEvents, Step, StatusOf
<1>2. CASE f = "oracle"
    <2>1. step \in OracleEvents
        BY <1>2 DEF Published
    <2> QED
        BY <1>2, <2>1 DEF OracleEvents, Step, StatusOf
<1>3. CASE f = "attestation"
    <2>1. step \in AttestationEvents
        BY <1>3 DEF Published
    <2> QED
        BY <1>3, <2>1 DEF AttestationEvents, Step, StatusOf
<1> QED
    BY <1>1, <1>2, <1>3

LEMMA OtherDecidesNothing ==
    ASSUME NEW t \in EventRow, t.event = "other"
    PROVE  StatusOf(t) = "none"
BY DEF StatusOf

\* The states whose history a reader may hold: those seen and, for an attestation that
\* was seen expired, the active one it silently left.
Known == seenStates \cup {s \in {"Active"} : family = "attestation" /\ "Expired" \in seenStates}

\* A row added on top, as the contract publishes it.
LEMMA DecidedStep ==
    ASSUME NEW f \in {"round", "oracle", "attestation"}, NEW set \in SUBSET EventRow, NEW s,
           DecidedBy(set, s), NEW step \in Published[f], step.from = s,
           NEW t \in EventRow, t.event = step.event, t.yes = step.yes,
           \A q \in set : q.n < t.n
    PROVE  DecidedBy(set \cup {t}, step.to)
<1>1. step.to # "none"
    BY StatusStep
<1>0. \A q \in set : q.n <= t.n
    BY DEF EventRow
<1>2. CASE StatusOf(t) = step.to
    <2>1. \A q \in set \cup {t} : q.n <= t.n
        BY <1>0 DEF EventRow
    <2> QED
        BY <1>1, <1>2, <2>1 DEF DecidedBy
<1>3. CASE StatusOf(t) = "none" /\ step.from = step.to
    BY <1>1, <1>3 DEF DecidedBy
<1> QED
    BY <1>2, <1>3, StatusStep

LEMMA DecidedOther ==
    ASSUME NEW set \in SUBSET EventRow, NEW s, DecidedBy(set, s),
           NEW t \in EventRow, t.event = "other"
    PROVE  DecidedBy(set \cup {t}, s)
<1>1. StatusOf(t) = "none"
    BY OtherDecidesNothing
<1>2. Ours(set \cup {t}) = Ours(set)
    BY DEF Ours
<1> QED
    BY <1>1, <1>2 DEF DecidedBy

LEMMA StepFits ==
    ASSUME NEW f \in Families, NEW set \in SUBSET EventRow, NEW s, Fits(f, set, s),
           NEW step \in Published[f], step.from = s,
           NEW t \in EventRow, t.event = step.event, t.yes = step.yes,
           \A q \in set : q.n < t.n
    PROVE  Fits(f, set \cup {t}, step.to)
<1> DEFINE new == set \cup {t}
<1> SUFFICES Fits(f, new, step.to)
    OBVIOUS
<1>0. \A events : Has(new, events) <=> Has(set, events) \/ t.event \in events
    BY DEF Has
<1>1. CASE f \in {"round", "oracle", "attestation"}
    <2>1. DecidedBy(new, step.to)
        BY <1>1, DecidedStep DEF Fits
    <2>2. CASE f = "attestation"
        <3>1. s # "none" \/ t.event = "att_sub"
            BY <2>2, StatusStep
        <3>2. Has(new, {"att_sub"})
            BY <1>0, <2>2, <3>1 DEF Fits
        <3> HIDE DEF new
        <3> QED
            BY <2>1, <2>2, <3>2 DEF Fits
    <2> HIDE DEF new
    <2> QED
        BY <1>1, <2>1, <2>2 DEF Fits
<1>2. CASE f = "listing"
    <2>1. step \in ListingEvents
        BY <1>2 DEF Published
    <2> HIDE DEF new
    <2> QED
        BY <1>0, <1>2, <2>1 DEF Fits, ListingEvents, Step
<1>3. CASE f = "order"
    <2>1. step \in OrderEvents
        BY <1>3 DEF Published
    <2> HIDE DEF new
    <2> QED
        BY <1>0, <1>3, <2>1 DEF Fits, OrderEvents, Step
<1>5. CASE f \in {"mention", "owned"}
    <2>1. step \in MentionEvents
        BY <1>5 DEF Published
    <2>2. t.event = "named" /\ step.to = "Named"
        BY <2>1 DEF MentionEvents, Step
    <2> HIDE DEF new
    <2> QED
        BY <1>0, <1>5, <2>2 DEF Fits
<1>6. CASE f \in {"search", "statusSearch"}
    <2>1. step \in InvoiceEvents
        BY <1>6 DEF Published
    <2>2. t.event = step.to /\ step.to # "none" /\ t.event # "other"
        BY <2>1 DEF InvoiceEvents, Step
    <2>3. t \in Ours(new) /\ \A q \in Ours(new) : q.n <= t.n
        BY <2>2 DEF Ours, EventRow
    <2> HIDE DEF new
    <2> QED
        BY <1>6, <2>2, <2>3 DEF Fits
<1>7. f \in {"round", "oracle", "attestation", "listing", "order", "mention", "owned",
             "search", "statusSearch"}
    BY DEF Families, Published
<1> QED
    BY <1>1, <1>2, <1>3, <1>5, <1>6, <1>7

\* A row about another object changes nothing.
LEMMA OtherFits ==
    ASSUME NEW f, NEW set \in SUBSET EventRow, NEW s, Fits(f, set, s),
           NEW t \in EventRow, t.event = "other"
    PROVE  Fits(f, set \cup {t}, s)
<1> DEFINE new == set \cup {t}
<1>0. \A events : "other" \notin events => (Has(new, events) <=> Has(set, events))
    BY DEF Has
<1>1. Ours(new) = Ours(set)
    BY DEF Ours
<1>2. DecidedBy(set, s) => DecidedBy(new, s)
    BY DecidedOther
<1> HIDE DEF new
<1>4. f \in {"round", "oracle", "attestation"} => DecidedBy(new, s)
    BY <1>2 DEF Fits
<1>5. f = "attestation" /\ s # "none" => Has(new, {"att_sub"})
    BY <1>0 DEF Fits
<1>6. f = "listing" => Fits(f, new, s)
    BY <1>0 DEF Fits
<1>7. f = "order" => Fits(f, new, s)
    BY <1>0 DEF Fits
<1>9. f \in {"mention", "owned"} => Fits(f, new, s)
    BY <1>0 DEF Fits
<1>10. f \in {"search", "statusSearch"} => Fits(f, new, s)
    BY <1>1 DEF Fits
<1>11. f \in {"round", "oracle", "attestation"} => Fits(f, new, s)
    BY <1>4, <1>5 DEF Fits
<1>12. ~(f \in {"round", "oracle", "attestation", "listing", "order", "mention", "owned",
                 "search", "statusSearch"}) => Fits(f, new, s)
    BY DEF Fits
<1> QED
    BY <1>6, <1>7, <1>9, <1>10, <1>11, <1>12 DEF new

-----------------------------------------------------------------------------
(* What the handlers answer *)

\* In a whole history, where no two rows share a ledger, the last row in ledger order
\* is the newest.
LEMMA LastIsNewest ==
    ASSUME NEW set, InOrder(set), ~Tied(set), NEW part \in SUBSET set, NEW d \in part,
           \A q \in part : q.n <= d.n
    PROVE  LastInOrder(part) = {d}
<1>1. \A q \in part : q.ledger <= d.ledger
    BY DEF InOrder
<1>2. ASSUME NEW r \in part, d.ledger <= r.ledger
      PROVE  r = d
    <2>1. r.ledger = d.ledger
        BY <1>1, <1>2 DEF InOrder, EventRow
    <2>2. r.n = d.n
        BY <2>1 DEF Tied
    <2> QED
        BY <2>2 DEF InOrder
<1> QED
    BY <1>1, <1>2 DEF LastInOrder

LEMMA DecidedIsTold ==
    ASSUME NEW set, InOrder(set), ~Tied(set), NEW s, DecidedBy(set, s),
           NEW a \in LastDecides(set)
    PROVE  a = s \/ (a = "not found" /\ s = "none")
<1>1. CASE s = "none"
    BY <1>1 DEF DecidedBy, LastDecides
<1>2. CASE s # "none"
    <2>1. PICK d \in set : /\ StatusOf(d) = s
                           /\ \A q \in set : StatusOf(q) # "none" => q.n <= d.n
        BY <1>2 DEF DecidedBy
    <2> DEFINE deciding == {r \in Ours(set) : StatusOf(r) # "none"}
    <2>2. d \in Ours(set)
        BY <1>2, <2>1, OtherDecidesNothing DEF Ours, InOrder
    <2>3. d \in deciding /\ deciding \subseteq set
        BY <1>2, <2>1, <2>2 DEF Ours
    <2>4. \A q \in deciding : q.n <= d.n
        BY <2>1 DEF Ours
    <2>5. Ours(set) # {} /\ deciding # {}
        BY <2>2, <2>3
    <2>6. a \in {StatusOf(r) : r \in LastInOrder(deciding)}
        BY <2>5 DEF LastDecides
    <2> HIDE DEF deciding
    <2>7. LastInOrder(deciding) = {d}
        BY <2>3, <2>4, LastIsNewest
    <2> QED
        BY <2>1, <2>6, <2>7
<1> QED
    BY <1>1, <1>2

LEMMA AnswerFits ==
    ASSUME family \in Families, NEW set, InOrder(set), ~Tied(set), NEW s, Fits(family, set, s),
           NEW a \in Answers(set)
    PROVE  Tells(a, s)
<1>1. CASE family \in {"round", "oracle"}
    <2>1. a \in LastDecides(set) /\ DecidedBy(set, s)
        BY <1>1 DEF Answers, Fits
    <2>2. a = s \/ (a = "not found" /\ s = "none")
        BY <2>1, DecidedIsTold
    <2> QED
        BY <1>1, <2>2 DEF Tells
<1>2. CASE family = "attestation"
    <2>1. a \in AttestationStatus(set) /\ DecidedBy(set, s)
        BY <1>2 DEF Answers, Fits
    <2>2. CASE \E r \in set : r.event = "att_sub"
        <3>1. a \in LastDecides(set)
            BY <2>1, <2>2 DEF AttestationStatus
        <3>2. a = s \/ (a = "not found" /\ s = "none")
            BY <2>1, <3>1, DecidedIsTold
        <3> QED
            BY <1>2, <3>2 DEF Tells
    <2>3. CASE ~\E r \in set : r.event = "att_sub"
        <3>1. a = "not found"
            BY <2>1, <2>3 DEF AttestationStatus
        <3>2. s = "none"
            BY <1>2, <2>3 DEF Fits, Has
        <3> QED
            BY <1>2, <3>1, <3>2 DEF Tells
    <2> QED
        BY <2>2, <2>3
<1>3. CASE family = "listing"
    <2>1. a = IF Has(set, {"lst_open"}) /\ ~Has(set, {"lst_cncl", "lst_buy"})
              THEN "shown" ELSE "hidden"
        BY <1>3 DEF Answers, OpenListings, Shown, Has
    <2>2. Has(set, {"lst_open"}) /\ ~Has(set, {"lst_cncl", "lst_buy"}) <=> s = "Open"
        BY <1>3 DEF Fits
    <2> QED
        BY <1>3, <2>1, <2>2 DEF Tells
<1>4. CASE family = "order"
    <2>1. a = IF Has(set, {"ord_open", "ord_fill"}) /\ ~Has(set, {"ord_cncl", "ord_exp"})
              THEN "shown" ELSE "hidden"
        BY <1>4 DEF Answers, OpenOrders, Shown, Has
    <2> QED
        BY <1>4, <2>1 DEF Tells, Fits
<1>6. CASE family \in {"mention", "owned"}
    <2>1. a = IF Has(set, {"named"}) THEN "shown" ELSE "hidden"
        BY <1>6 DEF Answers, EverNamed, Shown, Has, Ours
    <2> QED
        BY <1>6, <2>1 DEF Tells, Fits
<1>7. CASE family = "search"
    <2>1. a = IF Ours(set) # {} THEN "shown" ELSE "hidden"
        BY <1>7 DEF Answers, SearchedInvoices, Shown
    <2>2. Ours(set) = {} <=> s = "none"
        BY <1>7 DEF Fits
    <2> QED
        BY <1>7, <2>1, <2>2 DEF Tells
<1>8. CASE family = "statusSearch"
    <2>1. a \in SearchedByStatus(set)
        BY <1>8 DEF Answers
    <2>2. CASE s = "none"
        <3>1. Ours(set) = {}
            BY <1>8, <2>2 DEF Fits
        <3> QED
            BY <1>8, <2>1, <2>2, <3>1 DEF SearchedByStatus, Tells, AskedStatus
    <2>3. CASE s # "none"
        <3>1. PICK d \in Ours(set) : d.event = s /\ \A q \in Ours(set) : q.n <= d.n
            BY <1>8, <2>3 DEF Fits
        <3>2. Ours(set) \subseteq set
            BY DEF Ours
        <3>3. LastInOrder(Ours(set)) = {d}
            BY <3>1, <3>2, LastIsNewest
        <3>4. a = IF d.event = AskedStatus \/ (\E q \in Ours(set) : q.yes) THEN "shown" ELSE "hidden"
            BY <2>1, <3>1, <3>3 DEF SearchedByStatus, Shown
        <3> QED
            BY <1>8, <2>3, <3>1, <3>4 DEF Tells
    <2> QED
        BY <2>2, <2>3
<1>9. family \in {"round", "oracle", "attestation", "listing", "order", "mention", "owned",
                  "search", "statusSearch"}
    BY DEF Families, Published
<1> QED
    BY <1>1, <1>2, <1>3, <1>4, <1>6, <1>7, <1>8, <1>9

\* A history of a known state gives an answer true of a state that was seen.
LEMMA KnownIsTold ==
    ASSUME family \in Families, NEW set, InOrder(set), ~Tied(set), NEW s \in Known,
           Fits(family, set, s), NEW a \in Answers(set)
    PROVE  \E t \in seenStates : Tells(a, t)
<1>1. Tells(a, s)
    BY AnswerFits
<1>2. CASE s \in seenStates
    BY <1>1, <1>2
<1>3. CASE s = "Active" /\ family = "attestation" /\ "Expired" \in seenStates
    <2>1. a = "Active"
        BY <1>1, <1>3 DEF Tells
    <2>2. Tells(a, "Expired")
        BY <1>3, <2>1 DEF Tells
    <2> QED
        BY <1>3, <2>2
<1> QED
    BY <1>2, <1>3 DEF Known

-----------------------------------------------------------------------------
(* The inductive invariant *)

\* The table: every row comes with the whole history of its state.
RowsInv ==
    /\ family \in Families /\ emitted \in Nat
    /\ expired \in BOOLEAN /\ (expired => family = "attestation")
    /\ InOrder(rows)
    /\ \A r \in rows : r.n <= emitted /\ r.ledger >= 1
    /\ \A r \in rows : Fits(family, Upto(rows, r), r.state)

\* What the handler has read so far: below its newest row it misses only rows that
\* the next pages begin with or follow; and the states since that row are known.
PagesInv ==
    /\ LastState \in Known
    /\ query.offset = 0 => query.got = {}
    /\ ~disturbed =>
         /\ ~Tied(rows) /\ query.got \subseteq rows
         /\ \A r \in query.got, q \in rows :
              q.ledger <= r.ledger /\ Cardinality(Above(rows, q)) < query.offset
              => q \in query.got
         /\ query.offset > 0 =>
              \E r \in query.got : \A q \in rows : q.ledger >= r.ledger => q.state \in Known

\* A finished reading is the whole history of a state the object was in.
HistoryInv ==
    (~disturbed /\ (Paged \/ query.offset < QueryLimit)) =>
        /\ InOrder(query.got) /\ ~Tied(query.got)
        /\ \E s \in Known : Fits(family, query.got, s)

QueryTyped ==
    query \in [at : {"idle", "reading", "refused", "read"}, offset : Nat, got : SUBSET EventRow]

ReadInv ==
    /\ RowsInv
    /\ disturbed \in BOOLEAN
    /\ QueryTyped
    /\ query.at = "reading" => PagesInv
    /\ query.at = "read" => HistoryInv
    /\ AnswerWasTrue

-----------------------------------------------------------------------------
(* Rows in order *)

LEMMA PartInOrder ==
    ASSUME NEW set, InOrder(set), NEW part \in SUBSET set
    PROVE  InOrder(part) /\ (~Tied(set) => ~Tied(part))
<1>1. IsFiniteSet(part)
    BY FS_Subset DEF InOrder
<1> QED
    BY <1>1 DEF InOrder, Tied

\* A history that is not empty has a newest row.
LEMMA HasNewest ==
    ASSUME NEW set \in SUBSET EventRow, set # {}, NEW m \in Nat, \A r \in set : r.n <= m
    PROVE  \E r \in set : \A q \in set : q.n <= r.n
<1> DEFINE S == {r.n : r \in set}
<1>1. S \in SUBSET Nat /\ S # {} /\ \A x \in S : x <= m
    BY DEF EventRow
<1>2. Max(S) \in S /\ \A y \in S : y <= Max(S)
    BY <1>1, MaxOfBounded
<1> QED
    BY <1>2

LEMMA NewestIs ==
    ASSUME RowsInv, rows # {}
    PROVE  /\ Newest(rows) \in rows /\ \A q \in rows : q.n <= Newest(rows).n
           /\ LastState = Newest(rows).state
           /\ Upto(rows, Newest(rows)) = rows
<1>1. \E r \in rows : \A q \in rows : q.n <= r.n
    BY HasNewest DEF RowsInv, InOrder
<1>2. Newest(rows) \in rows /\ \A q \in rows : q.n <= Newest(rows).n
    BY <1>1 DEF Newest
<1> QED
    BY <1>2 DEF LastState, Upto

\* The table as a whole is the history of the present state.
LEMMA TableFits ==
    ASSUME RowsInv
    PROVE  Fits(family, rows, LastState)
<1>1. CASE rows = {}
    BY <1>1, NothingFits DEF LastState
<1>2. CASE rows # {}
    BY <1>2, NewestIs DEF RowsInv
<1> QED
    BY <1>1, <1>2

\* The ledger of a new row, at least that of every row before.
NewLedger(newLedger) ==
    LET top == IF rows = {} THEN 0 ELSE Max({r.ledger : r \in rows})
    IN  IF newLedger \/ top = 0 THEN top + 1 ELSE top

LEMMA NewLedgerOnTop ==
    ASSUME RowsInv, NEW newLedger \in BOOLEAN
    PROVE  /\ NewLedger(newLedger) \in Nat /\ NewLedger(newLedger) >= 1
           /\ \A q \in rows : q.ledger <= NewLedger(newLedger)
<1>1. CASE rows = {}
    BY <1>1 DEF NewLedger
<1>2. CASE rows # {}
    <2> DEFINE S == {r.ledger : r \in rows}
    <2>1. Newest(rows) \in rows /\ \A q \in rows : q.n <= Newest(rows).n
        BY <1>2, NewestIs
    <2>2. S \in SUBSET Nat /\ S # {}
        BY <1>2 DEF RowsInv, InOrder, EventRow
    <2>3. Newest(rows).ledger \in Nat /\ \A x \in S : x <= Newest(rows).ledger
        BY <2>1 DEF RowsInv, InOrder, EventRow
    <2>4. Max(S) \in S /\ \A y \in S : y <= Max(S)
        BY <2>2, <2>3, MaxOfBounded
    <2>5. NewLedger(newLedger) = IF newLedger \/ Max(S) = 0 THEN Max(S) + 1 ELSE Max(S)
        BY <1>2 DEF NewLedger
    <2>6. \A q \in rows : q.ledger <= Max(S)
        BY <2>4
    <2>7. Max(S) \in Nat
        BY <2>2, <2>4
    <2> HIDE DEF S
    <2>8. NewLedger(newLedger) \in {Max(S), Max(S) + 1} /\ NewLedger(newLedger) >= 1
        BY <2>5, <2>7
    <2> QED
        BY <2>6, <2>7, <2>8 DEF RowsInv, InOrder, EventRow
<1> QED
    BY <1>1, <1>2

\* A new row goes on top of the others, and the state is the one it comes with.
LEMMA RowOnTop ==
    ASSUME RowsInv, NEW t \in EventRow, t.n = emitted + 1, t.ledger >= 1,
           \A q \in rows : q.ledger <= t.ledger, Fits(family, rows \cup {t}, t.state),
           rows' = rows \cup {t}, emitted' = emitted + 1, family' = family,
           expired' \in BOOLEAN, expired' => expired
    PROVE  /\ RowsInv'
           /\ LastState' = t.state
<1>1. \A q \in rows : q.n < t.n
    BY DEF RowsInv, InOrder, EventRow
<1>2. InOrder(rows')
    <2>1. IsFiniteSet(rows')
        BY FS_AddElement DEF RowsInv, InOrder
    <2>2. rows' \subseteq EventRow
        BY DEF RowsInv, InOrder
    <2>3. ASSUME NEW r \in rows', NEW q \in rows'
          PROVE  (r.n <= q.n => r.ledger <= q.ledger) /\ (r.n = q.n => r = q)
        BY <1>1 DEF RowsInv, InOrder, EventRow
    <2> QED
        BY <2>1, <2>2, <2>3 DEF InOrder
<1>3. \A r \in rows : Upto(rows', r) = Upto(rows, r)
    BY <1>1 DEF Upto, RowsInv, InOrder, EventRow
<1>4. Upto(rows', t) = rows'
    BY <1>1 DEF Upto, RowsInv, InOrder, EventRow
<1>5. \A r \in rows' : Fits(family, Upto(rows', r), r.state)
    BY <1>3, <1>4 DEF RowsInv
<1>6. \A r \in rows' : r.n <= emitted' /\ r.ledger >= 1
    BY DEF RowsInv, InOrder, EventRow
<1>7. RowsInv'
    <2>1. (/\ family \in Families /\ emitted \in Nat
           /\ expired \in BOOLEAN /\ (expired => family = "attestation"))'
        BY DEF RowsInv, Families
    <2>2. InOrder(rows)'
        BY <1>2
    <2>3. (\A r \in rows : r.n <= emitted /\ r.ledger >= 1)'
        BY <1>6
    <2>4. (\A r \in rows : Fits(family, Upto(rows, r), r.state))'
        BY <1>5
    <2> QED
        BY <2>1, <2>2, <2>3, <2>4 DEF RowsInv
<1>8. Newest(rows') = t
    <2>1. \A q \in rows' : q.n <= t.n
        BY <1>1 DEF EventRow, RowsInv, InOrder
    <2>2. Newest(rows') \in rows' /\ \A q \in rows' : q.n <= Newest(rows').n
        BY <2>1 DEF Newest
    <2> DEFINE top == Newest(rows')
    <2>3. top \in EventRow /\ t \in rows'
        BY <2>2, <1>2 DEF InOrder
    <2>4. top.n <= t.n /\ t.n <= top.n
        BY <2>1, <2>2, <2>3
    <2> HIDE DEF top
    <2>5. top.n = t.n
        BY <2>3, <2>4 DEF EventRow
    <2>6. top \in rows'
        BY <2>2 DEF top
    <2> QED
        BY <1>2, <2>3, <2>5, <2>6 DEF InOrder, top
<1> QED
    BY <1>7, <1>8 DEF LastState

LEMMA StateTyped ==
    ASSUME RowsInv
    PROVE  LastState \in States
<1>1. CASE rows = {}
    BY <1>1 DEF LastState, States
<1>2. CASE rows # {}
    BY <1>2, NewestIs DEF RowsInv, InOrder, EventRow
<1> QED
    BY <1>1, <1>2

\* The events of an object are published in the state its last event left it in.
LEMMA FromLastState ==
    ASSUME RowsInv, NEW step \in Published[family], step.from = State
    PROVE  step.from = LastState
<1>1. CASE family = "attestation"
    <2>1. step \in AttestationEvents
        BY <1>1 DEF Published
    <2>2. step.from # "Expired"
        BY <2>1 DEF AttestationEvents, Step
    <2> QED
        BY <2>2 DEF State
<1>2. CASE family # "attestation"
    BY <1>2 DEF RowsInv, State
<1> QED
    BY <1>1, <1>2

LEMMA StoreRowTop ==
    ASSUME RowsInv, NEW newLedger \in BOOLEAN,
           NEW step \in Published[family] \cup {OtherRow}, StoreRow(step, newLedger)
    PROVE  \E t \in EventRow :
              /\ t.n = emitted + 1
              /\ \A q \in rows : q.ledger <= t.ledger
              /\ rows' = rows \cup {t}
              /\ RowsInv' /\ LastState' = t.state
<1> DEFINE t == [n |-> emitted + 1, event |-> step.event, yes |-> step.yes,
                 state |-> step.to, ledger |-> NewLedger(newLedger)]
<1>0. rows' = rows \cup {t} /\ emitted' = emitted + 1 /\ family' = family /\ step.from = State
      /\ expired' = (expired /\ step.event # "att_sub")
    BY DEF StoreRow, NewLedger
<1>1. step.event \in EventNames /\ step.yes \in Verdicts /\ step.to \in States
    <2>1. CASE step \in Published[family]
        BY <2>1 DEF RowsInv, PublishedSteps, EventNames, Verdicts, States
    <2>2. CASE step = OtherRow
        BY <2>2, StateTyped DEF OtherRow, EventNames, Verdicts
    <2> QED
        BY <2>1, <2>2
<1>2. /\ NewLedger(newLedger) \in Nat /\ NewLedger(newLedger) >= 1
      /\ \A q \in rows : q.ledger <= NewLedger(newLedger)
    BY NewLedgerOnTop
<1>3. /\ t \in EventRow /\ t.n = emitted + 1 /\ t.event = step.event /\ t.yes = step.yes
      /\ t.state = step.to /\ t.ledger = NewLedger(newLedger)
    BY <1>1, <1>2 DEF EventRow, RowsInv
<1> HIDE DEF t
<1>4. rows \in SUBSET EventRow /\ \A q \in rows : q.n < t.n
    BY <1>3 DEF RowsInv, InOrder, EventRow
<1>5. Fits(family, rows, LastState)
    BY TableFits
<1>6. Fits(family, rows \cup {t}, t.state)
    <2>1. CASE step \in Published[family]
        <3>1. step.from = LastState
            BY <1>0, <2>1, FromLastState
        <3> QED
            BY <1>3, <1>4, <1>5, <2>1, <3>1, StepFits DEF RowsInv
    <2>2. CASE step = OtherRow
        <3>1. t.event = "other" /\ t.state = LastState
            BY <1>3, <2>2 DEF OtherRow
        <3> QED
            BY <1>3, <1>4, <1>5, <3>1, OtherFits
    <2> QED
        BY <2>1, <2>2
<1>7. RowsInv' /\ LastState' = t.state
    <2>1. t.ledger >= 1 /\ \A q \in rows : q.ledger <= t.ledger
        BY <1>2, <1>3
    <2>2. expired' \in BOOLEAN /\ (expired' => expired)
        BY <1>0 DEF RowsInv
    <2> QED
        BY <1>0, <1>3, <1>6, <2>1, <2>2, RowOnTop
<1> QED
    BY <1>0, <1>2, <1>3, <1>7

\* A rollback leaves the history up to some event.
LEMMA RollBackRows ==
    ASSUME RowsInv, NEW ledger \in Nat, RollBack(ledger)
    PROVE  RowsInv'
<1>1. rows' = {r \in rows : r.ledger < ledger} /\ UNCHANGED <<family, emitted, expired>>
    BY DEF RollBack
<1>2. rows' \in SUBSET rows
    BY <1>1
<1>3. InOrder(rows)'
    BY <1>2, PartInOrder DEF RowsInv
<1>4. ASSUME NEW r \in rows'
      PROVE  Upto(rows', r) = Upto(rows, r)
    <2>1. \A q \in rows : q.n <= r.n => q.ledger < ledger
        BY <1>1, <1>2 DEF RowsInv, InOrder, EventRow
    <2> QED
        BY <1>1, <2>1 DEF Upto
<1>5. (\A r \in rows : Fits(family, Upto(rows, r), r.state))'
    BY <1>1, <1>2, <1>4 DEF RowsInv
<1>6. (\A r \in rows : r.n <= emitted /\ r.ledger >= 1)'
    BY <1>1, <1>2 DEF RowsInv
<1>7. (/\ family \in Families /\ emitted \in Nat
       /\ expired \in BOOLEAN /\ (expired => family = "attestation"))'
    BY <1>1 DEF RowsInv, Families
<1> QED
    BY <1>3, <1>5, <1>6, <1>7 DEF RowsInv

-----------------------------------------------------------------------------
(* Pages *)

\* The newest rows, as many as a leading set has, are those of the set.
LEMMA LeadingRows ==
    ASSUME RowsInv, ~Tied(rows), NEW top \in SUBSET rows, Leading(top), NEW q \in rows, q \notin top
    PROVE  top \subseteq Above(rows, q) /\ Cardinality(top) <= Cardinality(Above(rows, q))
<1>1. top \subseteq Above(rows, q)
    <2> SUFFICES ASSUME NEW r \in top
                 PROVE  r.ledger > q.ledger
        BY DEF Above
    <2>1. q.ledger <= r.ledger
        BY DEF Leading
    <2>2. r.ledger # q.ledger
        BY DEF Tied, RowsInv, InOrder
    <2> QED
        BY <2>1, <2>2 DEF RowsInv, InOrder, EventRow
<1>2. IsFiniteSet(Above(rows, q))
    BY FS_Subset DEF Above, RowsInv, InOrder
<1> QED
    BY <1>1, <1>2, FS_Subset

LEMMA PageIs ==
    ASSUME RowsInv, NEW limit \in Nat, NEW offset \in Nat, NEW page \in Pages(limit, offset)
    PROVE  /\ page \subseteq rows /\ IsFiniteSet(page) /\ Cardinality(page) \in Nat
           /\ Cardinality(page) = limit \/ offset + Cardinality(page) >= Cardinality(rows)
           /\ \/ page = {} /\ offset >= Cardinality(rows) /\ Cardinality(page) = 0
              \/ \E before \in SUBSET rows :
                    /\ Leading(before) /\ Cardinality(before) = offset
                    /\ page \cap before = {} /\ Leading(before \cup page)
                    /\ Cardinality(before \cup page) = offset + Cardinality(page)
<1>0. IsFiniteSet(rows) /\ Cardinality(rows) \in Nat
    BY FS_CardinalityType DEF RowsInv, InOrder
<1>1. CASE offset >= Cardinality(rows)
    <2>1. page = {}
        BY <1>1 DEF Pages
    <2>2. IsFiniteSet(page) /\ Cardinality(page) = 0
        BY <2>1, FS_EmptySet
    <2> QED
        BY <1>0, <1>1, <2>1, <2>2
<1>2. CASE ~(offset >= Cardinality(rows))
    <2> DEFINE size == Min({limit, Cardinality(rows) - offset})
    <2>1. size = IF limit <= Cardinality(rows) - offset THEN limit ELSE Cardinality(rows) - offset
        BY <1>0, <1>2, MinOfTwo
    <2>2. PICK before \in {b \in kSubset(offset, rows) : Leading(b)} :
            page \in {p \in kSubset(size, rows \ before) : Leading(before \cup p)}
        BY <1>2, Zenon DEF Pages
    <2> HIDE DEF size
    <2>3. /\ before \in SUBSET rows /\ Cardinality(before) = offset /\ Leading(before)
          /\ page \in SUBSET (rows \ before) /\ Cardinality(page) = size
          /\ Leading(before \cup page)
        BY <2>2 DEF kSubset
    <2>4. IsFiniteSet(before) /\ IsFiniteSet(page)
        BY <1>0, <2>3, FS_Subset
    <2>5. Cardinality(page) \in Nat
        BY <2>4, FS_CardinalityType
    <2>6. page \cap before = {}
        BY <2>3
    <2>7. Cardinality(before \cup page) = offset + Cardinality(page)
        <3>1. Cardinality(before \cup page)
                = Cardinality(before) + Cardinality(page) - Cardinality(before \cap page)
            BY <2>4, FS_Union
        <3>2. Cardinality(before \cap page) = 0
            BY <2>6, FS_EmptySet
        <3> QED
            BY <2>3, <2>5, <3>1, <3>2
    <2>8. Cardinality(page) = limit \/ offset + Cardinality(page) >= Cardinality(rows)
        BY <1>0, <1>2, <2>1, <2>3
    <2> QED
        BY <2>3, <2>4, <2>5, <2>6, <2>7, <2>8
<1> QED
    BY <1>1, <1>2

\* Rows that reach down to the oldest are the whole history of their newest row.
LEMMA WholeHistory ==
    ASSUME RowsInv, ~Tied(rows), NEW set \in SUBSET rows, NEW states,
           \A r \in set, q \in rows : q.ledger <= r.ledger => q \in set,
           NEW z \in set, \A q \in rows : q.ledger >= z.ledger => q.state \in states
    PROVE  /\ InOrder(set) /\ ~Tied(set)
           /\ \E s \in states : Fits(family, set, s)
<1>1. InOrder(set) /\ ~Tied(set)
    BY PartInOrder DEF RowsInv
<1>2. PICK m \in set : \A q \in set : q.n <= m.n
    BY HasNewest DEF RowsInv, InOrder
<1>3. set = Upto(rows, m)
    <2>1. ASSUME NEW q \in rows, q.n <= m.n
          PROVE  q \in set
        BY <2>1 DEF RowsInv, InOrder
    <2> QED
        BY <1>2, <2>1 DEF Upto
<1>4. m.state \in states
    <2>1. z.ledger <= m.ledger
        BY <1>2 DEF RowsInv, InOrder
    <2> QED
        BY <2>1 DEF RowsInv, InOrder, EventRow
<1>5. Fits(family, set, m.state)
    BY <1>3 DEF RowsInv
<1> QED
    BY <1>1, <1>4, <1>5

\* The rows a page adds leave no gap below the newest row read.
LEMMA PageCovers ==
    ASSUME RowsInv, PagesInv, ~disturbed, query.offset \in Nat, NEW limit \in Nat,
           NEW page \in Pages(limit, query.offset),
           NEW r \in query.got \cup page, NEW q \in rows, q.ledger <= r.ledger,
           Cardinality(Above(rows, q)) < query.offset + Cardinality(page)
    PROVE  q \in query.got \cup page
<1> DEFINE offset == query.offset
           got == query.got
<1>0. offset \in Nat /\ page \subseteq rows /\ Cardinality(page) \in Nat /\ ~Tied(rows) /\ got \subseteq rows
    BY PageIs DEF PagesInv
<1>1. Cardinality(Above(rows, q)) \in Nat
    BY FS_Subset, FS_CardinalityType DEF Above, RowsInv, InOrder
<1>2. CASE page = {} /\ Cardinality(page) = 0
    <2>1. r \in got /\ Cardinality(Above(rows, q)) < offset
        BY <1>0, <1>1, <1>2
    <2> QED
        BY <2>1 DEF PagesInv
<1>3. ASSUME NEW before \in SUBSET rows, Leading(before), Cardinality(before) = offset,
             page \cap before = {}, Leading(before \cup page),
             Cardinality(before \cup page) = offset + Cardinality(page)
      PROVE  q \in got \cup page
    <2>1. q \in before \cup page
        <3> SUFFICES ASSUME q \notin before \cup page
                     PROVE  FALSE
            OBVIOUS
        <3>1. offset + Cardinality(page) <= Cardinality(Above(rows, q))
            BY <1>0, <1>3, LeadingRows
        <3> QED
            BY <1>0, <1>1, <3>1
    <2>2. CASE Cardinality(Above(rows, q)) < offset
        <3>1. CASE r \in got
            BY <2>2, <3>1 DEF PagesInv
        <3>2. CASE r \in page
            <4>1. r \in rows /\ r \notin before
                BY <1>0, <1>3, <3>2
            <4>2. offset <= Cardinality(Above(rows, r))
                BY <1>0, <1>3, <4>1, LeadingRows
            <4>3. Above(rows, r) \subseteq Above(rows, q)
                BY <4>1 DEF Above, RowsInv, InOrder, EventRow
            <4>4. IsFiniteSet(Above(rows, q))
                BY FS_Subset DEF Above, RowsInv, InOrder
            <4>5. /\ Cardinality(Above(rows, r)) <= Cardinality(Above(rows, q))
                  /\ Cardinality(Above(rows, r)) \in Nat
                BY <4>3, <4>4, FS_Subset, FS_CardinalityType
            <4> QED
                BY <1>0, <1>1, <2>2, <4>2, <4>5
        <3> QED
            BY <3>1, <3>2
    <2>3. CASE ~(Cardinality(Above(rows, q)) < offset)
        <3>1. q \notin before
            <4> SUFFICES ASSUME q \in before
                         PROVE  FALSE
                OBVIOUS
            <4>1. Above(rows, q) \subseteq before \ {q}
                BY <1>0, <1>3, LeadingRows DEF Above, Leading, RowsInv, InOrder, EventRow
            <4>2. IsFiniteSet(before) /\ Cardinality(before \ {q}) = offset - 1
                BY <1>3, FS_Subset, FS_RemoveElement DEF RowsInv, InOrder
            <4>3. Cardinality(Above(rows, q)) <= offset - 1
                BY <4>1, <4>2, FS_Subset, FS_RemoveElement
            <4> QED
                BY <1>0, <1>1, <2>3, <4>3
        <3> QED
            BY <2>1, <3>1
    <2> QED
        BY <2>2, <2>3
<1> QED
    BY <1>0, <1>2, <1>3, PageIs

\* The first page holds the newest row there is.
LEMMA FirstPageStarts ==
    ASSUME RowsInv, ~Tied(rows), LastState \in Known, NEW limit \in Nat,
           NEW page \in Pages(limit, 0), page # {}
    PROVE  \E r \in page : \A q \in rows : q.ledger >= r.ledger => q.state \in Known
<1>1. page \subseteq rows /\ rows # {}
    BY PageIs
<1>2. Leading(page)
    <2>1. PICK before \in SUBSET rows : Leading(before \cup page) /\ Cardinality(before) = 0
        BY PageIs
    <2>2. before = {}
        BY <2>1, FS_Subset, FS_EmptySet DEF RowsInv, InOrder
    <2> QED
        BY <2>1, <2>2
<1> DEFINE z == Newest(rows)
<1>3. z \in rows /\ z.state = LastState /\ \A q \in rows : q.n <= z.n
    BY <1>1, NewestIs
<1> HIDE DEF z
<1>4. \A q \in rows : q.ledger <= z.ledger
    BY <1>3 DEF RowsInv, InOrder
<1>5. \A q \in rows : q.ledger >= z.ledger => q = z
    <2> SUFFICES ASSUME NEW q \in rows, q.ledger >= z.ledger
                 PROVE  q = z
        OBVIOUS
    <2>1. q.ledger = z.ledger
        BY <1>3, <1>4 DEF RowsInv, InOrder, EventRow
    <2>2. q.n = z.n
        BY <1>3, <2>1 DEF Tied
    <2> QED
        BY <1>3, <2>2 DEF RowsInv, InOrder
<1>6. z \in page
    <2> SUFFICES ASSUME z \notin page
                 PROVE  FALSE
        OBVIOUS
    <2>1. PICK r \in page : TRUE
        OBVIOUS
    <2>2. z.ledger <= r.ledger /\ r \in rows
        BY <1>1, <1>2, <1>3 DEF Leading
    <2>3. r = z
        BY <1>3, <1>5, <2>2 DEF RowsInv, InOrder, EventRow
    <2> QED
        BY <2>3
<1> QED
    BY <1>3, <1>5, <1>6

-----------------------------------------------------------------------------
(* Every step keeps the invariant *)

LEMMA ReadInitInv == ReadInit => ReadInv
<1> SUFFICES ASSUME ReadInit
             PROVE  ReadInv
    OBVIOUS
<1> USE DEF ReadInit
<1>1. RowsInv
    BY FS_EmptySet DEF RowsInv, InOrder
<1>2. QueryTyped
    BY DEF NoQuery, QueryTyped
<1>3. query.at = "idle"
    BY DEF NoQuery
<1> QED
    BY <1>1, <1>2, <1>3 DEF ReadInv, AnswerWasTrue, QueryTyped

\* What has been read, or answered, stays true while the states seen only grow.
LEMMA FinishedStays ==
    ASSUME ReadInv, UNCHANGED <<family, query, answer>>, seenStates \subseteq seenStates',
           disturbed => disturbed', disturbed' \in BOOLEAN
    PROVE  /\ (query.at = "read" => HistoryInv)'
           /\ AnswerWasTrue'
           /\ QueryTyped'
<1>0. Known \subseteq Known'
    BY DEF Known
<1>1. (query.at = "read" => HistoryInv)'
    <2>1. ASSUME query.at = "read", ~disturbed', Paged \/ query.offset < QueryLimit
          PROVE  /\ InOrder(query.got) /\ ~Tied(query.got)
                 /\ \E s \in Known' : Fits(family, query.got, s)
        BY <1>0, <2>1 DEF ReadInv, HistoryInv, QueryTyped
    <2> QED
        BY <2>1 DEF HistoryInv, Paged
<1>2. AnswerWasTrue'
    BY DEF ReadInv, AnswerWasTrue, Paged, Tells, QueryTyped
<1>3. QueryTyped'
    BY DEF ReadInv, QueryTyped
<1> QED
    BY <1>1, <1>2, <1>3

LEMMA StoreRowInv ==
    ASSUME ReadInv, NEW newLedger \in BOOLEAN,
           NEW step \in Published[family] \cup {OtherRow}, StoreRow(step, newLedger)
    PROVE  ReadInv'
<1>0. /\ UNCHANGED <<family, query, answer>> /\ disturbed' = (disturbed \/ Tied(rows'))
      /\ seenStates' = IF query.at = "idle" THEN seenStates ELSE seenStates \cup {State'}
    BY DEF StoreRow, WithState
<1>1. PICK t \in EventRow :
              /\ t.n = emitted + 1
              /\ \A q \in rows : q.ledger <= t.ledger
              /\ rows' = rows \cup {t}
              /\ RowsInv' /\ LastState' = t.state
    BY StoreRowTop DEF ReadInv, QueryTyped
<1>2. disturbed' \in BOOLEAN /\ (disturbed => disturbed') /\ seenStates \subseteq seenStates'
    BY <1>0 DEF Tied
<1>3. /\ (query.at = "read" => HistoryInv)' /\ AnswerWasTrue' /\ QueryTyped'
    BY <1>0, <1>2, FinishedStays
<1>4. ASSUME query.at = "reading"
      PROVE  PagesInv'
    <2>0. State' \in seenStates'
        BY <1>0, <1>4
    <2>1. LastState' \in Known' /\ t.state \in Known' /\ PagesInv /\ Known \subseteq Known'
        <3>1. (LastState \in Known)'
            BY <1>1, <2>0 DEF RowsInv, State, Known
        <3>2. PagesInv
            BY <1>4 DEF ReadInv, QueryTyped
        <3>3. Known \subseteq Known'
            BY <1>0, <1>2 DEF Known
        <3> QED
            BY <1>1, <3>1, <3>2, <3>3
    <2>2. query.offset \in Nat /\ RowsInv
        BY DEF ReadInv, QueryTyped
    <2>3. ASSUME ~disturbed'
          PROVE  /\ ~Tied(rows') /\ query.got \subseteq rows'
                 /\ \A r \in query.got, q \in rows' :
                      q.ledger <= r.ledger /\ Cardinality(Above(rows', q)) < query.offset
                      => q \in query.got
                 /\ query.offset > 0 => \E r \in query.got : \A q \in rows' :
                                           q.ledger >= r.ledger => q.state \in Known'
        <3>1. ~disturbed /\ ~Tied(rows')
            BY <1>0, <2>3 DEF ReadInv, QueryTyped
        <3>2. query.got \subseteq rows /\ query.got \subseteq rows'
            BY <1>1, <2>1, <3>1 DEF PagesInv
        <3>3. \A r \in rows : r.ledger < t.ledger
            <4> SUFFICES ASSUME NEW r \in rows
                         PROVE  r.ledger < t.ledger
                OBVIOUS
            <4>1. r.n # t.n
                BY <1>1, <2>2 DEF RowsInv, InOrder, EventRow
            <4>2. r.ledger # t.ledger
                BY <1>1, <3>1, <4>1 DEF Tied
            <4> QED
                BY <1>1, <2>2, <4>2 DEF RowsInv, InOrder, EventRow
        <3>4. ASSUME NEW r \in query.got, NEW q \in rows', q.ledger <= r.ledger,
                     Cardinality(Above(rows', q)) < query.offset
              PROVE  q \in query.got
            <4>1. q \in rows
                BY <1>1, <2>2, <3>2, <3>3, <3>4 DEF RowsInv, InOrder, EventRow
            <4>2. Above(rows, q) \subseteq Above(rows', q)
                BY <1>1 DEF Above
            <4>3. IsFiniteSet(Above(rows', q))
                BY <1>1, FS_Subset DEF Above, RowsInv, InOrder
            <4>4. /\ Cardinality(Above(rows, q)) <= Cardinality(Above(rows', q))
                  /\ Cardinality(Above(rows', q)) \in Nat
                  /\ Cardinality(Above(rows, q)) \in Nat
                BY <4>2, <4>3, FS_Subset, FS_CardinalityType
            <4>5. Cardinality(Above(rows, q)) < query.offset
                BY <2>2, <3>4, <4>4
            <4> QED
                BY <2>1, <3>1, <3>4, <4>1, <4>5 DEF PagesInv
        <3>5. query.offset > 0 => \E r \in query.got : \A q \in rows' :
                                    q.ledger >= r.ledger => q.state \in Known'
            BY <1>1, <2>1, <3>1 DEF PagesInv
        <3> QED
            BY <3>1, <3>2, <3>4, <3>5
    <2> QED
        BY <1>0, <2>1, <2>3 DEF PagesInv
<1> QED
    BY <1>0, <1>1, <1>2, <1>3, <1>4 DEF ReadInv, QueryTyped

LEMMA RollBackInv ==
    ASSUME ReadInv, NEW ledger \in Nat, RollBack(ledger)
    PROVE  ReadInv'
<1>0. /\ UNCHANGED <<family, query, answer>>
      /\ disturbed' = (disturbed \/ (query.at = "reading" /\ query.offset > 0))
      /\ seenStates' = IF query.at = "idle" THEN seenStates ELSE seenStates \cup {State'}
      /\ rows' \subseteq rows
    BY DEF RollBack, WithState
<1>1. RowsInv'
    BY RollBackRows DEF ReadInv, QueryTyped
<1>2. disturbed' \in BOOLEAN /\ (disturbed => disturbed') /\ seenStates \subseteq seenStates'
    BY <1>0
<1>3. /\ (query.at = "read" => HistoryInv)' /\ AnswerWasTrue' /\ QueryTyped'
    BY <1>0, <1>2, FinishedStays
<1>4. ASSUME query.at = "reading"
      PROVE  PagesInv'
    <2>0. State' \in seenStates'
        BY <1>0, <1>4
    <2>1. LastState' \in Known' /\ PagesInv /\ query.offset \in Nat
        <3>1. (LastState \in Known)'
            BY <1>1, <2>0 DEF RowsInv, State, Known
        <3> QED
            BY <1>4, <3>1 DEF ReadInv, QueryTyped
    <2>2. ASSUME ~disturbed'
          PROVE  ~Tied(rows') /\ query.offset = 0 /\ query.got = {}
        <3>0. ~disturbed /\ ~(query.offset > 0)
            BY <1>0, <1>4, <2>2, Zenon
        <3>1. ~disturbed /\ query.offset = 0
            BY <2>1, <3>0
        <3>2. query.got = {} /\ ~Tied(rows)
            BY <2>1, <3>1 DEF PagesInv
        <3> QED
            BY <1>0, <3>1, <3>2 DEF Tied
    <2> QED
        BY <1>0, <2>1, <2>2 DEF PagesInv
<1> QED
    BY <1>0, <1>1, <1>2, <1>3, <1>4 DEF ReadInv, QueryTyped

\* An expiry is seen by the reader that is at work.
LEMMA ExpireInv ==
    ASSUME ReadInv, Expire
    PROVE  ReadInv'
<1>0. /\ UNCHANGED <<family, rows, emitted, query, answer, disturbed>>
      /\ expired' = TRUE /\ family = "attestation"
      /\ seenStates' = IF query.at = "idle" THEN seenStates ELSE seenStates \cup {State'}
    BY DEF Expire, WithState
<1>1. RowsInv' /\ disturbed' \in BOOLEAN
    BY <1>0 DEF ReadInv, RowsInv, InOrder, Upto, QueryTyped
<1>2. seenStates \subseteq seenStates' /\ Known \subseteq Known' /\ LastState' = LastState
    <2>1. seenStates \subseteq seenStates'
        BY <1>0
    <2> QED
        BY <1>0, <2>1 DEF Known, LastState, Newest
<1>3. /\ (query.at = "read" => HistoryInv)' /\ AnswerWasTrue' /\ QueryTyped'
    BY <1>0, <1>1, <1>2, FinishedStays DEF ReadInv, QueryTyped
<1>4. (query.at = "reading" => PagesInv)'
    <2> SUFFICES ASSUME query.at = "reading", PagesInv
                 PROVE  PagesInv'
        BY <1>0 DEF ReadInv, QueryTyped
    <2>1. Tied(rows)' = Tied(rows) /\ \A q \in rows : Above(rows', q) = Above(rows, q)
        BY <1>0
    <2> QED
        BY <1>0, <1>2, <2>1 DEF PagesInv
<1> QED
    BY <1>1, <1>3, <1>4 DEF ReadInv, QueryTyped

LEMMA StartQueryInv ==
    ASSUME ReadInv, StartQuery
    PROVE  ReadInv'
<1>0. /\ query' = [at |-> "reading", offset |-> 0, got |-> {}]
      /\ seenStates' = {State} /\ disturbed' = Tied(rows) /\ answer' = "none"
      /\ UNCHANGED <<family, rows, emitted, expired>>
    BY DEF StartQuery
<1>1. RowsInv'
    BY <1>0 DEF ReadInv, RowsInv, InOrder, Upto, QueryTyped
<1>2. QueryTyped' /\ query'.at = "reading"
    BY <1>0 DEF QueryTyped
<1>3. PagesInv'
    <2>1. LastState' = LastState /\ State' = State
        BY <1>0 DEF LastState, State, Newest
    <2>2. (LastState \in Known)'
        BY <1>0, <1>1, <2>1 DEF RowsInv, State, Known
    <2> QED
        BY <1>0, <2>2 DEF PagesInv, Tied
<1>4. disturbed' \in BOOLEAN
    BY <1>0 DEF Tied
<1> QED
    BY <1>1, <1>2, <1>3, <1>4 DEF ReadInv, QueryTyped, AnswerWasTrue

LEMMA NextPageInv ==
    ASSUME ReadInv, NEW page, NextPage(page)
    PROVE  ReadInv'
<1> DEFINE got == query.got \cup page
           offset == query.offset + Cardinality(page)
<1>0. /\ query.at = "reading" /\ Paged /\ page \in Pages(ReplayPage, query.offset)
      /\ query' = [at |-> IF offset > MaxReplay THEN "refused"
                          ELSE IF Cardinality(page) < ReplayPage THEN "read" ELSE "reading",
                   offset |-> offset, got |-> got]
      /\ UNCHANGED <<family, rows, emitted, expired, answer, seenStates, disturbed>>
    BY DEF NextPage
<1>1. RowsInv /\ PagesInv /\ query.offset \in Nat /\ query.got \in SUBSET EventRow
    BY <1>0 DEF ReadInv, QueryTyped
<1>2. /\ page \subseteq rows /\ Cardinality(page) \in Nat /\ ReplayPage \in Nat \ {0}
      /\ Cardinality(page) = 0 <=> page = {}
    <2>1. page \subseteq rows /\ IsFiniteSet(page) /\ Cardinality(page) \in Nat
        BY <1>0, <1>1, ReadAssumption, PageIs
    <2> QED
        BY <2>1, ReadAssumption, FS_EmptySet
<1>3. QueryTyped' /\ query'.offset = offset /\ query'.got = got
      /\ query'.at \in {"refused", "read", "reading"}
      /\ (query'.at = "read" => Cardinality(page) < ReplayPage)
      /\ (query'.at = "reading" => ~(Cardinality(page) < ReplayPage))
    <2>1. page \subseteq EventRow /\ offset \in Nat
        BY <1>1, <1>2 DEF RowsInv, InOrder
    <2>2. got \in SUBSET EventRow
        BY <1>1, <2>1
    <2> HIDE DEF offset, got
    <2> QED
        BY <1>0, <2>1, <2>2 DEF QueryTyped
<1>4. RowsInv' /\ LastState' = LastState /\ Known' = Known /\ disturbed' \in BOOLEAN
    <2>1. RowsInv' /\ disturbed' \in BOOLEAN
        BY <1>0, <1>1 DEF ReadInv, RowsInv, InOrder, Upto, QueryTyped
    <2>2. LastState' = LastState /\ Known' = Known
        BY <1>0 DEF LastState, Newest, Known
    <2> QED
        BY <2>1, <2>2
<1>5. ASSUME ~disturbed
      PROVE  /\ ~Tied(rows) /\ got \subseteq rows
             /\ \A r \in got, q \in rows :
                  q.ledger <= r.ledger /\ Cardinality(Above(rows, q)) < offset => q \in got
             /\ offset > 0 =>
                  \E r \in got : \A q \in rows : q.ledger >= r.ledger => q.state \in Known
    <2>1. ~Tied(rows) /\ got \subseteq rows
        BY <1>1, <1>2, <1>5 DEF PagesInv
    <2>2. \A r \in got, q \in rows :
             q.ledger <= r.ledger /\ Cardinality(Above(rows, q)) < offset => q \in got
        BY <1>0, <1>1, <1>5, ReadAssumption, PageCovers
    <2>3. ASSUME offset > 0
          PROVE  \E r \in got : \A q \in rows : q.ledger >= r.ledger => q.state \in Known
        <3>1. CASE query.offset > 0
            BY <1>1, <1>5, <3>1 DEF PagesInv
        <3>2. CASE query.offset = 0
            <4>1. page # {}
                BY <1>2, <2>3, <3>2
            <4>2. LastState \in Known
                BY <1>1 DEF PagesInv
            <4> QED
                BY <1>0, <1>1, <2>1, <3>2, <4>1, <4>2, ReadAssumption, FirstPageStarts
        <3> QED
            BY <1>1, <3>1, <3>2
    <2> HIDE DEF got, offset
    <2> QED
        BY <2>1, <2>2, <2>3
<1>6. ASSUME query'.at = "reading"
      PROVE  PagesInv'
    <2>1. offset \in Nat /\ offset # 0
        BY <1>1, <1>2, <1>3, <1>6
    <2>2. LastState \in Known
        BY <1>1 DEF PagesInv
    <2> HIDE DEF got, offset
    <2> QED
        BY <1>0, <1>3, <1>4, <1>5, <2>1, <2>2 DEF PagesInv, Above, Tied
<1>7. ASSUME query'.at = "read", ~disturbed
      PROVE  /\ InOrder(got) /\ ~Tied(got)
             /\ \E s \in Known : Fits(family, got, s)
    <2>0. IsFiniteSet(rows) /\ Cardinality(rows) \in Nat
        BY <1>1, FS_CardinalityType DEF RowsInv, InOrder
    <2>1. offset >= Cardinality(rows) /\ offset \in Nat
        <3>1. Cardinality(page) # ReplayPage
            BY <1>2, <1>3, <1>7
        <3> QED
            BY <1>0, <1>1, <1>2, <3>1, ReadAssumption, PageIs
    <2>2. \A q \in rows : Cardinality(Above(rows, q)) < offset
        <3> SUFFICES ASSUME NEW q \in rows
                     PROVE  Cardinality(Above(rows, q)) < offset
            OBVIOUS
        <3>1. Above(rows, q) \subseteq rows \ {q}
            BY <1>1 DEF Above, RowsInv, InOrder, EventRow
        <3>2. IsFiniteSet(rows \ {q}) /\ Cardinality(rows \ {q}) = Cardinality(rows) - 1
            BY <2>0, FS_RemoveElement
        <3>3. /\ Cardinality(Above(rows, q)) <= Cardinality(rows) - 1
              /\ Cardinality(Above(rows, q)) \in Nat
            BY <3>1, <3>2, FS_Subset, FS_CardinalityType
        <3> QED
            BY <2>0, <2>1, <3>3
    <2>3. CASE offset > 0
        <3> HIDE DEF got, offset
        <3>1. \A r \in got, q \in rows : q.ledger <= r.ledger => q \in got
            BY <1>5, <1>7, <2>2
        <3>2. PICK z \in got : \A q \in rows : q.ledger >= z.ledger => q.state \in Known
            BY <1>5, <1>7, <2>3
        <3>3. ~Tied(rows) /\ got \in SUBSET rows
            BY <1>5, <1>7
        <3> QED
            BY <1>1, <3>1, <3>2, <3>3, WholeHistory
    <2>4. CASE offset = 0
        <3>1. query.offset = 0 /\ page = {} /\ rows = {}
            BY <1>1, <1>2, <2>0, <2>1, <2>4, FS_EmptySet
        <3>2. got = {}
            BY <1>1, <3>1 DEF PagesInv
        <3>3. LastState \in Known /\ LastState = "none"
            BY <1>1, <3>1 DEF PagesInv, LastState
        <3> QED
            BY <3>2, <3>3, FS_EmptySet, NothingFits DEF InOrder, Tied
    <2> QED
        BY <2>1, <2>3, <2>4
<1>8. (query.at = "read" => HistoryInv)'
    <2> HIDE DEF got, offset
    <2> QED
        BY <1>0, <1>3, <1>4, <1>7 DEF HistoryInv
<1> HIDE DEF got, offset
<1> QED
    BY <1>3, <1>4, <1>6, <1>8 DEF ReadInv, QueryTyped, AnswerWasTrue

LEMMA OnePageInv ==
    ASSUME ReadInv, NEW page, OnePage(page)
    PROVE  ReadInv'
<1>0. /\ query.at = "reading" /\ ~Paged /\ page \in Pages(QueryLimit, 0)
      /\ query' = [at |-> "read", offset |-> Cardinality(page), got |-> page]
      /\ UNCHANGED <<family, rows, emitted, expired, answer, seenStates, disturbed>>
    BY DEF OnePage
<1>1. RowsInv /\ PagesInv
    BY <1>0 DEF ReadInv, QueryTyped
<1>2. page \subseteq rows /\ Cardinality(page) \in Nat
    BY <1>0, <1>1, ReadAssumption, PageIs
<1>3. QueryTyped' /\ query'.offset = Cardinality(page) /\ query'.got = page /\ query'.at = "read"
    <2>1. page \in SUBSET EventRow
        BY <1>1, <1>2 DEF RowsInv, InOrder
    <2> QED
        BY <1>0, <1>2, <2>1 DEF QueryTyped
<1>4. RowsInv' /\ Known' = Known /\ disturbed' \in BOOLEAN
    <2>1. RowsInv' /\ disturbed' \in BOOLEAN
        BY <1>0, <1>1 DEF ReadInv, RowsInv, InOrder, Upto, QueryTyped
    <2>2. Known' = Known
        BY <1>0 DEF Known
    <2> QED
        BY <2>1, <2>2
<1>5. ASSUME ~disturbed, Cardinality(page) < QueryLimit
      PROVE  /\ InOrder(page) /\ ~Tied(page)
             /\ \E s \in Known : Fits(family, page, s)
    <2>0. IsFiniteSet(rows) /\ Cardinality(rows) \in Nat
        BY <1>1, FS_CardinalityType DEF RowsInv, InOrder
    <2>1. Cardinality(page) >= Cardinality(rows)
        <3>1. Cardinality(page) = QueryLimit \/ 0 + Cardinality(page) >= Cardinality(rows)
            BY <1>0, <1>1, ReadAssumption, PageIs
        <3> QED
            BY <1>2, <1>5, <2>0, <3>1, ReadAssumption
    <2>2. page = rows
        BY <1>2, <2>0, <2>1, FS_Subset
    <2> QED
        BY <1>1, <1>5, <2>2, TableFits DEF PagesInv, RowsInv
<1>6. (query.at = "read" => HistoryInv)'
    BY <1>0, <1>3, <1>4, <1>5 DEF HistoryInv, Paged
<1> QED
    BY <1>3, <1>4, <1>6 DEF ReadInv, QueryTyped, AnswerWasTrue

LEMMA ReplyInv ==
    ASSUME ReadInv, NEW a, Reply(a)
    PROVE  ReadInv'
<1>0. /\ query.at = "read" /\ a \in Answers(query.got) /\ answer' = a
      /\ query' = [query EXCEPT !.at = "idle", !.got = {}]
      /\ UNCHANGED <<family, rows, emitted, expired, seenStates, disturbed>>
    BY DEF Reply
<1>1. RowsInv /\ HistoryInv /\ QueryTyped
    BY <1>0 DEF ReadInv, QueryTyped
<1>2. QueryTyped' /\ query'.at = "idle" /\ query'.offset = query.offset
    BY <1>0, <1>1 DEF QueryTyped
<1>3. RowsInv' /\ disturbed' \in BOOLEAN
    BY <1>0, <1>1 DEF ReadInv, RowsInv, InOrder, Upto, QueryTyped
<1>4. ASSUME ~disturbed, Paged \/ query.offset < QueryLimit
      PROVE  \E s \in seenStates : Tells(a, s)
    <2>1. InOrder(query.got) /\ ~Tied(query.got)
        BY <1>1, <1>4 DEF HistoryInv
    <2>2. PICK s \in Known : Fits(family, query.got, s)
        BY <1>1, <1>4 DEF HistoryInv
    <2> QED
        BY <1>0, <1>1, <2>1, <2>2, KnownIsTold DEF RowsInv
<1>5. AnswerWasTrue'
    BY <1>0, <1>2, <1>4 DEF AnswerWasTrue, Paged, Tells
<1> QED
    BY <1>2, <1>3, <1>5 DEF ReadInv, QueryTyped

LEMMA QueryFailsInv ==
    ASSUME ReadInv, QueryFails
    PROVE  ReadInv'
<1>0. query' = NoQuery /\ answer' = "error"
      /\ UNCHANGED <<family, rows, emitted, expired, seenStates, disturbed>>
    BY DEF QueryFails
<1>1. QueryTyped' /\ query'.at = "idle"
    BY <1>0 DEF QueryTyped, NoQuery
<1>2. RowsInv' /\ disturbed' \in BOOLEAN
    BY <1>0 DEF ReadInv, RowsInv, InOrder, Upto, QueryTyped
<1> QED
    BY <1>0, <1>1, <1>2 DEF ReadInv, QueryTyped, AnswerWasTrue

LEMMA ReadStep == ReadInv /\ [ReadNext]_readVars => ReadInv'
<1> SUFFICES ASSUME ReadInv, [ReadNext]_readVars
             PROVE  ReadInv'
    OBVIOUS
<1>1. CASE \E newLedger \in BOOLEAN, step \in Published[family] \cup {OtherRow} :
               StoreRow(step, newLedger)
    BY <1>1, StoreRowInv
<1>2. CASE \E ledger \in 1 .. MaxEvents : RollBack(ledger)
    <2>1. PICK ledger \in 1 .. MaxEvents : RollBack(ledger)
        BY <1>2
    <2>2. ledger \in Nat
        BY <2>1, ReadAssumption
    <2> QED
        BY <2>1, <2>2, RollBackInv
<1>3. CASE StartQuery
    BY <1>3, StartQueryInv
<1>4. CASE \E page \in SUBSET rows : NextPage(page) \/ OnePage(page)
    BY <1>4, NextPageInv, OnePageInv
<1>5. CASE \E a \in Answers(query.got) : Reply(a)
    BY <1>5, ReplyInv
<1>6. CASE QueryFails
    BY <1>6, QueryFailsInv
<1>7. CASE UNCHANGED readVars
    <2> USE <1>7 DEF readVars
    <2>1. RowsInv' /\ disturbed' \in BOOLEAN
        BY DEF ReadInv, RowsInv, InOrder, Upto, QueryTyped
    <2>2. /\ (query.at = "read" => HistoryInv)' /\ AnswerWasTrue' /\ QueryTyped'
        BY <2>1, FinishedStays DEF ReadInv, QueryTyped
    <2>3. (query.at = "reading" => PagesInv)'
        BY DEF ReadInv, PagesInv, LastState, Known, Newest, Tied, Above, QueryTyped
    <2> QED
        BY <2>1, <2>2, <2>3 DEF ReadInv, QueryTyped
<1>8. CASE Expire
    BY <1>8, ExpireInv
<1> QED
    BY <1>1, <1>2, <1>3, <1>4, <1>5, <1>6, <1>7, <1>8 DEF ReadNext

\* An answer of the query API describes a state the object was in while the request
\* ran, for every page size and limit and any number of events stored between the
\* pages (getAllEvents and the handlers on top of it).
THEOREM AnswersTrue == ReadSpec => []AnswerWasTrue
<1>1. ReadInv => AnswerWasTrue
    BY DEF ReadInv, QueryTyped
<1> QED
    BY <1>1, ReadInitInv, ReadStep, PTL DEF ReadSpec
=============================================================================
