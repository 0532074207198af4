---------------------------- MODULE EventPolling ----------------------------
(***************************************************************************)
(* SseEventsService (frontend/lib/sse-events.ts), the singleton that polls *)
(* the RPC for contract events, and useSseEvents, the hook components      *)
(* mount to run it.  A poll is two awaits: the events are fetched, marked  *)
(* as processed and filtered by role in one go, then announced one by one  *)
(* and put in the store.  Polls overlap when the network is slower than    *)
(* the interval, and outlive stop().                                       *)
(***************************************************************************)
EXTENDS Naturals, Sequences, FiniteSets, SequencesExt

CONSTANTS
    Components,      \* components that mount useSseEvents
    EventIds,        \* events, numbered in ledger order
    HistoryLimit,    \* MAX_EVENTS_HISTORY
    MaxPolls         \* bound: polls in flight

ASSUME PollAssumption == EventIds \subseteq Nat /\ HistoryLimit \in Nat /\ MaxPolls \in Nat

VARIABLES
    mounted,       \* components mounted with enabled = TRUE
    owners,        \* those whose effect called start() and will call stop()
    polling,       \* isRunning
    consumers,     \* consumerCount
    interval,      \* intervalId # null
    hidden,        \* document.hidden
    role,          \* currentRole
    published,       \* events in the last 50 ledgers
    processed,     \* processedEventIds
    polls,         \* polls in flight
    recentEvents,  \* the store's list, newest first
    forgotten      \* history: events stop() has cleared from processed

pollVars == <<mounted, owners, polling, consumers, interval, hidden, role, published,
              processed, polls, recentEvents, forgotten>>

Roles == {"SME", "Investor", "Admin"}

\* ROLE_EVENT_FILTERS.
RoleEventFilters ==
    [SME |-> {"funded", "repaid", "default", "created"},
     Investor |-> {"funded", "repaid", "deposit", "withdraw", "default"},
     Admin |-> {"funded", "repaid", "default", "created", "deposit", "withdraw"}]

\* One event every role sees, one the investor does not, and so on.
TypeOf(e) == CASE e % 3 = 1 -> "funded" [] e % 3 = 2 -> "created" [] OTHER -> "deposit"

NoPoll == [at |-> "none", batch |-> {}]

PollInit ==
    /\ mounted = {} /\ owners = {} /\ polling = FALSE /\ consumers = 0
    /\ interval = FALSE /\ hidden = FALSE /\ role = "Admin"
    /\ published = {} /\ processed = {} /\ polls = [p \in 1 .. MaxPolls |-> NoPoll]
    /\ recentEvents = <<>> /\ forgotten = {}

FreePolls == {p \in 1 .. MaxPolls : polls[p].at = "none"}
WithPoll == [polls EXCEPT ![CHOOSE p \in FreePolls : TRUE] = [at |-> "fetching", batch |-> {}]]

\* start(): only the call that finds the service stopped does more than count.
Start ==
    /\ consumers' = consumers + 1
    /\ polling' = TRUE /\ interval' = TRUE
    /\ polls' = WithPoll

\* stop(): the last consumer clears the interval and the processed ids; polls in
\* flight go on.
Stop ==
    /\ consumers' = 0 /\ polling' = FALSE /\ interval' = FALSE
    /\ forgotten' = forgotten \cup processed
    /\ processed' = {}

\* useSseEvents' effects: the role is set, and the service started if it is idle;
\* a component that finds it active gets no cleanup.
Mount(c, r) ==
    /\ c \notin mounted
    /\ mounted' = mounted \cup {c}
    /\ role' = r
    /\ IF polling
       THEN UNCHANGED <<owners, polling, consumers, interval, polls>>
       ELSE FreePolls # {} /\ owners' = owners \cup {c} /\ Start
    /\ UNCHANGED <<hidden, published, processed, recentEvents, forgotten>>

Unmount(c) ==
    /\ c \in mounted
    /\ mounted' = mounted \ {c}
    /\ owners' = owners \ {c}
    /\ IF c \in owners THEN Stop
       ELSE UNCHANGED <<polling, consumers, interval, processed, forgotten>>
    /\ UNCHANGED <<hidden, role, published, polls, recentEvents>>

\* The role of a mounted component changes: cleanup, then the effects again.
ChangeRole(c, r) ==
    /\ c \in mounted /\ r # role
    /\ role' = r
    /\ IF c \in owners
       THEN /\ FreePolls # {}
            /\ polls' = WithPoll
            /\ forgotten' = forgotten \cup processed
            /\ processed' = {}
            /\ polling' = TRUE /\ interval' = TRUE /\ consumers' = 1
            /\ UNCHANGED owners
       ELSE IF polling
       THEN UNCHANGED <<owners, polling, consumers, interval, polls, processed, forgotten>>
       ELSE /\ FreePolls # {} /\ owners' = owners \cup {c} /\ Start
            /\ UNCHANGED <<processed, forgotten>>
    /\ UNCHANGED <<mounted, hidden, published, recentEvents>>

\* The interval ticks: poll() if the service runs.
IntervalTick ==
    /\ interval /\ polling /\ FreePolls # {}
    /\ polls' = WithPoll
    /\ UNCHANGED <<mounted, owners, polling, consumers, interval, hidden, role, published,
                   processed, recentEvents, forgotten>>

\* visibilitychange: the interval is cleared, and set again with a poll.
HidePage ==
    /\ ~hidden
    /\ hidden' = TRUE
    /\ interval' = FALSE
    /\ UNCHANGED <<mounted, owners, polling, consumers, role, published, processed, polls,
                   recentEvents, forgotten>>
ShowPage ==
    /\ hidden
    /\ hidden' = FALSE
    /\ IF polling /\ ~interval
       THEN FreePolls # {} /\ polls' = WithPoll /\ interval' = TRUE
       ELSE UNCHANGED <<polls, interval>>
    /\ UNCHANGED <<mounted, owners, polling, consumers, role, published, processed,
                   recentEvents, forgotten>>

\* Mutant: the ids are marked when the events are in the store.
MarkOnDelivery(p) ==
    /\ polls[p].at = "fetching"
    /\ polls' = [polls EXCEPT ![p] =
                   IF published \ processed = {} THEN NoPoll
                   ELSE [at |-> "announcing", batch |-> published \ processed]]
    /\ UNCHANGED <<mounted, owners, polling, consumers, interval, hidden, role, published,
                   processed, recentEvents, forgotten>>
\* fetchNewEvents after its awaits: filter, mark, filter by role, without a pause.
FetchNewEvents(p) ==
    /\ polls[p].at = "fetching"
    /\ LET new   == published \ processed
           shown == {e \in new : TypeOf(e) \in RoleEventFilters[role]}
       IN  /\ processed' = processed \cup new
           /\ polls' = [polls EXCEPT ![p] =
                          IF shown = {} THEN NoPoll ELSE [at |-> "announcing", batch |-> shown]]
    /\ UNCHANGED <<mounted, owners, polling, consumers, interval, hidden, role, published,
                   recentEvents, forgotten>>

\* A fetch that fails yields no events.
FetchFailed(p) ==
    /\ polls[p].at = "fetching"
    /\ polls' = [polls EXCEPT ![p] = NoPoll]
    /\ UNCHANGED <<mounted, owners, polling, consumers, interval, hidden, role, published,
                   processed, recentEvents, forgotten>>

\* The answer lists events in ledger order.
InLedgerOrder(batch) ==
    CHOOSE s \in SetToSeqs(batch) : \A i, j \in DOMAIN s : i < j => s[i] < s[j]

\* Every event of the batch announced (processEvent), the store gets the batch in
\* front, cut to the limit; isRunning is not looked at again.
UpdateStore(p) ==
    /\ polls[p].at = "announcing"
    /\ LET all == InLedgerOrder(polls[p].batch) \o recentEvents
       IN  recentEvents' = SubSeq(all, 1, IF Len(all) > HistoryLimit THEN HistoryLimit ELSE Len(all))
    /\ polls' = [polls EXCEPT ![p] = NoPoll]
    /\ UNCHANGED <<mounted, owners, polling, consumers, interval, hidden, role, published,
                   processed, forgotten>>

\* processEvent throws (the notification service does not, the monitor may): the
\* poll ends in its catch and the batch, marked as processed, is never stored.
AnnounceFails(p) ==
    /\ polls[p].at = "announcing"
    /\ polls' = [polls EXCEPT ![p] = NoPoll]
    /\ UNCHANGED <<mounted, owners, polling, consumers, interval, hidden, role, published,
                   processed, recentEvents, forgotten>>

\* The chain emits an event; after 50 ledgers it leaves the range asked for.
Emit(e) ==
    /\ e \notin published \cup processed \cup forgotten /\ \A d \in EventIds : d > e => d \notin published
    /\ published' = published \cup {e}
    /\ UNCHANGED <<mounted, owners, polling, consumers, interval, hidden, role, processed,
                   polls, recentEvents, forgotten>>
LeaveRange(e) ==
    /\ e \in published
    /\ published' = published \ {e}
    /\ UNCHANGED <<mounted, owners, polling, consumers, interval, hidden, role, processed,
                   polls, recentEvents, forgotten>>

PollNext ==
    \/ \E c \in Components : Unmount(c) \/ \E r \in Roles : Mount(c, r) \/ ChangeRole(c, r)
    \/ IntervalTick \/ HidePage \/ ShowPage
    \/ \E p \in 1 .. MaxPolls :
         FetchNewEvents(p) \/ FetchFailed(p) \/ UpdateStore(p) \/ AnnounceFails(p)
    \/ \E e \in EventIds : Emit(e) \/ LeaveRange(e)

PollSpec == PollInit /\ [][PollNext]_pollVars

-----------------------------------------------------------------------------
(* Properties *)

\* However many polls overlap, an event stands twice in the list (and was announced
\* twice) only if stop() has forgotten it in between.
ShownAgainOnlyAfterStop ==
    \A i, j \in 1 .. Len(recentEvents) :
        i # j /\ recentEvents[i] = recentEvents[j] => recentEvents[i] \in forgotten

=============================================================================
