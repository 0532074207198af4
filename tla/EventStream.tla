---------------------------- MODULE EventStream -----------------------------
(***************************************************************************)
(* The live event stream: useContractEvents in the page, the one-time      *)
(* ticket of /api/auth/sse-ticket, and /api/events, whose shared poller    *)
(* reads the indexer and writes to every connected client.  The browser's  *)
(* EventSource is external: after a drop it asks the same URL again, and   *)
(* any answer but 200 closes it for good.                                  *)
(***************************************************************************)
EXTENDS Integers, Sequences, FiniteSets, FiniteSetsExt

CONSTANTS
    StreamClients,    \* pages with the hook mounted
    StreamContracts,  \* the invoice and the pool contract
    StreamLimit,      \* rows of one answer of the indexer (200)
    StreamLookback,   \* INITIAL_LOOKBACK_LEDGERS (10)
    LastStreamLedger, \* bound: ledgers the indexer stores
    PerLedger,        \* bound: events of a contract in one ledger
    SharedPolls       \* bound: polls in flight

ASSUME StreamAssumption ==
    /\ LastStreamLedger \in Nat /\ PerLedger \in Nat /\ SharedPolls \in Nat
    /\ StreamLimit \in Nat /\ StreamLookback \in Nat

VARIABLES
    source,       \* per client: the EventSource or the step of connect()
    tickets,      \* clients whose ticket is in ticketStore
    stored,       \* the indexer's events, <<ledger, index, contract>>
    registered,   \* sharedClients
    pollerOn,     \* sharedPollerTimer # null
    lastSeen,     \* sharedLastSeenLedger
    sharedPolls,  \* polls in flight, see NoSharedPoll
    received,     \* per client: events enqueued to its stream
    since,        \* history: what was stored when the client registered
    missed        \* history: events the position passed before an answer had them

streamVars == <<source, tickets, stored, registered, pollerOn, lastSeen, sharedPolls,
                received, since, missed>>

\* after: the position it asked with; answered: the contracts whose request has been
\* answered; events: the answers, merged; without: history, the events of the answered
\* contracts that the answers do not carry.
NoSharedPoll == [at |-> "none", after |-> 0, answered |-> {}, events |-> {}, without |-> {}]
StreamPolls == 1 .. SharedPolls
StreamEvents == (1 .. LastStreamLedger) \X (1 .. PerLedger) \X StreamContracts

StreamInit ==
    /\ source = [c \in StreamClients |-> "unmounted"]
    /\ tickets = {} /\ stored = {} /\ registered = {}
    /\ pollerOn = FALSE /\ lastSeen = 0
    /\ sharedPolls = [p \in StreamPolls |-> NoSharedPoll]
    /\ received = [c \in StreamClients |-> {}]
    /\ since = [c \in StreamClients |-> {}] /\ missed = {}

\* The effect of useContractEvents: connect() asks for a ticket.
MountStream(c) ==
    /\ source[c] = "unmounted"
    /\ source' = [source EXCEPT ![c] = "authorizing"]
    /\ UNCHANGED <<tickets, stored, registered, pollerOn, lastSeen, sharedPolls, received,
                   since, missed>>

\* /api/auth/sse-ticket answers; without a ticket connect() returns for good.
TicketAnswered(c, granted) ==
    /\ source[c] = "authorizing"
    /\ tickets' = IF granted THEN tickets \cup {c} ELSE tickets
    /\ source' = [source EXCEPT ![c] = IF granted THEN "connecting" ELSE "closed"]
    /\ UNCHANGED <<stored, registered, pollerOn, lastSeen, sharedPolls, received, since, missed>>

\* consumeTicket: valid once, and only for TICKET_TTL_SECONDS.
ConsumeTicket(c) == tickets' = tickets \ {c}

\* GET /api/events: the ticket is consumed, the client registered, the poller
\* started if it is not running.
OpenStream(c) ==
    /\ source[c] \in {"connecting", "reconnecting"}
    /\ IF c \in tickets
       THEN /\ ConsumeTicket(c)
            /\ source' = [source EXCEPT ![c] = "open"]
            /\ registered' = registered \cup {c}
            /\ pollerOn' = TRUE
            /\ since' = [since EXCEPT ![c] = stored]
       ELSE /\ source' = [source EXCEPT ![c] = "closed"]
            /\ UNCHANGED <<tickets, registered, pollerOn, since>>
    /\ UNCHANGED <<stored, lastSeen, sharedPolls, received, missed>>

TicketExpires(c) ==
    /\ c \in tickets
    /\ tickets' = tickets \ {c}
    /\ UNCHANGED <<source, stored, registered, pollerOn, lastSeen, sharedPolls, received,
                   since, missed>>

\* unregisterClient: the last one stops the poller and resets the position.
Unregister(c) ==
    /\ registered' = registered \ {c}
    /\ IF registered \ {c} = {}
       THEN pollerOn' = FALSE /\ lastSeen' = 0
       ELSE UNCHANGED <<pollerOn, lastSeen>>

\* The connection drops; EventSource will ask again by itself.
StreamDrops(c) ==
    /\ source[c] = "open"
    /\ source' = [source EXCEPT ![c] = "reconnecting"]
    /\ Unregister(c)
    /\ received' = [received EXCEPT ![c] = {}] /\ since' = [since EXCEPT ![c] = {}]
    /\ UNCHANGED <<tickets, stored, sharedPolls, missed>>

\* The effect's cleanup: cancelled, and the EventSource closed.
UnmountStream(c) ==
    /\ source[c] # "unmounted"
    /\ source' = [source EXCEPT ![c] = "unmounted"]
    /\ tickets' = tickets \ {c}
    /\ Unregister(c)
    /\ received' = [received EXCEPT ![c] = {}] /\ since' = [since EXCEPT ![c] = {}]
    /\ UNCHANGED <<stored, sharedPolls, missed>>

Latest == Max({0} \cup {e[1] : e \in stored})

\* sharedPoll, on the timer or when the poller starts: a position of 0 is first looked
\* up, otherwise both requests are sent.
SharedPoll(p) ==
    /\ pollerOn /\ registered # {}
    /\ sharedPolls[p].at = "none"
    /\ sharedPolls' = [sharedPolls EXCEPT ![p].at = IF lastSeen = 0 THEN "latest" ELSE "asking",
                                          ![p].after = IF lastSeen = 0 THEN Latest ELSE lastSeen]
    /\ UNCHANGED <<source, tickets, stored, registered, pollerOn, lastSeen, received, since, missed>>

\* fetchIndexerLatestLedger answers with what was the latest ledger at some time since;
\* whatever the position is by now, it is set to the look-back.
LedgerKnown(p, latest) ==
    LET start == Max({0, latest - StreamLookback}) IN
    /\ sharedPolls[p].at = "latest" /\ latest \in sharedPolls[p].after .. Latest
    /\ lastSeen' = start
    /\ sharedPolls' = [sharedPolls EXCEPT ![p].at = "asking", ![p].after = start]
    /\ missed' = missed \cup {e \in stored : e[1] <= start}
    /\ UNCHANGED <<source, tickets, stored, registered, pollerOn, received, since>>

\* What the indexer has of the contract after the position the poll asked with.
Asked(p, k) == {e \in stored : e[3] = k /\ e[1] > sharedPolls[p].after}

\* The oldest ones first, up to the limit; rows of one ledger come in any order.
Answer(events, asked) ==
    /\ events \subseteq asked
    /\ Cardinality(events) = Min({StreamLimit, Cardinality(asked)})
    /\ \A e \in events, d \in asked \ events : e[1] <= d[1]

\* One of the two requests is answered, in its own time.
RequestAnswered(p, k, events) ==
    /\ sharedPolls[p].at = "asking" /\ k \notin sharedPolls[p].answered
    /\ Answer(events, Asked(p, k))
    /\ sharedPolls' = [sharedPolls EXCEPT ![p].answered = @ \cup {k},
                                          ![p].events = @ \cup events,
                                          ![p].without = @ \cup (Asked(p, k) \ events)]
    /\ UNCHANGED <<source, tickets, stored, registered, pollerOn, lastSeen, received, since, missed>>

AllAnswered(p) == sharedPolls[p].at = "asking" /\ sharedPolls[p].answered = StreamContracts
\* What the poll does not carry, in or below a ledger it does carry an event of.
PassedOver(p) ==
    {e \in sharedPolls[p].without : \E d \in sharedPolls[p].events : e[1] <= d[1]}

\* Mutant: the position is taken from what the indexer has now.
BroadcastBehind(p) ==
    /\ AllAnswered(p)
    /\ lastSeen' = Max({lastSeen, Latest})
    /\ received' = [c \in StreamClients |->
                      IF c \in registered THEN received[c] \cup sharedPolls[p].events
                      ELSE received[c]]
    /\ missed' = missed \cup PassedOver(p)
    /\ sharedPolls' = [sharedPolls EXCEPT ![p] = NoSharedPoll]
    /\ UNCHANGED <<source, tickets, stored, registered, pollerOn, since>>
\* The rest of sharedPoll: the position moves to the newest ledger of the merged
\* answers, and whoever is registered now gets the events.
Broadcast(p) ==
    LET events == sharedPolls[p].events IN
    /\ AllAnswered(p)
    /\ lastSeen' = Max({lastSeen} \cup {e[1] : e \in events})
    /\ received' = [c \in StreamClients |->
                      IF c \in registered THEN received[c] \cup events ELSE received[c]]
    /\ missed' = missed \cup PassedOver(p)
    /\ sharedPolls' = [sharedPolls EXCEPT ![p] = NoSharedPoll]
    /\ UNCHANGED <<source, tickets, stored, registered, pollerOn, since>>

\* A failed fetch: clients get an error message, the position stays.
SharedPollFails(p) ==
    /\ sharedPolls[p].at # "none"
    /\ sharedPolls' = [sharedPolls EXCEPT ![p] = NoSharedPoll]
    /\ UNCHANGED <<source, tickets, stored, registered, pollerOn, lastSeen, received, since, missed>>

\* The indexer stores an event; the backfill also stores them in older ledgers.  It is
\* missed if its ledger has been passed, by the position or by a poll in flight.
IndexerStores(e) ==
    /\ e \notin stored
    /\ stored' = stored \cup {e}
    /\ sharedPolls' = [p \in StreamPolls |->
                         IF e[3] \in sharedPolls[p].answered
                         THEN [sharedPolls[p] EXCEPT !.without = @ \cup {e}] ELSE sharedPolls[p]]
    /\ missed' = IF e[1] <= lastSeen \/ \E p \in StreamPolls : /\ sharedPolls[p].at = "asking"
                                                               /\ e[1] <= sharedPolls[p].after
                 THEN missed \cup {e} ELSE missed
    /\ UNCHANGED <<source, tickets, registered, pollerOn, lastSeen, received, since>>

StreamNext ==
    \/ \E c \in StreamClients :
         \/ MountStream(c) \/ OpenStream(c) \/ TicketExpires(c) \/ StreamDrops(c)
         \/ UnmountStream(c) \/ \E granted \in BOOLEAN : TicketAnswered(c, granted)
    \/ \E p \in StreamPolls :
         \/ SharedPoll(p) \/ Broadcast(p) \/ SharedPollFails(p)
         \/ \E latest \in 0 .. LastStreamLedger : LedgerKnown(p, latest)
         \/ \E k \in StreamContracts, events \in SUBSET stored : RequestAnswered(p, k, events)
    \/ \E e \in StreamEvents : IndexerStores(e)

StreamSpec == StreamInit /\ [][StreamNext]_streamVars

-----------------------------------------------------------------------------
(* Properties *)

\* An open stream has got every event stored since it was opened whose ledger the
\* position has passed, unless the event was stored in a ledger already passed, lies
\* behind the look-back of a poll that started from nothing, or was missing from the
\* answer for its contract (cut off by the limit, or stored after it) in a poll whose
\* merged answers reach its ledger.
StreamLosesOnlyPassedOver ==
    \A c \in registered : \A e \in stored \ since[c] :
        e[1] <= lastSeen => e \in received[c] \cup missed
=============================================================================
