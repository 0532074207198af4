--------------------------- MODULE ServicesProofs ----------------------------
(***************************************************************************)
(* Theorems about the processes that follow the chain beside the indexer:  *)
(* the oracle node, the live event stream, the contract monitor, the event *)
(* poller and the compliance service, each for every value of its          *)
(* constants.                                                              *)
(***************************************************************************)
EXTENDS OracleService, EventStream, Monitoring, EventPolling, ComplianceService,
        SequenceTheorems, DataLemmas, TLAPS

-----------------------------------------------------------------------------
(* The oracle node: what a restart misses *)

EffectTopics == {OldTopic, NewTopic, "ORACLE"}
EffectKinds == {"created", "paused", "unpaused", "rnd_open"}
EffectIds == OracleInvoices \cup {CHOOSE i \in OracleInvoices : TRUE}
Effects == [topic : EffectTopics, kind : EffectKinds, id : EffectIds]

\* The saved cursor never runs ahead of what the stream has delivered, so that a
\* restart from it re-reads and never skips.
CursorBehindStream ==
    /\ effects \in Seq(Effects)
    /\ position \in Nat /\ cursorFile \in Nat /\ blind \in Nat
    /\ position <= Len(effects) /\ cursorFile <= position

\* An invoice is created once.
CreatedOnce ==
    \A a, b \in 1 .. Len(effects) :
        effects[a].kind = "created" /\ effects[b].kind = "created" /\ effects[a].id = effects[b].id
            => a = b

\* What was queued was published under the topic the node listens to.
QueuedWasListened ==
    \A i \in streamed : \E k \in 1 .. Len(effects) :
        effects[k].kind = "created" /\ effects[k].id = i /\ effects[k].topic = ListenedTopic

\* What was listened to and passed was queued.
ListenedIsQueued ==
    \A k \in blind + 1 .. position :
        effects[k].kind = "created" /\ effects[k].topic = ListenedTopic => effects[k].id \in streamed

OracleNodeInv ==
    /\ invoiceTopic \in {OldTopic, NewTopic}
    /\ CursorBehindStream /\ CreatedOnce /\ QueuedWasListened /\ ListenedIsQueued

LEMMA EffectsGrow ==
    ASSUME OracleNodeInv, NEW t \in EffectTopics, NEW k \in EffectKinds, NEW i \in EffectIds,
           Publish(t, k, i),
           k = "created" => ~\E n \in DOMAIN effects : effects[n].kind = "created" /\ effects[n].id = i,
           UNCHANGED <<invoiceTopic, position, cursorFile, blind, streamed>>
    PROVE  OracleNodeInv'
<1> DEFINE e == [topic |-> t, kind |-> k, id |-> i]
<1>1. e \in Effects /\ effects' = Append(effects, e)
    BY DEF Publish, Effects
<1>2. /\ effects' \in Seq(Effects) /\ Len(effects') = Len(effects) + 1 /\ Len(effects) \in Nat
      /\ \A n \in 1 .. Len(effects) : effects'[n] = effects[n]
      /\ effects'[Len(effects) + 1] = e
    BY <1>1 DEF OracleNodeInv, CursorBehindStream
<1>3. CursorBehindStream'
    BY <1>2 DEF OracleNodeInv, CursorBehindStream
<1>4. \A n \in blind + 1 .. position : n \in 1 .. Len(effects)
    BY DEF OracleNodeInv, CursorBehindStream
<1>5. ListenedIsQueued'
    BY <1>2, <1>4 DEF OracleNodeInv, ListenedIsQueued
<1>6. QueuedWasListened'
    BY <1>2 DEF OracleNodeInv, QueuedWasListened
<1>7. CreatedOnce'
    <2> SUFFICES ASSUME NEW a \in 1 .. Len(effects) + 1, NEW b \in 1 .. Len(effects) + 1,
                        effects'[a].kind = "created", effects'[b].kind = "created",
                        effects'[a].id = effects'[b].id
                 PROVE  a = b
        BY <1>2 DEF CreatedOnce
    <2>0. e.kind = k /\ e.id = i
        OBVIOUS
    <2>1. CASE a # Len(effects) + 1 /\ b # Len(effects) + 1
        BY <1>2, <2>1 DEF OracleNodeInv, CreatedOnce
    <2>2. CASE a = Len(effects) + 1 /\ b # Len(effects) + 1
        BY <1>2, <2>0, <2>2 DEF OracleNodeInv, CursorBehindStream
    <2>3. CASE a # Len(effects) + 1 /\ b = Len(effects) + 1
        BY <1>2, <2>0, <2>3 DEF OracleNodeInv, CursorBehindStream
    <2> QED
        BY <2>1, <2>2, <2>3
<1> QED
    BY <1>3, <1>5, <1>6, <1>7 DEF OracleNodeInv

LEMMA StreamEffectKeeps ==
    ASSUME OracleNodeInv, NEW saved \in BOOLEAN, StreamEffect(saved)
    PROVE  OracleNodeInv'
<1> DEFINE e == effects[position + 1]
<1>1. /\ position < Len(effects) /\ position' = position + 1
      /\ cursorFile' = IF saved THEN position + 1 ELSE cursorFile
      /\ UNCHANGED <<invoiceTopic, effects, blind>>
    BY DEF StreamEffect
<1>2. /\ streamed \subseteq streamed'
      /\ e.kind = "created" /\ e.topic = ListenedTopic => e.id \in streamed'
      /\ \A i \in streamed' : i \in streamed
                                \/ (e.kind = "created" /\ e.topic = ListenedTopic /\ i = e.id)
    BY DEF StreamEffect
<1>3. CursorBehindStream' /\ position + 1 \in 1 .. Len(effects)
    BY <1>1 DEF OracleNodeInv, CursorBehindStream
<1>4. ListenedIsQueued'
    <2> SUFFICES ASSUME NEW k \in blind + 1 .. position + 1, effects[k].kind = "created",
                        effects[k].topic = ListenedTopic
                 PROVE  effects[k].id \in streamed'
        BY <1>1 DEF ListenedIsQueued
    <2>1. CASE k = position + 1
        BY <1>2, <2>1
    <2>2. CASE k # position + 1
        <3>1. k \in blind + 1 .. position
            BY <2>2 DEF OracleNodeInv, CursorBehindStream
        <3> QED
            BY <1>2, <3>1 DEF OracleNodeInv, ListenedIsQueued
    <2> QED
        BY <2>1, <2>2
<1>5. QueuedWasListened'
    BY <1>1, <1>2, <1>3 DEF OracleNodeInv, QueuedWasListened
<1>6. CreatedOnce'
    BY <1>1 DEF OracleNodeInv, CreatedOnce
<1> QED
    BY <1>1, <1>3, <1>4, <1>5, <1>6 DEF OracleNodeInv

LEMMA CrashKeeps ==
    ASSUME OracleNodeInv, CrashAndStart
    PROVE  OracleNodeInv'
<1>1. /\ position' = (IF cursorFile > 0 THEN cursorFile ELSE Len(effects))
      /\ blind' = (IF cursorFile = 0 THEN Len(effects) ELSE blind)
      /\ UNCHANGED <<invoiceTopic, effects, cursorFile, streamed>>
    BY DEF CrashAndStart, LoadCursor
<1>2. CursorBehindStream'
    BY <1>1 DEF OracleNodeInv, CursorBehindStream
<1>3. ListenedIsQueued'
    BY <1>1 DEF OracleNodeInv, CursorBehindStream, ListenedIsQueued
<1>4. CreatedOnce' /\ QueuedWasListened'
    BY <1>1 DEF OracleNodeInv, CreatedOnce, QueuedWasListened
<1> QED
    BY <1>1, <1>2, <1>3, <1>4 DEF OracleNodeInv

LEMMA OracleNodeStutters ==
    ASSUME OracleNodeInv, UNCHANGED <<effects, position, cursorFile, blind, streamed>>,
           invoiceTopic' \in {OldTopic, NewTopic}
    PROVE  OracleNodeInv'
BY DEF OracleNodeInv, CursorBehindStream, CreatedOnce, QueuedWasListened, ListenedIsQueued

LEMMA JobStepKeeps ==
    ASSUME OracleNodeInv, NEW i \in OracleInvoices, NEW job, JobStep(i, job)
    PROVE  OracleNodeInv'
<1>1. UNCHANGED <<invoiceTopic, position, cursorFile, blind, streamed>>
    BY DEF JobStep
<1>2. CASE UNCHANGED effects
    BY <1>1, <1>2, OracleNodeStutters DEF OracleNodeInv
<1>3. CASE Publish("ORACLE", "rnd_open", i)
    BY <1>1, <1>3, EffectsGrow DEF EffectTopics, EffectKinds, EffectIds
<1> QED
    BY <1>2, <1>3 DEF JobStep, InvoiceRead, RoundReady, OpenFindsPause, VoteCounts,
                      VoteAnswerLost, VoteFindsPause, CallRefused, CallFails

\* However often the node crashes and whichever of its saves fail, the invoices that
\* its stream has passed since the last start without a cursor file were queued if and
\* only if the contract published them under the topic the listener compares with.
THEOREM NoListenedInvoiceMissed ==
    OracleNodeSpec => []QueuedExactlyListened
<1>1. OracleNodeInit => OracleNodeInv
    BY DEF OracleNodeInit, OracleNodeInv, CursorBehindStream, CreatedOnce, QueuedWasListened,
           ListenedIsQueued
<1>2. OracleNodeInv /\ [OracleNodeNext]_oracleNodeVars => OracleNodeInv'
    <2> SUFFICES ASSUME OracleNodeInv, [OracleNodeNext]_oracleNodeVars
                 PROVE  OracleNodeInv'
        OBVIOUS
    <2>1. CASE UNCHANGED oracleNodeVars
        BY <2>1, OracleNodeStutters DEF oracleNodeVars, OracleNodeInv
    <2>2. ASSUME NEW i \in OracleInvoices, CreateInvoice(i)
          PROVE  OracleNodeInv'
        <3>1. invoiceTopic \in EffectTopics /\ "created" \in EffectKinds /\ i \in EffectIds
            BY DEF OracleNodeInv, EffectTopics, EffectKinds, EffectIds
        <3> QED
            BY <2>2, <3>1, EffectsGrow DEF CreateInvoice
    <2>3. ASSUME NEW on \in BOOLEAN, PauseRegistry(on)
          PROVE  OracleNodeInv'
        <3> DEFINE k == IF on THEN "paused" ELSE "unpaused"
        <3>1. "ORACLE" \in EffectTopics /\ k \in EffectKinds /\ k # "created"
              /\ (CHOOSE i \in OracleInvoices : TRUE) \in EffectIds
            BY DEF EffectTopics, EffectKinds, EffectIds
        <3> QED
            BY <2>3, <3>1, EffectsGrow DEF PauseRegistry
    <2>4. ASSUME NEW saved \in BOOLEAN, StreamEffect(saved)
          PROVE  OracleNodeInv'
        BY <2>4, StreamEffectKeeps
    <2>5. CASE CrashAndStart
        BY <2>5, CrashKeeps
    <2>6. CASE ProcessTick
        BY <2>6, OracleNodeStutters DEF ProcessTick, OracleNodeInv
    <2>7. ASSUME NEW j \in Jobs, JobStep(j[1], j[2])
          PROVE  OracleNodeInv'
        BY <2>7, JobStepKeeps DEF Jobs
    <2>8. CASE UpgradeInvoice
        BY <2>8, OracleNodeStutters DEF UpgradeInvoice
    <2> QED
        BY <2>1, <2>2, <2>3, <2>4, <2>5, <2>6, <2>7, <2>8 DEF OracleNodeNext
<1>3. OracleNodeInv => QueuedExactlyListened
    <2> SUFFICES ASSUME OracleNodeInv, NEW k \in blind + 1 .. position, effects[k].kind = "created",
                        effects[k].id \in streamed
                 PROVE  effects[k].topic = ListenedTopic
        BY DEF OracleNodeInv, ListenedIsQueued, QueuedExactlyListened
    <2>1. k \in 1 .. Len(effects)
        BY DEF OracleNodeInv, CursorBehindStream
    <2>2. PICK n \in 1 .. Len(effects) : effects[n].kind = "created" /\ effects[n].id = effects[k].id
                                          /\ effects[n].topic = ListenedTopic
        BY DEF OracleNodeInv, QueuedWasListened
    <2> QED
        BY <2>1, <2>2 DEF OracleNodeInv, CreatedOnce
<1> QED
    BY <1>1, <1>2, <1>3, PTL DEF OracleNodeSpec

-----------------------------------------------------------------------------
(* The live event stream: only what is passed over is lost *)

StreamPollType ==
    [at : {"none", "latest", "asking"}, after : Nat, answered : SUBSET StreamContracts,
     events : SUBSET StreamEvents, without : SUBSET StreamEvents]

StreamTypeOK ==
    /\ stored \subseteq StreamEvents /\ registered \subseteq StreamClients
    /\ lastSeen \in Nat
    /\ sharedPolls \in [StreamPolls -> StreamPollType]
    /\ received \in [StreamClients -> SUBSET StreamEvents]
    /\ since \in [StreamClients -> SUBSET StreamEvents]

\* A poll was asked for what follows a position, and what lies before it was settled,
\* also when the position has been reset or set back since.
AskedFromSettled ==
    \A p \in StreamPolls : sharedPolls[p].at = "asking" =>
        \A c \in registered : \A e \in stored \ since[c] :
            e[1] <= sharedPolls[p].after => e \in received[c] \cup missed

\* For a contract that has answered, nothing is overlooked: an event is in the answer,
\* is known to be missing from it, or is settled.
AnswersAccounted ==
    \A p \in StreamPolls : \A c \in registered : \A e \in stored \ since[c] :
        e[3] \in sharedPolls[p].answered =>
            e \in sharedPolls[p].events \cup sharedPolls[p].without \cup received[c] \cup missed

StreamInv ==
    StreamTypeOK /\ AskedFromSettled /\ AnswersAccounted /\ StreamLosesOnlyPassedOver

LEMMA LedgersOfEvents ==
    ASSUME NEW e \in StreamEvents
    PROVE  e[1] \in Nat /\ e[1] <= LastStreamLedger /\ e[3] \in StreamContracts
BY StreamAssumption DEF StreamEvents

LEMMA StreamInvInit == StreamInit => StreamInv
BY DEF StreamInit, StreamInv, StreamTypeOK, AskedFromSettled, AnswersAccounted,
       StreamLosesOnlyPassedOver, NoSharedPoll, StreamPollType

LEMMA LatestIs ==
    ASSUME StreamTypeOK
    PROVE  Latest \in Nat
<1> DEFINE S == {0} \cup {e[1] : e \in stored}
<1>1. S \in SUBSET Nat /\ S # {} /\ LastStreamLedger \in Nat /\ \A x \in S : x <= LastStreamLedger
    BY LedgersOfEvents, StreamAssumption DEF StreamTypeOK
<1> HIDE DEF S
<1>2. Max(S) \in S
    BY <1>1, MaxOfBounded
<1> QED
    BY <1>1, <1>2 DEF Latest, S

\* A step that leaves events and polls alone and changes nothing for the clients
\* that stay connected.
LEMMA ClientsLeave ==
    ASSUME StreamInv, UNCHANGED <<stored, sharedPolls, missed>>,
           registered' \subseteq registered,
           lastSeen' = lastSeen \/ (lastSeen' = 0 /\ registered' = {}),
           received' \in [StreamClients -> SUBSET StreamEvents],
           since' \in [StreamClients -> SUBSET StreamEvents],
           \A c \in registered' : received'[c] = received[c] /\ since'[c] = since[c]
    PROVE  StreamInv'
<1>1. StreamTypeOK'
    BY DEF StreamInv, StreamTypeOK
<1>2. AskedFromSettled'
    BY DEF StreamInv, AskedFromSettled
<1>3. AnswersAccounted'
    BY DEF StreamInv, AnswersAccounted
<1>4. StreamLosesOnlyPassedOver'
    BY DEF StreamInv, StreamLosesOnlyPassedOver
<1> QED
    BY <1>1, <1>2, <1>3, <1>4 DEF StreamInv

LEMMA OpenStreamKeeps ==
    ASSUME StreamInv, NEW c \in StreamClients, OpenStream(c)
    PROVE  StreamInv'
<1>1. CASE c \in tickets
    <2>1. /\ registered' = registered \cup {c} /\ since' = [since EXCEPT ![c] = stored]
          /\ UNCHANGED <<stored, lastSeen, sharedPolls, received, missed>>
        BY <1>1 DEF OpenStream
    <2>2. StreamTypeOK'
        BY <2>1 DEF StreamInv, StreamTypeOK
    <2>3. \A d \in registered' : \A e \in stored \ since'[d] : d \in registered /\ since'[d] = since[d]
        BY <2>1 DEF StreamInv, StreamTypeOK
    <2>4. AskedFromSettled'
        BY <2>1, <2>3 DEF StreamInv, AskedFromSettled
    <2>5. AnswersAccounted'
        BY <2>1, <2>3 DEF StreamInv, AnswersAccounted
    <2>6. StreamLosesOnlyPassedOver'
        BY <2>1, <2>3 DEF StreamInv, StreamLosesOnlyPassedOver
    <2> QED
        BY <2>2, <2>4, <2>5, <2>6 DEF StreamInv
<1>2. CASE c \notin tickets
    BY <1>2, ClientsLeave DEF OpenStream, StreamInv, StreamTypeOK
<1> QED
    BY <1>1, <1>2

LEMMA LeavingKeeps ==
    ASSUME StreamInv, NEW c \in StreamClients, Unregister(c),
           received' = [received EXCEPT ![c] = {}], since' = [since EXCEPT ![c] = {}],
           UNCHANGED <<stored, sharedPolls, missed>>
    PROVE  StreamInv'
<1>1. /\ registered' = registered \ {c}
      /\ lastSeen' = lastSeen \/ (lastSeen' = 0 /\ registered' = {})
    BY DEF Unregister
<1>2. /\ received' \in [StreamClients -> SUBSET StreamEvents]
      /\ since' \in [StreamClients -> SUBSET StreamEvents]
      /\ \A d \in registered' : received'[d] = received[d] /\ since'[d] = since[d]
    BY <1>1 DEF StreamInv, StreamTypeOK
<1> QED
    BY <1>1, <1>2, ClientsLeave

\* A step of one poll: the other polls keep what they have, what was settled stays so,
\* and the poll itself accounts for what it now holds.
LEMMA OnePollMoves ==
    ASSUME StreamInv, NEW p \in StreamPolls, NEW poll \in StreamPollType,
           sharedPolls' = [sharedPolls EXCEPT ![p] = poll],
           UNCHANGED <<stored, registered, since>>, lastSeen' \in Nat,
           received' \in [StreamClients -> SUBSET StreamEvents],
           \A c \in registered : received[c] \subseteq received'[c],
           missed \subseteq missed',
           poll.at = "asking" =>
               \A c \in registered : \A e \in stored \ since[c] :
                   e[1] <= poll.after => e \in received'[c] \cup missed',
           \A c \in registered : \A e \in stored \ since[c] :
               e[3] \in poll.answered =>
                   e \in poll.events \cup poll.without \cup received'[c] \cup missed',
           \A c \in registered : \A e \in stored \ since[c] :
               e[1] <= lastSeen' => e \in received'[c] \cup missed'
    PROVE  StreamInv'
<1>1. StreamTypeOK'
    BY DEF StreamInv, StreamTypeOK
<1>2. \A q \in StreamPolls : sharedPolls'[q] = IF q = p THEN poll ELSE sharedPolls[q]
    BY DEF StreamInv, StreamTypeOK
<1>3. AskedFromSettled'
    BY <1>2 DEF StreamInv, AskedFromSettled
<1>4. AnswersAccounted'
    BY <1>2 DEF StreamInv, AnswersAccounted
<1>5. StreamLosesOnlyPassedOver'
    BY DEF StreamLosesOnlyPassedOver
<1> QED
    BY <1>1, <1>3, <1>4, <1>5 DEF StreamInv

LEMMA SharedPollKeeps ==
    ASSUME StreamInv, NEW p \in StreamPolls, SharedPoll(p)
    PROVE  StreamInv'
<1> DEFINE poll == [sharedPolls[p] EXCEPT !.at = IF lastSeen = 0 THEN "latest" ELSE "asking",
                                          !.after = IF lastSeen = 0 THEN Latest ELSE lastSeen]
<1>0. sharedPolls \in [StreamPolls -> StreamPollType] /\ lastSeen \in Nat /\ Latest \in Nat
      /\ received \in [StreamClients -> SUBSET StreamEvents]
    BY LatestIs DEF StreamInv, StreamTypeOK
<1>1. /\ sharedPolls' = [sharedPolls EXCEPT ![p] = poll]
      /\ UNCHANGED <<stored, registered, lastSeen, received, since, missed>>
    BY <1>0 DEF SharedPoll, StreamPollType
<1>2. /\ poll \in StreamPollType /\ poll.answered = sharedPolls[p].answered
      /\ poll.events = sharedPolls[p].events /\ poll.without = sharedPolls[p].without
      /\ poll.at = "asking" => poll.after = lastSeen
    BY <1>0 DEF StreamPollType
<1> HIDE DEF poll
<1>3. poll.at = "asking" =>
        \A c \in registered : \A e \in stored \ since[c] :
            e[1] <= poll.after => e \in received'[c] \cup missed'
    BY <1>1, <1>2 DEF StreamInv, StreamLosesOnlyPassedOver
<1>4. \A c \in registered : \A e \in stored \ since[c] :
        e[3] \in poll.answered =>
            e \in poll.events \cup poll.without \cup received'[c] \cup missed'
    BY <1>1, <1>2 DEF StreamInv, AnswersAccounted
<1>5. \A c \in registered : \A e \in stored \ since[c] :
        e[1] <= lastSeen' => e \in received'[c] \cup missed'
    BY <1>1 DEF StreamInv, StreamLosesOnlyPassedOver
<1> QED
    BY <1>0, <1>1, <1>2, <1>3, <1>4, <1>5, OnePollMoves

LEMMA LedgerKnownKeeps ==
    ASSUME StreamInv, NEW p \in StreamPolls, NEW found \in Nat, LedgerKnown(p, found)
    PROVE  StreamInv'
<1> DEFINE start == Max({0, found - StreamLookback})
           poll == [sharedPolls[p] EXCEPT !.at = "asking", !.after = start]
<1>0. sharedPolls \in [StreamPolls -> StreamPollType]
      /\ received \in [StreamClients -> SUBSET StreamEvents]
    BY DEF StreamInv, StreamTypeOK
<1>1. start \in Nat
    <2> DEFINE S == {0, found - StreamLookback}
    <2>1. S \in SUBSET Int
        BY StreamAssumption
    <2>2. \E x \in S : \A y \in S : x >= y
        <3>1. CASE found - StreamLookback >= 0
            BY <3>1, StreamAssumption
        <3>2. CASE ~(found - StreamLookback >= 0)
            BY <3>2, StreamAssumption
        <3> QED
            BY <3>1, <3>2
    <2>3. Max(S) \in S /\ \A y \in S : Max(S) >= y
        BY <2>2 DEF Max
    <2>4. Max(S) \in Int /\ Max(S) >= 0
        BY <2>1, <2>3
    <2> HIDE DEF S
    <2>5. Max(S) \in Nat
        BY <2>4
    <2> QED
        BY <2>5 DEF S
<1> HIDE DEF start
<1>2. /\ sharedPolls' = [sharedPolls EXCEPT ![p] = poll] /\ lastSeen' = start
      /\ missed' = missed \cup {e \in stored : e[1] <= start}
      /\ UNCHANGED <<stored, registered, received, since>>
    BY <1>0 DEF LedgerKnown, start, StreamPollType
<1>3. /\ poll \in StreamPollType /\ poll.answered = sharedPolls[p].answered
      /\ poll.events = sharedPolls[p].events /\ poll.without = sharedPolls[p].without
      /\ poll.after = start
    BY <1>0, <1>1 DEF StreamPollType
<1> HIDE DEF poll
<1>4. \A c \in registered : \A e \in stored \ since[c] :
        e[1] <= start => e \in received'[c] \cup missed'
    BY <1>2
<1>5. \A c \in registered : \A e \in stored \ since[c] :
        e[3] \in poll.answered =>
            e \in poll.events \cup poll.without \cup received'[c] \cup missed'
    BY <1>2, <1>3 DEF StreamInv, AnswersAccounted
<1> QED
    BY <1>0, <1>1, <1>2, <1>3, <1>4, <1>5, OnePollMoves

LEMMA RequestAnsweredKeeps ==
    ASSUME StreamInv, NEW p \in StreamPolls, NEW k \in StreamContracts, NEW events,
           RequestAnswered(p, k, events)
    PROVE  StreamInv'
<1> DEFINE asked == Asked(p, k)
           poll == [sharedPolls[p] EXCEPT !.answered = @ \cup {k}, !.events = @ \cup events,
                                          !.without = @ \cup (asked \ events)]
<1>0. /\ sharedPolls \in [StreamPolls -> StreamPollType] /\ lastSeen \in Nat
      /\ received \in [StreamClients -> SUBSET StreamEvents] /\ stored \subseteq StreamEvents
    BY DEF StreamInv, StreamTypeOK
<1>1. /\ sharedPolls' = [sharedPolls EXCEPT ![p] = poll] /\ sharedPolls[p].at = "asking"
      /\ events \subseteq asked /\ asked \subseteq stored
      /\ UNCHANGED <<stored, registered, lastSeen, received, since, missed>>
    BY <1>0 DEF RequestAnswered, Answer, Asked, StreamPollType
<1>2. /\ poll \in StreamPollType /\ poll.answered = sharedPolls[p].answered \cup {k}
      /\ poll.events = sharedPolls[p].events \cup events
      /\ poll.without = sharedPolls[p].without \cup (asked \ events)
      /\ poll.after = sharedPolls[p].after /\ poll.at = "asking"
    BY <1>0, <1>1 DEF StreamPollType
<1> HIDE DEF poll
<1>3. \A c \in registered : \A e \in stored \ since[c] :
        e[1] <= poll.after => e \in received'[c] \cup missed'
    BY <1>1, <1>2 DEF StreamInv, AskedFromSettled
<1>4. ASSUME NEW c \in registered, NEW e \in stored \ since[c], e[3] \in poll.answered
      PROVE  e \in poll.events \cup poll.without \cup received'[c] \cup missed'
    <2>1. CASE e[3] \in sharedPolls[p].answered
        BY <1>1, <1>2, <2>1 DEF StreamInv, AnswersAccounted
    <2>2. CASE e[3] = k /\ e[1] <= sharedPolls[p].after
        BY <1>2, <1>3, <2>2
    <2>3. CASE e[3] = k /\ ~(e[1] <= sharedPolls[p].after)
        <3>1. e[1] \in Nat /\ sharedPolls[p].after \in Nat
            BY <1>0, LedgersOfEvents DEF StreamPollType
        <3>2. e \in asked
            BY <2>3, <3>1 DEF Asked
        <3> QED
            BY <1>2, <3>2
    <2> QED
        BY <1>2, <1>4, <2>1, <2>2, <2>3
<1>5. \A c \in registered : \A e \in stored \ since[c] :
        e[1] <= lastSeen' => e \in received'[c] \cup missed'
    BY <1>1 DEF StreamInv, StreamLosesOnlyPassedOver
<1> QED
    BY <1>0, <1>1, <1>2, <1>3, <1>4, <1>5, OnePollMoves

LEMMA BroadcastKeeps ==
    ASSUME StreamInv, NEW p \in StreamPolls, Broadcast(p)
    PROVE  StreamInv'
<1> DEFINE events == sharedPolls[p].events
           S == {lastSeen} \cup {e[1] : e \in events}
<1>0. /\ sharedPolls \in [StreamPolls -> StreamPollType] /\ lastSeen \in Nat
      /\ received \in [StreamClients -> SUBSET StreamEvents] /\ stored \subseteq StreamEvents
      /\ registered \subseteq StreamClients
    BY DEF StreamInv, StreamTypeOK
<1>1. events \subseteq StreamEvents
    BY <1>0 DEF StreamPollType
<1>2. Max(S) \in S /\ Max(S) \in Nat
    <2> DEFINE n == lastSeen + LastStreamLedger
    <2>1. n \in Nat /\ S \in SUBSET Nat /\ S # {} /\ \A x \in S : x <= n
        BY <1>0, <1>1, LedgersOfEvents, StreamAssumption
    <2> HIDE DEF S, n
    <2> QED
        BY <2>1, MaxOfBounded
<1>3. /\ lastSeen' = Max(S) /\ sharedPolls' = [sharedPolls EXCEPT ![p] = NoSharedPoll]
      /\ received' = [c \in StreamClients |->
                        IF c \in registered THEN received[c] \cup events ELSE received[c]]
      /\ missed' = missed \cup PassedOver(p)
      /\ UNCHANGED <<stored, registered, since>>
    BY DEF Broadcast
<1>4. lastSeen' = lastSeen \/ \E d \in events : lastSeen' = d[1]
    BY <1>2, <1>3
<1>5. \A c \in registered : received'[c] = received[c] \cup events
    BY <1>0, <1>3
<1>6. received' \in [StreamClients -> SUBSET StreamEvents]
    BY <1>0, <1>1, <1>3
<1>7. NoSharedPoll \in StreamPollType /\ NoSharedPoll.at = "none" /\ NoSharedPoll.answered = {}
    BY DEF NoSharedPoll, StreamPollType
<1> HIDE DEF S, events
<1>8. ASSUME NEW c \in registered, NEW e \in stored \ since[c], e[1] <= lastSeen'
      PROVE  e \in received'[c] \cup missed'
    <2>1. CASE lastSeen' = lastSeen
        BY <1>3, <1>5, <1>8, <2>1 DEF StreamInv, StreamLosesOnlyPassedOver
    <2>2. ASSUME NEW d \in events, lastSeen' = d[1]
          PROVE  e \in received'[c] \cup missed'
        <3>1. e[3] \in sharedPolls[p].answered
            BY <1>0, LedgersOfEvents DEF Broadcast, AllAnswered
        <3>2. e \in events \cup sharedPolls[p].without \cup received[c] \cup missed
            BY <3>1 DEF StreamInv, AnswersAccounted, events
        <3>3. e \in sharedPolls[p].without => e \in PassedOver(p)
            BY <1>8, <2>2 DEF PassedOver, events
        <3> QED
            BY <1>3, <1>5, <3>2, <3>3
    <2> QED
        BY <1>4, <2>1, <2>2
<1> QED
    BY <1>0, <1>2, <1>3, <1>5, <1>6, <1>7, <1>8, OnePollMoves

LEMMA PollFailsKeeps ==
    ASSUME StreamInv, NEW p \in StreamPolls, SharedPollFails(p)
    PROVE  StreamInv'
<1>1. /\ sharedPolls' = [sharedPolls EXCEPT ![p] = NoSharedPoll]
      /\ UNCHANGED <<stored, registered, lastSeen, received, since, missed>>
    BY DEF SharedPollFails
<1>2. NoSharedPoll \in StreamPollType /\ NoSharedPoll.at = "none" /\ NoSharedPoll.answered = {}
    BY DEF NoSharedPoll, StreamPollType
<1>3. lastSeen \in Nat /\ received \in [StreamClients -> SUBSET StreamEvents]
    BY DEF StreamInv, StreamTypeOK
<1>4. \A c \in registered : \A e \in stored \ since[c] :
        e[1] <= lastSeen' => e \in received'[c] \cup missed'
    BY <1>1 DEF StreamInv, StreamLosesOnlyPassedOver
<1> QED
    BY <1>1, <1>2, <1>3, <1>4, OnePollMoves

LEMMA IndexerStoresKeeps ==
    ASSUME StreamInv, NEW e \in StreamEvents, IndexerStores(e)
    PROVE  StreamInv'
<1>0. sharedPolls \in [StreamPolls -> StreamPollType]
    BY DEF StreamInv, StreamTypeOK
<1>1. /\ stored' = stored \cup {e}
      /\ UNCHANGED <<registered, lastSeen, received, since>>
      /\ sharedPolls' = [p \in StreamPolls |->
                           IF e[3] \in sharedPolls[p].answered
                           THEN [sharedPolls[p] EXCEPT !.without = @ \cup {e}] ELSE sharedPolls[p]]
    BY DEF IndexerStores
<1>2. /\ missed \subseteq missed' /\ (e[1] <= lastSeen => e \in missed')
      /\ \A p \in StreamPolls : sharedPolls[p].at = "asking" /\ e[1] <= sharedPolls[p].after
                                => e \in missed'
    BY DEF IndexerStores
<1>3. ASSUME NEW p \in StreamPolls
      PROVE  /\ sharedPolls'[p] \in StreamPollType
             /\ sharedPolls'[p].at = sharedPolls[p].at /\ sharedPolls'[p].after = sharedPolls[p].after
             /\ sharedPolls'[p].answered = sharedPolls[p].answered
             /\ sharedPolls'[p].events = sharedPolls[p].events
             /\ sharedPolls[p].without \subseteq sharedPolls'[p].without
             /\ e[3] \in sharedPolls[p].answered => e \in sharedPolls'[p].without
    BY <1>0, <1>1 DEF StreamPollType
<1>4. StreamTypeOK'
    <2>1. sharedPolls' \in [StreamPolls -> StreamPollType]
        BY <1>1, <1>3
    <2> QED
        BY <1>1, <2>1 DEF StreamInv, StreamTypeOK
<1>5. AskedFromSettled'
    <2> SUFFICES ASSUME NEW p \in StreamPolls, sharedPolls[p].at = "asking", NEW c \in registered,
                        NEW x \in (stored \cup {e}) \ since[c], x[1] <= sharedPolls[p].after
                 PROVE  x \in received[c] \cup missed'
        BY <1>1, <1>3 DEF AskedFromSettled
    <2> QED
        BY <1>2 DEF StreamInv, AskedFromSettled
<1>6. AnswersAccounted'
    <2> SUFFICES ASSUME NEW p \in StreamPolls, NEW c \in registered,
                        NEW x \in (stored \cup {e}) \ since[c], x[3] \in sharedPolls[p].answered
                 PROVE  x \in sharedPolls[p].events \cup sharedPolls'[p].without
                              \cup received[c] \cup missed'
        BY <1>1, <1>3 DEF AnswersAccounted
    <2> QED
        BY <1>2, <1>3 DEF StreamInv, AnswersAccounted
<1>7. StreamLosesOnlyPassedOver'
    BY <1>1, <1>2 DEF StreamInv, StreamLosesOnlyPassedOver
<1> QED
    BY <1>4, <1>5, <1>6, <1>7 DEF StreamInv

\* A connected client has got every event the position has passed since it connected,
\* but for those passed over as the property says: whatever the limit and the
\* look-back, and however polls overlap, fail, or outlive the poller's restart.
THEOREM StreamLosesNothingElse == StreamSpec => []StreamLosesOnlyPassedOver
<1>1. StreamInit => StreamInv
    BY StreamInvInit
<1>2. StreamInv /\ [StreamNext]_streamVars => StreamInv'
    <2> SUFFICES ASSUME StreamInv, [StreamNext]_streamVars
                 PROVE  StreamInv'
        OBVIOUS
    <2>0. ASSUME UNCHANGED <<stored, registered, lastSeen, sharedPolls, received, since, missed>>
          PROVE  StreamInv'
        BY <2>0, ClientsLeave DEF StreamInv, StreamTypeOK
    <2>1. CASE UNCHANGED streamVars
        BY <2>0, <2>1 DEF streamVars
    <2>2. ASSUME NEW c \in StreamClients, MountStream(c)
          PROVE  StreamInv'
        BY <2>0, <2>2 DEF MountStream
    <2>3. ASSUME NEW c \in StreamClients, OpenStream(c)
          PROVE  StreamInv'
        BY <2>3, OpenStreamKeeps
    <2>4. ASSUME NEW c \in StreamClients, TicketExpires(c)
          PROVE  StreamInv'
        BY <2>0, <2>4 DEF TicketExpires
    <2>5. ASSUME NEW c \in StreamClients, StreamDrops(c)
          PROVE  StreamInv'
        BY <2>5, LeavingKeeps DEF StreamDrops
    <2>6. ASSUME NEW c \in StreamClients, UnmountStream(c)
          PROVE  StreamInv'
        BY <2>6, LeavingKeeps DEF UnmountStream
    <2>7. ASSUME NEW c \in StreamClients, NEW granted \in BOOLEAN, TicketAnswered(c, granted)
          PROVE  StreamInv'
        BY <2>0, <2>7 DEF TicketAnswered
    <2>8. ASSUME NEW p \in StreamPolls, SharedPoll(p)
          PROVE  StreamInv'
        BY <2>8, SharedPollKeeps
    <2>9. ASSUME NEW p \in StreamPolls, Broadcast(p)
          PROVE  StreamInv'
        BY <2>9, BroadcastKeeps
    <2>10. ASSUME NEW p \in StreamPolls, SharedPollFails(p)
           PROVE  StreamInv'
        BY <2>10, PollFailsKeeps
    <2>11. ASSUME NEW e \in StreamEvents, IndexerStores(e)
           PROVE  StreamInv'
        BY <2>11, IndexerStoresKeeps
    <2>12. ASSUME NEW p \in StreamPolls, NEW found \in 0 .. LastStreamLedger, LedgerKnown(p, found)
           PROVE  StreamInv'
        <3>1. found \in Nat
            BY StreamAssumption
        <3> QED
            BY <2>12, <3>1, LedgerKnownKeeps
    <2>13. ASSUME NEW p \in StreamPolls, NEW k \in StreamContracts, NEW events \in SUBSET stored,
                  RequestAnswered(p, k, events)
           PROVE  StreamInv'
        BY <2>13, RequestAnsweredKeeps
    <2> QED
        BY <2>1, <2>2, <2>3, <2>4, <2>5, <2>6, <2>7, <2>8, <2>9, <2>10, <2>11, <2>12, <2>13
           DEF StreamNext
<1>3. StreamInv => StreamLosesOnlyPassedOver
    BY DEF StreamInv
<1> QED
    BY <1>1, <1>2, <1>3, PTL DEF StreamSpec

-----------------------------------------------------------------------------
(* The monitor: what lies behind the checkpoint was processed or cut *)

MonitorPoll == [at : {"none", "ranged", "processing", "alerting"}, fresh : BOOLEAN,
                from : Nat, to : Nat, todo : SUBSET Nat]

MonitorTypeOK ==
    /\ latest \in Nat /\ latest >= 2 /\ lastLedger \in Nat /\ checkpoint \in Nat /\ base \in Nat
    /\ monitorPolls \in [PollSlots -> MonitorPoll]

Seen == alerted \cup cut

\* A checkpoint exists only once a look-back has moved it.
CheckpointHasBase == lastLedger > 0 \/ checkpoint > 0 => base > 0
CheckpointSeen ==
    \A l \in Nat : base > 0 /\ base <= l /\ (l < lastLedger \/ l < checkpoint) => l \in Seen

\* A poll starts where everything from b on was in S, unless it looks back, and holds
\* what it has not yet processed of its range.
PollStart(poll, b, S) ==
    IF poll.fresh THEN poll.from > 0
    ELSE b > 0 /\ \A l \in Nat : b <= l /\ l < poll.from => l \in S
PollRange(poll, S) ==
    poll.at \in {"processing", "alerting"} =>
        \A l \in poll.from .. poll.to : l \in S \/ l \in poll.todo
PollsCovered ==
    \A p \in PollSlots : monitorPolls[p].at # "none" =>
        PollStart(monitorPolls[p], base, Seen) /\ PollRange(monitorPolls[p], Seen)

MonitorInv == MonitorTypeOK /\ CheckpointHasBase /\ CheckpointSeen /\ PollsCovered

\* The other polls of a step that changes one keep what they hold.
LEMMA OtherPollsKeep ==
    ASSUME MonitorInv, NEW p \in PollSlots, NEW poll \in MonitorPoll, SetPoll(p, poll),
           alerted \subseteq alerted', cut \subseteq cut',
           base' \in Nat, base <= base',
           poll.at # "none" => PollStart(poll, base', Seen') /\ PollRange(poll, Seen')
    PROVE  PollsCovered' /\ monitorPolls' \in [PollSlots -> MonitorPoll]
<1>1. monitorPolls' = [monitorPolls EXCEPT ![p] = poll]
    BY DEF SetPoll
<1>2. monitorPolls' \in [PollSlots -> MonitorPoll]
    BY <1>1 DEF MonitorInv, MonitorTypeOK
<1>3. ASSUME NEW q \in PollSlots, monitorPolls'[q].at # "none"
      PROVE  PollStart(monitorPolls'[q], base', Seen') /\ PollRange(monitorPolls'[q], Seen')
    <2>1. CASE q = p
        <3>1. monitorPolls'[q] = poll
            BY <1>1, <2>1 DEF MonitorInv, MonitorTypeOK
        <3> QED
            BY <3>1, <1>3 DEF PollStart, PollRange, Seen
    <2>2. CASE q # p
        <3>1. monitorPolls'[q] = monitorPolls[q] /\ monitorPolls[q] \in MonitorPoll
            BY <1>1, <2>2 DEF MonitorInv, MonitorTypeOK
        <3>2. PollStart(monitorPolls[q], base, Seen) /\ PollRange(monitorPolls[q], Seen)
            BY <1>3, <3>1 DEF MonitorInv, PollsCovered
        <3>3. PollStart(monitorPolls'[q], base', Seen')
            BY <3>1, <3>2 DEF PollStart, Seen, MonitorPoll, MonitorInv, MonitorTypeOK
        <3>4. PollRange(monitorPolls'[q], Seen')
            BY <3>1, <3>2 DEF PollRange, Seen
        <3> QED
            BY <3>3, <3>4
    <2> QED
        BY <2>1, <2>2
<1> QED
    BY <1>2, <1>3 DEF PollsCovered

LEMMA PollEventsKeeps ==
    ASSUME MonitorInv, NEW p \in PollSlots, PollEvents(p)
    PROVE  MonitorInv'
<1> DEFINE poll == [at |-> "ranged", fresh |-> lastLedger = 0,
                    from |-> IF lastLedger = 0 THEN latest - Lookback ELSE lastLedger,
                    to |-> latest, todo |-> {}]
<1>1. SetPoll(p, poll) /\ UNCHANGED <<latest, lastLedger, checkpoint, alerted, cut, base>>
    BY DEF PollEvents
<1>2. poll \in MonitorPoll
    BY DEF MonitorPoll, MonitorInv, MonitorTypeOK, Lookback
<1>3. PollStart(poll, base', Seen') /\ PollRange(poll, Seen')
    <2>1. CASE lastLedger = 0
        <3>1. poll.from = latest - 1 /\ poll.at = "ranged"
            BY <2>1 DEF Lookback
        <3>2. poll.fresh = TRUE
            BY <2>1, Zenon
        <3> HIDE DEF poll
        <3>3. poll.from > 0
            BY <3>1 DEF MonitorInv, MonitorTypeOK
        <3> QED
            BY <3>1, <3>2, <3>3 DEF PollStart, PollRange
    <2>2. CASE lastLedger # 0
        <3>1. base > 0 /\ \A l \in Nat : base <= l /\ l < lastLedger => l \in Seen
            BY <2>2 DEF MonitorInv, MonitorTypeOK, CheckpointHasBase, CheckpointSeen
        <3>2. ~poll.fresh /\ poll.from = lastLedger /\ poll.at = "ranged"
            BY <2>2
        <3>3. base' = base /\ Seen' = Seen
            BY <1>1 DEF Seen
        <3> HIDE DEF poll
        <3> QED
            BY <3>1, <3>2, <3>3 DEF PollStart, PollRange
    <2> QED
        BY <2>1, <2>2
<1>4. PollsCovered' /\ monitorPolls' \in [PollSlots -> MonitorPoll]
    <2> HIDE DEF poll
    <2> QED
        BY <1>1, <1>2, <1>3, OtherPollsKeep DEF MonitorInv, MonitorTypeOK
<1> QED
    BY <1>1, <1>4 DEF MonitorInv, MonitorTypeOK, CheckpointHasBase, CheckpointSeen, Seen

LEMMA EventsAnsweredKeeps ==
    ASSUME MonitorInv, NEW p \in PollSlots, EventsAnswered(p)
    PROVE  MonitorInv'
<1> DEFINE old == monitorPolls[p]
           page == {l \in old.from .. latest : l < old.from + PageLimit}
           poll == [old EXCEPT !.at = "processing", !.todo = page]
<1>1. /\ SetPoll(p, poll) /\ old.at = "ranged"
      /\ cut' = cut \cup ((old.from .. old.to) \ page)
      /\ UNCHANGED <<latest, lastLedger, checkpoint, alerted, base>>
    BY DEF EventsAnswered
<1>2. old \in MonitorPoll
    BY DEF MonitorInv, MonitorTypeOK
<1>3. /\ poll \in MonitorPoll /\ poll.fresh = old.fresh /\ poll.from = old.from /\ poll.to = old.to
      /\ poll.todo = page
    <2>1. page \subseteq Nat
        BY <1>2 DEF MonitorPoll, MonitorInv, MonitorTypeOK
    <2> HIDE DEF page
    <2> QED
        BY <1>2, <2>1 DEF MonitorPoll
<1>4. PollStart(old, base, Seen)
    BY <1>1 DEF MonitorInv, PollsCovered
<1> HIDE DEF page, poll
<1>5. PollStart(poll, base', Seen')
    BY <1>1, <1>3, <1>4 DEF PollStart, Seen
<1>6. PollRange(poll, Seen')
    BY <1>1, <1>3 DEF PollRange, Seen
<1>7. PollsCovered' /\ monitorPolls' \in [PollSlots -> MonitorPoll]
    BY <1>1, <1>3, <1>5, <1>6, OtherPollsKeep DEF MonitorInv, MonitorTypeOK
<1> QED
    BY <1>1, <1>7 DEF MonitorInv, MonitorTypeOK, CheckpointHasBase, CheckpointSeen, Seen

LEMMA ProcessEventKeeps ==
    ASSUME MonitorInv, NEW p \in PollSlots, ProcessEvent(p)
    PROVE  MonitorInv'
<1> DEFINE old == monitorPolls[p]
           l0 == Min(old.todo)
           poll == [old EXCEPT !.todo = @ \ {l0},
                       !.at = IF activity + 1 >= ActivityThreshold THEN "alerting" ELSE @]
<1>1. /\ SetPoll(p, poll) /\ old.at = "processing" /\ alerted' = alerted \cup {l0}
      /\ UNCHANGED <<latest, lastLedger, checkpoint, cut, base>>
    BY DEF ProcessEvent
<1>2. old \in MonitorPoll
    BY DEF MonitorInv, MonitorTypeOK
<1> HIDE DEF l0
<1>3. /\ poll \in MonitorPoll /\ poll.fresh = old.fresh /\ poll.from = old.from /\ poll.to = old.to
      /\ poll.todo = old.todo \ {l0}
    BY <1>1, <1>2 DEF MonitorPoll
<1>4. PollStart(old, base, Seen) /\ PollRange(old, Seen)
    BY <1>1 DEF MonitorInv, PollsCovered
<1> HIDE DEF poll
<1>5. PollStart(poll, base', Seen')
    BY <1>1, <1>3, <1>4 DEF PollStart, Seen
<1>6. PollRange(poll, Seen')
    BY <1>1, <1>3, <1>4 DEF PollRange, Seen
<1>7. PollsCovered' /\ monitorPolls' \in [PollSlots -> MonitorPoll]
    BY <1>1, <1>3, <1>5, <1>6, OtherPollsKeep DEF MonitorInv, MonitorTypeOK
<1> QED
    BY <1>1, <1>7 DEF MonitorInv, MonitorTypeOK, CheckpointHasBase, CheckpointSeen, Seen

LEMMA ResetActivityKeeps ==
    ASSUME MonitorInv, NEW p \in PollSlots, ResetActivity(p)
    PROVE  MonitorInv'
<1> DEFINE old == monitorPolls[p]
           poll == [old EXCEPT !.at = "processing"]
<1>1. /\ SetPoll(p, poll) /\ old.at = "alerting"
      /\ UNCHANGED <<latest, lastLedger, checkpoint, alerted, cut, base>>
    BY DEF ResetActivity
<1>2. old \in MonitorPoll
    BY DEF MonitorInv, MonitorTypeOK
<1>3. /\ poll \in MonitorPoll /\ poll.fresh = old.fresh /\ poll.from = old.from /\ poll.to = old.to
      /\ poll.todo = old.todo
    BY <1>2 DEF MonitorPoll
<1>4. PollStart(old, base, Seen) /\ PollRange(old, Seen)
    BY <1>1 DEF MonitorInv, PollsCovered
<1> HIDE DEF poll
<1>5. PollStart(poll, base', Seen') /\ PollRange(poll, Seen')
    BY <1>1, <1>3, <1>4 DEF PollStart, PollRange, Seen
<1>6. PollsCovered' /\ monitorPolls' \in [PollSlots -> MonitorPoll]
    BY <1>1, <1>3, <1>5, OtherPollsKeep DEF MonitorInv, MonitorTypeOK
<1> QED
    BY <1>1, <1>6 DEF MonitorInv, MonitorTypeOK, CheckpointHasBase, CheckpointSeen, Seen

LEMMA MoveCheckpointKeeps ==
    ASSUME MonitorInv, NEW p \in PollSlots, NEW saved \in BOOLEAN, MoveCheckpoint(p, saved)
    PROVE  MonitorInv'
<1> DEFINE old == monitorPolls[p]
<1>1. /\ SetPoll(p, NoMonitorPoll) /\ old.at = "processing" /\ old.todo = {}
      /\ lastLedger' = old.to + 1
      /\ checkpoint' = IF saved THEN old.to + 1 ELSE checkpoint
      /\ base' = IF old.fresh THEN Max({base, old.from}) ELSE base
      /\ UNCHANGED <<latest, alerted, cut>>
    BY DEF MoveCheckpoint
<1>2. old \in MonitorPoll /\ base \in Nat /\ old.from \in Nat /\ old.to \in Nat
    BY DEF MonitorInv, MonitorTypeOK, MonitorPoll
<1>3. PollStart(old, base, Seen) /\ PollRange(old, Seen)
    BY <1>1 DEF MonitorInv, PollsCovered
<1>4. base' \in Nat /\ base <= base' /\ base' > 0 /\ (old.fresh => old.from <= base')
    <2>1. CASE old.fresh
        <3>1. base' = Max({base, old.from}) /\ old.from > 0
            BY <1>1, <1>3, <2>1 DEF PollStart
        <3>2. /\ Max({base, old.from}) \in {base, old.from}
              /\ base <= Max({base, old.from}) /\ old.from <= Max({base, old.from})
            BY <1>2, MaxOfTwo
        <3> QED
            BY <1>2, <3>1, <3>2
    <2>2. CASE ~old.fresh
        BY <1>1, <1>2, <1>3, <2>2 DEF PollStart
    <2> QED
        BY <2>1, <2>2
<1>5. NoMonitorPoll \in MonitorPoll /\ NoMonitorPoll.at = "none"
    BY DEF NoMonitorPoll, MonitorPoll
<1>6. PollsCovered' /\ monitorPolls' \in [PollSlots -> MonitorPoll]
    BY <1>1, <1>4, <1>5, OtherPollsKeep
<1>7. ASSUME NEW l \in Nat, base' <= l, l < old.to + 1
      PROVE  l \in Seen
    <2>1. CASE l < old.from
        BY <2>1, <1>1, <1>2, <1>3, <1>4, <1>7 DEF PollStart
    <2>2. CASE old.from <= l
        <3>1. l \in old.from .. old.to
            BY <2>2, <1>2, <1>7
        <3> QED
            BY <3>1, <1>1, <1>3 DEF PollRange
    <2> QED
        BY <2>1, <2>2, <1>2
<1>8. ASSUME NEW l \in Nat, base' <= l, l < checkpoint
      PROVE  l \in Seen
    BY <1>2, <1>4, <1>8 DEF MonitorInv, MonitorTypeOK, CheckpointHasBase, CheckpointSeen
<1>9. CheckpointSeen'
    BY <1>1, <1>2, <1>4, <1>7, <1>8 DEF CheckpointSeen, Seen
<1> QED
    BY <1>1, <1>2, <1>4, <1>6, <1>9 DEF MonitorInv, MonitorTypeOK, CheckpointHasBase

LEMMA MonitorPollFailsKeeps ==
    ASSUME MonitorInv, NEW p \in PollSlots, MonitorPollFails(p)
    PROVE  MonitorInv'
<1>1. /\ SetPoll(p, NoMonitorPoll)
      /\ UNCHANGED <<latest, lastLedger, checkpoint, alerted, cut, base>>
    BY DEF MonitorPollFails
<1>2. NoMonitorPoll \in MonitorPoll /\ NoMonitorPoll.at = "none"
    BY DEF NoMonitorPoll, MonitorPoll
<1>3. PollsCovered' /\ monitorPolls' \in [PollSlots -> MonitorPoll]
    BY <1>1, <1>2, OtherPollsKeep DEF MonitorInv, MonitorTypeOK
<1> QED
    BY <1>1, <1>3 DEF MonitorInv, MonitorTypeOK, CheckpointHasBase, CheckpointSeen, Seen

LEMMA MonitorStep ==
    ASSUME MonitorInv, [MonitorNext]_monitorVars
    PROVE  MonitorInv'
<1>0. NoMonitorPoll \in MonitorPoll /\ NoMonitorPoll.at = "none"
    BY DEF NoMonitorPoll, MonitorPoll
<1>1. CASE \E p \in PollSlots : PollEvents(p)
    BY <1>1, PollEventsKeeps
<1>2. CASE \E p \in PollSlots : EventsAnswered(p)
    BY <1>2, EventsAnsweredKeeps
<1>3. CASE \E p \in PollSlots : ProcessEvent(p)
    BY <1>3, ProcessEventKeeps
<1>4. CASE \E p \in PollSlots : ResetActivity(p)
    BY <1>4, ResetActivityKeeps
<1>5. CASE \E p \in PollSlots : MonitorPollFails(p)
    BY <1>5, MonitorPollFailsKeeps
<1>6. CASE \E p \in PollSlots, saved \in BOOLEAN : MoveCheckpoint(p, saved)
    BY <1>6, MoveCheckpointKeeps
<1>7. CASE ActivityAges \/ UNCHANGED monitorVars
    BY <1>7 DEF ActivityAges, monitorVars, MonitorInv, MonitorTypeOK, CheckpointHasBase,
                CheckpointSeen, PollsCovered, PollStart, PollRange, Seen
<1>8. CASE MonitorRestart
    BY <1>8, <1>0 DEF MonitorRestart, MonitorInv, MonitorTypeOK, CheckpointHasBase,
                CheckpointSeen, PollsCovered, Seen
<1>9. CASE LedgerCloses
    BY <1>9 DEF LedgerCloses, MonitorInv, MonitorTypeOK, CheckpointHasBase,
                CheckpointSeen, PollsCovered, PollStart, PollRange, Seen
<1> QED
    BY <1>1, <1>2, <1>3, <1>4, <1>5, <1>6, <1>7, <1>8, <1>9 DEF MonitorNext

\* ContractMonitor.pollEvents (frontend/lib/monitoring.ts): however its polls fail,
\* restart and overtake each other, what lies between the last look-back and the
\* checkpoint in memory or on disk was processed, or cut from an answer by the RPC.
THEOREM CheckpointCovers == MonitorSpec => []CheckpointCoversProcessed
<1>1. MonitorInit => MonitorInv
    BY DEF MonitorInit, MonitorInv, MonitorTypeOK, CheckpointHasBase, CheckpointSeen,
           PollsCovered, MonitorPoll, NoMonitorPoll
<1>2. MonitorInv => CheckpointCoversProcessed
    BY DEF MonitorInv, MonitorTypeOK, CheckpointSeen, CheckpointCoversProcessed, Seen
<1> QED
    BY <1>1, <1>2, MonitorStep, PTL DEF MonitorSpec

-----------------------------------------------------------------------------
(* The event poller: an event is shown once *)

\* The list of a batch holds its events, each once.
LEMMA ListedOnce ==
    ASSUME NEW S \in SUBSET Nat, IsFiniteSet(S)
    PROVE  LET s == InLedgerOrder(S)
           IN  /\ s \in Seq(Nat)
               /\ \A i \in 1 .. Len(s) : s[i] \in S
               /\ \A i, j \in 1 .. Len(s) : s[i] = s[j] => i = j
<1> DEFINE D == 1 .. Cardinality(S)
           Sorted(s) == \A i, j \in DOMAIN s : i < j => s[i] < s[j]
           t == InLedgerOrder(S)
<1>0. Cardinality(S) \in Nat
    BY FS_CardinalityType
<1>1. PICK r : Ascending(r, S)
    BY OrderExists
<1>2. r \in [D -> S] /\ DOMAIN r = D /\ \A i, j \in D : i < j => r[i] < r[j]
    BY <1>1 DEF Ascending
<1>3. \A i, j \in D : i # j => r[i] # r[j]
    <2> SUFFICES ASSUME NEW i \in D, NEW j \in D, i # j PROVE r[i] # r[j]
        OBVIOUS
    <2>1. r[i] \in Nat /\ r[j] \in Nat
        BY <1>2
    <2>2. i < j \/ j < i
        BY <1>0
    <2> QED
        BY <1>2, <2>1, <2>2
<1>4. r \in SetToSeqs(S) /\ Sorted(r)
    BY <1>2, <1>3 DEF SetToSeqs
<1>5. t \in SetToSeqs(S)
    <2>1. t = CHOOSE s \in SetToSeqs(S) : Sorted(s)
        BY DEF InLedgerOrder
    <2> HIDE DEF Sorted, t
    <2> QED
        BY <1>4, <2>1, Zenon
<1>6. t \in [D -> S] /\ \A i, j \in D : i # j => t[i] # t[j]
    BY <1>5 DEF SetToSeqs
<1> HIDE DEF t
<1>7. t \in [D -> Nat]
    BY <1>6
<1>8. t \in Seq(Nat) /\ Len(t) = Cardinality(S)
    BY <1>0, <1>7
<1> QED
    BY <1>6, <1>8 DEF t

PollRecord == [at : {"none", "fetching", "announcing"}, batch : SUBSET EventIds]

PollTypeOK ==
    /\ published \in SUBSET EventIds /\ IsFiniteSet(published)
    /\ polls \in [1 .. MaxPolls -> PollRecord]
    /\ \A p \in 1 .. MaxPolls : IsFiniteSet(polls[p].batch)
    /\ recentEvents \in Seq(Nat)

\* Whatever is on its way to the list or in it is marked, or was before a stop().
Marked == processed \cup forgotten
AllMarked ==
    /\ \A p \in 1 .. MaxPolls : polls[p].batch \subseteq Marked
    /\ \A i \in 1 .. Len(recentEvents) : recentEvents[i] \in Marked

\* What two polls both carry, or a poll carries although it is in the list, was
\* forgotten in between.
BatchesApart ==
    /\ \A p, r \in 1 .. MaxPolls : p # r => polls[p].batch \cap polls[r].batch \subseteq forgotten
    /\ \A p \in 1 .. MaxPolls : \A i \in 1 .. Len(recentEvents) :
          recentEvents[i] \in polls[p].batch => recentEvents[i] \in forgotten

PollInv == PollTypeOK /\ AllMarked /\ BatchesApart /\ ShownAgainOnlyAfterStop

\* A step after which no poll carries anything new.
NothingCarried ==
    /\ polls' \in [1 .. MaxPolls -> PollRecord]
    /\ \A p \in 1 .. MaxPolls : polls'[p].batch = polls[p].batch \/ polls'[p].batch = {}

\* If in such a step what was marked or forgotten stays so, all is well.
LEMMA NothingFetched ==
    ASSUME PollInv, published' \in SUBSET EventIds, IsFiniteSet(published'),
           NothingCarried, Marked \subseteq Marked', forgotten \subseteq forgotten', recentEvents' = recentEvents
    PROVE  PollInv'
<1> USE DEF PollInv, NothingCarried
<1>1. PollTypeOK'
    BY FS_EmptySet DEF PollTypeOK
<1>2. AllMarked'
    <2> HIDE DEF PollInv
    <2>1. AllMarked
        BY DEF PollInv
    <2> QED
        BY <2>1 DEF AllMarked
<1>3. BatchesApart'
    BY DEF BatchesApart
<1>4. ShownAgainOnlyAfterStop'
    BY DEF ShownAgainOnlyAfterStop
<1> QED
    BY <1>1, <1>2, <1>3, <1>4

LEMMA NewPoll ==
    ASSUME PollTypeOK, FreePolls # {}, polls' = WithPoll
    PROVE  NothingCarried
<1> DEFINE f == CHOOSE p \in FreePolls : TRUE
           n == [at |-> "fetching", batch |-> {}]
<1>1. f \in 1 .. MaxPolls
    BY DEF FreePolls
<1>2. polls' = [polls EXCEPT ![f] = n]
    BY DEF WithPoll
<1>3. n \in PollRecord /\ n.batch = {}
    BY DEF PollRecord
<1> HIDE DEF f, n
<1> QED
    BY <1>1, <1>2, <1>3 DEF PollTypeOK, NothingCarried

LEMMA PollEnds ==
    ASSUME PollTypeOK, NEW r \in 1 .. MaxPolls, polls' = [polls EXCEPT ![r] = NoPoll]
    PROVE  NothingCarried
<1>1. NoPoll \in PollRecord /\ NoPoll.batch = {}
    BY DEF PollRecord, NoPoll
<1> QED
    BY <1>1 DEF PollTypeOK, NothingCarried

LEMMA PollsKept ==
    ASSUME PollTypeOK, polls' = polls
    PROVE  NothingCarried
BY DEF PollTypeOK, NothingCarried

\* The effects of mounted components and the timers.
LEMMA ServiceStepKeeps ==
    ASSUME PollInv,
           \/ \E c \in Components : Unmount(c) \/ \E r \in Roles : Mount(c, r) \/ ChangeRole(c, r)
           \/ IntervalTick \/ HidePage \/ ShowPage
    PROVE  PollInv'
<1>1. PollTypeOK /\ published \in SUBSET EventIds /\ IsFiniteSet(published)
    BY DEF PollInv, PollTypeOK
<1>2. /\ published' = published /\ recentEvents' = recentEvents
      /\ \/ UNCHANGED <<processed, forgotten>>
         \/ processed' = {} /\ forgotten' = forgotten \cup processed
      /\ \/ polls' = polls
         \/ FreePolls # {} /\ polls' = WithPoll
    <2>1. CASE \E c \in Components : Unmount(c)
        BY <2>1 DEF Unmount, Stop
    <2>2. CASE \E c \in Components, r \in Roles : Mount(c, r)
        BY <2>2 DEF Mount, Start
    <2>3. CASE \E c \in Components, r \in Roles : ChangeRole(c, r)
        BY <2>3 DEF ChangeRole, Start
    <2>4. CASE IntervalTick \/ HidePage \/ ShowPage
        BY <2>4 DEF IntervalTick, HidePage, ShowPage
    <2> QED
        BY <2>1, <2>2, <2>3, <2>4
<1>3. NothingCarried
    BY <1>1, <1>2, NewPoll, PollsKept
<1>4. Marked \subseteq Marked' /\ forgotten \subseteq forgotten'
    BY <1>2 DEF Marked
<1>5. published' \in SUBSET EventIds /\ IsFiniteSet(published')
    BY <1>1, <1>2
<1> QED
    BY <1>2, <1>3, <1>4, <1>5, NothingFetched

LEMMA PollStopsKeeps ==
    ASSUME PollInv, NEW p \in 1 .. MaxPolls, FetchFailed(p) \/ AnnounceFails(p)
    PROVE  PollInv'
<1>1. /\ polls' = [polls EXCEPT ![p] = NoPoll]
      /\ UNCHANGED <<published, processed, recentEvents, forgotten>>
    BY DEF FetchFailed, AnnounceFails
<1>2. NothingCarried
    BY <1>1, PollEnds DEF PollInv
<1>3. /\ Marked \subseteq Marked' /\ forgotten \subseteq forgotten'
      /\ published' \in SUBSET EventIds /\ IsFiniteSet(published')
    BY <1>1 DEF Marked, PollInv, PollTypeOK
<1> QED
    BY <1>1, <1>2, <1>3, NothingFetched

LEMMA ChainStepKeeps ==
    ASSUME PollInv, NEW e \in EventIds, Emit(e) \/ LeaveRange(e)
    PROVE  PollInv'
<1>1. /\ published' = published \cup {e} \/ published' = published \ {e}
      /\ UNCHANGED <<polls, processed, recentEvents, forgotten>>
    BY DEF Emit, LeaveRange
<1>2. NothingCarried
    BY <1>1, PollsKept DEF PollInv
<1>3. published' \in SUBSET EventIds /\ IsFiniteSet(published')
    <2>1. published \in SUBSET EventIds /\ IsFiniteSet(published)
        BY DEF PollInv, PollTypeOK
    <2>2. IsFiniteSet(published \cup {e}) /\ IsFiniteSet(published \ {e})
        BY <2>1, FS_AddElement, FS_RemoveElement
    <2> QED
        BY <1>1, <2>1, <2>2
<1>4. Marked \subseteq Marked' /\ forgotten \subseteq forgotten'
    BY <1>1 DEF Marked
<1> QED
    BY <1>1, <1>2, <1>3, <1>4, NothingFetched

\* What a poll takes is not marked, so nobody else carries it and the list does not
\* have it, unless it was forgotten; and it is marked in the same step.
LEMMA FetchKeeps ==
    ASSUME PollInv, NEW p \in 1 .. MaxPolls, FetchNewEvents(p)
    PROVE  PollInv'
<1> DEFINE new == published \ processed
           shown == {e \in new : TypeOf(e) \in RoleEventFilters[role]}
           poll == IF shown = {} THEN NoPoll ELSE [at |-> "announcing", batch |-> shown]
<1>1. /\ processed' = processed \cup new /\ polls' = [polls EXCEPT ![p] = poll]
      /\ published' = published /\ recentEvents' = recentEvents /\ forgotten' = forgotten
    BY DEF FetchNewEvents
<1>2. PollTypeOK /\ AllMarked /\ BatchesApart /\ ShownAgainOnlyAfterStop
    BY DEF PollInv
<1>3. /\ published \in SUBSET EventIds /\ IsFiniteSet(published)
      /\ polls \in [1 .. MaxPolls -> PollRecord] /\ recentEvents \in Seq(Nat)
      /\ \A r \in 1 .. MaxPolls : IsFiniteSet(polls[r].batch)
    BY <1>2 DEF PollTypeOK
<1>4. /\ shown \subseteq published /\ shown \subseteq processed'
      /\ shown \cap processed = {}
    BY <1>1
<1>5. poll \in PollRecord /\ poll.batch = shown
    <2>1. shown \in SUBSET EventIds
        BY <1>3, <1>4
    <2> HIDE DEF shown
    <2> QED
        BY <2>1 DEF PollRecord, NoPoll
<1>6. IsFiniteSet(shown)
    <2> HIDE DEF shown
    <2> QED
        BY <1>3, <1>4, FS_Subset
<1> HIDE DEF shown, poll, new
<1>7. /\ polls' \in [1 .. MaxPolls -> PollRecord]
      /\ polls'[p].batch = shown
      /\ \A r \in (1 .. MaxPolls) \ {p} : polls'[r].batch = polls[r].batch
    BY <1>1, <1>3, <1>5
<1>8. PollTypeOK'
    BY <1>1, <1>3, <1>6, <1>7 DEF PollTypeOK
<1>9. Marked \subseteq Marked' /\ shown \subseteq Marked' /\ shown \cap Marked \subseteq forgotten
    BY <1>1, <1>4 DEF Marked
<1>10. AllMarked'
    <2>1. \A r \in 1 .. MaxPolls : polls'[r].batch \subseteq Marked'
        <3> SUFFICES ASSUME NEW r \in 1 .. MaxPolls PROVE polls'[r].batch \subseteq Marked'
            OBVIOUS
        <3>1. CASE r = p
            BY <1>7, <1>9, <3>1
        <3>2. CASE r # p
            BY <1>2, <1>7, <1>9, <3>2 DEF AllMarked
        <3> QED
            BY <3>1, <3>2
    <2>2. \A i \in 1 .. Len(recentEvents) : recentEvents[i] \in Marked'
        BY <1>2, <1>9 DEF AllMarked
    <2> QED
        BY <1>1, <2>1, <2>2 DEF AllMarked
<1>11. BatchesApart'
    <2>1. \A r \in (1 .. MaxPolls) \ {p} : polls[r].batch \cap shown \subseteq forgotten
        BY <1>2, <1>9 DEF AllMarked
    <2>2. \A i \in 1 .. Len(recentEvents) : recentEvents[i] \in shown => recentEvents[i] \in forgotten
        BY <1>2, <1>9 DEF AllMarked
    <2>3. /\ \A r, s \in 1 .. MaxPolls : r # s => polls[r].batch \cap polls[s].batch \subseteq forgotten
          /\ \A r \in 1 .. MaxPolls : \A i \in 1 .. Len(recentEvents) :
                recentEvents[i] \in polls[r].batch => recentEvents[i] \in forgotten
        BY <1>2 DEF BatchesApart
    <2>4. ASSUME NEW r \in 1 .. MaxPolls, NEW s \in 1 .. MaxPolls, r # s
          PROVE  polls'[r].batch \cap polls'[s].batch \subseteq forgotten'
        <3>1. CASE r = p
            BY <1>1, <1>7, <2>1, <2>4, <3>1
        <3>2. CASE s = p
            BY <1>1, <1>7, <2>1, <2>4, <3>2
        <3>3. CASE r # p /\ s # p
            BY <1>1, <1>7, <2>3, <2>4, <3>3
        <3> QED
            BY <3>1, <3>2, <3>3
    <2>5. ASSUME NEW r \in 1 .. MaxPolls, NEW i \in 1 .. Len(recentEvents),
                 recentEvents[i] \in polls'[r].batch
          PROVE  recentEvents[i] \in forgotten
        <3>1. CASE r = p
            BY <1>7, <2>2, <2>5, <3>1
        <3>2. CASE r # p
            BY <1>7, <2>3, <2>5, <3>2
        <3> QED
            BY <3>1, <3>2
    <2> QED
        BY <1>1, <2>4, <2>5 DEF BatchesApart
<1>12. ShownAgainOnlyAfterStop'
    BY <1>1, <1>2 DEF ShownAgainOnlyAfterStop
<1> QED
    BY <1>8, <1>10, <1>11, <1>12 DEF PollInv

\* A batch is listed once, none of it was in the list unless it was forgotten, and
\* cutting the list at its end adds nothing.
LEMMA StoreKeeps ==
    ASSUME PollInv, NEW p \in 1 .. MaxPolls, UpdateStore(p)
    PROVE  PollInv'
<1> DEFINE batch == polls[p].batch
           s == InLedgerOrder(batch)
           all == s \o recentEvents
           n == IF Len(all) > HistoryLimit THEN HistoryLimit ELSE Len(all)
<1>1. /\ recentEvents' = SubSeq(all, 1, n) /\ polls' = [polls EXCEPT ![p] = NoPoll]
      /\ UNCHANGED <<published, processed, forgotten>>
    BY DEF UpdateStore
<1>2. PollTypeOK /\ AllMarked /\ BatchesApart /\ ShownAgainOnlyAfterStop
    BY DEF PollInv
<1>3. /\ published \in SUBSET EventIds /\ IsFiniteSet(published)
      /\ polls \in [1 .. MaxPolls -> PollRecord] /\ recentEvents \in Seq(Nat)
      /\ \A r \in 1 .. MaxPolls : IsFiniteSet(polls[r].batch)
    BY <1>2 DEF PollTypeOK
<1>4. batch \in SUBSET Nat /\ IsFiniteSet(batch)
    BY <1>3, PollAssumption DEF PollRecord
<1>5. /\ s \in Seq(Nat)
      /\ \A i \in 1 .. Len(s) : s[i] \in batch
      /\ \A i, j \in 1 .. Len(s) : s[i] = s[j] => i = j
    BY <1>4, ListedOnce
<1> HIDE DEF s
<1> DEFINE k == Len(s)
           m == Len(recentEvents)
<1>6. k \in Nat /\ m \in Nat
    BY <1>3, <1>5, LenProperties
<1>7. /\ all \in Seq(Nat) /\ Len(all) = k + m
      /\ \A i \in 1 .. k + m : all[i] = IF i <= k THEN s[i] ELSE recentEvents[i - k]
    BY <1>3, <1>5, ConcatProperties
<1> HIDE DEF k, m, all
<1>8. n \in 0 .. k + m
    BY <1>6, <1>7, PollAssumption
<1> HIDE DEF n
<1>9. /\ recentEvents' \in Seq(Nat) /\ Len(recentEvents') = n
      /\ \A i \in 1 .. n : i \in 1 .. k + m /\ recentEvents'[i] = all[i]
    <2>1. \A i \in 1 .. n : i \in 1 .. k + m /\ all[i] \in Nat
        BY <1>6, <1>7, <1>8, ElementOfSeq
    <2>2. SubSeq(all, 1, n) \in Seq(Nat) /\ Len(SubSeq(all, 1, n)) = IF 1 <= n THEN n - 1 + 1 ELSE 0
        BY <1>6, <1>8, <2>1, SubSeqProperties
    <2>3. \A i \in 1 .. n - 1 + 1 : SubSeq(all, 1, n)[i] = all[1 + i - 1]
        BY <1>6, <1>8, <2>1, SubSeqProperties
    <2>4. n \in Nat
        BY <1>6, <1>8
    <2>5. \A i \in 1 .. n : i \in 1 .. n - 1 + 1 /\ 1 + i - 1 = i
        BY <2>4
    <2>6. \A i \in 1 .. n : SubSeq(all, 1, n)[i] = all[i]
        BY <2>3, <2>5
    <2>7. Len(SubSeq(all, 1, n)) = n
        BY <2>2, <2>4
    <2> QED
        BY <1>1, <2>1, <2>2, <2>6, <2>7
\* An entry of the new list comes from the batch or from the old list.
<1>10. ASSUME NEW i \in 1 .. n
       PROVE  \/ i \in 1 .. k /\ recentEvents'[i] = s[i] /\ s[i] \in batch
              \/ i - k \in 1 .. m /\ recentEvents'[i] = recentEvents[i - k]
    <2>1. i \in 1 .. k + m /\ recentEvents'[i] = all[i]
        BY <1>9
    <2>2. CASE i <= k
        <3>1. i \in 1 .. k
            BY <1>6, <2>1, <2>2
        <3>2. recentEvents'[i] = s[i]
            BY <1>7, <2>1, <2>2
        <3> QED
            BY <1>5, <3>1, <3>2 DEF k
    <2>3. CASE ~(i <= k)
        <3>1. i - k \in 1 .. m
            BY <1>6, <2>1, <2>3
        <3>2. recentEvents'[i] = recentEvents[i - k]
            BY <1>7, <2>1, <2>3
        <3> QED
            BY <3>1, <3>2
    <2> QED
        BY <2>2, <2>3
<1>11. NothingCarried /\ polls'[p].batch = {}
    <2>1. polls'[p] = NoPoll
        BY <1>1, <1>3
    <2>2. NothingCarried
        BY <1>1, <1>2, PollEnds
    <2>3. polls'[p].batch = {}
        BY <2>1 DEF NoPoll
    <2> QED
        BY <2>2, <2>3
<1>12. /\ \A r \in (1 .. MaxPolls) \ {p} : polls'[r].batch = polls[r].batch
       /\ Marked' = Marked /\ forgotten' = forgotten
    BY <1>1, <1>3 DEF Marked
<1>13. /\ \A r, t \in 1 .. MaxPolls : r # t => polls[r].batch \cap polls[t].batch \subseteq forgotten
       /\ \A r \in 1 .. MaxPolls : \A i \in 1 .. m :
             recentEvents[i] \in polls[r].batch => recentEvents[i] \in forgotten
       /\ \A r \in 1 .. MaxPolls : polls[r].batch \subseteq Marked
       /\ \A i \in 1 .. m : recentEvents[i] \in Marked
    BY <1>2 DEF BatchesApart, AllMarked, m
<1> HIDE DEF batch
<1>14. PollTypeOK'
    <2>1. \A r \in 1 .. MaxPolls : IsFiniteSet(polls'[r].batch)
        BY <1>3, <1>11, FS_EmptySet DEF NothingCarried
    <2> QED
        BY <1>1, <1>3, <1>9, <1>11, <2>1 DEF PollTypeOK, NothingCarried
<1>15. AllMarked'
    <2>1. \A r \in 1 .. MaxPolls : polls'[r].batch \subseteq Marked'
        BY <1>11, <1>12, <1>13 DEF NothingCarried
    <2>2. \A i \in 1 .. n : recentEvents'[i] \in Marked'
        BY <1>10, <1>12, <1>13 DEF batch
    <2> QED
        BY <1>9, <2>1, <2>2 DEF AllMarked
<1>16. BatchesApart'
    <2>1. ASSUME NEW r \in 1 .. MaxPolls, NEW t \in 1 .. MaxPolls, r # t
          PROVE  polls'[r].batch \cap polls'[t].batch \subseteq forgotten'
        BY <1>11, <1>12, <1>13, <2>1 DEF NothingCarried
    <2>2. ASSUME NEW r \in 1 .. MaxPolls, NEW i \in 1 .. n, recentEvents'[i] \in polls'[r].batch
          PROVE  recentEvents'[i] \in forgotten'
        <3>1. r # p /\ polls'[r].batch = polls[r].batch
            BY <1>11, <1>12, <2>2
        <3>2. CASE recentEvents'[i] \in batch
            BY <1>12, <1>13, <2>2, <3>1, <3>2 DEF batch
        <3>3. CASE i - k \in 1 .. m /\ recentEvents'[i] = recentEvents[i - k]
            BY <1>12, <1>13, <2>2, <3>1, <3>3
        <3> QED
            BY <1>10, <3>2, <3>3
    <2> QED
        BY <1>9, <2>1, <2>2 DEF BatchesApart
<1>17. ShownAgainOnlyAfterStop'
    <2> SUFFICES ASSUME NEW i \in 1 .. n, NEW j \in 1 .. n, i # j,
                        recentEvents'[i] = recentEvents'[j]
                 PROVE  recentEvents'[i] \in forgotten
        BY <1>9, <1>12 DEF ShownAgainOnlyAfterStop
    <2>1. CASE recentEvents'[i] \in batch /\ j - k \in 1 .. m /\ recentEvents'[j] = recentEvents[j - k]
        BY <1>13, <2>1 DEF batch
    <2>2. CASE recentEvents'[j] \in batch /\ i - k \in 1 .. m /\ recentEvents'[i] = recentEvents[i - k]
        BY <1>13, <2>2 DEF batch
    <2>3. CASE i \in 1 .. k /\ j \in 1 .. k /\ recentEvents'[i] = s[i] /\ recentEvents'[j] = s[j]
        BY <1>5, <2>3 DEF k
    <2>4. CASE /\ i - k \in 1 .. m /\ recentEvents'[i] = recentEvents[i - k]
               /\ j - k \in 1 .. m /\ recentEvents'[j] = recentEvents[j - k]
        <3>1. i - k # j - k
            BY <1>6, <1>8
        <3> QED
            BY <1>2, <2>4, <3>1 DEF ShownAgainOnlyAfterStop, m
    <2> QED
        BY <1>10, <2>1, <2>2, <2>3, <2>4
<1> QED
    BY <1>14, <1>15, <1>16, <1>17 DEF PollInv

LEMMA PollStep ==
    ASSUME PollInv, [PollNext]_pollVars
    PROVE  PollInv'
<1>1. CASE \/ \E c \in Components : Unmount(c) \/ \E r \in Roles : Mount(c, r) \/ ChangeRole(c, r)
           \/ IntervalTick \/ HidePage \/ ShowPage
    BY <1>1, ServiceStepKeeps
<1>2. CASE \E p \in 1 .. MaxPolls : FetchNewEvents(p)
    BY <1>2, FetchKeeps
<1>3. CASE \E p \in 1 .. MaxPolls : FetchFailed(p) \/ AnnounceFails(p)
    BY <1>3, PollStopsKeeps
<1>4. CASE \E p \in 1 .. MaxPolls : UpdateStore(p)
    BY <1>4, StoreKeeps
<1>5. CASE \E e \in EventIds : Emit(e) \/ LeaveRange(e)
    BY <1>5, ChainStepKeeps
<1>6. CASE UNCHANGED pollVars
    BY <1>6 DEF pollVars, PollInv, PollTypeOK, AllMarked, BatchesApart, Marked,
                ShownAgainOnlyAfterStop
<1> QED
    BY <1>1, <1>2, <1>3, <1>4, <1>5, <1>6 DEF PollNext

\* SseEventsService (frontend/lib/sse-events.ts): however many polls overlap, outlive a
\* stop() or fail, an event is in the list twice only if a stop() made the service
\* forget that it had processed it.
THEOREM ShownOnce == PollSpec => []ShownAgainOnlyAfterStop
<1>1. PollInit => PollInv
    <2> SUFFICES ASSUME PollInit PROVE PollInv
        OBVIOUS
    <2>1. /\ published = {} /\ polls = [p \in 1 .. MaxPolls |-> NoPoll] /\ recentEvents = <<>>
        BY DEF PollInit
    <2>2. NoPoll \in PollRecord /\ NoPoll.batch = {}
        BY DEF NoPoll, PollRecord
    <2>3. \A p \in 1 .. MaxPolls : polls[p].batch = {}
        BY <2>1, <2>2
    <2>4. polls \in [1 .. MaxPolls -> PollRecord]
        BY <2>1, <2>2
    <2>5. recentEvents \in Seq(Nat) /\ 1 .. Len(recentEvents) = {}
        BY <2>1, EmptySeq
    <2>6. PollTypeOK
        BY <2>1, <2>3, <2>4, <2>5, FS_EmptySet DEF PollTypeOK
    <2>7. AllMarked /\ BatchesApart /\ ShownAgainOnlyAfterStop
        BY <2>3, <2>5 DEF AllMarked, BatchesApart, ShownAgainOnlyAfterStop
    <2> QED
        BY <2>6, <2>7 DEF PollInv
<1>2. PollInv => ShownAgainOnlyAfterStop
    BY DEF PollInv
<1> QED
    BY <1>1, <1>2, PollStep, PTL DEF PollSpec

-----------------------------------------------------------------------------
(* The compliance service: structuring raises an alert *)

\* As long as no reset threw newer deposits away, the list of ticks holds all the
\* deposits no alert has told of.
UnalertedAreTicks == unalerted <= tickList /\ unalerted < StructuringMaxCount

ComplianceInv ==
    /\ flagging \in [structuring : Nat, rapid : Nat]
    /\ tickList \in Nat /\ unalerted \in Nat /\ discarded \in BOOLEAN
    /\ ~discarded => UnalertedAreTicks

LEMMA RecordDepositKeeps ==
    ASSUME ComplianceInv, NEW from \in {"poll", "route"}, RecordDeposit(from)
    PROVE  ComplianceInv'
<1> DEFINE n == Min({tickList + 1, StructuringMaxCount})
<1>0. StructuringMaxCount \in Nat \ {0}
    BY ComplianceAssumption
<1>1. n = IF tickList + 1 <= StructuringMaxCount THEN tickList + 1 ELSE StructuringMaxCount
    BY <1>0, MinOfTwo DEF ComplianceInv
<1>2. tickList' = n /\ n \in Nat /\ discarded' = discarded
    BY <1>0, <1>1 DEF RecordDeposit, ComplianceInv
<1>3. CASE Suspicious(n)
    <2>1. flagging' = [flagging EXCEPT !["structuring"] = @ + 1] /\ unalerted' = 0
        BY <1>3 DEF RecordDeposit, Raise
    <2>2. flagging' \in [structuring : Nat, rapid : Nat]
        BY <2>1 DEF ComplianceInv
    <2> HIDE DEF n
    <2> QED
        BY <1>0, <1>2, <2>1, <2>2 DEF ComplianceInv, UnalertedAreTicks
<1>4. CASE ~Suspicious(n)
    <2>1. unalerted' = unalerted + 1 /\ UNCHANGED flagging
        BY <1>4 DEF RecordDeposit
    <2>2. tickList' = tickList + 1 /\ tickList + 1 < StructuringMaxCount
        BY <1>0, <1>1, <1>2, <1>4 DEF Suspicious, ComplianceInv
    <2> HIDE DEF n
    <2> QED
        BY <1>0, <1>2, <2>1, <2>2 DEF ComplianceInv, UnalertedAreTicks
<1> QED
    BY <1>3, <1>4

LEMMA FlagDoneKeeps ==
    ASSUME ComplianceInv, NEW kind \in {"structuring", "rapid"}, NEW sent \in BOOLEAN,
           FlagDone(kind, sent)
    PROVE  ComplianceInv'
<1>0. StructuringMaxCount \in Nat \ {0}
    BY ComplianceAssumption
<1>1. /\ flagging[kind] > 0 /\ flagging' = [flagging EXCEPT ![kind] = @ - 1]
      /\ tickList' = IF kind = "structuring" THEN 0 ELSE tickList
      /\ unalerted' = unalerted
    BY DEF FlagDone, InFlight
<1>2. discarded' \in BOOLEAN
    BY Zenon DEF FlagDone
<1>3. ~discarded' => ~discarded /\ (kind = "structuring" => ~(unalerted > 0))
    BY Zenon DEF FlagDone
<1>4. flagging' \in [structuring : Nat, rapid : Nat]
    BY <1>1 DEF ComplianceInv
<1>5. ~discarded' => UnalertedAreTicks'
    BY <1>0, <1>1, <1>3 DEF ComplianceInv, UnalertedAreTicks
<1> QED
    BY <1>1, <1>2, <1>4, <1>5 DEF ComplianceInv

LEMMA ComplianceStep ==
    ASSUME ComplianceInv, [ComplianceNext]_complianceVars
    PROVE  ComplianceInv'
<1>0. StructuringMaxCount \in Nat \ {0}
    BY ComplianceAssumption
<1>1. CASE UNCHANGED watchVars
    BY <1>1 DEF watchVars, ComplianceInv, UnalertedAreTicks
<1>2. CASE WindowPasses
    BY <1>0, <1>2 DEF WindowPasses, ComplianceInv, UnalertedAreTicks
<1>3. CASE RecordWithdraw
    BY <1>3 DEF RecordWithdraw, Raise, ComplianceInv, UnalertedAreTicks
<1>4. CASE ServiceRestarts
    BY <1>0, <1>4 DEF ServiceRestarts, ComplianceInv, UnalertedAreTicks
<1>5. CASE \E from \in {"poll", "route"} : RecordDeposit(from)
    BY <1>5, RecordDepositKeeps
<1>6. CASE \E kind \in {"structuring", "rapid"}, sent \in BOOLEAN : FlagDone(kind, sent)
    BY <1>6, FlagDoneKeeps
<1>7. CASE \/ TimePasses \/ ScreeningFails \/ ScreenSimulated \/ ScreenApplied
           \/ RescreenDue \/ RescreenScreens \/ RescreenSimulated \/ RescreenApplied
           \/ (\E override \in Decisions \cup {"none"} : PostScreen(override))
    <2>1. UNCHANGED watchVars
        BY <1>7 DEF TimePasses, ScreeningFails, ScreenSimulated, ScreenApplied, RescreenDue,
                    RescreenScreens, RescreenSimulated, RescreenApplied, PostScreen
    <2> QED
        BY <1>1, <2>1
<1>8. CASE UNCHANGED complianceVars
    BY <1>1, <1>8 DEF complianceVars, watchVars
<1> QED
    BY <1>2, <1>3, <1>4, <1>5, <1>6, <1>7, <1>8 DEF ComplianceNext

\* recordDeposit (compliance-service/src/monitor.ts): as many sub-threshold deposits
\* as the configuration names are never left without an alert, whatever requests are
\* in flight from the poll loop and the routes, unless a late reset threw some away.
THEOREM StructuringFlagged == ComplianceSpec => []StructuringIsFlagged
<1>0. StructuringMaxCount \in Nat \ {0}
    BY ComplianceAssumption
<1>1. ComplianceInit => ComplianceInv
    <2> SUFFICES ASSUME ComplianceInit PROVE ComplianceInv
        OBVIOUS
    <2>1. flagging = [structuring |-> 0, rapid |-> 0] /\ tickList = 0 /\ unalerted = 0
        BY DEF ComplianceInit
    <2>2. discarded \in BOOLEAN
        BY Zenon DEF ComplianceInit
    <2> QED
        BY <1>0, <2>1, <2>2 DEF ComplianceInv, UnalertedAreTicks
<1>2. ComplianceInv => StructuringIsFlagged
    BY <1>0 DEF ComplianceInv, UnalertedAreTicks, StructuringIsFlagged
<1> QED
    BY <1>1, <1>2, ComplianceStep, PTL DEF ComplianceSpec
=============================================================================
