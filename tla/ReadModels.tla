---------------------------- MODULE ReadModels ------------------------------
(***************************************************************************)
(* The indexer's query API (indexer/src/api.ts): handlers that rebuild the *)
(* state of a contract object from the events table.  A run follows one    *)
(* object; the rows carry, as history, the state the contract was in after *)
(* the event.  While a handler reads the table page by page, newest ledger *)
(* first, the poll loop appends rows and may roll ledgers back.            *)
(***************************************************************************)
EXTENDS Naturals, FiniteSets, FiniteSetsExt

CONSTANTS
    ReplayPage,      \* rows a page of getAllEvents holds (500)
    QueryLimit,      \* rows the handlers without paging ask for
    MaxReplay,       \* MAX_REPLAY_EVENTS
    MaxEvents        \* bound: events of a behaviour

ASSUME ReadAssumption ==
    /\ ReplayPage \in Nat \ {0} /\ QueryLimit \in Nat
    /\ MaxReplay \in Nat /\ MaxEvents \in Nat

VARIABLES
    family,      \* which kind of object the run follows
    rows,        \* the events table: [n, ledger, event, yes, state]
    emitted,     \* events so far, counting the rolled back
    expired,     \* an attestation's expires_at has passed
    query,       \* [at, offset, got]: the handler that is running
    answer,      \* its answer
    seenStates,  \* history: states of the object while the handler ran
    disturbed    \* history: a rollback between its pages, or rows that share a ledger

readVars == <<family, rows, emitted, expired, query, answer, seenStates, disturbed>>

Step(from, event, yes, to) == [from |-> from, event |-> event, yes |-> yes, to |-> to]

\* What the contracts publish, and the state they are in afterwards.  "other" is a
\* row of the same contract about another object.
RoundEvents ==
    {Step("none", "cf_open", TRUE, "Open"), Step("Open", "cf_commit", TRUE, "Open"),
     Step("Open", "cf_wthdw", TRUE, "Open"), Step("Open", "cf_fin", TRUE, "Filled"),
     Step("Open", "cf_exp", TRUE, "Expired"), Step("Open", "cf_cncl", TRUE, "Cancelled")}
OracleEvents ==
    {Step(s, "rnd_open", TRUE, "Open") : s \in {"none", "Expired"}} \cup
    {Step("Open", "voted", TRUE, "Open"), Step("Open", "rnd_exp", TRUE, "Expired"),
     Step("Open", "consensus", TRUE, "ConsensusApproved"),
     Step("Open", "consensus", FALSE, "ConsensusRejected"),
     Step("Expired", "fallback", TRUE, "ConsensusApproved"),
     Step("Expired", "fallback", FALSE, "ConsensusRejected")}
AttestationEvents ==
    {Step("none", "att_sub", TRUE, "Active"), Step("Active", "att_disp", TRUE, "Disputed"),
     Step("Disputed", "att_res", TRUE, "Active"), Step("Disputed", "att_res", FALSE, "Revoked")}
ListingEvents ==
    {Step("none", "lst_open", TRUE, "Open"), Step("Open", "lst_cncl", TRUE, "Closed"),
     Step("Open", "lst_buy", TRUE, "Closed")}
OrderEvents ==
    {Step("none", "ord_open", TRUE, "Open"), Step("Open", "ord_fill", TRUE, "Open"),
     Step("Open", "ord_fill", TRUE, "Filled"), Step("Open", "ord_cncl", TRUE, "Closed"),
     Step("Open", "ord_exp", TRUE, "Closed")}
\* An address that committed, listed or ordered once, or owns an invoice.
MentionEvents == {Step(s, "named", TRUE, "Named") : s \in {"none", "Named"}}
\* yes: the payload's text happens to contain the status a search asks for.
InvoiceEvents ==
    UNION {{Step("none", "created", text, "created"), Step("created", "funded", text, "funded"),
            Step("funded", "paid", text, "paid")} : text \in BOOLEAN}

Published ==
    [round |-> RoundEvents, oracle |-> OracleEvents, attestation |-> AttestationEvents,
     listing |-> ListingEvents, order |-> OrderEvents, mention |-> MentionEvents,
     owned |-> MentionEvents, search |-> InvoiceEvents, statusSearch |-> InvoiceEvents]
Families == DOMAIN Published

Newest(set) == CHOOSE r \in set : \A q \in set : q.n <= r.n
LastState == IF rows = {} THEN "none" ELSE Newest(rows).state
\* maybe_expire_attestation turns an active attestation into an expired one, at the
\* first call that meets it after expires_at and without an event.
State == IF expired /\ LastState = "Active" THEN "Expired" ELSE LastState
NoQuery == [at |-> "idle", offset |-> 0, got |-> {}]

ReadInit ==
    /\ family \in Families
    /\ rows = {} /\ emitted = 0 /\ expired = FALSE /\ query = NoQuery /\ answer = "none"
    /\ seenStates = {} /\ disturbed = FALSE

-----------------------------------------------------------------------------
(* What the handlers make of the rows they have read *)

Ours(got) == {r \in got : r.event # "other"}

\* Mutant: without the sort the newest rows come first.
FirstInOrder(set) == {r \in set : \A q \in set : q.ledger >= r.ledger}
\* The rows in ledger order: .sort((a, b) => a.ledgerSequence - b.ledgerSequence)
\* keeps rows of one ledger in the order the database gave them, which is any.
LastInOrder(set) == {r \in set : \A q \in set : q.ledger <= r.ledger}

\* The statuses of a round, an attestation: the last event that sets one decides.
StatusOf(r) ==
    CASE r.event \in {"cf_open", "rnd_open"}                    -> "Open"
      [] r.event = "cf_fin"                                     -> "Filled"
      [] r.event \in {"cf_exp", "rnd_exp"}                      -> "Expired"
      [] r.event = "cf_cncl"                                    -> "Cancelled"
      [] r.event \in {"consensus", "fallback"} /\ r.yes         -> "ConsensusApproved"
      [] r.event \in {"consensus", "fallback"} /\ ~r.yes        -> "ConsensusRejected"
      [] r.event = "att_sub" \/ (r.event = "att_res" /\ r.yes)  -> "Active"
      [] r.event = "att_disp"                                   -> "Disputed"
      [] r.event = "att_res" /\ ~r.yes                          -> "Revoked"
      [] OTHER                                                  -> "none"
LastDecides(got) ==
    LET deciding == {r \in Ours(got) : StatusOf(r) # "none"}
    IN  IF Ours(got) = {} THEN {"not found"}
        ELSE IF deciding = {} THEN {"Unknown"}
        ELSE {StatusOf(r) : r \in LastInOrder(deciding)}
\* Attestations are found by their att_sub; without it there is nothing to list.
AttestationStatus(got) ==
    IF \E r \in got : r.event = "att_sub" THEN LastDecides(got) ELSE {"not found"}

Shown(condition) == {IF condition THEN "shown" ELSE "hidden"}
OpenListings(got) ==
    Shown(/\ \E r \in got : r.event = "lst_open"
          /\ ~\E r \in got : r.event \in {"lst_cncl", "lst_buy"})
\* A fill may leave a remainder: either side of it counts as open.
OpenOrders(got) ==
    Shown(/\ \E r \in got : r.event \in {"ord_open", "ord_fill"}
          /\ ~\E r \in got : r.event \in {"ord_cncl", "ord_exp"})
EverNamed(got) == Shown(\E r \in Ours(got) : r.event = "named")
\* The invoices of the search, with or without a status asked for: the first event
\* met, newest first, is the invoice's latest; the text of every event counts as well.
SearchedInvoices(got) == Shown(Ours(got) # {})
AskedStatus == "funded"
SearchedByStatus(got) ==
    IF Ours(got) = {} THEN {"hidden"}
    ELSE UNION {Shown(r.event = AskedStatus \/ \E q \in Ours(got) : q.yes) : r \in LastInOrder(Ours(got))}

Answers(got) ==
    CASE family \in {"round", "oracle"}   -> LastDecides(got)
      [] family = "attestation"           -> AttestationStatus(got)
      [] family = "listing"               -> OpenListings(got)
      [] family = "order"                 -> OpenOrders(got)
      [] family \in {"mention", "owned"}  -> EverNamed(got)
      [] family = "search"                -> SearchedInvoices(got)
      [] family = "statusSearch"          -> SearchedByStatus(got)

-----------------------------------------------------------------------------
(* The database *)

\* The pages SELECT ... ORDER BY ledger_sequence DESC LIMIT limit OFFSET offset may
\* give: rows of one ledger come in any order, another one for every query.
Leading(set) == \A r \in set, q \in rows \ set : q.ledger <= r.ledger
Pages(limit, offset) ==
    LET size == Min({limit, Cardinality(rows) - offset})
    IN  IF offset >= Cardinality(rows) THEN {{}}
        ELSE UNION {{page \in kSubset(size, rows \ before) : Leading(before \cup page)} :
                      before \in {b \in kSubset(offset, rows) : Leading(b)}}

Tied(set) == \E r, q \in set : r.ledger = q.ledger /\ r.n # q.n
WithState == seenStates' = IF query.at = "idle" THEN seenStates ELSE seenStates \cup {State'}

\* The poll loop stores the next event, in the last ledger or a new one.
StoreRow(step, newLedger) ==
    LET top == IF rows = {} THEN 0 ELSE Max({r.ledger : r \in rows})
    IN  /\ emitted < MaxEvents /\ step.from = State
        /\ emitted' = emitted + 1
        /\ rows' = rows \cup {[n |-> emitted + 1, event |-> step.event, yes |-> step.yes,
                               state |-> step.to,
                               ledger |-> IF newLedger \/ top = 0 THEN top + 1 ELSE top]}
        /\ expired' = (expired /\ step.event # "att_sub")
        /\ WithState
        /\ disturbed' = (disturbed \/ Tied(rows'))
        /\ UNCHANGED <<family, query, answer>>
OtherRow == [from |-> State, event |-> "other", yes |-> FALSE, to |-> LastState]

\* Time passes an attestation's expires_at.
Expire ==
    /\ family = "attestation" /\ LastState # "none" /\ ~expired
    /\ expired' = TRUE
    /\ UNCHANGED <<family, rows, emitted, query, answer, disturbed>>
    /\ WithState

\* rollbackFrom deletes the newest ledgers while the handler is between two pages.
RollBack(ledger) ==
    /\ \E r \in rows : r.ledger >= ledger
    /\ rows' = {r \in rows : r.ledger < ledger}
    /\ UNCHANGED <<family, emitted, expired, query, answer>>
    /\ WithState
    /\ disturbed' = (disturbed \/ (query.at = "reading" /\ query.offset > 0))

-----------------------------------------------------------------------------
(* A request *)

Paged == family # "owned"

StartQuery ==
    /\ query.at = "idle"
    /\ query' = [at |-> "reading", offset |-> 0, got |-> {}]
    /\ seenStates' = {State} /\ disturbed' = Tied(rows) /\ answer' = "none"
    /\ UNCHANGED <<family, rows, emitted, expired>>

\* getAllEvents: the next page; a short one is the last.
NextPage(page) ==
    /\ query.at = "reading" /\ Paged /\ page \in Pages(ReplayPage, query.offset)
    /\ query' = [at |-> IF query.offset + Cardinality(page) > MaxReplay THEN "refused"
                        ELSE IF Cardinality(page) < ReplayPage THEN "read" ELSE "reading",
                 offset |-> query.offset + Cardinality(page), got |-> query.got \cup page]
    /\ UNCHANGED <<family, rows, emitted, expired, answer, seenStates, disturbed>>

\* Handlers that make one query with a limit.
OnePage(page) ==
    /\ query.at = "reading" /\ ~Paged /\ page \in Pages(QueryLimit, 0)
    /\ query' = [at |-> "read", offset |-> Cardinality(page), got |-> page]
    /\ UNCHANGED <<family, rows, emitted, expired, answer, seenStates, disturbed>>

Reply(a) ==
    /\ query.at = "read" /\ a \in Answers(query.got)
    /\ answer' = a
    /\ query' = [query EXCEPT !.at = "idle", !.got = {}]
    /\ UNCHANGED <<family, rows, emitted, expired, seenStates, disturbed>>

\* The replay is too long, or the database fails: 500.
QueryFails ==
    /\ query.at \in {"reading", "refused"}
    /\ query' = NoQuery
    /\ answer' = "error"
    /\ UNCHANGED <<family, rows, emitted, expired, seenStates, disturbed>>

ReadNext ==
    \/ \E newLedger \in BOOLEAN :
         \/ \E step \in Published[family] : StoreRow(step, newLedger)
         \/ StoreRow(OtherRow, newLedger)
    \/ Expire
    \/ \E ledger \in 1 .. MaxEvents : RollBack(ledger)
    \/ StartQuery
    \/ \E page \in SUBSET rows : NextPage(page) \/ OnePage(page)
    \/ \E a \in Answers(query.got) : Reply(a)
    \/ QueryFails

ReadSpec == ReadInit /\ [][ReadNext]_readVars

-----------------------------------------------------------------------------
(* Properties *)

\* What an answer says of the object: an attestation that has expired is still told
\* as active, open orders are listed optimistically, and a search for a status also
\* finds invoices whose events mention it.
Tells(a, s) ==
    CASE family = "listing"             -> (a = "shown") <=> (s = "Open")
      [] family = "order"               -> s = "Open" => a = "shown"
      [] family \in {"mention", "owned"} -> (a = "shown") <=> (s = "Named")
      [] family = "search"              -> (a = "shown") <=> (s # "none")
      [] family = "statusSearch"        -> /\ s = AskedStatus => a = "shown"
                                           /\ a = "shown" => s # "none"
      [] family = "attestation"         -> \/ a = s \/ (a = "not found" /\ s = "none")
                                           \/ a = "Active" /\ s = "Expired"
      [] OTHER                          -> a = s \/ (a = "not found" /\ s = "none")

\* An answer describes a state the object really was in while the request ran,
\* whatever was stored between its pages: provided no rollback came between them,
\* no two rows share a ledger (the order inside a ledger is lost), and the handlers
\* without paging were not past their limit.
AnswerWasTrue ==
    (/\ query.at = "idle" /\ answer \notin {"none", "error"}
     /\ ~disturbed /\ (Paged \/ query.offset < QueryLimit))
    => \E s \in seenStates : Tells(answer, s)
=============================================================================
