---------------------------- MODULE ClientCache -----------------------------
(***************************************************************************)
(* The frontend's cache of contract data (frontend/lib/cache.ts over the   *)
(* SWR library, which is external).  Entries do not depend on each other,  *)
(* so one behaviour watches the entry of one hook: the version of the data *)
(* on chain, the cached version, a fetch in flight, and the writes of this *)
(* user, of others, and of the event stream that may make it stale.        *)
(***************************************************************************)
EXTENDS Naturals, FiniteSets

CONSTANT MaxVersion      \* bound: changes of the watched data on chain

ASSUME CacheAssumption == MaxVersion \in Nat

VARIABLES
    watched,      \* the hook whose entry is watched
    onChain,      \* version of its data on chain
    cached,       \* version the page shows, 0 before the first answer
    fetch,        \* the fetch: idle, sent, or read with the version it saw
    deduped,      \* within dedupingInterval of the last fetch
    write,        \* this user's mutation and how far it is
    ownVersion,   \* the version this user's mutation made, 0 if none yet
    fetchFailed   \* the last fetch ended in an error

cacheVars == <<watched, onChain, cached, fetch, deduped, write, ownVersion, fetchFailed>>

Idle == [at |-> "idle", version |-> 0]
Sent == [at |-> "sent", version |-> 0]
NoWrite == [kind |-> "none", at |-> "idle"]

-----------------------------------------------------------------------------
(* The hooks: the key, and the functions of contracts.ts the fetcher calls *)

Hook(key, reads) == [key |-> key, reads |-> reads]

PoolAndInvoiceHooks == {
    Hook("pool-config", {"getPoolConfig"}), Hook("accepted-tokens", {"getAcceptedTokens"}),
    Hook("invoice-count", {"getInvoiceCount"}), Hook("invoice", {"getInvoice"}),
    Hook("invoice-metadata", {"getInvoiceMetadata"}), Hook("position", {"getInvestorPosition"}),
    Hook("token-totals", {"getPoolTokenTotals"}), Hook("funded-invoice", {"getFundedInvoice"})}

ReferralAndRoundHooks == {
    Hook("referrer", {"getReferrer"}), Hook("referral-stats", {"getReferralStats"}),
    Hook("co-funding-rounds", {"listCoFundingRounds", "getCoFundingRound"}),
    Hook("co-funding-positions", {"getInvestorCoFundPositions"})}

\* Listings are discovered through the indexer or the seller and hydrated one by one.
MarketHooks == {
    Hook("open-listings", {"indexer", "getListing"}),
    Hook("my-listings", {"listListingsForInvestor", "getListing"}),
    Hook("order-book", {"getOrderBook"}), Hook("my-orders", {"listOrdersForOwner", "getOrder"})}

Hooks == PoolAndInvoiceHooks \cup ReferralAndRoundHooks \cup MarketHooks
Keys == {h.key : h \in Hooks}
\* A fetch reads in as many steps as its hook names functions; a later read may
\* see a newer chain, so the answer is as old as its first one.
ReadsAtOnce(key) == \A h \in Hooks : h.key = key => Cardinality(h.reads) = 1

-----------------------------------------------------------------------------
(* The mutations: which entries they change on chain, which they revalidate *)

ChangedBy ==
    [deposit |-> {"position", "token-totals"}, withdraw |-> {"position", "token-totals"},
     commit |-> {"co-funding-rounds", "co-funding-positions", "position", "token-totals"},
     createInvoice |-> {"invoice-count"}, markDefaulted |-> {"invoice"},
     initCoFunding |-> {"co-funding-rounds"}, setYield |-> {"pool-config"},
     registerReferral |-> {"referrer", "referral-stats"}]

ReferralOnSuccess == {"referrer"}
NothingOnSuccess == {}      \* mutant and the other hooks: no onSuccess
DepositOnSuccess == {"position", "token-totals"}
SetYieldOnSuccess == {"pool-config"}

\* onSuccess of each useSWRMutation hook.
OnSuccess(kind) ==
    CASE kind = "registerReferral" -> ReferralOnSuccess
      [] kind = "deposit" -> DepositOnSuccess
      [] kind = "setYield" -> SetYieldOnSuccess
      [] OTHER -> NothingOnSuccess

\* invalidateCaches: the keys a streamed event revalidates.
InvalidatedBy(event) ==
    IF event \in {"funded", "repaid", "default", "created"}
    THEN {"invoice-count", "invoice", "invoice-metadata", "funded-invoice"}
    ELSE IF event \in {"deposit", "withdraw"} THEN {"token-totals", "position"} ELSE {}
EventTypes == {"funded", "repaid", "default", "created", "deposit", "withdraw", "other"}

-----------------------------------------------------------------------------
CacheInit ==
    /\ watched \in Keys
    /\ onChain = 1 /\ cached = 0 /\ fetch = Idle /\ deduped = FALSE
    /\ write = NoWrite /\ ownVersion = 0 /\ fetchFailed = FALSE

\* mutate(key): a revalidation no deduping holds back; the answer of a fetch that
\* was in flight is dropped.
Mutate(keys) ==
    IF watched \in keys
    THEN fetch' = Sent /\ deduped' = TRUE
    ELSE UNCHANGED <<fetch, deduped>>

\* The page mounts, gains focus, reconnects, or the refresh interval ends.
Revalidate ==
    /\ ~deduped /\ fetch = Idle
    /\ fetch' = Sent /\ deduped' = TRUE
    /\ UNCHANGED <<watched, onChain, cached, write, ownVersion, fetchFailed>>

\* dedupingInterval ends.
DedupingEnds ==
    /\ deduped
    /\ deduped' = FALSE
    /\ UNCHANGED <<watched, onChain, cached, fetch, write, ownVersion, fetchFailed>>

\* The (first) read of the fetcher is made.
FetchReads ==
    /\ fetch = Sent
    /\ fetch' = [at |-> "read", version |-> onChain]
    /\ UNCHANGED <<watched, onChain, cached, deduped, write, ownVersion, fetchFailed>>

\* The fetch resolves and the entry is replaced; hydration may have seen more.
FetchAnswers(version) ==
    /\ fetch.at = "read"
    /\ version \in fetch.version .. (IF ReadsAtOnce(watched) THEN fetch.version ELSE onChain)
    /\ cached' = version /\ fetch' = Idle /\ fetchFailed' = FALSE
    /\ UNCHANGED <<watched, onChain, deduped, write, ownVersion>>

\* The fetcher throws a ContractError: the old data stays.
FetchFails ==
    /\ fetch # Idle
    /\ fetch' = Idle /\ fetchFailed' = TRUE
    /\ UNCHANGED <<watched, onChain, cached, deduped, write, ownVersion>>

\* trigger(): the mutation's submitTx starts.
Trigger(kind) ==
    /\ write.at \in {"idle", "succeeded", "failed"}
    /\ write' = [kind |-> kind, at |-> "submitted"]
    /\ ownVersion' = 0
    /\ UNCHANGED <<watched, onChain, cached, fetch, deduped, fetchFailed>>

\* The transaction is applied.
WriteApplied ==
    /\ write.at = "submitted"
    /\ watched \in ChangedBy[write.kind] => onChain < MaxVersion
    /\ onChain' = IF watched \in ChangedBy[write.kind] THEN onChain + 1 ELSE onChain
    /\ ownVersion' = onChain'
    /\ write' = [write EXCEPT !.at = "applied"]
    /\ UNCHANGED <<watched, cached, fetch, deduped, fetchFailed>>

\* submitTx resolves: onSuccess runs.
WriteSucceeds ==
    /\ write.at = "applied"
    /\ write' = [write EXCEPT !.at = "succeeded"]
    /\ Mutate(OnSuccess(write.kind))
    /\ UNCHANGED <<watched, onChain, cached, ownVersion, fetchFailed>>

\* submitTx throws, before or after the ledger took the transaction.
WriteFails ==
    /\ write.at \in {"submitted", "applied"}
    /\ write' = [write EXCEPT !.at = "failed"]
    /\ UNCHANGED <<watched, onChain, cached, fetch, deduped, ownVersion, fetchFailed>>

\* Somebody else changes the data.
ForeignChange ==
    /\ onChain < MaxVersion
    /\ onChain' = onChain + 1
    /\ UNCHANGED <<watched, cached, fetch, deduped, write, ownVersion, fetchFailed>>

\* onmessage of the event stream.
EventArrives(event) ==
    /\ Mutate(InvalidatedBy(event))
    /\ UNCHANGED <<watched, onChain, cached, write, ownVersion, fetchFailed>>

CacheNext ==
    \/ Revalidate \/ DedupingEnds \/ FetchReads \/ FetchFails
    \/ \E version \in 1 .. MaxVersion : FetchAnswers(version)
    \/ \E kind \in DOMAIN ChangedBy : Trigger(kind)
    \/ WriteApplied \/ WriteSucceeds \/ WriteFails \/ ForeignChange
    \/ \E event \in EventTypes : EventArrives(event)

CacheSpec == CacheInit /\ [][CacheNext]_cacheVars

-----------------------------------------------------------------------------
(* Properties *)

\* The user's own writes whose effect the page shows without waiting for the
\* refresh interval or for an event.
SeenAtOnce ==
    {<<"deposit", "position">>, <<"deposit", "token-totals">>, <<"setYield", "pool-config">>,
     <<"registerReferral", "referrer">>}

\* After a deposit, a yield change or a referral has succeeded, the entries it
\* changed show it as soon as no fetch is running (unless that fetch failed), also
\* when an older fetch was in flight.  The other mutations promise nothing.
OwnWriteSeen ==
    /\ write.at = "succeeded" /\ <<write.kind, watched>> \in SeenAtOnce
    /\ fetch = Idle /\ ~fetchFailed
    => cached >= ownVersion

=============================================================================
