------------------------------- MODULE Invoice -------------------------------
(***************************************************************************)
(* The invoice contract (contracts/invoice/src/lib.rs): the life cycle of  *)
(* an invoice from creation through verification, funding, repayment,      *)
(* default, dispute and cleanup, with the counters the contract keeps      *)
(* beside the invoices: the SME's outstanding debt, the debtor's exposure, *)
(* the storage statistics, the two id indices and the sliding-window rate  *)
(* limiter.                                                                *)
(*                                                                         *)
(* One contract call is one action, because a Soroban transaction is       *)
(* atomic: a call that panics or returns Err leaves no trace and is no     *)
(* step here.  In particular maybe_expire_pending_invoice has no action:   *)
(* both of its callers (mark_funded, cancel_invoice) reject the invoice it *)
(* has just expired, which rolls its writes back; what remains of it is    *)
(* the guard ~Lapsed(i).                                                   *)
(***************************************************************************)
EXTENDS Integers, FiniteSets, FiniteSetsExt, Functions

CONSTANTS
    Ids,                 \* 1..n, the ids the contract may hand out
    SMEs, Debtors,       \* invoice owners; names of debtors
    Amounts,             \* invoice and funding amounts
    DueOffsets,          \* how far ahead a due date may lie
    MaxOutstanding,      \* DataKey::MaxOutstandingPerSme
    MaxExposure,         \* DebtorRecord.max_exposure
    DailyLimit,          \* DataKey::DailyInvoiceLimit
    Day,                 \* SECS_PER_DAY, the limiter's window
    Expiration,          \* DataKey::ExpirationDurationSecs
    VerificationTimeout, \* VERIFICATION_TIMEOUT_SECS
    Grace,               \* grace periods: the global one and the overrides
    GlobalGrace,         \* DataKey::GracePeriodDays
    MaxExtension,        \* MAX_DUE_DATE_EXTENSION_SECS
    DisputeWindow,       \* DataKey::DisputeResolutionWindow
    StalledOverride,     \* ARBITRATION_STALLED_OVERRIDE_SECS
    Threshold,           \* DISPUTE_VALUE_THRESHOLD
    Arbitration,         \* is an arbitration contract configured?
    OracleOnly,          \* DataKey::RequireOracleVerification
    StartTime,           \* the ledger's time when the contract is deployed
    MaxTime,             \* bound of the model: the last ledger time
    MaxFunded            \* bound of the model on an invoice's funded_amount

ASSUME InvoiceAssumption ==
    /\ IsFiniteSet(Ids) /\ Ids \subseteq Nat \ {0}
    /\ SMEs # {} /\ Debtors # {}
    /\ Amounts \subseteq Nat \ {0} /\ Amounts # {}
    /\ DueOffsets \subseteq Nat \ {0}
    /\ Grace \subseteq Nat /\ GlobalGrace \in Grace
    /\ MaxOutstanding \in Nat /\ MaxExposure \in Nat /\ Threshold \in Nat
    /\ DailyLimit \in Nat \ {0} /\ Day \in Nat \ {0}
    /\ Expiration \in Nat \ {0} /\ VerificationTimeout \in Nat
    /\ MaxExtension \in Nat /\ DisputeWindow \in Nat /\ StalledOverride \in Nat
    /\ Arbitration \in BOOLEAN /\ OracleOnly \in BOOLEAN
    /\ StartTime \in Nat /\ StartTime >= Day
    /\ MaxTime \in Nat /\ MaxTime >= StartTime /\ MaxFunded \in Nat

VARIABLES
    now,          \* env.ledger().timestamp()
    paused,       \* DataKey::Paused
    hasOracle,    \* is DataKey::Oracle set?
    count,        \* DataKey::InvoiceCount
    inv,          \* DataKey::Invoice(id); status "Absent" is no entry
    dispute,      \* DataKey::Dispute(id).outcome; "None" is no entry
    outstanding,  \* DataKey::SmeOutstanding(sme)
    exposure,     \* DebtorRecord.current_exposure
    stamps,       \* DataKey::InvoiceTimestamps(owner), as time -> how often
    active,       \* StorageStats.active_invoices
    cleaned,      \* StorageStats.cleaned_invoices
    ownerIdx,     \* the ids listed in some DataKey::SmeInvoices(owner)
    debtorIdx     \* the ids listed in some DataKey::DebtorInvoices(debtor)

counters == <<outstanding, exposure, active>>
indices == <<ownerIdx, debtorIdx>>
config == <<now, paused, hasOracle>>
vars == <<now, paused, hasOracle, count, inv, dispute, outstanding, exposure,
          stamps, active, cleaned, ownerIdx, debtorIdx>>

-----------------------------------------------------------------------------
(* Invoices *)

\* InvoiceStatus, with "Absent" for an id that has no stored invoice.
Status == {"Absent", "Pending", "AwaitingVerification", "Verified", "Disputed",
           "Funded", "Paid", "Defaulted", "Cancelled", "Expired"}

\* The statuses in which cleanup may remove the entry.
Terminal == {"Paid", "Defaulted", "Cancelled", "Expired"}

\* The statuses the contract calls active.
Open == {"Pending", "AwaitingVerification", "Verified", "Disputed", "Funded"}

\* DisputeResolution, with "None" for an id without a DisputeRecord.
Outcome == {"None", "Pending", "InFavorOfSME", "InFavorOfDebtor"}

\* struct Invoice: the fields some guard reads.  pending = 0 is
\* pending_due_date = None; grace is grace_period_override.unwrap_or(global).
InvoiceRecord ==
    [status : Status, owner : SMEs, debtor : Debtors, amount : Amounts,
     created : Nat, original : Nat, due : Nat, pending : Nat,
     grace : Grace, verified : BOOLEAN, disputedAt : Nat, funded : Nat]

\* Some value for the slot of an id that has not been handed out.
NoInvoice ==
    [status |-> "Absent", owner |-> CHOOSE s \in SMEs : TRUE,
     debtor |-> CHOOSE d \in Debtors : TRUE, amount |-> CHOOSE a \in Amounts : TRUE,
     created |-> 0, original |-> 0, due |-> 0, pending |-> 0,
     grace |-> GlobalGrace, verified |-> FALSE, disputedAt |-> 0, funded |-> 0]

\* Pending, and past created_at + expiration: maybe_expire_pending_invoice
\* and check_expiration would expire it.
Lapsed(i) == inv[i].status = "Pending" /\ now > inv[i].created + Expiration

\* checked_default_deadline with the invoice's own grace period.
DefaultDeadline(i) == inv[i].due + inv[i].grace

\* The dispute must be decided by the arbitration contract.
Arbitrable(i) == Arbitration /\ inv[i].amount >= Threshold

\* The invoice slot as a handler writes it back with another status.
SetStatus(i, s) == inv' = [inv EXCEPT ![i].status = s]

-----------------------------------------------------------------------------
(* Counters.  saturating_sub on i128 does not stop at zero; on the u64       *)
(* statistics it does.                                                       *)

\* Mutant: the closing handlers forget the owner's debt.
DecreaseSmeOutstandingForgotten(i) == UNCHANGED outstanding

DecreaseSmeOutstanding(i) ==
    outstanding' = [outstanding EXCEPT ![inv[i].owner] = @ - inv[i].amount]

DecreaseDebtorExposure(i) ==
    exposure' = [exposure EXCEPT ![inv[i].debtor] = @ - inv[i].amount]

\* Mutant: a plain subtraction instead of saturating_sub on u64.
DecrementActiveUnchecked == active' = active - 1

DecrementActive == active' = IF active = 0 THEN 0 ELSE active - 1

\* The tail shared by mark_paid, mark_defaulted, mark_cancelled and by
\* resolve_dispute when it cancels.
CloseFunded(i) ==
    /\ DecreaseSmeOutstanding(i)
    /\ DecreaseDebtorExposure(i)
    /\ DecrementActive

-----------------------------------------------------------------------------
Init ==
    /\ now = StartTime
    /\ paused = FALSE
    /\ hasOracle = FALSE
    /\ count = 0
    /\ inv = [i \in Ids |-> NoInvoice]
    /\ dispute = [i \in Ids |-> "None"]
    /\ outstanding = [s \in SMEs |-> 0]
    /\ exposure = [d \in Debtors |-> 0]
    /\ stamps = [s \in SMEs |-> [t \in StartTime .. MaxTime |-> 0]]
    /\ active = 0
    /\ cleaned = 0
    /\ ownerIdx = {}
    /\ debtorIdx = {}

\* The ledger closes and time advances.
Tick ==
    /\ now < MaxTime
    /\ now' = now + 1
    /\ UNCHANGED <<paused, hasOracle, count, inv, dispute, outstanding, exposure,
                   stamps, active, cleaned, ownerIdx, debtorIdx>>

Pause ==
    /\ ~paused
    /\ paused' = TRUE
    /\ UNCHANGED <<now, hasOracle, count, inv, dispute, counters, stamps, cleaned, indices>>

Unpause ==
    /\ paused
    /\ paused' = FALSE
    /\ UNCHANGED <<now, hasOracle, count, inv, dispute, counters, stamps, cleaned, indices>>

\* From here on new invoices start in AwaitingVerification.
SetOracle ==
    /\ ~paused /\ ~hasOracle
    /\ hasOracle' = TRUE
    /\ UNCHANGED <<now, paused, count, inv, dispute, counters, stamps, cleaned, indices>>

-----------------------------------------------------------------------------
(* Creation and verification *)

\* Mutant: windows aligned with the calendar instead of a sliding one.
FreshAligned(s) == [t \in DOMAIN stamps[s] |->
                       IF t \div Day = now \div Day THEN stamps[s][t] ELSE 0]

\* The sum of a function's values.
Total(f) == FoldFunction(LAMBDA a, b : a + b, 0, f)

\* The creations of s the limiter still counts: strictly inside the window.
Fresh(s) == [t \in DOMAIN stamps[s] |->
                IF t > now - Day THEN stamps[s][t] ELSE 0]

FreshCount(s) == Total(Fresh(s))

CreateInvoice(s, d, a, due) ==
    LET id == count + 1 IN
    /\ ~paused
    /\ id \in Ids
    /\ inv[id].status = "Absent"
    /\ outstanding[s] + a <= MaxOutstanding
    /\ exposure[d] + a <= MaxExposure
    /\ FreshCount(s) < DailyLimit
    /\ exposure' = [exposure EXCEPT ![d] = @ + a]
    /\ stamps' = [stamps EXCEPT ![s] = [Fresh(s) EXCEPT ![now] = @ + 1]]
    /\ count' = id
    /\ inv' = [inv EXCEPT ![id] =
                  [NoInvoice EXCEPT
                      !.status = IF hasOracle THEN "AwaitingVerification" ELSE "Pending",
                      !.owner = s, !.debtor = d, !.amount = a,
                      !.created = now, !.original = due, !.due = due]]
    /\ ownerIdx' = ownerIdx \cup {id}
    /\ debtorIdx' = debtorIdx \cup {id}
    /\ active' = active + 1
    /\ UNCHANGED <<config, dispute, outstanding, cleaned>>

\* Mutant: a rejected invoice no longer counts against its debtor.
ApplyVerificationOutcomeReleasing(i, approved) ==
    /\ ~paused
    /\ inv[i].status = "AwaitingVerification"
    /\ IF approved
       THEN /\ inv' = [inv EXCEPT ![i].status = "Verified", ![i].verified = TRUE]
            /\ UNCHANGED exposure
       ELSE /\ inv' = [inv EXCEPT ![i].status = "Disputed", ![i].disputedAt = now]
            /\ DecreaseDebtorExposure(i)
    /\ UNCHANGED <<config, count, dispute, outstanding, active, stamps, cleaned, indices>>

\* apply_verification_outcome, reached from verify_invoice (an oracle) or
\* from consensus_verify (the oracle registry).  A hash mismatch is an Err.
ApplyVerificationOutcome(i, approved) ==
    /\ ~paused
    /\ inv[i].status = "AwaitingVerification"
    /\ inv' = [inv EXCEPT ![i] =
                  IF approved
                  THEN [@ EXCEPT !.status = "Verified", !.verified = TRUE]
                  ELSE [@ EXCEPT !.status = "Disputed", !.disputedAt = now]]
    /\ UNCHANGED <<config, count, dispute, counters, stamps, cleaned, indices>>

TimeoutVerification(i) ==
    /\ ~paused
    /\ inv[i].status = "AwaitingVerification"
    /\ now >= inv[i].created + VerificationTimeout
    /\ SetStatus(i, "Cancelled")
    /\ ownerIdx' = ownerIdx \ {i}
    /\ debtorIdx' = debtorIdx \ {i}
    /\ DecreaseDebtorExposure(i)
    /\ DecrementActive
    /\ UNCHANGED <<config, count, dispute, outstanding, stamps, cleaned>>

\* Anyone may call it, paused or not.
CheckExpiration(i) ==
    /\ Lapsed(i)
    /\ SetStatus(i, "Expired")
    /\ ownerIdx' = ownerIdx \ {i}
    /\ debtorIdx' = debtorIdx \ {i}
    /\ DecreaseDebtorExposure(i)
    /\ DecrementActive
    /\ UNCHANGED <<config, count, dispute, outstanding, stamps, cleaned>>

\* The owner withdraws an unfunded invoice, or the admin one that may also
\* be disputed.  No counter but the statistics moves: can_cancel excludes
\* Funded, so was_funded is false.
CancelInvoice(i, role) ==
    /\ ~paused
    /\ ~Lapsed(i)
    /\ inv[i].status \in {"Pending", "AwaitingVerification", "Verified"}
                           \cup (IF role = "admin" THEN {"Disputed"} ELSE {})
    /\ SetStatus(i, "Cancelled")
    /\ ownerIdx' = ownerIdx \ {i}
    /\ debtorIdx' = debtorIdx \ {i}
    /\ DecrementActive
    /\ UNCHANGED <<config, count, dispute, outstanding, exposure, stamps, cleaned>>

\* The oracle at any time, the admin once the window has passed, and only
\* below the arbitration threshold.
ResolveDispute(i, role, outcome) ==
    /\ ~paused
    /\ inv[i].status = "Disputed"
    /\ ~Arbitrable(i)
    /\ hasOracle
    /\ role = "admin" => now >= inv[i].disputedAt + DisputeWindow
    /\ \/ /\ outcome = "InFavorOfSME"
          /\ inv' = [inv EXCEPT ![i].status = "Verified", ![i].verified = TRUE]
          /\ UNCHANGED counters
       \/ /\ outcome = "InFavorOfDebtor"
          /\ SetStatus(i, "Cancelled")
          /\ CloseFunded(i)
    /\ UNCHANGED <<config, count, dispute, stamps, cleaned, indices>>

-----------------------------------------------------------------------------
(* Funding, repayment and default.  The caller is the authorized pool, or    *)
(* for mark_defaulted a whitelisted keeper.                                  *)

\* First funding: the invoice counts against its owner's cap from now on.
BecomeFunded(i, funded) ==
    /\ OracleOnly => inv[i].verified
    /\ outstanding[inv[i].owner] + inv[i].amount <= MaxOutstanding
    /\ inv' = [inv EXCEPT ![i].status = "Funded", ![i].funded = funded]
    /\ outstanding' = [outstanding EXCEPT ![inv[i].owner] = @ + inv[i].amount]

MarkFunded(i) ==
    /\ ~paused
    /\ inv[i].status \in {"Pending", "Verified"}
    /\ ~Lapsed(i)
    /\ inv[i].funded + inv[i].amount <= MaxFunded
    /\ BecomeFunded(i, inv[i].funded + inv[i].amount)
    /\ UNCHANGED <<config, count, dispute, exposure, active, stamps, cleaned, indices>>

\* The path the pool takes.  Unlike mark_funded it does not look at the
\* expiration of a Pending invoice.
RecordFunding(i, a) ==
    /\ ~paused
    /\ inv[i].funded + a <= MaxFunded
    /\ \/ /\ inv[i].status \in {"Pending", "Verified"}
          /\ BecomeFunded(i, inv[i].funded + a)
       \/ /\ inv[i].status = "Funded"
          /\ inv' = [inv EXCEPT ![i].funded = @ + a]
          /\ UNCHANGED outstanding
    /\ UNCHANGED <<config, count, dispute, exposure, active, stamps, cleaned, indices>>

\* The pool has answered is_invoice_repaid with true.
MarkPaid(i) ==
    /\ ~paused
    /\ inv[i].status = "Funded"
    /\ SetStatus(i, "Paid")
    /\ CloseFunded(i)
    /\ debtorIdx' = debtorIdx \ {i}
    /\ UNCHANGED <<config, count, dispute, stamps, cleaned, ownerIdx>>

MarkDefaulted(i) ==
    /\ ~paused
    /\ inv[i].status = "Funded"
    /\ now >= DefaultDeadline(i)
    /\ SetStatus(i, "Defaulted")
    /\ CloseFunded(i)
    /\ debtorIdx' = debtorIdx \ {i}
    /\ UNCHANGED <<config, count, dispute, stamps, cleaned, ownerIdx>>

MarkCancelled(i) ==
    /\ ~paused
    /\ inv[i].status = "Funded"
    /\ SetStatus(i, "Cancelled")
    /\ CloseFunded(i)
    /\ UNCHANGED <<config, count, dispute, stamps, cleaned, indices>>

\* What request_extension and approve_extension both demand of a new date.
ExtensionAllowed(i, due) ==
    /\ inv[i].status = "Funded"
    /\ due > now /\ due > inv[i].due
    /\ due <= inv[i].original + MaxExtension

RequestExtension(i, due) ==
    /\ ~paused
    /\ ExtensionAllowed(i, due)
    /\ inv[i].pending = 0
    /\ inv' = [inv EXCEPT ![i].pending = due]
    /\ UNCHANGED <<config, count, dispute, counters, stamps, cleaned, indices>>

\* The admin or the oracle; the pool has accepted update_invoice_due_date
\* (a rejection there rolls the whole call back).
ApproveExtension(i) ==
    /\ ~paused
    /\ inv[i].pending # 0
    /\ ExtensionAllowed(i, inv[i].pending)
    /\ inv' = [inv EXCEPT ![i].due = inv[i].pending, ![i].pending = 0]
    /\ UNCHANGED <<config, count, dispute, counters, stamps, cleaned, indices>>

SetInvoiceGracePeriod(i, g) ==
    /\ ~paused
    /\ inv[i].status = "Funded"
    /\ inv' = [inv EXCEPT ![i].grace = g]
    /\ UNCHANGED <<config, count, dispute, counters, stamps, cleaned, indices>>

-----------------------------------------------------------------------------
(* Disputes over a default *)

\* At most one dispute record per id, ever.  The best-effort call that opens
\* an arbitration case changes nothing here.
RaiseDispute(i) ==
    /\ ~paused
    /\ inv[i].status = "Defaulted"
    /\ now <= DefaultDeadline(i) + DisputeWindow
    /\ dispute[i] = "None"
    /\ inv' = [inv EXCEPT ![i].status = "Disputed", ![i].disputedAt = now]
    /\ dispute' = [dispute EXCEPT ![i] = "Pending"]
    /\ UNCHANGED <<config, count, counters, stamps, cleaned, indices>>

\* Mutant: the new term counts from the original due date.
ApplyDisputeResolutionFromOriginal(i, outcome) ==
    /\ inv[i].status = "Disputed"
    /\ dispute[i] = "Pending"
    /\ dispute' = [dispute EXCEPT ![i] = outcome]
    /\ inv' = [inv EXCEPT ![i] =
                  IF outcome = "InFavorOfDebtor"
                  THEN [@ EXCEPT !.status = "Funded", !.due = inv[i].original + inv[i].grace]
                  ELSE [@ EXCEPT !.status = "Defaulted"]]
    /\ UNCHANGED <<config, count, counters, stamps, cleaned, indices>>

\* apply_dispute_resolution
ApplyDisputeResolution(i, outcome) ==
    /\ inv[i].status = "Disputed"
    /\ dispute[i] = "Pending"
    /\ dispute' = [dispute EXCEPT ![i] = outcome]
    /\ inv' = [inv EXCEPT ![i] =
                  IF outcome = "InFavorOfDebtor"
                  THEN [@ EXCEPT !.status = "Funded", !.due = now + inv[i].grace]
                  ELSE [@ EXCEPT !.status = "Defaulted"]]
    /\ UNCHANGED <<config, count, counters, stamps, cleaned, indices>>

\* The admin, who must leave an arbitrable dispute to arbitration until the
\* deadman's switch releases it.
ResolveDefaultDispute(i, outcome) ==
    /\ ~paused
    /\ Arbitrable(i) => now >= inv[i].disputedAt + StalledOverride
    /\ ApplyDisputeResolution(i, outcome)

\* The arbitration contract has closed the case.
ArbitrationResolveDispute(i, outcome) ==
    /\ ~paused
    /\ Arbitration
    /\ ApplyDisputeResolution(i, outcome)

-----------------------------------------------------------------------------
(* Cleanup *)

\* The admin removes one entry, with its index entries.
CleanupInvoice(i) ==
    /\ ~paused
    /\ inv[i].status \in Terminal
    /\ inv' = [inv EXCEPT ![i] = NoInvoice]
    /\ ownerIdx' = ownerIdx \ {i}
    /\ debtorIdx' = debtorIdx \ {i}
    /\ cleaned' = cleaned + 1
    /\ UNCHANGED <<config, count, dispute, counters, stamps>>

\* Mutant: ids that were skipped are counted too.
CleanupExpiredStorageCountingAll(batch) ==
    LET removed == {i \in batch : inv[i].status \in Terminal} IN
    /\ ~paused
    /\ removed # {}
    /\ inv' = [i \in Ids |-> IF i \in removed THEN NoInvoice ELSE inv[i]]
    /\ cleaned' = cleaned + Cardinality(batch)
    /\ UNCHANGED <<config, count, dispute, counters, stamps, indices>>

\* Anyone removes a batch; ids that are open or gone are skipped, and the
\* index entries stay.
CleanupExpiredStorage(batch) ==
    LET removed == {i \in batch : inv[i].status \in Terminal} IN
    /\ ~paused
    /\ removed # {}
    /\ inv' = [i \in Ids |-> IF i \in removed THEN NoInvoice ELSE inv[i]]
    /\ cleaned' = cleaned + Cardinality(removed)
    /\ UNCHANGED <<config, count, dispute, counters, stamps, indices>>

-----------------------------------------------------------------------------
Resolutions == {"InFavorOfSME", "InFavorOfDebtor"}

Next ==
    \/ Tick \/ Pause \/ Unpause \/ SetOracle
    \/ \E s \in SMEs, d \in Debtors, a \in Amounts, k \in DueOffsets :
          CreateInvoice(s, d, a, now + k)
    \/ \E batch \in SUBSET Ids : CleanupExpiredStorage(batch)
    \/ \E i \in Ids :
          \/ \E ok \in BOOLEAN : ApplyVerificationOutcome(i, ok)
          \/ TimeoutVerification(i) \/ CheckExpiration(i)
          \/ \E r \in {"owner", "admin"} : CancelInvoice(i, r)
          \/ \E r \in {"oracle", "admin"}, o \in Resolutions : ResolveDispute(i, r, o)
          \/ MarkFunded(i)
          \/ \E a \in Amounts : RecordFunding(i, a)
          \/ MarkPaid(i) \/ MarkDefaulted(i) \/ MarkCancelled(i)
          \/ \E k \in DueOffsets : RequestExtension(i, inv[i].due + k)
          \/ ApproveExtension(i)
          \/ \E g \in Grace : SetInvoiceGracePeriod(i, g)
          \/ RaiseDispute(i)
          \/ \E o \in Resolutions : ResolveDefaultDispute(i, o)
          \/ \E o \in Resolutions : ArbitrationResolveDispute(i, o)
          \/ CleanupInvoice(i)

Spec == Init /\ [][Next]_vars

-----------------------------------------------------------------------------
(* Properties *)

\* Every stored value has its type.
TypeOK ==
    /\ now \in Nat
    /\ paused \in BOOLEAN /\ hasOracle \in BOOLEAN
    /\ count \in Nat
    /\ inv \in [Ids -> InvoiceRecord]
    /\ dispute \in [Ids -> Outcome]
    /\ outstanding \in [SMEs -> Int]
    /\ exposure \in [Debtors -> Int]
    /\ active \in Nat /\ cleaned \in Nat
    /\ ownerIdx \subseteq Ids /\ debtorIdx \subseteq Ids

OpenIds == {i \in Ids : inv[i].status \in Open}

\* What the pool has paid out for the invoices of s and nobody has paid back.
FundedAmount(s) ==
    Total([i \in Ids |-> IF inv[i].status = "Funded" /\ inv[i].owner = s
                         THEN inv[i].amount ELSE 0])

\* What d owes on open invoices.
OpenAmount(d) ==
    Total([i \in Ids |-> IF inv[i].status \in Open /\ inv[i].debtor = d
                         THEN inv[i].amount ELSE 0])

\* Has any default ever been disputed?  Dispute records are never removed.
NoDefaultDisputed == \A i \in Ids : dispute[i] = "None"

\* The SME cap never counts debt that is not there: whatever sequence of
\* funding, repayment, default, dispute and cancellation an SME's invoices
\* went through, sme_outstanding is at most the amount of its Funded
\* invoices, so create_invoice and mark_funded never turn an SME away for
\* debt it has already settled.
OutstandingNeverOverstated ==
    \A s \in SMEs : outstanding[s] <= FundedAmount(s)

\* Three registers of the same open invoices survive every way of closing and
\* reopening one.  The storage statistics count at most the open invoices; an open
\* invoice can be found from its owner and, unless it is a reopened default, from
\* its debtor; and as long as no default was disputed (mark_defaulted takes the
\* invoice off, and nothing puts it back) the count is exact and a debtor's
\* exposure covers all of its open invoices, so the max_exposure check of
\* create_invoice bounds what a debtor really owes.
OpenInvoicesRegistered ==
    /\ active <= Cardinality(OpenIds)
    /\ \A i \in OpenIds : i \in ownerIdx /\ (dispute[i] = "None" => i \in debtorIdx)
    /\ NoDefaultDisputed =>
          /\ active = Cardinality(OpenIds)
          /\ \A d \in Debtors : exposure[d] >= OpenAmount(d)

\* The limiter lets an owner create at most DailyLimit invoices in ANY window
\* of length Day, not just in windows aligned with the calendar (#577).
RateLimitHolds ==
    \A s \in SMEs, t \in StartTime .. MaxTime :
        Cardinality({i \in Ids : /\ inv[i].status # "Absent"
                                 /\ inv[i].owner = s
                                 /\ inv[i].created \in (t - Day + 1) .. t})
            <= DailyLimit

\* Every id handed out is stored or counted as cleaned, once, although two
\* cleanup entry points and duplicate ids in a batch may race for it.
CleanupConserved ==
    count = cleaned + Cardinality({i \in Ids : inv[i].status # "Absent"})

\* The due date of a stored invoice never moves back: an extension moves it
\* forward, and so does a dispute decided for the debtor, whose new date
\* now + grace is compared with nothing in apply_dispute_resolution.
DueDateNeverMovesBack ==
    [][\A i \in Ids :
          (inv[i].status # "Absent" /\ inv'[i].status # "Absent")
              => inv'[i].due >= inv[i].due]_vars

\* The doc comment of cancel_invoice: decrementing sme_outstanding for an
\* invoice that was never funded "would incorrectly reduce the SME's tracked
\* outstanding balance below its true funded value".  The claim is that the
\* tracked balance never falls below that value.
OutstandingIsFundedValue ==
    \A s \in SMEs : outstanding[s] >= FundedAmount(s)

=============================================================================
